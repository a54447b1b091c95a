CONSTANTS
  s1 = s1
  s2 = s2
  c1 = c1
  c2 = c2
  c3 = c3
  Sessions = {s1}
  Conns = {c1, c2}
  NoConn = NoConn
  QueueCap = 1
  BufferCap = 1
  CanDetach = {s1}
  MaxDetached = 1
  MaxSeq = 0
  Kickable = {s1}
  Bannable = {s1}
  Revocable = {s1}
  Asking = {c1, c2}
  Quitting = {c1, c2}
  Faulty = {c1}
  Addr <- AddrOne
SPECIFICATION FairSpec
INVARIANTS
  NoOrphan
  KickedNeverDetached
PROPERTIES
  KickedEnds
  RevokedEnds
  DetachedEnds
  ReplacedCloses
CHECK_DEADLOCK FALSE
