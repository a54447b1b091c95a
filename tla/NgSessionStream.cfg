CONSTANTS
  s1 = s1
  s2 = s2
  c1 = c1
  c2 = c2
  c3 = c3
  Sessions = {s1}
  Conns = {c1, c2, c3}
  NoConn = NoConn
  QueueCap = 2
  BufferCap = 2
  CanDetach = {s1}
  MaxDetached = 1
  MaxSeq = 2
  Kickable = {}
  Bannable = {}
  Revocable = {}
  Asking = {c1, c2, c3}
  Quitting = {}
  Faulty = {}
  Addr <- AddrOne
SYMMETRY ConnSymmetry
SPECIFICATION Spec
INVARIANTS
  TypeOK
PROPERTIES
  StreamSpec
  NeverTwice
CHECK_DEADLOCK FALSE
