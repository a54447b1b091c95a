CONSTANTS
  s1 = s1
  s2 = s2
  c1 = c1
  c2 = c2
  c3 = c3
  Sessions = {s1, s2}
  Conns = {c1, c2, c3}
  NoConn = NoConn
  QueueCap = 1
  BufferCap = 1
  CanDetach = {s1, s2}
  MaxDetached = 1
  MaxSeq = 0
  Kickable = {}
  Bannable = {}
  Revocable = {}
  Asking = {}
  Quitting = {}
  Faulty = {}
  Addr <- AddrOne
SYMMETRY ConnSymmetry
SPECIFICATION Spec
INVARIANTS
  IInv
  DetachedCap
CHECK_DEADLOCK FALSE
