SPECIFICATION Spec
CONSTANTS
  wide = wide  bob = bob  guest = guest
  Addrs = {a1}
  WideOf <- MCWideOf
  Logins = {bob, guest}
  Persons = {bob}
  PerAddr = 2  PerWide = 2  PerAccount = 1  PortPerAddr = 2
  NameBurst = 1  AddrBurst = 1
  Conns = {c1, c2, c3}
  Sessions = {s1, s2}
  NoSession = NoSession  NoConn = NoConn  NoAddr = NoAddr  NoLogin = NoLogin
  NoShare = NoShare
  Hub = Hub
  Backlog = Backlog
  Writers = {writer}
  Enqueuers = {e1, e2}
  Shares <- MCShares
  Tasks <- MCTasks
  OwnBound <- MCOwnBound
  LiveBytes = 3  SendBytes = 3
  LiveCap = 1
  BufferCap = 1
  Budget = 2
  Weights = {1, 2}
  Unbounded = 99
  Plans <- MCPlans
INVARIANTS TypeOK PlacesCounted AccountCap GuessBound BudgetCounted QueueBounded
SYMMETRY Alike
CHECK_DEADLOCK FALSE
