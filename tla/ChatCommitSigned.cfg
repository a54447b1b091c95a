CONSTANTS
  t1 = t1  t2 = t2  t3 = t3
  l1 = l1  l2 = l2  l3 = l3  l4 = l4
  g = g  NoGuid = NoGuid  NoThread = NoThread
  Threads = {t1, t2}
  Lines = {l1, l2, l3}
  ThreadOf <- ThreadsSigned
  SessionOf <- SessionsSigned
  SenderOf <- Sessions2
  Guid <- GuidsSigned
  Said <- SaidSigned
  Kept = {"p"}
  CommitBatch = 1
  GuidKeep = 1
  MaxFaults = 0
  Leaving = {}
  Redactable = {}
  Purgeable = {}
  Expiring = FALSE
SPECIFICATION Spec
INVARIANTS SignedAsLogged
CHECK_DEADLOCK FALSE
