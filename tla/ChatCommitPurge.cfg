CONSTANTS
  t1 = t1  t2 = t2  t3 = t3
  l1 = l1  l2 = l2  l3 = l3  l4 = l4
  g = g  NoGuid = NoGuid  NoThread = NoThread
  Threads = {t1, t2, t3}
  Lines = {l1, l2, l3, l4}
  ThreadOf <- ThreadsLead
  SessionOf <- SessionsLead
  SenderOf <- Sessions2
  Guid <- GuidsLead
  Said <- SaidLead
  Kept = {"p"}
  CommitBatch = 2
  GuidKeep = 1
  MaxFaults = 0
  Leaving = {"x"}
  Redactable = {}
  Purgeable = {"p"}
  Expiring = FALSE
SPECIFICATION Spec
INVARIANTS PurgeMissesNothing
CHECK_DEADLOCK FALSE
