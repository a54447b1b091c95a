CONSTANTS
  t1 = t1  t2 = t2  t3 = t3
  l1 = l1  l2 = l2  l3 = l3  l4 = l4
  g = g  NoGuid = NoGuid  NoThread = NoThread
  Threads = {t1, t2}
  Lines = {l1, l2, l3, l4}
  ThreadOf <- ThreadsOnce
  SessionOf <- SessionsOnce
  SenderOf <- Sessions3
  Guid <- GuidsOnce
  Said <- SaidOnce
  Kept = {"p"}
  CommitBatch = 2
  GuidKeep = 2
  MaxFaults = 1
  Leaving = {"x"}
  Redactable = {l1}
  Purgeable = {"p"}
  Expiring = TRUE
SPECIFICATION FairSpec
INVARIANTS TypeOK OneLeader HeardInOrder HeardOnce AnsweredTruly
PROPERTIES CallReturns
CHECK_DEADLOCK FALSE
