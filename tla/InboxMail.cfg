SPECIFICATION Spec
CONSTANTS
  alice = alice  bob = bob
  Accounts = {alice, bob}
  Mails = {m1, m2}
  Ims = {}
  From <- MCFrom
  To <- MCTo
  Wire <- MCWire
  BobSpeaks = {"ng"}
  NoAccount = NoAccount  NoMsg = NoMsg  NoWorker = NoWorker
  Workers = {w1, w2}
  Uids = {1, 2}
  Lagging = {2}
  Limit = 1
  MaxQueued = 2
  SendQuota = 1
  MaxRel = 1
  MaxLogins = 3
  MaxEvents = 3
INVARIANTS TypeOK RightMailbox HandedOnce DeliveredWasHanded AnsweredTruly NoSilentWait
PROPERTY InOrder
SYMMETRY Alike
CHECK_DEADLOCK FALSE
