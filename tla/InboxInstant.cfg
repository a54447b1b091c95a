SPECIFICATION Spec
CONSTANTS
  alice = alice  bob = bob
  Accounts = {alice, bob}
  Mails = {m1}
  Ims = {i1}
  From <- MCFrom
  To <- MCTo
  Wire <- MCWire
  BobSpeaks = {"ng"}
  NoAccount = NoAccount  NoMsg = NoMsg  NoWorker = NoWorker
  Workers = {w1, w2}
  Uids = {1, 2}
  Lagging = {}
  Limit = 1
  MaxQueued = 1
  SendQuota = 1
  MaxRel = 2
  MaxLogins = 2
  MaxEvents = 4
INVARIANTS DeliveredWasHanded ReceiptOnce ReceiptKept
SYMMETRY Alike
CHECK_DEADLOCK FALSE
