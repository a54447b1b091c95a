SPECIFICATION Spec
CONSTANTS
  alice = alice  bob = bob
  Accounts = {alice, bob}
  Mails = {m1, m2}
  Ims = {}
  From <- MCFrom
  To <- MCTo
  Wire <- MCWire
  BobSpeaks = {"ng"}
  NoAccount = NoAccount  NoMsg = NoMsg  NoWorker = NoWorker
  Workers = {w1, w2}
  Uids = {1, 2}
  Lagging = {2}
  Limit = 1
  MaxQueued = 2
  SendQuota = 2
  MaxRel = 1
  MaxLogins = 2
  MaxEvents = 3
INVARIANT StampedWhenHanded
SYMMETRY Alike
CHECK_DEADLOCK FALSE
