SPECIFICATION EdgeWorkerSpec
CONSTANTS
  Requests = 3
  FaultyRequests = 2
  Session = {s1}
  Kinds = {"load", "mutate", "originOnly", "logout"}
  Faults = {"kv", "timeout", "origin", "unconfirmed", "restart"}
  MaxFaults = 1
  MaxOpen = 2
  MaxAges = 1
  Attempt = {t1, t2}
  MaxPin = 2
  LongestLock = 4
  MaxGuesses = 6
  MaxPins = 2
  Event = {}
  Author = {}
  AuthorOf <- NoAuthor
  Sensitive = {}
  Delivery = {}
  Batches = {}
  Entry = {n1, n2}
  Malformed = {n2}
  Cron = {c1, c2}
  MaxDeliveries = 0
  MaxMishaps = 2
  Slot = {p1}
  MaxLogins = 2
  MaxActions = 1
  MaxSetbacks = 2
INVARIANTS
  NothingAfterLogout
  CurrentSnapshotComplete
  QuietWritesSeen
  TwiceOnlyIfUnheard
  PinCounterJust
  SignedOutStays
PROPERTIES
  SharedEventuallyRecorded
  PanelLoads
  SessionKept
CHECK_DEADLOCK FALSE
