SPECIFICATION RobotSpec
CONSTANTS
  Creative = {c1, c2}
  Media = {m1, m2}
  Priced = {m1}
  Composed = {m2}
  Cert = {k1, k2}
  Runs = {w1, w2}
  Editors = {h1}
  None = None
  MaxRuns = 2
  MaxEdits = 2
  MaxChanges = 1
  p1 = p1
  p2 = p2
  Products <- TwoProducts
  Enough = 2
  Job = {w1, w2}
  MaxEvents = 2
  MaxDay = 2
  e1 = e1
  e2 = e2
  a1 = a1
  Event = {e1, e2}
  Author = {a1}
  AuthorOf <- OneAuthor
  Sensitive = {e2}
  Delivery = {w1, w2}
  Batches <- TwoBatches
  Entry = {}
  Malformed = {}
  Cron = {}
  MaxDeliveries = 2
  MaxMishaps = 2
INVARIANTS
  EachNetworkOnce
  OneCreativePerPicture
  OneLatePost
  RecordsTruthful
  OnlyApprovedPosted
  MadeOnce
  SecondReplyExcused
  AnsweredIsRecorded
SYMMETRY Symmetry
CHECK_DEADLOCK FALSE
