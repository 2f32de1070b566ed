SPECIFICATION Spec
CONSTANTS
  id1 = id1
  id2 = id2
  id3 = id3
  Handlers = {h1, h2}
  Calls <- EveryCall
  ExternalIds = {id1, id2, id3}
  Typed <- Lists
  Keep = 8
  MaxCalls = 3
  Faulty = TRUE
INVARIANTS
  RecordedStaysProved
  PaidOnce
  AnsweredAccounted
  ActionsAccounted
  ProvedOnlyIfDone
SYMMETRY Symmetry
CHECK_DEADLOCK FALSE
