SPECIFICATION Spec
CONSTANTS
  id1 = id1
  id2 = id2
  id3 = id3
  Handlers = {h1}
  Calls <- TwoOrders
  ExternalIds = {id1, id2}
  Typed <- NoLists
  Keep = 20
  MaxCalls = 4
  Faulty = FALSE
INVARIANTS
  AnsweredAccounted
CHECK_DEADLOCK FALSE
