SPECIFICATION FairSpec
CONSTANTS
  Source = {s1, s2}
  Attempt = {a1, a2}
  Credential = {c1, c2}
  Window = 2
  HotCount = 2
  MaxTotal = 2
  Normal = 2
  Hot = 1
  Base = 1
  Cap = 2
  MaxLocks = 2
  MaxTime = 3
  MaxBegun = 3
INVARIANTS AggregateExact OwnFailuresOnly
PROPERTIES LockStands CorrectLoginAnswered
CHECK_DEADLOCK FALSE
