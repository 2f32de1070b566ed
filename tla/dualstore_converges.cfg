SPECIFICATION FairSpec
CONSTANTS
  Id = {i1}
  Render = {r1}
  Edge = {}
  Ops <- Upserts
  Faults <- SlowSecondary
  Limit = 2
  MaxStamp = 4
PROPERTY EventuallyMirrored
