SPECIFICATION FairSpec
CONSTANTS
  Id = {i1}
  Render = {r1}
  Edge = {e1}
  Ops <- Upserts
  Faults <- NoFaults
  Limit = 2
  MaxStamp = 2
PROPERTY PrimaryNeverRegresses
