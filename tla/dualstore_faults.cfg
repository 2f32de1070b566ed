SPECIFICATION Spec
CONSTANTS
  Id = {i1}
  Render = {r1}
  Edge = {e1}
  Ops <- AllOps
  Faults <- AllFaults
  Limit = 2
  MaxStamp = 3
INVARIANTS AckedReachSecondary Converges
PROPERTIES SecondaryNeverRegresses ImplementsMirror
