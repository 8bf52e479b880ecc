SPECIFICATION Spec
CONSTANTS
  cu = cu
  du = du
  r1 = r1
  v1 = v1
  v2 = v2
  Agent <- TwoAgents
  RrcAgent = cu
  S1apAgent = cu
  Rnti <- OneRnti
  Value <- TwoValues
  MaxEvents = 3
SYMMETRY Symmetry
CHECK_DEADLOCK FALSE
INVARIANTS
  SameUes
  RibSettles
