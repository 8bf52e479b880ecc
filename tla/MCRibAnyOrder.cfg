SPECIFICATION Spec
CONSTANTS
  c1 = c1
  c2 = c2
  c3 = c3
  Agent <- TwoAgents
  WireBs <- CollidingBs
  Cap <- AllCap
  Required <- AllCap
  BS_ID_OFFSET <- Offset
  Disciplined = FALSE
CHECK_DEADLOCK FALSE
INVARIANTS
  NeverAborts
  NoCompleteBsWaits
  MergesSound
PROPERTIES
  BsImmutable
