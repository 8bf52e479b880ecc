SPECIFICATION Spec
CONSTANTS
  c1 = c1
  c2 = c2
  c3 = c3
  Agent <- ThreeAgents
  WireBs <- SharedBs
  Cap <- AllCap
  Required <- RequiredCap
  BS_ID_OFFSET <- Offset
  Disciplined = TRUE
CHECK_DEADLOCK FALSE
INVARIANTS
  SubscribersAgree
  GoneForgotten
PROPERTIES
  ImplementsDirectory
