SPECIFICATION SbSpec
CONSTANTS
  Agent <- TwoAgents
  WireBs <- OneWireBs
  Cap <- OneCap
  Required <- OneCap
  BS_ID_OFFSET = 10
  Disciplined = FALSE
  InCapacity = 3
  Budget = 2
  MaxHellos = 2
CHECK_DEADLOCK FALSE
INVARIANTS
  BudgetDropsNothing
