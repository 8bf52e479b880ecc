SPECIFICATION Spec
CONSTANTS
  T = T
  R = R
  s1 = s1
  s2 = s2
  Producer <- TwoProducers
  Updater = T
  Session <- OneSession
  OutCapacity = 2
  MaxMsgs = 1
CHECK_DEADLOCK FALSE
INVARIANTS
  MissingSessionDiscarded
