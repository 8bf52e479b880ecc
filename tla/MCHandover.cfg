SPECIFICATION HandoverSpec
CONSTANTS
  T = T
  R = R
  s1 = s1
  s2 = s2
  Producer <- TwoProducers
  Updater = T
  Session <- TwoSessions
  OutCapacity = 2
  MaxMsgs = 2
  Duration = {1, 3}
  MaxJobs = 2
  MaxTick = 7
  Bs = {1}
  Pci = {}
  Ues = {"ue"}
  Replies = {}
CHECK_DEADLOCK FALSE
INVARIANTS
  NeverPopsEmpty
  WritesGoOn
  DeliveredInOrder
  DumpExact
  NoNullUsed
  NoneLost
PROPERTIES
  EventuallyWritten
  JobsFinish
