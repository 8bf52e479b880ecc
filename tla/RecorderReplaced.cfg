SPECIFICATION RecSpec
CONSTANTS
  Duration = {1, 3}
  MaxJobs = 2
  MaxTick = 7
  Bs = {1}
  Pci = {}
  Ues = {"ue"}
  Replies = {}
CHECK_DEADLOCK FALSE
PROPERTIES
  RunningKept
