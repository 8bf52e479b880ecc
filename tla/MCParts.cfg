SPECIFICATION Spec
CONSTANTS
  Report <- TwoReports
  Default = "default"
  MaxReports = 2
  MaxAdds = 3
  MaxSets = 3
  Bs = {1, 2}
  Pci = {1, 5}
  Ues = {"ue"}
  Replies <- FewReplies
  App = {"a", "b", "c"}
  Stored = {"a", "b"}
  MaxRequests = 2
  Endpoint = {"e", "f"}
  Interval = {0, 50}
  MaxEnabled = 2
  Id = {1, 2}
  Rbg <- Groups
  RbgEntries = 2
  Ue = {"ue"}
  SliceRequests <- Requests
  RemoveRequests <- Removals
  AssocRequests <- Assocs
  RegexLists <- Bodies
  MaxCalls = 2
  Mme = {"m", "n"}
  PlmnLists <- FewPlmns
  CellConfigs <- FewCells
  MaxCommands = 2
  Period = {2}
  Calls <- TwoGroups
  MaxT = 5
  MaxSlots = 2
  Dumps <- SmallDumps
  CountMod = 3
  Object = {1, 2}
  Length = {1, 2}
  MaxNormal = 1
  Content = {1, 2}
  Header = {1, 2, 8, 15}
  Half = 8
  SizeMod = 64
  Block = {1, 2, 3}
  Rnti = {1, 2}
  Group = {"bsr", "phr"}
  Harq = {0, 7}
  Frame = {1023}
  MaxEvents = 4
  MaxPending = 2
  MaxChurn = 2
CHECK_DEADLOCK FALSE
INVARIANTS
  ReportsAsListed
  CollisionWarned
  PushedIsStored
  CarefulSlotsMatch
  NoMmeClash
  CellInBand
  NoOverlap
  OncePerPeriod
  StoppedInOrder
  FilesReadable
  BuffersSound
  SettledStats
  AnswersRight
PROPERTIES
  RefusedChangesNothing
