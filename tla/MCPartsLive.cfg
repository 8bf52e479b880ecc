SPECIFICATION Spec
CONSTANTS
  Bs = {1, 2}
  Pci = {1}
  Ues = {}
  Replies <- FewReplies
  Id = {1, 2}
  Rbg <- Groups
  RbgEntries = 2
  Ue = {"ue"}
  SliceRequests <- FewRequests
  RemoveRequests <- FewRemovals
  AssocRequests <- FewAssocs
  RegexLists <- FewBodies
  MaxCalls = 3
  Period = {1, 3}
  Calls <- OneGroup
  MaxT = 4
  MaxSlots = 1
CHECK_DEADLOCK FALSE
INVARIANTS
  NoneForgotten
  QuietInLists
PROPERTIES
  EachChecked
  AutoAssociated
  SignalEnds
