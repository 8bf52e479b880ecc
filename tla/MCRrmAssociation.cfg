SPECIFICATION RrmSpec
CONSTANTS
  Id = {1, 2}
  Rbg <- Groups
  RbgEntries = 2
  Ue = {"ue"}
  SliceRequests <- Switches
  RemoveRequests <- Removals
  AssocRequests <- Assocs
  RegexLists <- Bodies
  MaxCalls = 3
CHECK_DEADLOCK FALSE
PROPERTY AssociationPreserved
