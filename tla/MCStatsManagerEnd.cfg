SPECIFICATION SmSpec
CONSTANTS
  Report <- TwoReports
  Default = "default"
  MaxReports = 2
  MaxAdds = 3
  MaxSets = 3
CHECK_DEADLOCK FALSE
INVARIANTS
  MissingListTolerated
