SPECIFICATION FairSpec
CONSTANTS
  N = 2
  MaxConnections = 6
  MaxRuns = 2
INVARIANTS
  EachOnce
  AllOrNone
  SuccessCounted
PROPERTIES
  BatchesEnd
