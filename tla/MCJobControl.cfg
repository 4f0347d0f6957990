SPECIFICATION FairJSpec
CONSTANTS
  N = 3
  Pipeline <- GroupPipeline
  Scenario = "group"
  Connections = 3
  ProtocolValid = TRUE
  MaxFaults = 2
INVARIANTS
  SameStep
  FailureNeverHidden
  SameGroupList
  RangeBeforeUse
PROPERTIES
  ImplementsBenchJob
  EndsAfterProbe
