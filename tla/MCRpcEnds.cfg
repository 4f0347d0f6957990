SPECIFICATION FairRSpec
CONSTANTS
  N = 1
  Pipeline <- StandardPipeline
  Scenario = "broadcast"
  Connections = 2
  ProtocolValid = TRUE
  MaxFaults = 1
  MaxMsgs = 1
  Handlers = {h1}
INVARIANTS
  VerdictSound
PROPERTIES
  ImplementsJobControl
  RunEnds
