SPECIFICATION RSpec
CONSTANTS
  N = 2
  Pipeline <- ShortPipeline
  Scenario = "echo"
  Connections = 1
  ProtocolValid = TRUE
  MaxFaults = 0
  MaxMsgs = 2
  Handlers = {h1}
INVARIANTS
  NothingMissed
  VerdictRecorded
