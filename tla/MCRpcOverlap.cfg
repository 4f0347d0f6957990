SPECIFICATION RSpec
CONSTANTS
  N = 1
  Pipeline <- ShortPipeline
  Scenario = "echo"
  Connections = 1
  ProtocolValid = TRUE
  MaxFaults = 1
  MaxMsgs = 1
  Handlers = {h1, h2}
SYMMETRY HandlerSymmetry
INVARIANTS
  NothingInvented
PROPERTIES
  NoStepBack
