SPECIFICATION RSpec
CONSTANTS
  Half = 4
  MaxCount = 3
  MaxConnection = 2
  MaxTicks = 3
INVARIANTS
  ExactInRange
  LineLeft
  PageAddsUp
