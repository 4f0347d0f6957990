SPECIFICATION SSpec
CONSTANTS
  Slaves = {s1, s2}
  Steps = 2
  MaxMsgs = 1
  MaxCalls = 2
  MaxLate = 1
SYMMETRY Symmetry
INVARIANTS
  ServerTotalFound
  CountedPerStep
  VerdictByStep
