SPECIFICATION Spec
CONSTANTS
  Slaves = 1
  Plans <- AllPlans
  MaxFaults = 0
INVARIANTS
  UnitServed
