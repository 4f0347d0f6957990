SPECIFICATION FairSpec
CONSTANTS
  Slaves = 2
  Plans <- AllPlans
  MaxFaults = 2
INVARIANTS
  OneMaster
  ServiceStands
  OneService
  ResultsKept
  EachJobOnce
PROPERTIES
  EndsOrProbes
