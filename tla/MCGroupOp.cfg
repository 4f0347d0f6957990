SPECIFICATION FairSpec
CONSTANTS
  N = 2
  GroupNum = 2
  ConnectionTotals = {1, 3}
  GroupTotals = {2, 3}
  MaxSends = 1
  MaxDrops = 1
INVARIANTS
  MembersByList
  CleanLeave
  SelfDelivery
  ShortOnesThrow
  FailuresCounted
PROPERTIES
  ComesToRest
