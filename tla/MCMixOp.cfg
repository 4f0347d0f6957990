SPECIFICATION Spec
CONSTANTS
  N = 2
  MaxKind = 1
  Surplus = {0, 1}
  MaxSends = 1
  MaxFails = 1
INVARIANTS
  OwnKindOnly
  ListsAgree
  FewMisfits
