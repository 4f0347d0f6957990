SPECIFICATION Spec
CONSTANTS
  N = 4
  MaxTotal = 10
INVARIANTS
  Disjoint
  Gapless
