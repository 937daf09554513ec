SPECIFICATION Spec
CONSTANTS
  None = None
  Integral = {1, 2, 3, 4}
  Pivot = {1, 2, 3}
  Order <- Identity
  P = 3
  MaxDespair = 2
  Elimination = "optimistic"
  Systems <- CoupledSystems
INVARIANTS
  Equivalent
  SolveComplete
  ConsiderationExact
  AbortsWithReason
PROPERTIES
  RelaysNormalized
  Returns
