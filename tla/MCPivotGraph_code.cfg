SPECIFICATION Spec
CONSTANTS
  None = None
  Integral = {1, 2, 3, 4, 5}
  Pivot = {1, 2, 3, 4}
  Order <- Identity
  P = 3
  Requests = {2, 4}
  MaxDespair = 2
  Systems <- DenseSystems
INVARIANTS
  CountsExact
  NoneDangling
  UsedOnce
  EdgesWhole
  SearchComplete
PROPERTIES
  ImplementsCKS
