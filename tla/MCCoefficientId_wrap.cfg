SPECIFICATION IdSpec
CONSTANTS
  Coefficient = {c1, c2, c3, c4}
  MaxLow = 2
  Nothing = Nothing
SYMMETRY Symmetric
INVARIANTS
  UniqueIds
  LoadsOwn
