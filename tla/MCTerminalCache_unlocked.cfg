SPECIFICATION SafeSpec
CONSTANTS
  Thread = {w1, w2}
  None = None
  Large = Large
  Terminal = {b1, b2, Large}
  Initial = {}
  SizeOf <- Sizes
  Limit = 1
  Modulus = 8
SYMMETRY Symmetric
INVARIANTS
  NoneElseReferences
