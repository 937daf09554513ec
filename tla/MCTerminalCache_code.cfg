SPECIFICATION SafeSpec
CONSTANTS
  Thread = {w1, w2}
  None = None
  Large = Large
  Terminal = {i1, b1, Large}
  Initial = {i1}
  SizeOf <- Sizes
  Limit = 1
  Modulus = 8
SYMMETRY Symmetric
INVARIANTS
  InUseLoaded
  LoadsStored
  LoadFindsEmpty
  Evictable
  NoLockCycle
