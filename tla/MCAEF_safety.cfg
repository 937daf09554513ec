SPECIFICATION SafeSpec
CONSTANTS
  Terminal = {t1, t2, t3}
  Worker = {w1, w2}
  None = None
  Limits = {0}
  MaxOperands = 2
  MaxRefs = 2
SYMMETRY Symmetric
INVARIANTS
  IInv
  OperandsReady
  ScheduledExactlyOnce
  NoDanglingAccess
  RemovalFindsEntry
  RefcountExact
