SPECIFICATION Spec
CONSTANTS
  Terminal = {t1, t2, t3}
  Worker = {w1, w2}
  None = None
  Limits = {1, 2}
  MaxOperands = 1
  MaxRefs = 1
PROPERTIES
  BakeReturns
  DestroyReturns
  ImplementsEvaluation
