SPECIFICATION Spec
CONSTANTS
  N = 5
  Graphs <- MCGraphs
  Worker = {w1, w2}
  Frontend = Frontend
  Bits = 4
  Overflown = Overflown
  None = None
INVARIANTS
  CountIsCollected
  IndependentCountsOne
  NoneInFreed
PROPERTIES
  AllEvaluated
