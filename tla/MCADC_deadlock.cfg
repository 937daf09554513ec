SPECIFICATION Spec
CONSTANTS
  N = 4
  Graphs <- MCBackward
  Worker = {w1, w2}
  Frontend = Frontend
  Bits = 4
  Overflown = Overflown
  None = None
PROPERTY AppliedDownstream
CHECK_DEADLOCK FALSE
