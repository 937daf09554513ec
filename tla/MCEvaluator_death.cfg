SPECIFICATION Spec
CONSTANTS
  Worker = {w1, w2}
  Process = {p1, p2}
  Expression = {x1}
  MaxEvaluations = 0
  MaxDeaths = 1
  Parent = Parent
  None = None
PROPERTY DeathDetected
