SPECIFICATION Spec
CONSTANTS
  Worker = {w1, w2}
  Process = {p1, p2}
  Expression = {x1, x2}
  MaxEvaluations = 2
  MaxDeaths = 1
  Parent = Parent
  None = None
INVARIANTS
  ReceivesOwn
  RenewalExact
PROPERTIES
  AnsweredUnlessInherited
