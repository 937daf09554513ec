SPECIFICATION Spec
CONSTANTS
  Terminal = {t1, t2}
  Group = {g1, g2}
  None = None
  Front = Front
INVARIANTS
  NoUseAfterFree
  NoLeak
  SleepsForASignal
PROPERTIES
  PopFinds
  WaitReturns
