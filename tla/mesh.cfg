CONSTANTS
  r1 = r1  r2 = r2  r3 = r3  t1 = t1  t2 = t2
  Runs = {r1, r2, r3}
  NoRun = NoRun
  Threads = {t1, t2}
  MaxDepth = 1
  MaxFanOut = 1
  MaxIterations = 1
  MaxSteps = 1
  MaxFaults = 1
SPECIFICATION Spec
INVARIANTS TypeOK RunningIsExecuted DelegationIsALevelDown
PROPERTIES EndedStaysWhenAlone
SYMMETRY Symmetry
CHECK_DEADLOCK FALSE
