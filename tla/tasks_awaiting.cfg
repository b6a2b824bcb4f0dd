CONSTANTS
  t1 = t1  t2 = t2
  Tasks = {t1}
  NSteps = 2
  Sensitive <- LastSensitive
  MaxExec = 2
  Capacity = 1
SPECIFICATION FairSpec
PROPERTIES AwaitingEnds
CHECK_DEADLOCK FALSE
