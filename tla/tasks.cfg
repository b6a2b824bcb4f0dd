CONSTANTS
  t1 = t1  t2 = t2
  Tasks = {t1, t2}
  NSteps = 2
  Sensitive <- LastSensitive
  MaxExec = 2
  Capacity = 2
SPECIFICATION FairSpec
INVARIANTS TypeOK SingleExecution SensitiveToolApproved CompletionAnnouncedTruly
PROPERTIES PlanRefined RunningEnds
ACTION_CONSTRAINT FirstThenSecond
CHECK_DEADLOCK FALSE
