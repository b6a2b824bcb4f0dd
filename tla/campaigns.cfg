SPECIFICATION Spec
CONSTANTS
  phase1 = phase1
  phase2 = phase2
  phase3 = phase3
  w1 = w1
  w2 = w2
  operator = operator
  Nobody = Nobody
  Phases = {phase1, phase2, phase3}
  DependsOn <- TheDeps
  GoalsOf <- TheGoals
  Gated = {phase2}
  Workers = {w1, w2}
  Operators = {operator}
  OptionSets <- TheOptions
  MaxAttempts = 2
  LogSize = 3
  MaxSteps = 5
  MaxCalls = 2
CONSTRAINT OneAtATime
SYMMETRY Symmetry
INVARIANTS TypeOK UndoneOnce RunningIsDriven PhasesInOrder EffectsMatchPhases
\* Every call that was allowed has returned.
CHECK_DEADLOCK FALSE
