SPECIFICATION Spec
CONSTANTS
  a = a
  b = b
  c = c
  r = r
  Goals = {a, b, c}
  Nothing = Nothing
  ParentOf <- TheParent
  Deps <- TheDeps
  Resources = {r}
  NeedsOf <- TheNeeds
  TeamGoals = {b}
  MayExpire = {c}
  Users = {u}
  Worker = w
  Steered = {c}
  Direct = {a}
  Slots = 2
  MaxEvals = 2
  MaxCalls = 1
INVARIANTS TypeOK DependenciesFirst ExclusiveExecutions 
ACTION_CONSTRAINT InTurn
CHECK_DEADLOCK FALSE
