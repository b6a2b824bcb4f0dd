CONSTANTS
  a1 = a1  a2 = a2  n1 = n1  n2 = n2
  Automations = {a1}
  Nodes = {n1, n2}
  NoNode = NoNode
  Period = 2
  Second = 2
  Hour = 2
  MaxRunsPerHour = 1
  Horizon = 3
  MaxFaults = 2
SPECIFICATION Spec
INVARIANTS TypeOK QuotaIsTasks
PROPERTIES LeaseFences
CHECK_DEADLOCK FALSE
