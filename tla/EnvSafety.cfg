SPECIFICATION Spec
CONSTANTS
  Users = {u1}
  Experiments = {x1, x2}
  NumEnvs = 2
  NumInstances = 2
  MaxUserEnvs = 1
  MaxSchoolEnvs = 2
  MaxExtendTimes = 1
  Requests = {r1, r2}
  Scheduler = scheduler
  None = None
  MaxRequests = 3
  MaxFaults = 1
SYMMETRY MCSymmetry
INVARIANTS RowMatchesPods  ExtensionsHonest
CHECK_DEADLOCK FALSE
