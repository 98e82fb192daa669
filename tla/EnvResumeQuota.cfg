SPECIFICATION Spec
CONSTANTS
  Users = {u1}
  Experiments = {x1, x2}
  NumEnvs = 2
  NumInstances = 1
  MaxUserEnvs = 1
  MaxSchoolEnvs = 2
  MaxExtendTimes = 1
  Requests = {r1}
  Scheduler = scheduler
  None = None
  MaxRequests = 4
  MaxFaults = 0
INVARIANT UserQuota
CHECK_DEADLOCK FALSE
