SPECIFICATION FairSpec
CONSTANTS
  Users = {u1}
  Experiments = {x1}
  NumEnvs = 1
  NumInstances = 2
  MaxUserEnvs = 1
  MaxSchoolEnvs = 2
  MaxExtendTimes = 1
  Requests = {r1}
  Scheduler = scheduler
  None = None
  MaxRequests = 1
  MaxFaults = 1
PROPERTY ExpiredReleasesPods
CHECK_DEADLOCK FALSE
