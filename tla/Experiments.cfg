SPECIFICATION MCSpec
CONSTANTS
  Users = {u1}
  Experiments = {x1}
  NumEnvs = 1
  NumInstances = 2
  MaxUserEnvs = 1
  MaxSchoolEnvs = 2
  MaxExtendTimes = 1
  Requests = {r1, r2}
  Scheduler = scheduler
  None = None
  MaxRequests = 3
  MaxFaults = 1
  Students = {s1, s2}
  Teachers = {t1}
  Scores = {g1, g2}
  AutoScore = AutoScore
  Unset = Unset
  MaxSubmissions = 2
  MaxGrades = 2
  MaxGradingFaults = 1
INVARIANTS PartsTyped SubmissionsSound
PROPERTIES CreatingSettles ExpiredIsReaped GradingSettles
CHECK_DEADLOCK FALSE
