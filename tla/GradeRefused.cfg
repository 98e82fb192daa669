SPECIFICATION GradingSpec
CONSTANTS
  Students = {s1}
  Teachers = {t1}
  Scores = {g1}
  AutoScore = AutoScore
  Unset = Unset
  MaxSubmissions = 1
  MaxGrades = 1
  MaxGradingFaults = 0
INVARIANT VerdictsTaken
CHECK_DEADLOCK FALSE
