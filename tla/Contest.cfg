SPECIFICATION MCSpec
CONSTANTS
  Requests = {r1, r2, r3}
  Teams = {t1, t2, t3}
  Challenges = {c1, c2}
  None = None
  Points = 20
  MinPoints = 17
  DecayPercent = 10
  FirstBloodBonus = 5
  DynamicScore = TRUE
  MaxFaults = 1
  Users = {t1, t2, t3}
  Admissions = {c1, c2}
  Nobody = Nobody
  TeamMaxSize = 2
  MaxParticipants = 1
  MaxTeamFaults = 1
  MaxTeams = 2
  MaxEntries = 4
SYMMETRY MCSymmetry
INVARIANTS PartsTyped ScoreIsSum AwardedOnce PriceOneBehind BoardFresh TeamsKept
CHECK_DEADLOCK FALSE
