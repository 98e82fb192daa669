SPECIFICATION MCSpec
CONSTANTS
    Queues = {q1}
    Msgs = {m1, m2}
    QueueOf <- MCQueueOf
    Malformed = {m2}
    Prefetch = 2
    MaxDials = 2
    MaxDrops = 2
    MaxOutage = 2
    Readers = {p1, p2}
    Planned = 1
    MaxAdmin = 1
    MaxRoundFaults = 1
    Requests = {r1, r2}
    MaxEnvs = 2
    MaxFaults = 1
INVARIANTS
    PartsTyped
    NothingLost
    AttemptsAccounted
    
    
PROPERTIES
    EveryMessageSettles
    RoundsProgress
    ChallengeSettles
CHECK_DEADLOCK FALSE
