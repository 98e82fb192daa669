SPECIFICATION MCSpec
CONSTANTS
    Users = {u1, u2, u3}
    Actors = {a1, a2}
    Nobody = Nobody
    MaxMembers = 2
    MaxEnvs = 3
    MaxCalls = 4
    MaxFaults = 1
    NodeCount = 3
    MaxTerm = 2
    MaxCommands = 1
    MaxFailures = 1
    MaxQueue = 2
    BftNodes = 4
    Payloads = {x, y}
    Fake = Fake
    MaxSubmits = 2
    MaxViews = 1
    MaxByzantine = 1
    ReplicaCount = 4
    MaxBlocks = 3
    MaxRotations = 2
    MaxSims = 3
    MaxLoops = 3
    MaxRequests = 6
    ForkNodes = 2
    MaxTree = 6
    DagNodes = 4
    MaxVertices = 6
    Timeout = 3
    MaxHeight = 4
    MaxRounds = 3
    MaxFresh = 4
    ValidatorCounts = {5, 16}
    SlotsPerEpoch = 3
    MaxSlot = 6
    MaxSlashes = 2
    Limits <- MCLimits
    Delegates = {d1, d2, d3}
    Stranger = Stranger
    Balances <- MCBalances
    FirstVotes <- MCFirstVotes
    MaxSeats = 2
    Interval = 2
    MaxTurns = 2
    SyncNodes = 3
    SyncStart = 2
    SyncPeriod = 2
    MaxCanonical = 4
SYMMETRY MCSymmetry
INVARIANTS
    PartsTyped
    MembersKeepRuntime
    SeatsRespected
    OneLeaderPerTerm
    QuorumsBehindCommits
    QuorumsAreReal
    LoopsAccounted
    
    
CHECK_DEADLOCK FALSE
