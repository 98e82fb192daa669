SPECIFICATION RaftSpec
CONSTANTS
    NodeCount = 3
    MaxTerm = 2
    MaxCommands = 1
    MaxFailures = 0
    MaxQueue = 5
INVARIANT CommittedOnMajority
CHECK_DEADLOCK FALSE
