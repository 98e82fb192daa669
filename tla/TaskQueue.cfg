SPECIFICATION FairSpec
CONSTANTS
  NumTasks = 2
  Workers = {w1, w2, w3}
  NoTask = NoTask
  HasHandler <- MCHasHandler
  MaxRetries = 2
  MaxFaults = 1
  MaxSlow = 2
INVARIANTS ExclusiveUnlessContested NoEarlyGiveUp EffectsAccounted
PROPERTIES ImplementsJobBoard EveryTaskSettles
CHECK_DEADLOCK FALSE
