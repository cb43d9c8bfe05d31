CONSTANTS
  MaxRetries = 1
  MaxMsgs = 3
  MaxStops = 1
  MaxCancels = 1
  MaxBoots = 2
  MaxInputs = 3
SPECIFICATION FairSpec
INVARIANTS
  RunsAreUsedOnce
PROPERTIES
  EveryMessageSettles
CHECK_DEADLOCK FALSE
