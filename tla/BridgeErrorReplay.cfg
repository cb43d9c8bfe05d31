CONSTANTS
  MaxRetries = 2
  MaxMsgs = 1
  MaxStops = 0
  MaxCancels = 0
  MaxBoots = 1
  MaxInputs = 1
SPECIFICATION FairSpec
PROPERTIES
  RetryIsANewAttempt
CHECK_DEADLOCK FALSE
