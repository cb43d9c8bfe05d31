CONSTANTS
  MaxRetries = 2
  MaxMsgs = 2
  MaxStops = 0
  MaxCancels = 0
  MaxBoots = 1
  MaxInputs = 2
SPECIFICATION Spec
INVARIANTS
  DeliveredWasRead
CHECK_DEADLOCK FALSE
