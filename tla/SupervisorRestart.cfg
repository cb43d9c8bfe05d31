CONSTANTS
  MaxCrashes = 0
  MaxChanges = 2
SPECIFICATION SupervisorSpec
INVARIANTS
  OneDaemon
CHECK_DEADLOCK FALSE
