CONSTANTS
  Session = {s1, s2}
  NoSession = NoSession
  MaxHalts = 1
  MaxEdits = 1
SPECIFICATION FairSpec
PROPERTIES
  SpawnIsPrepared
CHECK_DEADLOCK FALSE
