CONSTANTS
  Session = {a1, a2}
  NoSession = NoSession
  MaxHalts = 4
  MaxEdits = 2
  Send = {s1, s2}
  Cancel = {k1, k2}
  NoTurn = NoTurn
  Prompt = {s1, s2}
  NoPrompt = NoPrompt
  MaxGen = 3
  MaxTurns = 2
  MaxFailures = 1
  MaxStops = 1
  MaxCrashes = 2
  MaxChanges = 2
  Identity = {i1, i2}
  NoIdentity = NoIdentity
  Threshold = 2
  BaseCooldown = 1
  MaxCooldown = 4
  MaxClock = 9
  MaxSpawns = 5
  CostChannel = {ch1}
  Days = 1
  NoChannel = NoChannel
  Prices = {1, 2}
  Budget = 3
  MaxRows = 1
  MaxTurnsPaid = 3
  MaxReports = 3
  MaxCostCrashes = 1
SPECIFICATION DaemonSpec
INVARIANTS
  DaemonTypeOK
  WorkingIsATurn
  HaltReachesTheTurn
  NoOrphan
  StoppedIsQuiet
  TimersFitTheDispatch
  ChannelIsLeftInOrder
  DaemonComesBack
  RespawnsSlowDown
  CostsAreKept
PROPERTIES
  DispatchEnds
  SessionsKeepTheirContract
CHECK_DEADLOCK FALSE
