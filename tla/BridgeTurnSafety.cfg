CONSTANTS
  MaxRetries = 2
  MaxMsgs = 2
  MaxStops = 1
  MaxCancels = 1
  MaxBoots = 1
  MaxInputs = 3
  Tool = {f, g}
  GatedTool = {g}
  Model = {ma, mb}
  MaxTurns = 3
  MaxModelCalls = 2
  MaxBreaks = 2
  Conversation = {c1}
  MaxPrompts = 2
  MaxEntries = 2
  MaxAnswers = 2
  MaxTrouble = 1
  MaxDrops = 1
  Wakee = {w1, w2}
  Local = {w1}
  Mine = {w2}
  Willing = {}
  Manager = w1
  Computer = {k1, k2}
  Owner = {o1, o2}
  MemberOwner = {o1}
  Instance = {j1, j2}
  NoInstance = NoInstance
  MaxCalls = 2
  MaxMishaps = 1
  MaxShifts = 1
  MaxTroubles = 1
SPECIFICATION BridgeSpec
INVARIANTS
  BridgeTypeOK
  DiskKeepsUp
  NoStrayFrame
  ThreadsStaySound
PROPERTIES
  PromptsAreHonoured
  MessagesFindTheirAgent
  FinishedTurnsRest
CHECK_DEADLOCK FALSE
