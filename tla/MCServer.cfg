CONSTANTS
  Reminder = {r1, u1}
  UserOwned = {u1}
  Tick = {t1, t2}
  Rule <- Rules
  Day = 2
  SilenceLimits = {1}
  ClaimLimit = 1
  MaxTime = 4
  MaxAsks = 2
  MaxFailures = 1
  Message = {m1, m2}
  Contract = {d1}
  Member = {w, h}
  Admin = {}
  Worker = w
  Nobody = Nobody
  NoCard = NoCard
  Request = {q1, q2, q3}
  MaxRequests = 3
  MaxAborts = 1
  Conn = {c1, c2, c3}
  Machine = {k1}
  Scope = {s1, s2}
  NoOne = NoOne
  File = {f1, f2}
  Legacy = {f1}
  Content = {x1, x2}
  Post = {p1, p2}
  Channel = {ch}
  Collector = {g1, g2}
  NoFile = NoFile
  MaxPosts = 2
  MaxCrashes = 1
  MaxDrafts = 2
  MaxTries = 2
  MaxLogouts = 1
  Target = {ta, tb}
  MaxSeq = 3
  MaxConnects = 2
  MaxVisits = 1
  FillPage = 1
  FillMaxPages = 3
  FillWorkers = 1
  NewestPage = 1
  RosterTogether = 4
  Agent = {a1}
  AgentName = {n1, n2}
  Profile = {p1, p2}
  NoAgent = NoAgent
  NoProfile = NoProfile
  MaxRequestsForAgents = 3
  MaxOutages = 2
  Account = {a, b}
  Founder = a
  Invite = {i1}
  OrgAgent = {g1}
  Box = {m1}
  OrgSlot = {q1, q2}
  Nothing = Nothing
  MaxOrgs = 2
  MaxOrgRequests = 3
  MaxSeats = 1
SPECIFICATION ServerSpec
SYMMETRY Symmetry
INVARIANTS
  ServerTypeOK
  BoardIsConsistent
  DaemonsAreReached
  RosterAgrees
  FilesAreWhole
  MembershipIsSound
PROPERTIES
  RemindersGoTheirWay
  DraftsAreDelivered
  FeedIsComplete
  HandoverReachesAMember
CHECK_DEADLOCK FALSE
