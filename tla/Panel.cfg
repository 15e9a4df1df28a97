SPECIFICATION PanelSpec
CONSTANTS
  Runner = {q1, q2}
  Ports = 2
  Windows = TRUE
  MaxRuns = 3
  MaxTrouble = 2
  Poller = {q1, q2}
  MaxPolls = 2
  Scan = {q1, q2}
  MaxFiles = 2
  MaxFailures = 2
  MaxReads = 2
  DayLength = 12
  Days = 2
  Interval = 2
  Jitter = 1
  Hours = {0, 5, 11}
  MaxDisturbed = 1
  Editor = {q1, q2}
  Thresholds = 2
  MaxVersion = 2
  Operator = {q1, q2}
  Address = {a1}
  MaxAlerts = 1
  Place = {"home", "cafe"}
  Links <- PanelLinks
  Name = {"home", "router"}
  Names <- PanelNames
  Tab = {q1, q2}
  Login = {q1, q2}
  MaxFailed = 3
  MaxTries = 6
  Reader = {q1, q2}
  Socket = {s1, s2}
  MaxBytes = 2
  MaxReadings = 3
SYMMETRY Requests
CHECK_DEADLOCK FALSE
INVARIANTS
  PanelTypeOK
  PasswordsAgree
  KeyWorks
  UrlWorks
  SeesTheRestart
  HistoryIsHonest
  TileMatchesHistory
  FiresOncePerDay
  NotedIsNudged
  CategoryIsOperators
  LockIsAnnounced
  TrafficIsReal
PROPERTIES
  GivenOnce
  NoOlderMatrix
  OkIsEnforced
  AnswersAreTrue
