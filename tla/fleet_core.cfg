SPECIFICATION FleetSpec
CONSTANTS
  Device = {"d1"}
  Worker = {"w"}
  Operator = "op"
  MaxFlaky = 1
  MaxTunnels = 5
  Caller = {c1, c2}
  FailCap = 2
  BackoffMax = 3
  MaxFailures = 3
  Drawing <- MCDrawing
  FirstLook = "a"
  MaxPublished = 1
  Box = {"b1", "b2"}
  Code = {"k1", "k2"}
  MaxDevices = 2
  None = None
  Watched = {"d1", "d2"}
  Reporting = {"d1"}
  Post = {"p1", "p2"}
  NoDevice = "none"
  MaxAlerts = 2
  Poster = {"object", "sweep"}
  Getter = {"get1", "get2"}
  MaxFrames = 2
  Filename = {"a"}
  Tag = {"t"}
  Upload = {"u1", "u2"}
  NoBytes = "none"
  MaxVersions = 2
  PageTarget <- MCPageTarget
  Poll = {"p1", "p2"}
  Days = 2
  SlotsPerDay = 4
  Entry <- MCEntry
  Group = {"lobby"}
  Own = "own"
  Source = {"s1", "s2"}
  MaxRows = 2
  Build = {"two", "fix"}
  Stamp <- MCStamp
  First = "one"
  Updater = {"loop", "command"}
  MaxPackages = 2
  Broken = "broken"
  Setting = {"a", "b"}
  Standard = "a"
  MaxCommands = 2
  SafeWidth = 16
  MinSize = 6
  Threshold = 2
  Neighbours <- MCNeighbours
  MaxLeft = 20
  MaxWidth = 10
  MaxPull = 9
  MaxItems = 2
  ItemLimit = 1
  MaxIssued = 2
  Earlier = {1}
  PageSize = 1
  BatchLimit = 1
  MaxGets = 2
INVARIANTS
  FleetTypeOK
  ReadyServes
  OneBrowser
  EditorShowsDraft
  OneDevicePerCode
  AlertOnce
  ListTruthful
  VersionsIntact
  RankingHolds
  SettingsAgree
  UnwarnedSaves
  HistoryTrue
PROPERTIES
  OrphansOnly
  OppositeEdgeHeld
  ReprovisionHeals
  StopReaps
  RelaunchReturns
  DeletedLosesAccess
  SweepReachesAll
  PageFollows
  VerifiedInstall
  Updated
CHECK_DEADLOCK FALSE
