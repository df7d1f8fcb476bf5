CONSTANTS
  SipNumbers = {"n1"}
  Admins = {"a", "b"}
  TrunkRows = {"none", "auth"}
  HostNumbers = {2, 3}
  VpnRequests = {"p", "q"}
  Backups = {1, 2}
  RetentionCount = 1
  FwRequests = {1, 2}
  Threshold = 2
  MaxRules = 2
  Payloads <- MCPayloads
  MaxVersions = 2
  StoreRequests = {"r1", "r2"}
  CanvasIds = {1, 2, 3}
  PaletteTypes = {"webhook"}
  Branches = {"1"}
  MaxCanvasEdges = 2
  MaxCopied = 2
  RootOf = "root"
  SubOf = "sub"
  EditFaults = {"unrouted"}
  MaxEdits = 1
  SimFlows <- MCSimFlows
  SimRoot = "main"
  SimNodes <- MCSimNodes
  SimEdges <- MCSimEdges
  SimSubmenus <- MCSimSubmenus
  MaxFetches = 2
  PhoneSessions = {"s1", "s2"}
  ToneContexts = {"t1", "t2"}
  Staff = {"o1"}
  Pins = {1, 2}
  Contacts = {"c1"}
  StaffQueues = {1, 2}
  Trunks = {"t1"}
  DeskRequests = {"a", "b"}
  MaxPinColumns = 2
  PhoneNumbers = {"n1"}
  CampaignAdmins = {"a", "b"}
  MaxPackets = 2
  StreamLen = 1
  MaxBoots = 1
  Hooks = {"h1"}
  HookMaxAttempts = 3
  LogTokens = {"channel", "bridge"}
  LogNeedles = {"uniqueid"}
  MaxLines = 3
  MaxTicks = 2
  SearchLines = 3
  MaxPanelTests = 2
  QualityCalls = {"c1"}
  Jitters = {0, 100}
  Losses = {0, 20}
  MaxReports = 4
  StreamMax = 2
  BatchSize = 2
  CallFiles = {"f1", "f2"}
  VoiceFile = "vm"
  MaxRecRows = 2
  ListedCalls = {"c1"}
  MaxWire = 3
SPECIFICATION PlatformSpec
INVARIANTS
  FilesFollowRows
  VpnStateTrue
  RowsMatchFiles
  BlockedIsEnforced
  
  EditorWritesItsFlow
  PagesKeepUp
  ShownPinWorks
  TotalsTrue
  ObservedOnce
  QualityKeepsWorst
  SearchComplete
PROPERTY
  HistoryKept
CONSTRAINT NotExcluded
CHECK_DEADLOCK FALSE
