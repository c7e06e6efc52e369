SPECIFICATION Spec
CONSTANTS
  Callers = {"k1", "k2"}
  Calls = {"a"}
  SwIds = 2
  MaxRequests = 3
  MaxFrames = 1
  Controls <- MCControls
  Remap <- MCRemap
  Wanted <- MCWanted
  Order <- MCOrder
  DpiList <- MCDpiList
  Retries = 2
  MaxMouseTrouble = 4
  Terms = {"t"}
  Revs = {"r1", "r2"}
  MaxJobs = 2
  MaxHides = 1
  MaxCalls = 1
  MaxFlashTrouble = 2
  Points <- MCPoints
  CellW = 1
  CellH = 4
  SlopW = 1
  SlopH = 6
  SwipeCells = 3
  SwipeRows = 2
  LongPress = 1
  FrameQueueLen = 2
  MaxReports = 4
  Waiters = {"edge", "moon"}
  ReconnectCap = 4
  AbsentCap = 2
  EnumRetry = 2
  MaxScanTime = 6
  MaxScanTrouble = 2
  Daemons = {"d1", "d2"}
  Clients = {"c1", "c2"}
  Keys = {"k"}
  FeedQueueLen = 2
  MaxClients = 1
  MaxLines = 3
  MaxFeedTrouble = 2
  Sources = {"a"}
  WedgeIdle = 2
  WedgeFresh = 1
  Buttons = {"left"}
  Deltas <- MCDeltas
  MaxPolls = 6
  MaxInputs = 4
INVARIANTS MouseSafe  
PROPERTIES DeviceSteps
CHECK_DEADLOCK FALSE
