CONSTANTS
  Processes = {"p", "q"}
  Copies = 2
  Ids = {"i"}
  Requests <- MCRequests
  NoRequest <- MCNoRequest
  MaxRecords = 4
  RecentHistory = 2
  MaxDeaths = 2
  MaxJournalFaults = 1
  MaxTakes = 2
  TakeBudgets <- MCBudgets
  MaxTakeFaults = 1
  MaxTakeRestarts = 1
  HandVerbs = {"quit"}
  Filters = {"purple"}
  Sustained = {"jitter"}
  Lamps = {}
  FXMaxLevel = 2
  Presets = {"br", "tl"}
  MaxFXTaps = 4
  MaxFXFaults = 1
  MaxFXRestarts = 1
  Script <- Scripts
  GotoWindow = 2
  MaxRuns = 2
  MaxRunTaps = 5
  MaxEdits = 1
  MaxRunFaults = 1
  MaxRunRestarts = 1
  ScriptVerbs = {"demo", "record", "scene", "screen", "webcam", "step", "note", "budget", "cam", "focus-app", "wait"}
  StepIDs = {"a", "b"}
  MaxLines = 5
  Attachable = {"edge", "main"}
  MaxPadTaps = 4
  MaxPlugs = 2
  MaxPadRestarts = 1
  Displays = {"edge", "main"}
  Wanted <- Postures
  MaxApplies = 2
  MaxSceneEdits = 1
  MaxRequestFaults = 1
  Files <- Files2
  Asserted <- Settings
  Local = TRUE
  Installed = TRUE
  MaxHandActs = 2
  MaxBoots = 2
SPECIFICATION SuiteSpec
INVARIANTS   CameraSafe DemoSafe OwnerSafe
PROPERTIES RenoSteps 
CHECK_DEADLOCK FALSE
