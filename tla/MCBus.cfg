SPECIFICATION MCSpec
CONSTANTS
  ca = ca
  cb = cb
  home = home
  keys = keys
  g1 = g1
  g2 = g2
  w = w
  Pids = {p1, p2}
  None = none
  Garbled = garbled
  MaxBuses = 2
  MaxSets = 3
  MaxTrouble = 2
  NoConn = NoConn
  NoLayout = NoLayout
  FirstConfig = g1
  Conns <- MCOne
  Edge <- MCOne
  Layouts <- MCLayouts
  Configs <- MCConfigs
  Defines <- MCDrops
  Supports <- MCOneAll
  Widgets <- MCWidgets
  Shows <- MCShows
  QueueLimit = 1
  MaxActs = 1
  MaxFlips = 2
  MaxGlobal = 1
  MaxRenderers = 0
  MaxNotices = 0
INVARIANTS ViewsSafe PowerSafe
PROPERTY BusSteps
CHECK_DEADLOCK FALSE
