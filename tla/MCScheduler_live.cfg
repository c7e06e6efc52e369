CONSTANTS
  x = x
  n = n
  g1 = g1
  g2 = g2
  None = None
  Exec = {x}
  Native = {n}
  Configs = {g1, g2}
  FirstConfig = g1
  Defines <- MCDefines
  Modes <- MCBothModes
  Leftover = {x}
  MaxWindows = 2
  MaxRenderers = 1
  MaxChanges = 1
  MaxReloads = 1
  MaxResults = 1
  MaxFaults = 0
SPECIFICATION FairSpec
PROPERTIES ReloadInstalled ShutdownEnds
CHECK_DEADLOCK FALSE
