CONSTANTS
  x = x
  n = n
  g1 = g1
  g2 = g2
  None = None
  Exec = {x}
  Native = {n}
  Configs = {g1, g2}
  FirstConfig = g1
  Defines <- MCDefines
  Modes <- MCBothModes
  Leftover = {x}
  MaxWindows = 2
  MaxRenderers = 2
  MaxChanges = 2
  MaxReloads = 1
  MaxResults = 1
  MaxFaults = 1
SPECIFICATION Spec
INVARIANT WindowsClosed
PROPERTY ShownIsCurrent
CHECK_DEADLOCK FALSE
