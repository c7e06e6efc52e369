CONSTANTS
  Producers = {input, ctl}
  Main = shutdown
  Free = free
  Transitions <- StepsAndStops
  QueueLimit = 1
  MaxMoves = 3
  MaxFaults = 1
  MaxEvents = 3
SPECIFICATION FairSpec
INVARIANTS EffectsSafe ChildrenEnd
PROPERTIES NoStaleStart EffectsProgress
CHECK_DEADLOCK FALSE
