SPECIFICATION Spec
CONSTANTS
  Ids = {1, 2, 3}
  Requests <- MCRequests
  NoRequest = NoRequest
  NoOp = NoOp
  Free = Free
  NoKey = NoKey
  InputWorker = InputWorker
  Boot = Boot
  Conns = {c1, c2}
  Docks = {}
  Messages <- MCDesiredMessages
  Keys <- MCReplayKeys
  DurableKeys <- MCReplayKeys
  QueueLimit = 1
  MaxRecords = 3
  RecentHistory = 0
  MaxSends = 3
  MaxFaults = 1
  MaxCrashes = 0
  MaxEvents = 4
CHECK_DEADLOCK FALSE
PROPERTY ValuesFollowAcceptance
