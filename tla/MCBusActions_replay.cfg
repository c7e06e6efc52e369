SPECIFICATION FairSpec
CONSTANTS
  Ids = {1, 2}
  Requests <- MCRequests
  NoRequest = NoRequest
  NoOp = NoOp
  Free = Free
  NoKey = NoKey
  InputWorker = InputWorker
  Boot = Boot
  Conns = {c1, c2}
  Docks = {d1}
  Messages <- MCReplayMessages
  Keys <- MCReplayKeys
  DurableKeys <- MCReplayKeys
  QueueLimit = 1
  MaxRecords = 4
  RecentHistory = 2
  MaxSends = 4
  MaxFaults = 1
  MaxCrashes = 1
  MaxEvents = 5
INVARIANTS TypeOK AtMostOnce OutcomeHonest ReportedOutcomeStands NoOrphanedRun DivergenceIsRecorded
CHECK_DEADLOCK FALSE
 
