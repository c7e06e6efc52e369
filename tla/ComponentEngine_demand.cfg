CONSTANTS
  Ids = {1}
  Requests <- RowActions
  Request <- RowAction
  NoRequest = NoRequest
  MaxRecords = 2
  RecentHistory = 2
  Argvs = {"run"}
  QueueLimit = 1
  MaxChanges = 2
  MaxFaults = 0
  MaxStarts = 0
  MaxEvents = 3
SPECIFICATION FairSpec

PROPERTY DemandWithdrawn
CHECK_DEADLOCK FALSE
