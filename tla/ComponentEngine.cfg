CONSTANTS
  Ids = {1, 2}
  Requests <- RowActions
  Request <- RowAction
  NoRequest = NoRequest
  MaxRecords = 2
  RecentHistory = 2
  Argvs = {"run"}
  QueueLimit = 1
  MaxChanges = 2
  MaxFaults = 1
  MaxStarts = 1
  MaxEvents = 3
SPECIFICATION FairSpec
INVARIANT OutcomesHonest
PROPERTIES StepsInOrder PollsGoOn Progress
CHECK_DEADLOCK FALSE
