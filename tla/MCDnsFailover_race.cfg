SPECIFICATION FairSpec
CONSTANTS
  o1 = o1
  o2 = o2
  f = f
  NoRow = NoRow
  NoRequest = NoRequest
  AnyRecord = AnyRecord
  NoValue = NoValue
  NoTask = NoTask
  Deleted = Deleted
  NoJob = NoJob
  Worker = worker
  Records <- Both
  Values <- MCValues
  Root = {1}
  Managed <- Both
  SupportsStatus = TRUE
  InitialValue <- WholeZone
  Handlers = {}
  Checkers = {u1}
  Tasks = {1}
  Configs <- OneConfig
  MaxFaults = 0
  MaxEdits = 1
  MaxCount = 2
PROPERTIES RecoversEventually
CHECK_DEADLOCK FALSE
