SPECIFICATION Spec
CONSTANTS
  o1 = o1
  o2 = o2
  f = f
  NoRow = NoRow
  NoRequest = NoRequest
  AnyRecord = AnyRecord
  NoValue = NoValue
  NoTask = NoTask
  Deleted = Deleted
  NoJob = NoJob
  Worker = worker
  Records <- Both
  Values <- MCValues
  Root = {1}
  Managed <- Both
  SupportsStatus = TRUE
  InitialValue <- WholeZone
  Handlers = {}
  Checkers = {u1}
  Tasks = {1}
  Configs <- CheckConfigs
  MaxFaults = 1
  MaxEdits = 2
  MaxCount = 2
INVARIANTS TypeOK LocalTracksProvider
CHECK_DEADLOCK FALSE
