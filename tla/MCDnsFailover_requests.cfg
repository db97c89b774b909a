SPECIFICATION Spec
CONSTANTS
  o1 = o1
  o2 = o2
  f = f
  NoRow = NoRow
  NoRequest = NoRequest
  AnyRecord = AnyRecord
  NoValue = NoValue
  NoTask = NoTask
  Deleted = Deleted
  NoJob = NoJob
  Worker = worker
  Records <- Both
  Values <- OldAndNew
  Root = {1}
  Managed = {1}
  SupportsStatus = FALSE
  InitialValue <- EmptyZone
  Handlers = {h1}
  Checkers = {}
  Tasks = {1}
  Configs <- EagerConfig
  MaxFaults = 1
  MaxEdits = 1
  MaxCount = 1
INVARIANTS SyncFaithful
CHECK_DEADLOCK FALSE
