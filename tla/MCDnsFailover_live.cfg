SPECIFICATION FairSpec
CONSTANTS
  o1 = o1
  o2 = o2
  f = f
  NoRow = NoRow
  NoRequest = NoRequest
  AnyRecord = AnyRecord
  NoValue = NoValue
  NoTask = NoTask
  Deleted = Deleted
  NoJob = NoJob
  Worker = worker
  Records <- Both
  Values <- MCValues
  Root = {1}
  Managed <- Both
  SupportsStatus = TRUE
  InitialValue <- WholeZone
  Handlers = {}
  Checkers = {}
  Tasks = {1, 2}
  Configs <- LiveConfigs
  MaxFaults = 0
  MaxEdits = 3
  MaxCount = 2
PROPERTIES RecoversEventually FailsOverEventually DueTaskChecked SwitchNeedsConsecutiveFailures
CHECK_DEADLOCK FALSE
