SPECIFICATION FairSpec
CONSTANTS
  v1 = v1
  v2 = v2
  NoRow = NoRow
  NoRequest = NoRequest
  NoValue = NoValue
  NoTask = NoTask
  Deleted = Deleted
  NoJob = NoJob
  Records <- MCRecords
  Values <- MCValues
  InitialValue <- MCInitialValue
  SupportsStatus = TRUE
  Handlers = {h1}
  MaxFaults = 2
  MaxTime = 1
  Tasks = {t1}
  Plans <- OddPlans
PROPERTY DueTaskExecuted
INVARIANTS TypeOK OutcomeTold AppliedOnce RowsAgree
CHECK_DEADLOCK FALSE
