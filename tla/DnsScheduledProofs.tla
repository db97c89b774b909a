-------------------------- MODULE DnsScheduledProofs --------------------------
(* Theorems about the scheduled tasks of a zone, for every set of tasks,     *)
(* plans and records and every bound.                                        *)
EXTENDS DnsScheduled, TLAPS

-----------------------------------------------------------------------------
(* The handlers of the zone; the theorems about the zone alone are in      *)
(* DnsFailoverProofs.                                                      *)

\* The rows a provider call may write are rows.
LEMMA RowsType ==
    ASSUME NEW rows \in ZoneRows, NEW r \in Records, rows[r] # NoRow
    PROVE  /\ \A v \in Values : WithValue(rows, r, v) \in ZoneRows
           /\ \A b \in BOOLEAN : WithStatus(rows, r, b) \in ZoneRows
  BY DEF WithValue, WithStatus, ZoneRows, Row

\* A handler begins with a call to the provider, whatever becomes of the call.
LEMMA BeginType ==
    ASSUME ZoneTypeOK, NEW h \in Handlers, NEW rest \in Request, Begin(h, rest),
           unused' \subseteq Records,
           NEW known \in BOOLEAN, NEW rows, Call(known, rows), known => rows \in ZoneRows
    PROVE  ZoneTypeOK'
  BY ZoneAssumption DEF Begin, Running, Call, Fault, ZoneTypeOK, ZoneAssumption

\* It goes on with statements on the table, whatever becomes of them.
LEMMA StatementType ==
    ASSUME ZoneTypeOK, NEW h \in Handlers, NEW rows \in ZoneRows, Statement(h, rows),
           NEW rest \in Request \cup {NoRequest}, request' = [request EXCEPT ![h] = rest],
           UNCHANGED <<provider, unused>>
    PROVE  ZoneTypeOK'
  BY ZoneAssumption DEF Statement, Fault, Spoil, Running, ZoneTypeOK, ZoneAssumption

LEMMA ZoneInitType == ZoneInit => ZoneTypeOK
  BY ZoneAssumption DEF ZoneInit, ZoneTypeOK, InitialRows, ZoneRows, Row,
                        ZoneAssumption

LEMMA ZoneStepType == ZoneTypeOK /\ ZoneStep => ZoneTypeOK'
<1> SUFFICES ASSUME ZoneTypeOK, ZoneStep PROVE ZoneTypeOK'
  OBVIOUS
<1>0. provider \in ZoneRows /\ local \in ZoneRows /\ unused \subseteq Records
  BY DEF ZoneTypeOK
<1>1. \A r \in Records, row \in Row \cup {NoRow} :
          /\ [kind |-> "write", id |-> r, row |-> row] \in Request
          /\ [provider EXCEPT ![r] = row] \in ZoneRows
          /\ [local EXCEPT ![r] = row] \in ZoneRows
  BY <1>0 DEF Request, WriteRequest, ZoneRows
<1>2. \A v \in Values : [value |-> v, on |-> TRUE] \in Row
  BY DEF Row
<1>3. ASSUME NEW h \in Handlers, NEW r \in Records, NEW v \in Values,
             RecordCreate(h, r, v)
      PROVE  ZoneTypeOK'
  BY <1>0, <1>1, <1>2, <1>3, BeginType DEF RecordCreate
<1>4. ASSUME NEW h \in Handlers, NEW r \in Records, NEW v \in Values,
             RecordUpdate(h, r, v)
      PROVE  ZoneTypeOK'
  BY <1>0, <1>1, <1>2, <1>4, BeginType, RowsType DEF RecordUpdate
<1>5. ASSUME NEW h \in Handlers, NEW r \in Records, NEW b \in BOOLEAN,
             RecordSetStatus(h, r, b)
      PROVE  ZoneTypeOK'
  <2>1. [kind |-> "status", id |-> r, on |-> b] \in Request
    BY DEF Request, StatusRequest
  <2> QED
    BY <1>0, <1>5, <2>1, BeginType, RowsType DEF RecordSetStatus
<1>6. ASSUME NEW h \in Handlers, NEW r \in Records, RecordDelete(h, r)
      PROVE  ZoneTypeOK'
  BY <1>0, <1>1, <1>6, BeginType DEF RecordDelete
<1>7. ASSUME NEW h \in Handlers, SyncList(h)
      PROVE  ZoneTypeOK'
  BY <1>7 DEF SyncList, Begin, Running, Request, SyncRequest, ZoneTypeOK
<1>8. ASSUME NEW h \in Handlers, Syncing(h)
      PROVE  /\ [request[h] EXCEPT !.cleared = TRUE] \in Request
             /\ \A r \in Records : /\ [request[h] EXCEPT !.todo = @ \ {r}] \in Request
                                   /\ request[h].rows[r] \in Row \cup {NoRow}
  BY <1>8 DEF Syncing, SyncRequest, Request, ZoneRows
<1>9. ASSUME NEW h \in Handlers, SyncClear(h)
      PROVE  ZoneTypeOK'
  <2>1. [r \in Records |-> NoRow] \in ZoneRows
    BY DEF ZoneRows
  <2>2. request' = [request EXCEPT ![h] = [request[h] EXCEPT !.cleared = TRUE]]
    BY <1>9 DEF SyncClear
  <2> QED
    BY <1>8, <1>9, <2>1, <2>2, StatementType DEF SyncClear
<1>10. ASSUME NEW h \in Handlers, NEW r \in Records, SyncWrite(h, r)
       PROVE  ZoneTypeOK'
  <2>1. request' = [request EXCEPT ![h] = [request[h] EXCEPT !.todo = @ \ {r}]]
    BY <1>10 DEF SyncWrite
  <2> QED
    BY <1>1, <1>8, <1>10, <2>1, StatementType DEF SyncWrite
<1>11. ASSUME NEW h \in Handlers, SyncEnd(h)
       PROVE  ZoneTypeOK'
  BY <1>11 DEF SyncEnd, End, ZoneTypeOK
<1>12. ASSUME NEW h \in Handlers, WriteLocal(h)
       PROVE  ZoneTypeOK'
  BY <1>1, <1>12, StatementType DEF WriteLocal, WriteRequest, End
<1>13. ASSUME NEW h \in Handlers, SetLocalStatus(h)
       PROVE  ZoneTypeOK'
  <2> DEFINE q == request[h]
             rows == IF local[q.id] = NoRow THEN local
                     ELSE [local EXCEPT ![q.id].on = q.on]
  <2>1. /\ q \in StatusRequest /\ Statement(h, rows) /\ UNCHANGED <<provider, unused>>
        /\ request' = [request EXCEPT ![h] = NoRequest]
    BY <1>13 DEF SetLocalStatus, End
  <2>2. rows \in ZoneRows
    BY <1>0, <2>1 DEF StatusRequest, ZoneRows, Row
  <2> HIDE DEF rows, q
  <2> QED
    BY <2>1, <2>2, StatementType
<1>14. ASSUME NEW h \in Handlers, NEW r \in Records, NEW s \in Records,
              NEW v \in Values, RecordCreateUnanswered(h, r, s, v)
       PROVE  ZoneTypeOK'
  <2> DEFINE row == [value |-> v, on |-> TRUE]
             rest == [kind |-> "write", id |-> s, row |-> row]
  <2>1. rest \in Request /\ [provider EXCEPT ![r] = row] \in ZoneRows
    BY <1>1, <1>2
  <2>2. /\ provider' \in ZoneRows /\ Begin(h, rest) /\ Fault
        /\ unused' = unused \ {r, s}
    BY <1>14, <2>1 DEF RecordCreateUnanswered
  <2> HIDE DEF rest
  <2> QED
    BY <1>0, <2>1, <2>2, ZoneAssumption
    DEF Begin, Running, Fault, ZoneTypeOK, ZoneAssumption
<1> QED
  BY <1>3, <1>4, <1>5, <1>6, <1>7, <1>9, <1>10, <1>11, <1>12, <1>13, <1>14 DEF ZoneStep

LEMMA ZoneRestartType == ZoneTypeOK /\ ZoneRestart => ZoneTypeOK'
  BY ZoneAssumption DEF ZoneRestart, Fault, ZoneTypeOK, ZoneAssumption

-----------------------------------------------------------------------------
(* The scheduled tasks.                                                    *)

LEMMA InitType == Init => TypeOK
<1> SUFFICES ASSUME Init PROVE TypeOK
  OBVIOUS
<1>1. ZoneTypeOK
  BY ZoneInitType DEF Init
<1>2. now \in 0 .. MaxTime
  BY ScheduleAssumption DEF Init, ScheduleAssumption
<1>3. applied \in [Tasks -> 0 .. 2]
  BY DEF Init
<1> QED
  BY <1>1, <1>2, <1>3 DEF Init, TypeOK, PCs

LEMMA ZoneTypeUnchanged == ZoneTypeOK /\ UNCHANGED zoneVars => ZoneTypeOK'
  BY DEF ZoneTypeOK, zoneVars

\* A step that writes nothing of the zone but the count of faults.
LEMMA FaultType ==
    ASSUME ZoneTypeOK, Fault \/ UNCHANGED faults,
           UNCHANGED <<provider, local, unused, request, stale>>
    PROVE  ZoneTypeOK'
  BY ZoneAssumption DEF Fault, ZoneTypeOK, ZoneAssumption

\* What a task makes of the provider's rows and of the row it read.
LEMMA ChangedType ==
    ASSUME NEW rows \in ZoneRows, NEW q \in Plan, NEW old \in Row,
           rows[q.record] # NoRow \/ Skipped(q), ~Malformed(q)
    PROVE  Changed(rows, q) \in ZoneRows /\ ChangedRow(q, old) \in Row \cup {NoRow}
<1>1. q.record \in Records /\ (q.action = "modify" => q.value \in Values)
  BY DEF Plan, Malformed
<1>2. CASE q.action = "modify"
  BY <1>1, <1>2, RowsType DEF Changed, ChangedRow, Row, Skipped
<1>3. CASE q.action = "delete"
  BY <1>1, <1>3 DEF Changed, ChangedRow, ZoneRows
<1>4. CASE q.action \notin {"modify", "delete"}
  <2>1. (q.action = "enable") \in BOOLEAN
    OBVIOUS
  <2>2. Changed(rows, q) = WithStatus(rows, q.record, q.action = "enable")
        /\ ChangedRow(q, old) = [old EXCEPT !.on = (q.action = "enable")]
    BY <1>4 DEF Changed, ChangedRow
  <2>3. Changed(rows, q) \in ZoneRows
    <3>1. CASE rows[q.record] # NoRow
      BY <1>1, <2>1, <2>2, <3>1, RowsType
    <3>2. CASE ~SupportsStatus
      BY <2>2, <3>2 DEF WithStatus
    <3> QED
      BY <3>1, <3>2 DEF Skipped
  <2>4. ChangedRow(q, old) \in Row
    BY <2>1, <2>2 DEF Row
  <2> QED
    BY <2>3, <2>4
<1> QED
  BY <1>2, <1>3, <1>4

LEMMA ExecuteType == TypeOK /\ Execute => TypeOK'
<1> SUFFICES ASSUME TypeOK, Execute PROVE TypeOK'
  OBVIOUS
<1> USE ScheduleAssumption
<1>1. pc # "idle" => job \in Job /\ job.plan \in Plan /\ Record \in Records
  BY DEF TypeOK, Job, Plan, Record, ScheduleAssumption
<1>2. CASE Resolve
  <2>1. local[Record] \in Row
    BY <1>1, <1>2 DEF Resolve, TypeOK, ZoneTypeOK, ZoneRows
  <2> QED
    BY <1>2, <2>1, ZoneTypeUnchanged DEF Resolve, TypeOK, PCs
<1>3. CASE ResolveFails \/ ApplyFails \/ WriteRowFails
  <2>1. ZoneTypeOK'
    BY <1>3, FaultType DEF ResolveFails, ApplyFails, WriteRowFails, TypeOK
  <2> QED
    BY <1>3, <2>1 DEF ResolveFails, ApplyFails, WriteRowFails, TypeOK, PCs
<1>4. CASE Apply
  <2>1. Changed(provider, job.plan) \in ZoneRows
    BY <1>1, <1>4, ChangedType DEF Apply, Accepted, Record, TypeOK, ZoneTypeOK
  <2>2. faults' \in 0 .. MaxFaults
    BY <1>4, ZoneAssumption DEF Apply, Fault, TypeOK, ZoneTypeOK, ZoneAssumption
  <2>3. ZoneTypeOK'
    BY <1>4, <2>1, <2>2 DEF Apply, Spoil, Running, TypeOK, ZoneTypeOK
  <2>4. applied' \in [Tasks -> 0 .. 2]
    <3>1. Twice(applied[job.task]) \in 0 .. 2
      <4>1. applied[job.task] \in 0 .. 2
        BY <1>1, <1>4 DEF Apply, Job, TypeOK
      <4> QED
        BY <4>1 DEF Twice
    <3> QED
      BY <1>4, <3>1 DEF Apply, TypeOK
  <2> QED
    BY <1>1, <1>4, <2>3, <2>4 DEF Apply, Malformed, Plan, TypeOK, PCs
<1>5. CASE WriteRow
  <2> DEFINE new == ChangedRow(job.plan, found)
  <2>1. new \in Row \cup {NoRow}
    <3>1. job.plan.action = "modify" => job.plan.value \in Values
      BY <1>5 DEF WriteRow, TypeOK
    <3>2. found \in Row
      BY <1>5 DEF WriteRow, TypeOK
    <3>3. CASE job.plan.action = "modify"
      BY <3>1, <3>2, <3>3 DEF ChangedRow, Row
    <3>4. CASE job.plan.action = "delete"
      BY <3>4 DEF ChangedRow
    <3>5. CASE job.plan.action \notin {"modify", "delete"}
      <4>1. new = [found EXCEPT !.on = (job.plan.action = "enable")]
        BY <3>5 DEF ChangedRow
      <4> QED
        BY <3>2, <4>1 DEF Row
    <3> QED
      BY <3>3, <3>4, <3>5
  <2>2. local' = [local EXCEPT ![Record] = new] /\ Record \in Records
    BY <1>1, <1>5 DEF WriteRow
  <2>3. ZoneTypeOK'
    BY <1>5, <2>1, <2>2 DEF WriteRow, Spoil, Running, TypeOK, ZoneTypeOK, ZoneRows
  <2> QED
    BY <1>5, <2>3 DEF WriteRow, TypeOK, PCs
<1>6. CASE Mark
  <2>1. tasks' \in [Tasks -> TaskRow \cup {NoTask, Deleted}]
    BY <1>1, <1>6 DEF Mark, Pending, Exists, TaskRow, Job, TypeOK
  <2>2. ZoneTypeOK'
    BY <1>6, ZoneTypeUnchanged DEF Mark, TypeOK
  <2> QED
    BY <1>6, <2>1, <2>2 DEF Mark, Finish, TypeOK, PCs
<1>7. CASE MarkFails
  <2>1. ZoneTypeOK'
    BY <1>7, FaultType DEF MarkFails, TypeOK
  <2>2. job.task \in Tasks
    BY <1>1, <1>7 DEF MarkFails, Job
  <2> QED
    BY <1>7, <2>1, <2>2 DEF MarkFails, Finish, TypeOK, PCs
<1> QED
  BY <1>2, <1>3, <1>4, <1>5, <1>6, <1>7 DEF Execute

LEMMA NextType == TypeOK /\ [Next]_vars => TypeOK'
<1> SUFFICES ASSUME TypeOK, [Next]_vars PROVE TypeOK'
  OBVIOUS
<1> USE ScheduleAssumption
<1>1. CASE WorkerTick
  <2>1. \A t \in Listed : [task |-> t, plan |-> tasks[t].plan] \in Job
    BY DEF Listed, Due, Pending, Exists, TaskRow, Job
  <2> QED
    BY <1>1, <2>1, ZoneTypeUnchanged DEF WorkerTick, TypeOK
<1>2. CASE WorkerNext
  BY <1>2, ZoneTypeUnchanged DEF WorkerNext, TypeOK, PCs
<1>3. CASE Execute
  BY <1>3, ExecuteType
<1>4. ASSUME NEW t \in Tasks, DeleteTask(t) PROVE TypeOK'
  BY <1>4, ZoneTypeUnchanged DEF DeleteTask, workerVars, TypeOK
<1>5. ASSUME NEW t \in Tasks, NEW q \in Plans, CreateTask(t, q) PROVE TypeOK'
  <2>1. [plan |-> q, status |-> "pending"] \in TaskRow
    BY DEF TaskRow
  <2> QED
    BY <1>5, <2>1, ZoneTypeUnchanged DEF CreateTask, workerVars, TypeOK
<1>6. CASE Tick
  BY <1>6, ZoneTypeUnchanged DEF Tick, workerVars, TypeOK, ScheduleAssumption
<1>7. CASE Handle
  BY <1>7, ZoneStepType DEF Handle, workerVars, TypeOK
<1>8. CASE Restart
  BY <1>8, ZoneRestartType DEF Restart, TypeOK, PCs
<1>9. CASE UNCHANGED vars
  BY <1>9, ZoneTypeUnchanged DEF vars, scheduledVars, workerVars, TypeOK
<1> QED
  BY <1>1, <1>2, <1>3, <1>4, <1>5, <1>6, <1>7, <1>8, <1>9 DEF Next

\* The tables and the worker keep their types, and the worker writes a row
\* only after a change the provider could carry out.
THEOREM TypeCorrect == Spec => []TypeOK
  BY InitType, NextType, PTL DEF Spec

-----------------------------------------------------------------------------
(* Tasks are executed once and their results are true.                     *)

Ledger == Bookkeeping /\ AppliedOnce /\ OutcomeTold

LEMMA InitLedger == Init => Ledger
  BY ScheduleAssumption
  DEF Init, Ledger, Bookkeeping, AppliedOnce, OutcomeTold, Unfinished, Pending, Exists,
      ScheduleAssumption

\* A step that neither runs nor changes a task.
LEMMA QuietLedger ==
    ASSUME TypeOK, Ledger, Fault \/ UNCHANGED faults, UNCHANGED <<tasks, applied>>,
           unmarked \subseteq unmarked', unmarked' # {} => unmarked # {} \/ Fault,
           \/ UNCHANGED <<queue, pc, job>>
           \/ /\ queue' = {} /\ pc' = "idle"
              /\ pc # "idle" => job.task \in unmarked'
    PROVE  Ledger'
<1>1. faults' > 0 \/ faults' = faults
  BY DEF Fault, TypeOK, ZoneTypeOK
<1>2. OutcomeTold' /\ AppliedOnce'
  BY <1>1 DEF Fault, TypeOK, ZoneTypeOK, Ledger, OutcomeTold, AppliedOnce, Exists
<1>3. unmarked' # {} => faults' > 0
  BY <1>1 DEF Fault, TypeOK, ZoneTypeOK, Ledger, Bookkeeping
<1>4. CASE UNCHANGED <<queue, pc, job>>
  BY <1>1, <1>2, <1>3, <1>4
  DEF Fault, TypeOK, ZoneTypeOK, Ledger, Bookkeeping, Unfinished, Pending, Exists
<1>5. CASE queue' = {} /\ pc' = "idle" /\ (pc # "idle" => job.task \in unmarked')
  BY <1>2, <1>3, <1>5 DEF Ledger, Bookkeeping, Pending, Exists
<1> QED
  BY <1>4, <1>5

LEMMA ExecuteLedger == TypeOK /\ Ledger /\ Execute => Ledger'
<1> SUFFICES ASSUME TypeOK, Ledger, Execute PROVE Ledger'
  OBVIOUS
<1>1. pc # "idle" => job.task \in Tasks /\ Unfinished(job.task)
  BY DEF TypeOK, Job, Ledger, Bookkeeping
<1>2. CASE Resolve
  BY <1>2
  DEF Resolve, zoneVars, Ledger, Bookkeeping, AppliedOnce, OutcomeTold, Unfinished,
      Pending, Exists
<1>3. CASE ResolveFails \/ ApplyFails
  <2>1. pc \in {"resolve", "apply"} /\ pc' = "error"
        /\ UNCHANGED <<tasks, queue, job, applied, unmarked>>
        /\ (UNCHANGED faults \/ Fault)
    BY <1>3 DEF ResolveFails, ApplyFails
  <2>2. faults' = 0 => faults = 0
    BY <2>1 DEF Fault, TypeOK, ZoneTypeOK
  <2>3. faults' = 0 => applied[job.task] = 0
    BY <1>1, <2>1, <2>2 DEF Ledger, Bookkeeping, TypeOK
  <2>4. unmarked' # {} => faults' > 0
    BY <2>1 DEF Fault, TypeOK, ZoneTypeOK, Ledger, Bookkeeping
  <2>5. OutcomeTold' /\ AppliedOnce'
    BY <2>1, <2>2 DEF Ledger, OutcomeTold, AppliedOnce, Exists
  <2> QED
    BY <2>1, <2>3, <2>4, <2>5 DEF Ledger, Bookkeeping, Unfinished, Pending, Exists
<1>4. CASE Apply
  <2> DEFINE t == job.task
  <2>1. pc = "apply" /\ t \in Tasks /\ applied[t] \in 0 .. 2
    BY <1>1, <1>4 DEF Apply, TypeOK
  <2>2. /\ applied'[t] > 0 \/ Skipped(job.plan)
        /\ \A u \in Tasks \ {t} : applied'[u] = applied[u]
        /\ applied'[t] > 1 => applied[t] > 0
    BY <1>4, <2>1 DEF Apply, Twice, TypeOK
  <2>3. applied[t] > 0 => t \in unmarked
    BY <2>1 DEF Ledger, Bookkeeping
  <2>4. /\ faults' = 0 => faults = 0 /\ pc' = "local"
        /\ unmarked' # {} => faults' > 0
    BY <1>4 DEF Apply, Fault, TypeOK, ZoneTypeOK, Ledger, Bookkeeping
  <2>5. \A j \in queue : j.task \in Tasks /\ j.task # t
    BY <2>1 DEF Ledger, Bookkeeping, TypeOK, Job
  <2>6. AppliedOnce'
    BY <1>4, <2>2, <2>3 DEF Apply, Ledger, AppliedOnce
  <2>7. OutcomeTold'
    <3>1. ~(Exists(t) /\ tasks[t].status = "error")
      BY <1>1, <2>1, ScheduleAssumption
      DEF Unfinished, Pending, Exists, ScheduleAssumption
    <3> QED
      BY <1>4, <2>1, <2>2, <2>4, <3>1 DEF Apply, Ledger, OutcomeTold, Exists
  <2>8. Bookkeeping'
    <3>1. /\ UNCHANGED <<queue, job, tasks, unmarked>> /\ pc' \in {"local", "error"}
          /\ pc' = "error" => faults' > 0
      BY <1>4 DEF Apply, Fault, TypeOK, ZoneTypeOK
    <3>2. \A u \in Tasks : applied'[u] > 0 => applied[u] > 0 \/ u = t
      BY <2>2
    <3>3. \A u \in Tasks : applied'[u] > 0 /\ Pending(u) => u \in unmarked \/ u = t
      BY <2>1, <3>2 DEF Ledger, Bookkeeping
    <3>4. tasks[t] # NoTask
      BY <1>1, <2>1, ScheduleAssumption
      DEF Unfinished, Pending, Exists, ScheduleAssumption
    <3>5. \A u \in Tasks : tasks[u] = NoTask => applied'[u] = 0
      BY <2>2, <3>4 DEF Ledger, Bookkeeping
    <3>6. \A j \in queue : applied'[j.task] > 0 => j.task \in unmarked
      BY <2>2, <2>5 DEF Ledger, Bookkeeping
    <3> QED
      BY <2>1, <2>2, <2>4, <3>1, <3>3, <3>5, <3>6
      DEF Ledger, Bookkeeping, Unfinished, Pending, Exists
  <2> QED
    BY <2>6, <2>7, <2>8 DEF Ledger
<1>5. CASE WriteRow
  BY <1>5
  DEF WriteRow, Ledger, Bookkeeping, AppliedOnce, OutcomeTold, Unfinished, Pending, Exists
<1>6. CASE WriteRowFails
  <2>1. faults' > 0
    BY <1>6 DEF WriteRowFails, Fault, TypeOK, ZoneTypeOK
  <2> QED
    BY <1>6, <2>1
    DEF WriteRowFails, Ledger, Bookkeeping, AppliedOnce, OutcomeTold, Unfinished,
        Pending, Exists
<1>7. CASE Mark
  <2>0. PICK t \in Tasks : t = job.task
    BY <1>1, <1>7 DEF Mark
  <2>1. /\ pc \in {"done", "error"} /\ pc' = "idle" 
        /\ UNCHANGED <<queue, applied, unmarked, faults>>
    BY <1>7, <2>0 DEF Mark, Finish, zoneVars
  <2>2. \A u \in Tasks \ {t} : tasks'[u] = tasks[u]
    BY <1>7, <2>0 DEF Mark, TypeOK
  <2>3. \/ Pending(t) /\ tasks'[t] = [tasks[t] EXCEPT !.status = pc]
        \/ tasks[t] = Deleted /\ tasks'[t] = Deleted
    BY <1>1, <1>7, <2>0, <2>1 DEF Mark, Unfinished, TypeOK
  <2>4. ~Pending(t)' /\ tasks'[t] # NoTask
    <3>1. CASE Pending(t) /\ tasks'[t] = [tasks[t] EXCEPT !.status = pc]
      <4>1. tasks'[t].status = pc /\ tasks'[t] \in TaskRow
        BY <2>1, <3>1 DEF Pending, Exists, TaskRow
      <4> QED
        BY <2>1, <4>1, ScheduleAssumption DEF Pending, Exists, ScheduleAssumption
    <3>2. CASE tasks'[t] = Deleted
      BY <3>2, ScheduleAssumption DEF Pending, Exists, ScheduleAssumption
    <3> QED
      BY <2>3, <3>1, <3>2
  <2>5. \A j \in queue : j.task \in Tasks /\ j.task # t
    BY <2>0, <2>1 DEF Ledger, Bookkeeping, TypeOK, Job
  <2>6. OutcomeTold'
    <3>1. Exists(t)' => /\ tasks'[t].status = pc
                        /\ tasks'[t].plan = job.plan
      BY <2>0, <2>1, <2>3, ScheduleAssumption
      DEF Ledger, Bookkeeping, Pending, Exists, TaskRow, ScheduleAssumption
    <3> QED
      BY <2>0, <2>1, <2>2, <3>1 DEF Ledger, Bookkeeping, OutcomeTold, Exists
  <2>7. Bookkeeping'
    BY <2>0, <2>1, <2>2, <2>4, <2>5 DEF Ledger, Bookkeeping, Unfinished, Pending, Exists
  <2>8. AppliedOnce'
    BY <2>1 DEF Ledger, AppliedOnce
  <2> QED
    BY <2>6, <2>7, <2>8 DEF Ledger
<1>8. CASE MarkFails
  <2>1. faults' > 0
    BY <1>8 DEF MarkFails, Fault, TypeOK, ZoneTypeOK
  <2> QED
    BY <1>8, <2>1
    DEF MarkFails, Finish, Ledger, Bookkeeping, AppliedOnce, OutcomeTold, Unfinished,
        Pending, Exists
<1> QED
  BY <1>2, <1>3, <1>4, <1>5, <1>6, <1>7, <1>8 DEF Execute

LEMMA NextLedger == TypeOK /\ Ledger /\ [Next]_vars => Ledger'
<1> SUFFICES ASSUME TypeOK, Ledger, [Next]_vars PROVE Ledger'
  OBVIOUS
<1>1. CASE WorkerTick
  <2>1. \A j \in queue' : Pending(j.task) /\ j.task \in Tasks /\ j.plan = tasks[j.task].plan
    BY <1>1 DEF WorkerTick, Listed, Due
  <2>2. \A j, k \in queue' : j.task = k.task => j = k
    BY <1>1 DEF WorkerTick
  <2> QED
    BY <1>1, <2>1, <2>2
    DEF WorkerTick, zoneVars, Ledger, Bookkeeping, AppliedOnce, OutcomeTold, Unfinished,
        Pending, Exists
<1>2. CASE WorkerNext
  BY <1>2
  DEF WorkerNext, zoneVars, Ledger, Bookkeeping, AppliedOnce, OutcomeTold, Unfinished,
      Pending, Exists
<1>3. CASE Execute
  BY <1>3, ExecuteLedger
<1>4. ASSUME NEW t \in Tasks, DeleteTask(t) PROVE Ledger'
  <2>1. /\ tasks'[t] = Deleted /\ \A u \in Tasks \ {t} : tasks'[u] = tasks[u]
        /\ UNCHANGED <<queue, pc, job, applied, unmarked, faults>>
    BY <1>4 DEF DeleteTask, workerVars, zoneVars, TypeOK
  <2>2. pc # "idle" => job.task \in Tasks
    BY DEF TypeOK, Job
  <2>3. \A j \in queue : j.task \in Tasks
    BY DEF TypeOK, Job
  <2> QED
    BY <2>1, <2>2, <2>3, ScheduleAssumption
    DEF Ledger, Bookkeeping, AppliedOnce, OutcomeTold, Unfinished, Pending, Exists,
        ScheduleAssumption
<1>5. ASSUME NEW t \in Tasks, NEW q \in Plans, CreateTask(t, q) PROVE Ledger'
  <2>1. /\ tasks[t] = NoTask /\ \A u \in Tasks \ {t} : tasks'[u] = tasks[u]
        /\ tasks'[t].status = "pending" /\ tasks'[t] # NoTask
        /\ UNCHANGED <<queue, pc, job, applied, unmarked, faults>>
    BY <1>5, ScheduleAssumption
    DEF CreateTask, workerVars, zoneVars, TypeOK, TaskRow, ScheduleAssumption
  <2>2. pc # "idle" => job.task \in Tasks \ {t}
    BY <2>1, ScheduleAssumption
    DEF TypeOK, Job, Ledger, Bookkeeping, Unfinished, Pending, Exists, ScheduleAssumption
  <2>3. \A j \in queue : j.task \in Tasks \ {t}
    BY <2>1, ScheduleAssumption
    DEF TypeOK, Job, Ledger, Bookkeeping, Unfinished, Pending, Exists, ScheduleAssumption
  <2>4. applied[t] = 0
    BY <2>1 DEF Ledger, Bookkeeping
  <2> QED
    BY <2>1, <2>2, <2>3, <2>4
    DEF Ledger, Bookkeeping, AppliedOnce, OutcomeTold, Unfinished, Pending, Exists
<1>6. CASE Tick
  BY <1>6, QuietLedger DEF Tick, workerVars, zoneVars
<1>7. CASE Handle
  <2>1. Fault \/ UNCHANGED faults
    BY <1>7
    DEF Handle, ZoneStep, RecordCreate, RecordCreateUnanswered, RecordUpdate, RecordSetStatus, RecordDelete,
        SyncWrite, SyncList, SyncClear, SyncEnd, WriteLocal, SetLocalStatus, Call,
        Statement
  <2> QED
    BY <1>7, <2>1, QuietLedger DEF Handle, workerVars
<1>8. CASE Restart
  <2>1. pc # "idle" => job.task \in unmarked'
    BY <1>8 DEF Restart, TypeOK, Job
  <2> QED
    BY <1>8, <2>1, QuietLedger DEF Restart, ZoneRestart
<1>9. CASE UNCHANGED vars
  BY <1>9, QuietLedger DEF vars, scheduledVars, workerVars, zoneVars
<1> QED
  BY <1>1, <1>2, <1>3, <1>4, <1>5, <1>6, <1>7, <1>8, <1>9 DEF Next

\* No task changes its record twice unless a result was lost, for every number
\* of tasks, faults and requests.
THEOREM AppliedOnceCorrect == Spec => []AppliedOnce
<1>1. Init => TypeOK /\ Ledger
  BY InitType, InitLedger
<1>2. TypeOK /\ Ledger /\ [Next]_vars => TypeOK' /\ Ledger'
  BY NextType, NextLedger
<1>3. Ledger => AppliedOnce
  BY DEF Ledger
<1> QED
  BY <1>1, <1>2, <1>3, PTL DEF Spec

\* The status a task ends with is what it did.
THEOREM OutcomeCorrect == Spec => []OutcomeTold
<1>1. Init => TypeOK /\ Ledger
  BY InitType, InitLedger
<1>2. TypeOK /\ Ledger /\ [Next]_vars => TypeOK' /\ Ledger'
  BY NextType, NextLedger
<1>3. Ledger => OutcomeTold
  BY DEF Ledger
<1> QED
  BY <1>1, <1>2, <1>3, PTL DEF Spec
-----------------------------------------------------------------------------
\* The worker works on the row it has read, and while a change is at the
\* provider only, it is the one the worker is about to make in the table.
Undisturbed == faults = 0 /\ ~disturbed /\ SupportsStatus

WorkerAgrees ==
    Undisturbed =>
        /\ pc \in {"apply", "local"} => found = local[Record]
        /\ provider = IF pc = "local"
                      THEN [local EXCEPT ![Record] = ChangedRow(job.plan, found)]
                      ELSE local

\* What happens to an undisturbed row is the same for the provider and for the
\* row the worker has read.
LEMMA ChangedAgree ==
    ASSUME NEW rows \in ZoneRows, NEW q \in Plan, ~Malformed(q), SupportsStatus
    PROVE  Changed(rows, q) = [rows EXCEPT ![q.record] = ChangedRow(q, rows[q.record])]
<1>1. CASE q.action = "modify"
  BY <1>1 DEF Changed, ChangedRow, WithValue
<1>2. CASE q.action = "delete"
  BY <1>2 DEF Changed, ChangedRow
<1>3. CASE q.action \notin {"modify", "delete"}
  BY <1>3 DEF Changed, ChangedRow, WithStatus
<1> QED
  BY <1>1, <1>2, <1>3

LEMMA FaultDisturbs ==
    ASSUME TypeOK, Fault
    PROVE  ~Undisturbed'
  BY DEF TypeOK, ZoneTypeOK, Fault, Undisturbed

\* A step that leaves both tables, the worker and the count of faults alone.
LEMMA QuietAgrees ==
    ASSUME WorkerAgrees,
           UNCHANGED <<provider, local, faults, disturbed, pc, job, found>>
    PROVE  WorkerAgrees'
  BY DEF WorkerAgrees, Undisturbed, Record

LEMMA ExecuteAgrees == TypeOK /\ WorkerAgrees /\ Execute => WorkerAgrees'
<1> SUFFICES ASSUME TypeOK, WorkerAgrees, Execute, Undisturbed' PROVE WorkerAgrees'
  BY DEF WorkerAgrees
<1>1. ~Fault
  BY FaultDisturbs
<1>2. pc # "idle" => job.plan \in Plan /\ Record \in Records
  BY ScheduleAssumption DEF TypeOK, Job, Plan, Record, ScheduleAssumption
<1>3. CASE Resolve
  BY <1>3 DEF Resolve, zoneVars, WorkerAgrees, Undisturbed, Record
<1>4. CASE ResolveFails
  BY <1>1, <1>4 DEF ResolveFails, WorkerAgrees, Undisturbed, Record
<1>5. CASE Apply
  <2>1. /\ pc = "apply" /\ pc' = "local" /\ UNCHANGED <<local, faults, disturbed, job, found>>
        /\ provider' = Changed(provider, job.plan) /\ ~Malformed(job.plan)
    BY <1>1, <1>5 DEF Apply
  <2>2. provider = local /\ found = local[Record] /\ SupportsStatus
    BY <2>1 DEF WorkerAgrees, Undisturbed
  <2>3. Changed(local, job.plan)
            = [local EXCEPT ![Record] = ChangedRow(job.plan, local[Record])]
    BY <1>2, <2>1, <2>2, ChangedAgree DEF TypeOK, ZoneTypeOK, Record
  <2> QED
    BY <2>1, <2>2, <2>3 DEF WorkerAgrees, Record
<1>6. CASE ApplyFails
  BY <1>1, <1>6 DEF ApplyFails, WorkerAgrees, Undisturbed, Record
<1>7. CASE WriteRow
  <2>1. provider = [local EXCEPT ![Record] = ChangedRow(job.plan, found)]
    BY <1>7 DEF WriteRow, WorkerAgrees, Undisturbed
  <2> QED
    BY <1>7, <2>1 DEF WriteRow, WorkerAgrees
<1>8. CASE WriteRowFails
  BY <1>1, <1>8 DEF WriteRowFails
<1>9. CASE Mark
  BY <1>9 DEF Mark, Finish, zoneVars, WorkerAgrees, Undisturbed
<1>10. CASE MarkFails
  BY <1>1, <1>10 DEF MarkFails
<1> QED
  BY <1>3, <1>4, <1>5, <1>6, <1>7, <1>8, <1>9, <1>10 DEF Execute

LEMMA NextAgrees == TypeOK /\ WorkerAgrees /\ [Next]_vars => WorkerAgrees'
<1> SUFFICES ASSUME TypeOK, WorkerAgrees, [Next]_vars PROVE WorkerAgrees'
  OBVIOUS
<1>1. CASE WorkerTick
  BY <1>1, QuietAgrees DEF WorkerTick, zoneVars
<1>2. CASE WorkerNext
  BY <1>2 DEF WorkerNext, zoneVars, WorkerAgrees, Undisturbed
<1>3. CASE Execute
  BY <1>3, ExecuteAgrees
<1>4. ASSUME NEW t \in Tasks, DeleteTask(t) \/ \E q \in Plans : CreateTask(t, q)
      PROVE  WorkerAgrees'
  BY <1>4, QuietAgrees DEF DeleteTask, CreateTask, workerVars, zoneVars
<1>5. CASE Tick
  BY <1>5, QuietAgrees DEF Tick, workerVars, zoneVars
<1>6. CASE Handle
  BY <1>6 DEF Handle, WorkerAgrees, Undisturbed
<1>7. CASE Restart
  BY <1>7, FaultDisturbs DEF Restart, ZoneRestart, WorkerAgrees
<1>8. CASE UNCHANGED vars
  BY <1>8, QuietAgrees DEF vars, scheduledVars, workerVars, zoneVars
<1> QED
  BY <1>1, <1>2, <1>3, <1>4, <1>5, <1>6, <1>7, <1>8 DEF Next

\* Undisturbed, table and provider differ only on the record the worker has
\* changed at the provider and not yet in the table.
THEOREM RowsAgreeCorrect == Spec => []RowsAgree
<1>1. Init => TypeOK /\ WorkerAgrees
  BY InitType DEF Init, ZoneInit, WorkerAgrees
<1>2. TypeOK /\ WorkerAgrees /\ [Next]_vars => TypeOK' /\ WorkerAgrees'
  BY NextType, NextAgrees
<1>3. TypeOK /\ WorkerAgrees => RowsAgree
  BY DEF WorkerAgrees, Undisturbed, RowsAgree, TypeOK, ZoneTypeOK, ZoneRows
<1> QED
  BY <1>1, <1>2, <1>3, PTL DEF Spec
=============================================================================
