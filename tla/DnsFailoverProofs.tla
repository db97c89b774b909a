-------------------------- MODULE DnsFailoverProofs --------------------------
(* Theorems about a zone and its failover tasks, for every set of tasks,    *)
(* settings, records, requests and every bound.                             *)
EXTENDS DnsFailover, TLAPS

-----------------------------------------------------------------------------
(* The handlers of the zone.                                               *)

\* The rows a provider call may write are rows.
LEMMA RowsType ==
    ASSUME NEW rows \in ZoneRows, NEW r \in Records, rows[r] # NoRow
    PROVE  /\ \A v \in Values : WithValue(rows, r, v) \in ZoneRows
           /\ \A b \in BOOLEAN : WithStatus(rows, r, b) \in ZoneRows
  BY DEF WithValue, WithStatus, ZoneRows, Row

\* A handler begins with a call to the provider, whatever becomes of the call.
LEMMA BeginType ==
    ASSUME ZoneTypeOK, NEW h \in Handlers, NEW rest \in Request, Begin(h, rest),
           unused' \subseteq Records,
           NEW known \in BOOLEAN, NEW rows, Call(known, rows), known => rows \in ZoneRows
    PROVE  ZoneTypeOK'
  BY ZoneAssumption DEF Begin, Running, Call, Fault, ZoneTypeOK, ZoneAssumption

\* It goes on with statements on the table, whatever becomes of them.
LEMMA StatementType ==
    ASSUME ZoneTypeOK, NEW h \in Handlers, NEW rows \in ZoneRows, Statement(h, rows),
           NEW rest \in Request \cup {NoRequest}, request' = [request EXCEPT ![h] = rest],
           UNCHANGED <<provider, unused>>
    PROVE  ZoneTypeOK'
  BY ZoneAssumption DEF Statement, Fault, Spoil, Running, ZoneTypeOK, ZoneAssumption

LEMMA ZoneInitType == ZoneInit => ZoneTypeOK
  BY ZoneAssumption DEF ZoneInit, ZoneTypeOK, InitialRows, ZoneRows, Row,
                        ZoneAssumption

LEMMA ZoneStepType == ZoneTypeOK /\ ZoneStep => ZoneTypeOK'
<1> SUFFICES ASSUME ZoneTypeOK, ZoneStep PROVE ZoneTypeOK'
  OBVIOUS
<1>0. provider \in ZoneRows /\ local \in ZoneRows /\ unused \subseteq Records
  BY DEF ZoneTypeOK
<1>1. \A r \in Records, row \in Row \cup {NoRow} :
          /\ [kind |-> "write", id |-> r, row |-> row] \in Request
          /\ [provider EXCEPT ![r] = row] \in ZoneRows
          /\ [local EXCEPT ![r] = row] \in ZoneRows
  BY <1>0 DEF Request, WriteRequest, ZoneRows
<1>2. \A v \in Values : [value |-> v, on |-> TRUE] \in Row
  BY DEF Row
<1>3. ASSUME NEW h \in Handlers, NEW r \in Records, NEW v \in Values,
             RecordCreate(h, r, v)
      PROVE  ZoneTypeOK'
  BY <1>0, <1>1, <1>2, <1>3, BeginType DEF RecordCreate
<1>4. ASSUME NEW h \in Handlers, NEW r \in Records, NEW v \in Values,
             RecordUpdate(h, r, v)
      PROVE  ZoneTypeOK'
  BY <1>0, <1>1, <1>2, <1>4, BeginType, RowsType DEF RecordUpdate
<1>5. ASSUME NEW h \in Handlers, NEW r \in Records, NEW b \in BOOLEAN,
             RecordSetStatus(h, r, b)
      PROVE  ZoneTypeOK'
  <2>1. [kind |-> "status", id |-> r, on |-> b] \in Request
    BY DEF Request, StatusRequest
  <2> QED
    BY <1>0, <1>5, <2>1, BeginType, RowsType DEF RecordSetStatus
<1>6. ASSUME NEW h \in Handlers, NEW r \in Records, RecordDelete(h, r)
      PROVE  ZoneTypeOK'
  BY <1>0, <1>1, <1>6, BeginType DEF RecordDelete
<1>7. ASSUME NEW h \in Handlers, SyncList(h)
      PROVE  ZoneTypeOK'
  BY <1>7 DEF SyncList, Begin, Running, Request, SyncRequest, ZoneTypeOK
<1>8. ASSUME NEW h \in Handlers, Syncing(h)
      PROVE  /\ [request[h] EXCEPT !.cleared = TRUE] \in Request
             /\ \A r \in Records : /\ [request[h] EXCEPT !.todo = @ \ {r}] \in Request
                                   /\ request[h].rows[r] \in Row \cup {NoRow}
  BY <1>8 DEF Syncing, SyncRequest, Request, ZoneRows
<1>9. ASSUME NEW h \in Handlers, SyncClear(h)
      PROVE  ZoneTypeOK'
  <2>1. [r \in Records |-> NoRow] \in ZoneRows
    BY DEF ZoneRows
  <2>2. request' = [request EXCEPT ![h] = [request[h] EXCEPT !.cleared = TRUE]]
    BY <1>9 DEF SyncClear
  <2> QED
    BY <1>8, <1>9, <2>1, <2>2, StatementType DEF SyncClear
<1>10. ASSUME NEW h \in Handlers, NEW r \in Records, SyncWrite(h, r)
       PROVE  ZoneTypeOK'
  <2>1. request' = [request EXCEPT ![h] = [request[h] EXCEPT !.todo = @ \ {r}]]
    BY <1>10 DEF SyncWrite
  <2> QED
    BY <1>1, <1>8, <1>10, <2>1, StatementType DEF SyncWrite
<1>11. ASSUME NEW h \in Handlers, SyncEnd(h)
       PROVE  ZoneTypeOK'
  BY <1>11 DEF SyncEnd, End, ZoneTypeOK
<1>12. ASSUME NEW h \in Handlers, WriteLocal(h)
       PROVE  ZoneTypeOK'
  BY <1>1, <1>12, StatementType DEF WriteLocal, WriteRequest, End
<1>13. ASSUME NEW h \in Handlers, SetLocalStatus(h)
       PROVE  ZoneTypeOK'
  <2> DEFINE q == request[h]
             rows == IF local[q.id] = NoRow THEN local
                     ELSE [local EXCEPT ![q.id].on = q.on]
  <2>1. /\ q \in StatusRequest /\ Statement(h, rows) /\ UNCHANGED <<provider, unused>>
        /\ request' = [request EXCEPT ![h] = NoRequest]
    BY <1>13 DEF SetLocalStatus, End
  <2>2. rows \in ZoneRows
    BY <1>0, <2>1 DEF StatusRequest, ZoneRows, Row
  <2> HIDE DEF rows, q
  <2> QED
    BY <2>1, <2>2, StatementType
<1>14. ASSUME NEW h \in Handlers, NEW r \in Records, NEW s \in Records,
              NEW v \in Values, RecordCreateUnanswered(h, r, s, v)
       PROVE  ZoneTypeOK'
  <2> DEFINE row == [value |-> v, on |-> TRUE]
             rest == [kind |-> "write", id |-> s, row |-> row]
  <2>1. rest \in Request /\ [provider EXCEPT ![r] = row] \in ZoneRows
    BY <1>1, <1>2
  <2>2. /\ provider' \in ZoneRows /\ Begin(h, rest) /\ Fault
        /\ unused' = unused \ {r, s}
    BY <1>14, <2>1 DEF RecordCreateUnanswered
  <2> HIDE DEF rest
  <2> QED
    BY <1>0, <2>1, <2>2, ZoneAssumption
    DEF Begin, Running, Fault, ZoneTypeOK, ZoneAssumption
<1> QED
  BY <1>3, <1>4, <1>5, <1>6, <1>7, <1>9, <1>10, <1>11, <1>12, <1>13, <1>14 DEF ZoneStep

LEMMA ZoneRestartType == ZoneTypeOK /\ ZoneRestart => ZoneTypeOK'
  BY ZoneAssumption DEF ZoneRestart, Fault, ZoneTypeOK, ZoneAssumption

\* Table, provider and unfinished requests keep their types whatever order the
\* handlers' steps and the failed calls come in.
THEOREM ZoneTypeCorrect == ZoneSpec => []ZoneTypeOK
<1>1. ZoneTypeOK /\ [ZoneNext]_zoneVars => ZoneTypeOK'
  <2>1. ZoneTypeOK /\ UNCHANGED zoneVars => ZoneTypeOK'
    BY DEF ZoneTypeOK, zoneVars
  <2> QED
    BY <2>1, ZoneStepType, ZoneRestartType DEF ZoneNext
<1> QED
  BY <1>1, ZoneInitType, PTL DEF ZoneSpec

-----------------------------------------------------------------------------
(* An undisturbed sync is faithful.                                        *)

Faithful == SyncUndisturbed /\ SyncFaithful

LEMMA ZoneInitFaithful == ZoneInit => Faithful
  BY NoRequestAssumption
  DEF ZoneInit, Faithful, SyncUndisturbed, SyncFaithful, Syncing, Request

\* A step that spoils every running sync says nothing about any of them.
LEMMA SpoiledFaithful ==
    ASSUME ZoneTypeOK,
           \A h \in Handlers : Syncing(h)' => request[h] # NoRequest,
           stale \cup Running \subseteq stale'
    PROVE  Faithful'
  BY DEF Running, Idle, Faithful, SyncUndisturbed, SyncFaithful

\* So does one that starts a request which is not a sync.
LEMMA BeginFaithful ==
    ASSUME ZoneTypeOK, NEW h \in Handlers, NEW rest, rest \notin SyncRequest,
           Begin(h, rest)
    PROVE  Faithful'
<1>1. request' = [request EXCEPT ![h] = rest] /\ Idle(h)
  BY DEF Begin
<1>2. \A k \in Handlers : Syncing(k)' => k # h /\ request'[k] = request[k]
  BY <1>1 DEF Syncing, ZoneTypeOK
<1>3. \A k \in Handlers : Syncing(k)' => k \in stale'
  BY <1>2, NoRequestAssumption DEF Begin, Running, Idle, Syncing, Request
<1> QED
  BY <1>3 DEF Faithful, SyncUndisturbed, SyncFaithful

\* The statement of a handler that does not sync spoils every sync.
LEMMA EndFaithful ==
    ASSUME ZoneTypeOK, NEW h \in Handlers, NEW rows, ~Syncing(h),
           Statement(h, rows), End(h)
    PROVE  Faithful'
<1>1. \A k \in Handlers : Syncing(k)' => k # h /\ request'[k] = request[k]
  BY NoRequestAssumption DEF End, Syncing, ZoneTypeOK, Request
<1>2. \A k \in Handlers : Syncing(k)' => k \in stale'
  BY <1>1, NoRequestAssumption DEF Statement, Spoil, Running, Idle, Syncing, Request
<1> QED
  BY <1>2 DEF Faithful, SyncUndisturbed, SyncFaithful

\* The steps of one sync, alone with the zone.
LEMMA SyncFaithfulStep ==
    ASSUME ZoneTypeOK, Faithful, NEW h \in Handlers,
           SyncList(h) \/ SyncClear(h) \/ SyncEnd(h)
                       \/ \E r \in Records : SyncWrite(h, r)
    PROVE  Faithful'
<1> USE NoRequestAssumption
<1>1. CASE SyncList(h)
  <2> DEFINE q == [kind |-> "sync", rows |-> provider, cleared |-> FALSE,
                   todo |-> {r \in Records : provider[r] # NoRow}]
  <2>1. request' = [request EXCEPT ![h] = q] /\ provider' = provider
        /\ stale' = (stale \cup Running) \ {h}
    BY <1>1 DEF SyncList, Begin
  <2>2. request'[h] = q
    BY <2>1 DEF ZoneTypeOK
  <2>3. \A k \in Handlers \ {h} : Syncing(k)' => k \in stale'
    BY <2>1 DEF Running, Idle, Syncing, Request, ZoneTypeOK
  <2> QED
    BY <2>1, <2>2, <2>3 DEF Faithful, SyncUndisturbed, SyncFaithful
<1>2. CASE SyncEnd(h)
  <2>1. \A k \in Handlers : Syncing(k)' => k # h /\ request'[k] = request[k]
    BY <1>2 DEF SyncEnd, End, Syncing, Request, ZoneTypeOK
  <2> QED
    BY <1>2, <2>1 DEF SyncEnd, Faithful, SyncUndisturbed, SyncFaithful, Syncing
<1>3. ASSUME Syncing(h), NEW rows, Statement(h, rows),
             \A k \in Handlers \ {h} : request'[k] = request[k]
      PROVE  /\ \A k \in Handlers \ {h} : Syncing(k)' => k \in stale'
             /\ h \notin stale' => h \notin stale /\ local' = rows
  BY <1>3 DEF Statement, Spoil, Running, Idle, Syncing, Request
<1>4. CASE SyncClear(h)
  <2> DEFINE rows == [r \in Records |-> NoRow]
  <2>1. Syncing(h) /\ Statement(h, rows) /\ provider' = provider
        /\ request' = [request EXCEPT ![h].cleared = TRUE] /\ ~request[h].cleared
    BY <1>4 DEF SyncClear
  <2>2. /\ request'[h].rows = request[h].rows /\ request'[h].todo = request[h].todo
        /\ request'[h].cleared
        /\ \A k \in Handlers \ {h} : request'[k] = request[k]
    BY <2>1 DEF ZoneTypeOK, Syncing, SyncRequest
  <2>3. /\ \A k \in Handlers \ {h} : Syncing(k)' => k \in stale'
        /\ h \notin stale' => h \notin stale /\ local' = rows
    BY <1>3, <2>1, <2>2
  <2>4. SyncUndisturbed'
    BY <2>1, <2>2, <2>3 DEF Faithful, SyncUndisturbed
  <2>5. SyncFaithful'
    BY <2>1, <2>2, <2>3 DEF Faithful, SyncUndisturbed, SyncFaithful
  <2> QED
    BY <2>4, <2>5 DEF Faithful
<1>5. ASSUME NEW r \in Records, SyncWrite(h, r) PROVE Faithful'
  <2> DEFINE q == request[h]
             rows == [local EXCEPT ![r] = q.rows[r]]
  <2>1. Syncing(h) /\ Statement(h, rows) /\ provider' = provider
        /\ request' = [request EXCEPT ![h].todo = @ \ {r}]
        /\ q.cleared /\ r \in q.todo
    BY <1>5 DEF SyncWrite
  <2>2. /\ request'[h].rows = q.rows /\ request'[h].todo = q.todo \ {r}
        /\ request'[h].cleared
        /\ \A k \in Handlers \ {h} : request'[k] = request[k]
    BY <2>1 DEF ZoneTypeOK, Syncing, SyncRequest
  <2>3. /\ \A k \in Handlers \ {h} : Syncing(k)' => k \in stale'
        /\ h \notin stale' => h \notin stale /\ local' = rows
    BY <1>3, <2>1, <2>2
  <2>4. SyncUndisturbed'
    BY <2>1, <2>2, <2>3 DEF Faithful, SyncUndisturbed
  <2>5. h \notin stale' =>
          local' = [x \in Records |-> IF x \in q.todo \ {r} THEN NoRow ELSE provider[x]]
    <3> SUFFICES ASSUME h \notin stale'
                 PROVE  local' = [x \in Records |-> IF x \in q.todo \ {r} THEN NoRow
                                                    ELSE provider[x]]
      OBVIOUS
    <3>1. /\ q.rows = provider
          /\ local = [x \in Records |-> IF x \in q.todo THEN NoRow ELSE provider[x]]
      BY <2>1, <2>3 DEF Faithful, SyncUndisturbed, SyncFaithful
    <3>2. local' = [local EXCEPT ![r] = provider[r]]
      BY <2>3, <3>1
    <3> QED
      BY <3>1, <3>2
  <2>6. SyncFaithful'
    BY <2>1, <2>2, <2>3, <2>5 DEF SyncFaithful
  <2> QED
    BY <2>4, <2>6 DEF Faithful
<1> QED
  BY <1>1, <1>2, <1>4, <1>5

LEMMA ZoneStepFaithful == ZoneTypeOK /\ Faithful /\ ZoneStep => Faithful'
<1> SUFFICES ASSUME ZoneTypeOK, Faithful, ZoneStep PROVE Faithful'
  OBVIOUS
<1>1. ASSUME NEW h \in Handlers, NEW r \in Records, NEW v \in Values,
             RecordCreate(h, r, v) \/ RecordUpdate(h, r, v)
      PROVE  Faithful'
  BY <1>1, BeginFaithful DEF RecordCreate, RecordUpdate, SyncRequest
<1>5. ASSUME NEW h \in Handlers, NEW r \in Records, NEW s \in Records,
             NEW v \in Values, RecordCreateUnanswered(h, r, s, v)
      PROVE  Faithful'
  BY <1>5, BeginFaithful DEF RecordCreateUnanswered, SyncRequest
<1>2. ASSUME NEW h \in Handlers, NEW r \in Records, NEW b \in BOOLEAN,
             RecordSetStatus(h, r, b)
      PROVE  Faithful'
  BY <1>2, BeginFaithful DEF RecordSetStatus, SyncRequest
<1>3. ASSUME NEW h \in Handlers, NEW r \in Records, RecordDelete(h, r)
      PROVE  Faithful'
  BY <1>3, BeginFaithful DEF RecordDelete, SyncRequest
<1>4. ASSUME NEW h \in Handlers, WriteLocal(h) \/ SetLocalStatus(h) PROVE Faithful'
  <2>1. ~Syncing(h)
    BY <1>4 DEF WriteLocal, SetLocalStatus, WriteRequest, StatusRequest, SyncRequest,
                Syncing
  <2> QED
    BY <1>4, <2>1, EndFaithful DEF WriteLocal, SetLocalStatus
<1> QED
  BY <1>1, <1>2, <1>3, <1>4, <1>5, SyncFaithfulStep DEF ZoneStep

LEMMA ZoneUnchangedFaithful ==
    Faithful /\ UNCHANGED <<provider, local, request, stale>> => Faithful'
  BY DEF Faithful, SyncUndisturbed, SyncFaithful, Syncing

LEMMA ZoneRestartFaithful == ZoneRestart => Faithful'
  BY NoRequestAssumption
  DEF ZoneRestart, Faithful, SyncUndisturbed, SyncFaithful, Syncing, Request

\* A sync that nothing disturbed leaves in the table exactly what the provider
\* serves, for every number of records, requests and faults.
THEOREM ZoneSyncFaithful == ZoneSpec => []SyncFaithful
<1>1. ZoneTypeOK /\ Faithful /\ [ZoneNext]_zoneVars => ZoneTypeOK' /\ Faithful'
  <2>1. ZoneTypeOK /\ UNCHANGED zoneVars => ZoneTypeOK'
    BY DEF ZoneTypeOK, zoneVars
  <2> QED
    BY <2>1, ZoneStepType, ZoneRestartType, ZoneStepFaithful, ZoneRestartFaithful,
       ZoneUnchangedFaithful
    DEF ZoneNext, zoneVars
<1>2. Faithful => SyncFaithful
  BY DEF Faithful
<1> QED
  BY <1>1, <1>2, ZoneInitType, ZoneInitFaithful, PTL DEF ZoneSpec

-----------------------------------------------------------------------------
(* The failover tasks.                                                     *)

LEMMA ThereIsAWorker == Worker \in Executors /\ Checkers \subseteq Executors
  BY DEF Executors

LEMMA SnapshotType ==
    ASSUME TypeOK, NEW t \in Tasks, Exists(t)
    PROVE  Snapshot(t) \in Job
  BY DEF TypeOK, Exists, Snapshot, TaskRow, Job

LEMMA CountType == \A n \in 0 .. MaxCount : Next1(n) \in 0 .. MaxCount
  BY FailoverAssumption DEF Next1, FailoverAssumption

\* The value an execution switches to is a value.
LEMMA SwitchValue ==
    ASSUME TypeOK, NEW e \in Executors, pc[e] = "apply", Switches(e)
    PROVE  NewValue(e) \in Values
<1>1. job[e].cfg \in ConfigType
  BY FailoverAssumption DEF TypeOK, Job, FailoverAssumption
<1> QED
  BY <1>1 DEF Switches, Recovers, FailsOver, NewValue, ConfigType, TypeOK

LEMMA InitType == Init => TypeOK
<1> SUFFICES ASSUME Init PROVE TypeOK
  OBVIOUS
<1>1. ZoneTypeOK
  BY ZoneInitType DEF Init
<1>2. 0 \in 0 .. MaxEdits /\ 0 \in 0 .. MaxCount
  BY FailoverAssumption DEF FailoverAssumption
<1>3. streak \in [Tasks -> 0 .. MaxCount] /\ edits \in 0 .. MaxEdits
  BY <1>2 DEF Init
<1> QED
  BY <1>1, <1>3 DEF Init, TypeOK, PCs

LEMMA ZoneTypeUnchanged == ZoneTypeOK /\ UNCHANGED zoneVars => ZoneTypeOK'
  BY DEF ZoneTypeOK, zoneVars

\* Taking up a job leaves the executions of the right type.
LEMMA StartType ==
    ASSUME TypeOK, NEW e \in Executors, NEW j \in Job, Start(e, j),
           queue' \subseteq Job
    PROVE  TypeOK'
<1>1. ZoneTypeOK'
  BY ZoneTypeUnchanged DEF Start, TypeOK
<1> QED
  BY <1>1 DEF Start, Goto, TypeOK, PCs, NewValue

\* So does the end of one.
LEMMA FinishType ==
    ASSUME TypeOK, NEW e \in Executors, Finish(e), ZoneTypeOK',
           tasks' \in [Tasks -> TaskRow \cup {NoTask, Deleted}],
           due' \subseteq Tasks, lost' \subseteq Records
    PROVE  TypeOK'
  BY DEF Finish, TypeOK, PCs, NewValue

LEMMA EditType ==
    ASSUME TypeOK, NEW t \in Tasks, NEW row \in TaskRow \cup {Deleted}, Edit(t, row),
           due' \subseteq Tasks
    PROVE  TypeOK'
<1>1. ZoneTypeOK'
  BY ZoneTypeUnchanged DEF Edit, TypeOK
<1>2. edits' \in 0 .. MaxEdits
  BY FailoverAssumption DEF Edit, TypeOK, FailoverAssumption
<1> QED
  BY <1>1, <1>2 DEF Edit, jobVars, TypeOK, NewValue

LEMMA ExecuteType ==
    ASSUME TypeOK, NEW e \in Executors, Execute(e)
    PROVE  TypeOK'
<1> USE FailoverAssumption, ZoneAssumption
<1>1. CASE Probe(e)
  <2>1. ZoneTypeOK'
    BY <1>1, ZoneTypeUnchanged DEF Probe, TypeOK
  <2>2. job[e].task \in Tasks
    BY <1>1 DEF Probe, TypeOK, Job
  <2>3. streak' \in [Tasks -> 0 .. MaxCount]
    <3> DEFINE t == job[e].task
               n == IF t \in up THEN 0 ELSE Next1(streak[t])
    <3>1. streak' = [streak EXCEPT ![t] = n]
      BY <1>1, <2>2 DEF Probe, TypeOK
    <3>2. n \in 0 .. MaxCount
      <4>1. streak[t] \in 0 .. MaxCount
        BY <2>2 DEF TypeOK
      <4>2. Next1(streak[t]) \in 0 .. MaxCount
        BY <4>1, CountType
      <4>3. 0 \in 0 .. MaxCount
        BY DEF FailoverAssumption
      <4> QED
        BY <4>2, <4>3
    <3> QED
      BY <3>1, <3>2 DEF TypeOK
  <2> QED
    BY <1>1, <2>1, <2>3 DEF Probe, Goto, TypeOK, PCs, NewValue
<1>2. CASE Resolve(e)
  <2>1. ZoneTypeOK'
    BY <1>2, ZoneTypeUnchanged DEF Resolve, TypeOK
  <2>2. job[e].cfg \in ConfigType
    BY <1>2 DEF Resolve, TypeOK, Job, FailoverAssumption
  <2>3. \A r \in Selected(job[e].cfg) : r \in Records /\ local[r] # NoRow
    BY <2>2 DEF Selected, First, ConfigType, FailoverAssumption
  <2>4. PICK r \in Selected(job[e].cfg) :
           target' = [target EXCEPT ![e] = [id |-> r, row |-> local[r]]]
    BY <1>2 DEF Resolve
  <2>5. [id |-> r, row |-> local[r]] \in Target
    BY <2>3 DEF Target, TypeOK, ZoneTypeOK, ZoneRows
  <2>6. target' \in [Executors -> Target \cup {NoRow}] /\ target'[e] \in Target
    BY <2>4, <2>5 DEF TypeOK
  <2> QED
    BY <1>2, <2>1, <2>4, <2>6 DEF Resolve, Goto, TypeOK, PCs, NewValue
<1>3. CASE ResolveFails(e)
  <2>1. ZoneTypeOK'
    BY <1>3 DEF ResolveFails, Fault, TypeOK, ZoneTypeOK, ZoneAssumption
  <2> QED
    BY <1>3, <2>1 DEF ResolveFails, Goto, TypeOK, PCs, NewValue
<1>4. CASE Keep(e)
  <2>1. ZoneTypeOK'
    BY <1>4, ZoneTypeUnchanged DEF Keep, TypeOK
  <2> QED
    BY <1>4, <2>1 DEF Keep, Goto, TypeOK, PCs, NewValue
<1>5. ASSUME pc[e] = "apply", Switches(e), provider[target[e].id] # NoRow
      PROVE  Switched(e) \in ZoneRows /\ target[e].id \in Records
  <2>1. target[e].id \in Records
    BY <1>5 DEF TypeOK, Target
  <2> QED
    BY <1>5, <2>1, SwitchValue, RowsType DEF Switched, TypeOK, ZoneTypeOK
<1>6. CASE Switch(e)
  <2>1. ZoneTypeOK'
    BY <1>5, <1>6 DEF Switch, Spoil, Running, TypeOK, ZoneTypeOK
  <2>2. NewValue(e)' = NewValue(e) /\ NewValue(e) \in Values
    BY <1>6, SwitchValue DEF Switch, NewValue
  <2> QED
    BY <1>6, <2>1, <2>2 DEF Switch, Goto, TypeOK, PCs, NewValue
<1>7. CASE SwitchFails(e)
  <2>1. provider' \in ZoneRows /\ lost' \subseteq Records
    BY <1>5, <1>7 DEF SwitchFails, TypeOK, ZoneTypeOK
  <2>2. faults' \in 0 .. MaxFaults
    BY <1>7 DEF SwitchFails, Fault, TypeOK, ZoneTypeOK, ZoneAssumption
  <2>3. ZoneTypeOK'
    BY <1>7, <2>1, <2>2 DEF SwitchFails, Spoil, Running, TypeOK, ZoneTypeOK
  <2> QED
    BY <1>7, <2>1, <2>3 DEF SwitchFails, Goto, TypeOK, PCs, NewValue
<1>8. CASE Upsert(e)
  <2>1. local' \in ZoneRows
    <3>1. target[e] \in Target /\ NewValue(e) \in Values
      BY <1>8 DEF Upsert, TypeOK
    <3>2. [value |-> NewValue(e), on |-> target[e].row.on] \in Row
      BY <3>1 DEF Target, Row
    <3> QED
      BY <1>8, <3>2 DEF Upsert, TypeOK, ZoneTypeOK, ZoneRows
  <2>2. ZoneTypeOK'
    BY <1>8, <2>1 DEF Upsert, Spoil, Running, TypeOK, ZoneTypeOK
  <2> QED
    BY <1>8, <2>2 DEF Upsert, Goto, TypeOK, PCs, NewValue
<1>9. CASE UpsertFails(e)
  <2>1. ZoneTypeOK'
    BY <1>9 DEF UpsertFails, Fault, Spoil, Running, TypeOK, ZoneTypeOK,
                ZoneAssumption
  <2>2. target[e].id \in Records
    BY <1>9 DEF UpsertFails, TypeOK, Target
  <2> QED
    BY <1>9, <2>1, <2>2, FinishType DEF UpsertFails, TypeOK
<1>10. CASE Mark(e)
  <2>1. ZoneTypeOK'
    BY <1>10, ZoneTypeUnchanged DEF Mark, TypeOK
  <2>2. job[e] \in Job
    BY <1>10 DEF Mark, TypeOK
  <2>3. NewCount(e) \in 0 .. MaxCount
    BY <2>2, CountType DEF NewCount, Job, FailoverAssumption
  <2>4. tasks' \in [Tasks -> TaskRow \cup {NoTask, Deleted}]
    BY <1>10, <2>2, <2>3 DEF Mark, Exists, TaskRow, Job, TypeOK
  <2> QED
    BY <1>10, <2>1, <2>4, FinishType DEF Mark, TypeOK
<1>11. CASE MarkFails(e)
  <2>1. ZoneTypeOK'
    BY <1>11 DEF MarkFails, Fault, TypeOK, ZoneTypeOK, ZoneAssumption
  <2> QED
    BY <1>11, <2>1, FinishType DEF MarkFails, TypeOK
<1> QED
  BY <1>1, <1>2, <1>3, <1>4, <1>6, <1>7, <1>8, <1>9, <1>10, <1>11 DEF Execute

LEMMA NextType == TypeOK /\ [Next]_vars => TypeOK'
<1> SUFFICES ASSUME TypeOK, [Next]_vars PROVE TypeOK'
  OBVIOUS
<1> USE FailoverAssumption
<1>1. CASE WorkerTick
  <2>1. ZoneTypeOK'
    BY <1>1, ZoneTypeUnchanged DEF WorkerTick, TypeOK
  <2>2. \A t \in due : Enabled(t) => Snapshot(t) \in Job
    BY SnapshotType DEF Enabled, TypeOK
  <2> QED
    BY <1>1, <2>1, <2>2 DEF WorkerTick, TypeOK, NewValue
<1>2. CASE WorkerNext
  BY <1>2, StartType, ThereIsAWorker DEF WorkerNext, TypeOK
<1>3. ASSUME NEW u \in Checkers, NEW t \in Tasks, CheckNow(u, t) PROVE TypeOK'
  BY <1>3, StartType, SnapshotType, ThereIsAWorker DEF CheckNow, Enabled, TypeOK
<1>4. ASSUME NEW e \in Executors, Execute(e) PROVE TypeOK'
  BY <1>4, ExecuteType
<1>5. CASE Operator
  <2>1. ASSUME NEW t \in Tasks, NEW c \in Configs, CreateTask(t, c) PROVE TypeOK'
    <3>1. [cfg |-> c, count |-> 0] \in TaskRow
      BY DEF TaskRow, FailoverAssumption
    <3> QED
      BY <2>1, <3>1, EditType DEF CreateTask, TypeOK
  <2>2. ASSUME NEW t \in Tasks, NEW c \in Configs, UpdateTask(t, c) PROVE TypeOK'
    <3>1. [cfg |-> c, count |-> tasks[t].count] \in TaskRow
      BY <2>2 DEF UpdateTask, Exists, TaskRow
    <3> QED
      BY <2>2, <3>1, EditType DEF UpdateTask, TypeOK
  <2>3. ASSUME NEW t \in Tasks, DeleteTask(t) PROVE TypeOK'
    BY <2>3, EditType DEF DeleteTask, TypeOK
  <2> QED
    BY <1>5, <2>1, <2>2, <2>3 DEF Operator
<1>6. CASE Environment
  <2>1. ZoneTypeOK'
    BY <1>6, ZoneTypeUnchanged
    DEF Environment, IntervalElapses, TargetChanges, TypeOK
  <2> QED
    BY <1>6, <2>1
    DEF Environment, IntervalElapses, TargetChanges, jobVars, TypeOK, NewValue
<1>7. CASE Handle
  BY <1>7, ZoneStepType DEF Handle, jobVars, TypeOK, NewValue
<1>8. CASE Restart
  <2>1. ZoneTypeOK'
    BY <1>8, ZoneRestartType DEF Restart, TypeOK
  <2> QED
    BY <1>8, <2>1 DEF Restart, TypeOK, PCs, NewValue
<1>9. CASE UNCHANGED vars
  BY <1>9, ZoneTypeUnchanged DEF vars, failoverVars, jobVars, TypeOK, NewValue
<1> QED
  BY <1>1, <1>2, <1>3, <1>4, <1>5, <1>6, <1>7, <1>8, <1>9 DEF Next

\* The tables, the executions and the history keep their types, and a switch
\* in progress always has a value to write (dnsExecuteFailoverTask).
THEOREM TypeCorrect == Spec => []TypeOK
  BY InitType, NextType, PTL DEF Spec

-----------------------------------------------------------------------------
(* The table tracks the provider.                                          *)

Tracks == SwitchInProgress /\ LocalTracksProvider

LEMMA InitTracks == Init => Tracks
  BY ThereIsAWorker, ZoneAssumption
  DEF Init, ZoneInit, InitialRows, Row, Tracks, SwitchInProgress, LocalTracksProvider,
      ZoneAssumption

\* A step that writes neither copy of the zone keeps them in agreement if no
\* execution begins, reaches the switch or leaves the upsert without being
\* recorded as lost.
LEMMA QuietStep ==
    ASSUME Tracks,
           UNCHANGED <<provider, local, shared>>, lost \subseteq lost',
           \A e \in Executors : pc'[e] # "idle" => pc[e] # "idle",
           \A e \in Executors : pc'[e] \in {"apply", "upsert"} =>
               /\ pc[e] = pc'[e]
               /\ target'[e] = target[e] /\ NewValue(e)' = NewValue(e),
           \A e \in Executors : pc[e] = "upsert" =>
               pc'[e] = "upsert" \/ target[e].id \in lost'
    PROVE  Tracks'
<1>1. SwitchInProgress'
  BY DEF Tracks, SwitchInProgress
<1>2. LocalTracksProvider'
  BY DEF Tracks, LocalTracksProvider, Upserting
<1> QED
  BY <1>1, <1>2 DEF Tracks

LEMMA ExecuteTracks ==
    ASSUME TypeOK, Tracks, NEW e \in Executors, Execute(e)
    PROVE  Tracks'
<1>1. CASE Probe(e) \/ ResolveFails(e) \/ Keep(e)
  BY <1>1, QuietStep
  DEF Probe, ResolveFails, Keep, zoneVars, Goto, TypeOK, NewValue
<1>2. CASE UpsertFails(e) \/ Mark(e) \/ MarkFails(e)
  BY <1>2, QuietStep
  DEF UpsertFails, Mark, MarkFails, zoneVars, Finish, TypeOK, NewValue
<1> DEFINE r == target[e].id
<1>3. ASSUME ~shared, pc[e] # "idle"
      PROVE  \A x \in Executors \ {e} : pc[x] = "idle"
  BY <1>3 DEF Tracks, SwitchInProgress
<1>4. CASE Resolve(e)
  <2> SUFFICES ASSUME ~shared PROVE Tracks'
    BY <1>4 DEF Resolve, Tracks, SwitchInProgress, LocalTracksProvider
  <2>1. job[e].cfg \in ConfigType
    BY <1>4, FailoverAssumption DEF Resolve, TypeOK, Job, FailoverAssumption
  <2>2. PICK q \in Selected(job[e].cfg) :
           target' = [target EXCEPT ![e] = [id |-> q, row |-> local[q]]]
    BY <1>4 DEF Resolve
  <2>3. q \in Records /\ local[q] # NoRow
    BY <2>1, FailoverAssumption DEF Selected, First, ConfigType, FailoverAssumption
  <2>4. pc' = [pc EXCEPT ![e] = "apply"] /\ pc[e] = "resolve"
    BY <1>4 DEF Resolve, Goto
  <2>5. target'[e].id = q /\ target'[e].row = local[q]
    BY <2>2 DEF TypeOK
  <2>6. SwitchInProgress'
    BY <1>3, <1>4, <2>3, <2>4, <2>5
    DEF Resolve, zoneVars, TypeOK, Tracks, SwitchInProgress
  <2>7. LocalTracksProvider'
    BY <1>3, <1>4, <2>4
    DEF Resolve, zoneVars, TypeOK, Tracks, LocalTracksProvider, Upserting
  <2> QED
    BY <2>6, <2>7 DEF Tracks
<1>5. ASSUME pc[e] = "apply", Switches(e), provider[r] # NoRow
      PROVE  /\ r \in Records
             /\ Switched(e) = [provider EXCEPT ![r].value = NewValue(e)]
             /\ provider[r] \in Row /\ NewValue(e) \in Values
  BY <1>5, SwitchValue DEF Switched, WithValue, TypeOK, ZoneTypeOK, ZoneRows, Target
<1>6. ASSUME pc[e] = "apply", Switches(e), provider[r] # NoRow,
             provider' = Switched(e)
      PROVE  /\ \A q \in Records \ {r} : provider'[q] = provider[q]
             /\ provider'[r].value = NewValue(e)
             /\ provider'[r].on = provider[r].on
             /\ provider'[r] # NoRow
  BY <1>5, <1>6, ZoneAssumption DEF TypeOK, ZoneTypeOK, ZoneRows, Row, ZoneAssumption
<1>7. CASE Switch(e)
  <2> SUFFICES ASSUME ~shared PROVE Tracks'
    BY <1>7 DEF Switch, Tracks, SwitchInProgress, LocalTracksProvider
  <2>1. pc' = [pc EXCEPT ![e] = "upsert"] /\ pc[e] = "apply"
    BY <1>7 DEF Switch, Goto
  <2>2. NewValue(e)' = NewValue(e) /\ r \in Records
    BY <1>5, <1>7 DEF Switch, NewValue
  <2>3. SwitchInProgress'
    BY <1>3, <1>6, <1>7, <2>1, <2>2 DEF Switch, TypeOK, Tracks, SwitchInProgress
  <2>4. LocalTracksProvider'
    BY <1>3, <1>6, <1>7, <2>1, <2>2
    DEF Switch, TypeOK, Tracks, LocalTracksProvider, Upserting
  <2> QED
    BY <2>3, <2>4 DEF Tracks
<1>8. CASE SwitchFails(e)
  <2> SUFFICES ASSUME ~shared PROVE Tracks'
    BY <1>8 DEF SwitchFails, Tracks, SwitchInProgress, LocalTracksProvider
  <2>1. pc' = [pc EXCEPT ![e] = "mark"] /\ pc[e] = "apply"
    BY <1>8 DEF SwitchFails, Goto
  <2>2. \/ UNCHANGED <<provider, lost>>
        \/ /\ provider[r] # NoRow /\ provider' = Switched(e)
           /\ lost' = lost \cup {r}
    BY <1>8 DEF SwitchFails
  <2>3. SwitchInProgress'
    BY <1>3, <1>5, <1>6, <1>8, <2>1, <2>2 DEF SwitchFails, TypeOK, Tracks, SwitchInProgress
  <2>4. LocalTracksProvider'
    BY <1>3, <1>6, <1>8, <2>1, <2>2
    DEF SwitchFails, TypeOK, Tracks, LocalTracksProvider, Upserting
  <2> QED
    BY <2>3, <2>4 DEF Tracks
<1>9. CASE Upsert(e)
  <2> SUFFICES ASSUME ~shared PROVE Tracks'
    BY <1>9 DEF Upsert, Tracks, SwitchInProgress, LocalTracksProvider
  <2>1. pc' = [pc EXCEPT ![e] = "mark"] /\ pc[e] = "upsert"
    BY <1>9 DEF Upsert, Goto
  <2>2. r \in Records
    BY <2>1 DEF TypeOK, Target
  <2>3. provider[r] \in Row /\ provider[r].value = NewValue(e)
        /\ provider[r].on = target[e].row.on /\ provider[r] # NoRow
    BY <2>1, <2>2 DEF Tracks, SwitchInProgress, TypeOK, ZoneTypeOK, ZoneRows
  <2>4. provider[r] = [value |-> NewValue(e), on |-> target[e].row.on]
    BY <2>3 DEF Row
  <2>5. local' = [local EXCEPT ![r] = provider[r]]
    BY <1>9, <2>4 DEF Upsert
  <2>6. /\ \A q \in Records \ {r} : local'[q] = local[q]
        /\ local'[r] = provider[r]
    BY <2>2, <2>5 DEF TypeOK, ZoneTypeOK, ZoneRows
  <2>7. SwitchInProgress'
    BY <1>3, <1>9, <2>1, <2>2, <2>3, <2>6 DEF Upsert, TypeOK, Tracks, SwitchInProgress
  <2>8. LocalTracksProvider'
    BY <1>3, <1>9, <2>1, <2>6
    DEF Upsert, TypeOK, Tracks, LocalTracksProvider, Upserting
  <2> QED
    BY <2>7, <2>8 DEF Tracks
<1> QED
  BY <1>1, <1>2, <1>4, <1>7, <1>8, <1>9 DEF Execute

\* An execution that begins while another runs makes them shared.
LEMMA StartTracks ==
    ASSUME TypeOK, Tracks, NEW e \in Executors, NEW j, Start(e, j)
    PROVE  Tracks'
<1> SUFFICES ASSUME ~shared' PROVE Tracks'
  BY DEF Tracks, SwitchInProgress, LocalTracksProvider
<1>1. ~shared /\ \A x \in Executors : pc[x] = "idle"
  BY DEF Start, TypeOK
<1>2. pc' = [pc EXCEPT ![e] = "probe"]
  BY DEF Start, Goto
<1>3. SwitchInProgress'
  BY <1>1, <1>2 DEF Start, zoneVars, TypeOK, Tracks, SwitchInProgress
<1>4. LocalTracksProvider'
  BY <1>1, <1>2 DEF Start, zoneVars, TypeOK, Tracks, LocalTracksProvider, Upserting
<1> QED
  BY <1>3, <1>4 DEF Tracks

LEMMA NextTracks == TypeOK /\ Tracks /\ [Next]_vars => Tracks'
<1> SUFFICES ASSUME TypeOK, Tracks, [Next]_vars PROVE Tracks'
  OBVIOUS
<1>1. CASE WorkerTick
  BY <1>1, QuietStep DEF WorkerTick, zoneVars, NewValue
<1>2. CASE WorkerNext
  BY <1>2, StartTracks, ThereIsAWorker DEF WorkerNext
<1>3. ASSUME NEW u \in Checkers, NEW t \in Tasks, CheckNow(u, t) PROVE Tracks'
  BY <1>3, StartTracks, ThereIsAWorker DEF CheckNow
<1>4. ASSUME NEW e \in Executors, Execute(e) PROVE Tracks'
  BY <1>4, ExecuteTracks
<1>5. CASE Operator
  BY <1>5, QuietStep
  DEF Operator, CreateTask, UpdateTask, DeleteTask, Edit, zoneVars, jobVars, NewValue
<1>6. CASE Environment
  BY <1>6, QuietStep
  DEF Environment, IntervalElapses, TargetChanges, zoneVars, jobVars, NewValue
<1>7. CASE Handle
  BY <1>7 DEF Handle, Tracks, SwitchInProgress, LocalTracksProvider
<1>8. CASE Restart
  <2>1. \A e \in Executors : pc[e] = "upsert" => target[e].id \in lost'
    BY <1>8 DEF Restart, TypeOK, Target
  <2> QED
    BY <1>8, <2>1, QuietStep DEF Restart, ZoneRestart
<1>9. CASE UNCHANGED vars
  BY <1>9, QuietStep DEF vars, zoneVars, failoverVars, jobVars, NewValue
<1> QED
  BY <1>1, <1>2, <1>3, <1>4, <1>5, <1>6, <1>7, <1>8, <1>9 DEF Next

\* Without overlapping executions and handlers, the table and the provider
\* differ on a record only inside a switch, or because its upsert was lost, for
\* every number of tasks, records, requests and faults.
THEOREM TracksCorrect == Spec => []LocalTracksProvider
<1>1. Init => TypeOK /\ Tracks
  BY InitType, InitTracks
<1>2. TypeOK /\ Tracks /\ [Next]_vars => TypeOK' /\ Tracks'
  BY NextType, NextTracks
<1>3. Tracks => LocalTracksProvider
  BY DEF Tracks
<1> QED
  BY <1>1, <1>2, <1>3, PTL DEF Spec

-----------------------------------------------------------------------------
(* Syncs beside the failover tasks.                                        *)

LEMMA NextFaithful == TypeOK /\ Faithful /\ [Next]_vars => Faithful'
<1> SUFFICES ASSUME TypeOK, Faithful, [Next]_vars PROVE Faithful'
  OBVIOUS
<1>1. CASE UNCHANGED <<provider, local, request, stale>>
  BY <1>1, ZoneUnchangedFaithful
<1>2. ASSUME NEW e \in Executors, Execute(e) PROVE Faithful'
  <2>1. CASE Switch(e) \/ SwitchFails(e) \/ Upsert(e) \/ UpsertFails(e)
    <3>1. request' = request /\ stale' = stale \cup Running
      BY <2>1 DEF Switch, SwitchFails, Upsert, UpsertFails, Spoil
    <3> QED
      BY <3>1, SpoiledFaithful, NoRequestAssumption
      DEF TypeOK, Syncing, Request
  <2>2. CASE Probe(e) \/ Resolve(e) \/ ResolveFails(e) \/ Keep(e) \/ Mark(e) \/ MarkFails(e)
    BY <2>2, <1>1
    DEF Probe, Resolve, ResolveFails, Keep, Mark, MarkFails, zoneVars
  <2> QED
    BY <1>2, <2>1, <2>2 DEF Execute
<1>3. CASE Handle
  BY <1>3, ZoneStepFaithful DEF Handle, TypeOK
<1>4. CASE Restart
  BY <1>4, ZoneRestartFaithful DEF Restart
<1>5. CASE WorkerTick \/ WorkerNext \/ \E u \in Checkers, t \in Tasks : CheckNow(u, t)
  BY <1>1, <1>5 DEF WorkerTick, WorkerNext, CheckNow, Start, zoneVars
<1>6. CASE Operator \/ Environment
  BY <1>1, <1>6
  DEF Operator, CreateTask, UpdateTask, DeleteTask, Edit, Environment,
      IntervalElapses, TargetChanges, zoneVars
<1>7. CASE UNCHANGED vars
  BY <1>1, <1>7 DEF vars, zoneVars
<1> QED
  BY <1>2, <1>3, <1>4, <1>5, <1>6, <1>7 DEF Next

\* A sync that neither a request nor a failover task disturbed leaves in the
\* table what the provider serves.
THEOREM FailoverSyncFaithful == Spec => []SyncFaithful
<1>1. Init => TypeOK /\ Faithful
  BY InitType, ZoneInitFaithful DEF Init
<1>2. TypeOK /\ Faithful /\ [Next]_vars => TypeOK' /\ Faithful'
  BY NextType, NextFaithful
<1>3. Faithful => SyncFaithful
  BY DEF Faithful
<1> QED
  BY <1>1, <1>2, <1>3, PTL DEF Spec

-----------------------------------------------------------------------------
(* Failed probes in a row.                                                 *)

\* Another failed probe keeps a count backed, and the streak saturates with it.
LEMMA NextBacked ==
    \A m, n \in 0 .. MaxCount : m <= n => Next1(m) <= Next1(n)
BY FailoverAssumption DEF Next1

LEMMA InitBacked == Init => CountsBacked
BY SentinelAssumption, ThereIsAWorker DEF Init, CountsBacked, Exists, Probed, Failing

\* A step of nobody's execution that only raises no count.
LEMMA IdleBacked ==
    ASSUME TypeOK, CountsBacked,
           UNCHANGED <<queue, pc, job, healthy, streak>>,
           \A t \in Tasks : Exists(t)' =>
             tasks'[t].count = 0 \/ (Exists(t) /\ tasks'[t].count = tasks[t].count)
    PROVE  CountsBacked'
<1>1. \A t \in Tasks : 0 <= streak[t]
  BY DEF TypeOK
<1> QED
  BY <1>1 DEF CountsBacked, Probed, Failing, NewCount

LEMMA TickBacked == TypeOK /\ CountsBacked /\ WorkerTick => CountsBacked'
<1> SUFFICES ASSUME TypeOK, CountsBacked, WorkerTick PROVE CountsBacked'
  OBVIOUS
<1>1. \A j \in queue' : \E t \in Tasks : Exists(t) /\ j = Snapshot(t)
  BY DEF WorkerTick, TypeOK, Enabled
<1>2. pc[Worker] = "idle" /\ pc' = pc
  BY DEF WorkerTick
<1>3. \A j \in queue' : j.count <= streak'[j.task]
  BY <1>1, <1>2 DEF WorkerTick, CountsBacked, Probed, Snapshot
<1>4. \A j, k \in queue' : j.task = k.task => j = k
  BY <1>1 DEF Snapshot
<1> QED
  BY <1>2, <1>3, <1>4
  DEF WorkerTick, CountsBacked, Probed, Failing, Exists, NewCount

LEMMA NextJobBacked == TypeOK /\ CountsBacked /\ WorkerNext => CountsBacked'
<1> SUFFICES ASSUME TypeOK, CountsBacked, WorkerNext PROVE CountsBacked'
  OBVIOUS
<1>1. PICK j \in queue : Start(Worker, j) /\ queue' = queue \ {j}
  BY DEF WorkerNext
<1>2. /\ pc[Worker] = "idle" /\ pc'[Worker] = "probe"
      /\ job'[Worker] = j
  BY <1>1, ThereIsAWorker DEF Start, Goto, TypeOK
<1> QED
  BY <1>1, <1>2 DEF Start, CountsBacked, Probed, Failing, Exists

LEMMA ExecuteBacked ==
    TypeOK /\ CountsBacked /\ Undisturbed /\ Undisturbed' /\ Execute(Worker)
        => CountsBacked'
<1> SUFFICES ASSUME TypeOK, CountsBacked, Undisturbed, Undisturbed', Execute(Worker)
             PROVE  CountsBacked'
  OBVIOUS
<1> DEFINE w == Worker
           t == job[w].task
<1>1. w \in Executors /\ faults = 0 /\ faults' = 0 /\ ~Fault
  BY ThereIsAWorker DEF Undisturbed, Fault
<1>2. ~MarkFails(w) /\ ~UpsertFails(w)
  BY <1>1 DEF MarkFails, UpsertFails
<1>3. CASE Probe(w)
  <2>1. /\ pc[w] = "probe" /\ pc'[w] = "resolve"
        /\ job[w] \in Job /\ t \in Tasks
        /\ healthy'[w] = (t \in up)
    BY <1>1, <1>3 DEF Probe, Goto, TypeOK, Job
  <2>2. /\ streak'[t] = IF t \in up THEN 0 ELSE Next1(streak[t])
        /\ \A u \in Tasks \ {t} : streak'[u] = streak[u]
    BY <1>3, <2>1 DEF Probe, TypeOK
  <2>3. /\ job[w].count \in 0 .. MaxCount /\ streak[t] \in 0 .. MaxCount
        /\ job[w].count <= streak[t]
    BY <2>1 DEF Job, TypeOK, CountsBacked
  <2>4. ~healthy'[w] => NewCount(w)' <= streak'[t]
    BY <1>3, <2>1, <2>2, <2>3, NextBacked DEF Probe, NewCount
  <2>5. \A j \in queue : j.task \in Tasks /\ j.task # t
    BY <2>1 DEF CountsBacked, TypeOK, Job
  <2> QED
    BY <1>3, <2>1, <2>2, <2>4, <2>5
    DEF Probe, CountsBacked, Probed, Failing, Exists
<1>4. CASE Resolve(w) \/ ResolveFails(w) \/ Keep(w) \/ Switch(w) \/ SwitchFails(w)
           \/ Upsert(w)
  <2>1. /\ pc[w] \notin {"idle", "probe"} /\ pc'[w] \notin {"idle", "probe"}
        /\ UNCHANGED <<tasks, queue, job, healthy, streak>>
    BY <1>1, <1>4
    DEF Resolve, ResolveFails, Keep, Switch, SwitchFails, Upsert, Goto, TypeOK
  <2> QED
    BY <2>1 DEF CountsBacked, Probed, Failing, Exists, NewCount
<1>5. CASE Mark(w)
  <2>1. /\ pc[w] \in {"mark", "markUnresolved"} /\ pc'[w] = "idle"
        /\ UNCHANGED <<queue, streak>> /\ job[w] \in Job /\ t \in Tasks
    BY <1>1, <1>5 DEF Mark, Finish, TypeOK, Job
  <2>2. tasks' = IF Exists(t) THEN [tasks EXCEPT ![t].count = NewCount(w)] ELSE tasks
    BY <1>5 DEF Mark, Undisturbed
  <2>3. NewCount(w) <= streak[t]
    BY <2>1 DEF CountsBacked, Failing, Probed, NewCount, TypeOK
  <2>4. \A u \in Tasks : Exists(u)' =>
          /\ Exists(u)
          /\ tasks'[u].count <= streak[u]
    <3> SUFFICES ASSUME NEW u \in Tasks, Exists(u)'
                 PROVE  Exists(u) /\ tasks'[u].count <= streak[u]
      OBVIOUS
    <3>1. CASE u = t
      <4>1. Exists(t)
        BY <2>2, <3>1 DEF Exists
      <4>2. tasks'[t].count = NewCount(w)
        BY <2>1, <2>2, <4>1 DEF TypeOK, Exists, TaskRow
      <4> QED
        BY <2>3, <3>1, <4>1, <4>2
    <3>2. CASE u # t
      <4>1. tasks'[u] = tasks[u]
        BY <2>1, <2>2, <3>2 DEF TypeOK
      <4> QED
        BY <3>2, <4>1 DEF Exists, CountsBacked
    <3> QED
      BY <3>1, <3>2
  <2> QED
    BY <2>1, <2>4 DEF CountsBacked, Probed, Failing
<1> QED
  BY <1>2, <1>3, <1>4, <1>5 DEF Execute

LEMMA NextCountsBacked ==
    TypeOK /\ CountsBacked /\ Undisturbed /\ Undisturbed' /\ [Next]_vars
        => CountsBacked'
<1> SUFFICES ASSUME TypeOK, CountsBacked, Undisturbed, Undisturbed', [Next]_vars
             PROVE  CountsBacked'
  OBVIOUS
<1>1. CASE WorkerTick \/ WorkerNext
  BY <1>1, TickBacked, NextJobBacked
<1>2. ASSUME NEW u \in Checkers, NEW t \in Tasks, CheckNow(u, t) PROVE FALSE
  BY <1>2, ThereIsAWorker DEF CheckNow, Start, Goto, Undisturbed, TypeOK
<1>3. ASSUME NEW e \in Executors, Execute(e) PROVE CountsBacked'
  <2>1. pc[e] # "idle"
    BY <1>3 DEF Execute, Probe, Resolve, ResolveFails, Keep, Switch, SwitchFails,
                Upsert, UpsertFails, Mark, MarkFails
  <2>2. e = Worker
    BY <2>1 DEF Undisturbed, Executors
  <2> QED
    BY <1>3, <2>2, ExecuteBacked
<1>4. CASE Operator
  <2>1. PICK t \in Tasks : \/ \E c \in Configs : CreateTask(t, c) \/ UpdateTask(t, c)
                           \/ DeleteTask(t)
    BY <1>4 DEF Operator
  <2> DEFINE Kept(row) == \/ row = Deleted
                          \/ row.count = 0
                          \/ Exists(t) /\ row.count = tasks[t].count
  <2>2. PICK row : Edit(t, row) /\ Kept(row)
    <3>1. CASE DeleteTask(t)
      BY <3>1 DEF DeleteTask
    <3>2. ASSUME NEW c \in Configs, CreateTask(t, c)
          PROVE  \E row : Edit(t, row) /\ Kept(row)
      <4>1. Kept([cfg |-> c, count |-> 0])
        OBVIOUS
      <4> QED
        BY <3>2, <4>1 DEF CreateTask
    <3>3. ASSUME NEW c \in Configs, UpdateTask(t, c)
          PROVE  \E row : Edit(t, row) /\ Kept(row)
      <4>1. Kept([cfg |-> c, count |-> tasks[t].count])
        BY <3>3 DEF UpdateTask
      <4> QED
        BY <3>3, <4>1 DEF UpdateTask
    <3> HIDE DEF Kept
    <3> QED
      BY <2>1, <3>1, <3>2, <3>3
  <2>3. \A u \in Tasks : tasks'[u] = IF u = t THEN row ELSE tasks[u]
    BY <2>2 DEF Edit, TypeOK
  <2> QED
    BY <2>2, <2>3, IdleBacked, SentinelAssumption DEF Edit, jobVars, Exists
<1>5. CASE Environment \/ Handle \/ UNCHANGED vars
  BY <1>5, IdleBacked
  DEF Environment, IntervalElapses, TargetChanges, Handle, vars, failoverVars,
      jobVars, Exists
<1>6. ~Restart
  BY DEF Restart, ZoneRestart, Fault, Undisturbed
<1> QED
  BY <1>1, <1>2, <1>3, <1>4, <1>5, <1>6 DEF Next

\* The worker switches on a count that is backed; nobody else switches.
LEMMA SwitchBacked ==
    ASSUME TypeOK, CountsBacked, Undisturbed, [Next]_vars,
           NEW e \in Executors,
           pc[e] = "apply", pc'[e] = "upsert", ~healthy[e]
    PROVE  streak[job[e].task] >= Threshold(job[e].cfg)
<1>1. e = Worker
  BY DEF Undisturbed, Executors
<1>2. Switch(e)
  <2>1. PICK x \in Executors : Execute(x)
    BY DEF Next, vars, failoverVars, jobVars, WorkerTick, WorkerNext, CheckNow, Start,
           Goto, TypeOK, Operator, CreateTask, UpdateTask, DeleteTask, Edit,
           Environment, IntervalElapses, TargetChanges, Handle, Restart
  <2>2. x = e
    BY <2>1 DEF Execute, Probe, Resolve, ResolveFails, Keep, Switch, SwitchFails,
                Upsert, UpsertFails, Mark, MarkFails, Goto, Finish, TypeOK
  <2> QED
    BY <2>1, <2>2
    DEF Execute, Probe, Resolve, ResolveFails, Keep, SwitchFails,
        Upsert, UpsertFails, Mark, MarkFails, Goto, Finish, TypeOK
<1>3. NewCount(e) >= Threshold(job[e].cfg)
  BY <1>2 DEF Switch, Switches, Recovers, FailsOver
<1>4. NewCount(e) <= streak[job[e].task]
  BY <1>1 DEF CountsBacked, Failing, Probed
<1>5. /\ job[e] \in Job /\ job[e].cfg.maxErrors \in Nat
      /\ NewCount(e) \in Nat /\ streak[job[e].task] \in Nat
  <2>1. job[e] \in Job /\ job[e].task \in Tasks
    BY DEF TypeOK, Job
  <2>2. job[e].count \in 0 .. MaxCount /\ job[e].cfg \in ConfigType
    BY <2>1, FailoverAssumption DEF Job
  <2>3. NewCount(e) \in 0 .. MaxCount
    BY <2>2, CountType, FailoverAssumption DEF NewCount
  <2>4. streak[job[e].task] \in 0 .. MaxCount
    BY <2>1 DEF TypeOK
  <2> QED
    BY <2>1, <2>2, <2>3, <2>4, FailoverAssumption DEF ConfigType
<1> QED
  BY <1>3, <1>4, <1>5 DEF Threshold

\* As long as the worker alone executes tasks, nothing fails and a task whose
\* target answers finds its record, a record is switched away only after
\* max_errors failed probes in a row, whatever the operator does to the tasks
\* and however many are due at once.
THEOREM SwitchesAreEarned == Spec /\ []Undisturbed => SwitchNeedsConsecutiveFailures
<1>1. Init => TypeOK /\ CountsBacked
  BY InitType, InitBacked
<1>2. TypeOK /\ CountsBacked /\ Undisturbed /\ Undisturbed' /\ [Next]_vars
        => TypeOK' /\ CountsBacked'
  BY NextType, NextCountsBacked
<1> DEFINE Earned == \A e \in Executors :
             pc[e] = "apply" /\ pc'[e] = "upsert" /\ ~healthy[e] =>
               streak[job[e].task] >= Threshold(job[e].cfg)
<1>3. TypeOK /\ CountsBacked /\ Undisturbed /\ [Next]_vars => Earned
  BY SwitchBacked
<1>4. Spec /\ []Undisturbed => [][Earned]_vars
  <2> HIDE DEF Earned
  <2> QED
    BY <1>1, <1>2, <1>3, PTL DEF Spec
<1> QED
  BY <1>4 DEF SwitchNeedsConsecutiveFailures
=============================================================================
