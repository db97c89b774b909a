----------------------------- MODULE DnsScheduled -----------------------------
(***************************************************************************)
(* The scheduled record changes of one zone                                *)
(* (api/dns/controller/scheduled.go).  One background worker executes the  *)
(* tasks that are due from a list it read when its tick began, one after   *)
(* the other; every call it makes is a step, and the requests of DnsZone   *)
(* and the operator come between.                                          *)
(***************************************************************************)
EXTENDS DnsZone

CONSTANTS
    Tasks,      \* ids of scheduled tasks
    Plans,      \* what an operator may schedule
    NoValue,    \* the empty new value
    MaxTime,    \* the clock stops here
    NoTask,     \* the task was not created yet
    Deleted,    \* the task was deleted
    NoJob       \* the worker is not executing a task

Plan == [record: Records, action: {"modify", "pause", "enable", "delete", "other"},
         value: Values \cup {NoValue}, at: 0 .. MaxTime]
TaskRow == [plan: Plans, status: {"pending", "done", "error"}]
Job == [task: Tasks, plan: Plans]

ASSUME ScheduleAssumption ==
    /\ Plans \subseteq Plan
    /\ NoValue \notin Values
    /\ MaxTime \in Nat
    /\ NoTask \notin TaskRow /\ Deleted \notin TaskRow /\ NoTask # Deleted
    /\ NoJob \notin Job

VARIABLES
    tasks,      \* dns_scheduled_tasks
    now,        \* the clock
    queue,      \* due tasks of the worker's tick still to run
    pc,         \* where the worker is
    job,        \* the task it executes
    found,      \* the record row it read
    applied,    \* history: provider calls that were carried out, per task, up to 2
    unmarked,   \* history: tasks whose result could not be written
    disturbed   \* history: a request has touched the zone

workerVars == <<queue, pc, job, found>>
scheduledVars == <<tasks, now, workerVars, applied, unmarked, disturbed>>
vars == <<zoneVars, scheduledVars>>

PCs == {"idle", "resolve", "apply", "local", "done", "error"}

TypeOK ==
    /\ ZoneTypeOK
    /\ tasks \in [Tasks -> TaskRow \cup {NoTask, Deleted}]
    /\ now \in 0 .. MaxTime
    /\ queue \subseteq Job
    /\ pc \in PCs
    /\ job \in Job \cup {NoJob}
    /\ found \in Row \cup {NoRow}
    /\ pc # "idle" => job \in Job
    /\ pc \in {"apply", "local"} => found \in Row
    /\ pc = "local" /\ job.plan.action = "modify" => job.plan.value \in Values
    /\ pc = "local" => job.plan.action # "other"
    /\ applied \in [Tasks -> 0 .. 2]
    /\ unmarked \subseteq Tasks
    /\ disturbed \in BOOLEAN

Init ==
    /\ ZoneInit
    /\ tasks = [t \in Tasks |-> NoTask]
    /\ now = 0
    /\ queue = {}
    /\ pc = "idle"
    /\ job = NoJob
    /\ found = NoRow
    /\ applied = [t \in Tasks |-> 0]
    /\ unmarked = {}
    /\ disturbed = FALSE

-----------------------------------------------------------------------------
Exists(t) == tasks[t] \in TaskRow
Pending(t) == Exists(t) /\ tasks[t].status = "pending"

\* dnsScheduledTaskDue.
Due(t) == Pending(t) /\ tasks[t].plan.at <= now

Record == job.plan.record

\* What the task makes of a row it read or of one the provider serves.
Changed(rows, q) ==
    CASE q.action = "modify" -> WithValue(rows, q.record, q.value)
      [] q.action = "delete" -> [rows EXCEPT ![q.record] = NoRow]
      [] OTHER -> WithStatus(rows, q.record, q.action = "enable")

\* The local row: the one that was read, with the change.
ChangedRow(q, old) ==
    CASE q.action = "modify" -> [old EXCEPT !.value = q.value]
      [] q.action = "delete" -> NoRow
      [] OTHER -> [old EXCEPT !.on = (q.action = "enable")]

\* Variant: the list is not filtered by status.
Listed_All == {t \in Tasks : Exists(t) /\ tasks[t].plan.at <= now}

Listed == {t \in Tasks : Due(t)}

\* dnsTickScheduled reads the list and keeps the tasks that are due.
WorkerTick ==
    /\ pc = "idle"
    /\ queue = {}
    /\ queue' = {[task |-> t, plan |-> tasks[t].plan] : t \in Listed}
    /\ UNCHANGED <<zoneVars, tasks, now, pc, job, found, applied, unmarked, disturbed>>

\* The list is ordered by descending scheduled_at.
WorkerNext ==
    /\ pc = "idle"
    /\ \E j \in queue :
         /\ \A k \in queue : k.plan.at <= j.plan.at
         /\ queue' = queue \ {j}
         /\ job' = j
    /\ pc' = "resolve"
    /\ UNCHANGED <<zoneVars, tasks, now, found, applied, unmarked, disturbed>>

\* Variant: the row found is not kept.
Resolve_NoRow ==
    /\ pc = "resolve"
    /\ local[Record] # NoRow
    /\ pc' = "apply"
    /\ UNCHANGED <<zoneVars, tasks, now, queue, job, found, applied, unmarked,
                   disturbed>>

\* dnsResolveScheduledTarget.
Resolve ==
    /\ pc = "resolve"
    /\ local[Record] # NoRow
    /\ found' = local[Record]
    /\ pc' = "apply"
    /\ UNCHANGED <<zoneVars, tasks, now, queue, job, applied, unmarked, disturbed>>

\* Variant: a record that is not found counts as done.
ResolveFails_Done ==
    /\ pc = "resolve"
    /\ \/ local[Record] = NoRow /\ UNCHANGED faults
       \/ Fault
    /\ pc' = "done"
    /\ UNCHANGED <<provider, local, unused, request, stale, tasks, now, queue, job,
                   found, applied, unmarked, disturbed>>

ResolveFails ==
    /\ pc = "resolve"
    /\ \/ local[Record] = NoRow /\ UNCHANGED faults
       \/ Fault
    /\ pc' = "error"
    /\ UNCHANGED <<provider, local, unused, request, stale, tasks, now, queue, job,
                   found, applied, unmarked, disturbed>>

\* dnsApplyScheduledTask rejects these without calling the provider.
Malformed(q) == q.action = "other" \/ (q.action = "modify" /\ q.value = NoValue)

Twice(n) == IF n < 2 THEN n + 1 ELSE 2

\* cloudflareProvider.SetStatus calls nobody and returns no error: the task goes
\* on as if its change had been made.
Skipped(q) == ~SupportsStatus /\ q.action \in {"pause", "enable"}

\* The provider knows the record, or is not asked.
Accepted(q) == Skipped(q) \/ provider[q.record] # NoRow

\* The provider carries out the change and says so, or the answer is lost.
Apply ==
    LET q == job.plan IN
    /\ pc = "apply"
    /\ ~Malformed(q)
    /\ Accepted(q)
    /\ provider' = Changed(provider, q)
    /\ applied' = IF Skipped(q) THEN applied
                  ELSE [applied EXCEPT ![job.task] = Twice(@)]
    /\ Spoil(Running)
    /\ \/ pc' = "local" /\ UNCHANGED faults
       \/ pc' = "error" /\ ~Skipped(q) /\ Fault
    /\ UNCHANGED <<local, unused, request, tasks, now, queue, job, found, unmarked,
                   disturbed>>

ApplyFails ==
    /\ pc = "apply"
    /\ \/ Malformed(job.plan) /\ UNCHANGED faults
       \/ ~Malformed(job.plan) /\ ~Accepted(job.plan) /\ UNCHANGED faults
       \/ ~Malformed(job.plan) /\ ~Skipped(job.plan) /\ Fault
    /\ pc' = "error"
    /\ UNCHANGED <<provider, local, unused, request, stale, tasks, now, queue, job,
                   found, applied, unmarked, disturbed>>

\* Variant: the row is written as it was read.
WriteRow_Unchanged ==
    /\ pc = "local"
    /\ local' = [local EXCEPT ![Record] = found]
    /\ pc' = "done"
    /\ Spoil(Running)
    /\ UNCHANGED <<provider, unused, request, faults, tasks, now, queue, job, found,
                   applied, unmarked, disturbed>>

\* dnsRecordUpsert or dnsRecordDelete.
WriteRow ==
    /\ pc = "local"
    /\ local' = [local EXCEPT ![Record] = ChangedRow(job.plan, found)]
    /\ pc' = "done"
    /\ Spoil(Running)
    /\ UNCHANGED <<provider, unused, request, faults, tasks, now, queue, job, found,
                   applied, unmarked, disturbed>>

WriteRowFails ==
    /\ pc = "local"
    /\ Fault
    /\ pc' = "error"
    /\ UNCHANGED <<provider, local, unused, request, stale, tasks, now, queue, job,
                   found, applied, unmarked, disturbed>>

Finish ==
    /\ pc' = "idle"
    /\ job' = NoJob
    /\ found' = NoRow
    /\ UNCHANGED <<now, queue, applied, disturbed>>

\* Variant: the status is written nowhere.
Mark_KeepsPending ==
    /\ pc \in {"done", "error"}
    /\ Finish
    /\ UNCHANGED <<zoneVars, tasks, unmarked>>

\* dnsScheduledMarkResult: no effect unless the task is still pending.
Mark ==
    /\ pc \in {"done", "error"}
    /\ tasks' = IF Pending(job.task) THEN [tasks EXCEPT ![job.task].status = pc]
                ELSE tasks
    /\ Finish
    /\ UNCHANGED <<zoneVars, unmarked>>

\* The task stays pending and is executed again.
MarkFails ==
    /\ pc \in {"done", "error"}
    /\ Fault
    /\ unmarked' = unmarked \cup {job.task}
    /\ Finish
    /\ UNCHANGED <<provider, local, unused, request, stale, tasks>>

-----------------------------------------------------------------------------
\* handleDnsScheduledCreate.
CreateTask(t, q) ==
    /\ tasks[t] = NoTask
    /\ tasks' = [tasks EXCEPT ![t] = [plan |-> q, status |-> "pending"]]
    /\ UNCHANGED <<zoneVars, now, workerVars, applied, unmarked, disturbed>>

\* handleDnsScheduledDelete: only pending tasks.
DeleteTask(t) ==
    /\ Pending(t)
    /\ tasks' = [tasks EXCEPT ![t] = Deleted]
    /\ UNCHANGED <<zoneVars, now, workerVars, applied, unmarked, disturbed>>

Tick ==
    /\ now < MaxTime
    /\ now' = now + 1
    /\ UNCHANGED <<zoneVars, tasks, workerVars, applied, unmarked, disturbed>>

Handle ==
    /\ ZoneStep
    /\ disturbed' = TRUE
    /\ UNCHANGED <<tasks, now, workerVars, applied, unmarked>>

Restart ==
    /\ ZoneRestart
    /\ queue' = {}
    /\ pc' = "idle"
    /\ job' = NoJob
    /\ found' = NoRow
    /\ unmarked' = unmarked \cup {t \in Tasks : pc # "idle" /\ job.task = t}
    /\ UNCHANGED <<tasks, now, applied, disturbed>>

Execute ==
    \/ Resolve \/ ResolveFails \/ Apply \/ ApplyFails
    \/ WriteRow \/ WriteRowFails \/ Mark \/ MarkFails

Next ==
    \/ WorkerTick \/ WorkerNext \/ Execute
    \/ \E t \in Tasks : DeleteTask(t) \/ \E q \in Plans : CreateTask(t, q)
    \/ Tick \/ Handle \/ Restart

Spec == Init /\ [][Next]_vars

\* The worker goroutine keeps running and its calls end (taskCtx has a timeout
\* of 30 s).
Fairness == WF_vars(WorkerTick) /\ WF_vars(WorkerNext) /\ WF_vars(Execute)

FairSpec == Spec /\ Fairness

-----------------------------------------------------------------------------
(* Properties.                                                             *)

\* The result in the table is true: the provider has carried out the change of a
\* task that is "done", and without faults not that of one in "error"
\* (dnsExecuteScheduledTask).  A pause or an enable that the provider's client
\* skips is "done" too, with nothing carried out.
OutcomeTold ==
    \A t \in Tasks : Exists(t) =>
        /\ tasks[t].status = "done" => applied[t] > 0 \/ Skipped(tasks[t].plan)
        /\ tasks[t].status = "error" /\ faults = 0 => applied[t] = 0

\* A task changes the record a second time only if its first result could not
\* be written (dnsExecuteScheduledTask).
AppliedOnce == \A t \in Tasks : applied[t] > 1 => t \in unmarked

\* What makes the two inductive: a listed task runs once per tick, as it is
\* planned in the table, was not executed before unless it was left unmarked, and
\* is pending or deleted.
Unfinished(t) == tasks[t] = Deleted \/ Pending(t)

Bookkeeping ==
    /\ \A j, k \in queue : j.task = k.task => j = k
    /\ \A j \in queue :
         /\ Unfinished(j.task)
         /\ applied[j.task] > 0 => j.task \in unmarked
         /\ pc # "idle" => j.task # job.task
         /\ Exists(j.task) => j.plan = tasks[j.task].plan
    /\ pc # "idle" => Unfinished(job.task)
    /\ pc # "idle" /\ Exists(job.task) => job.plan = tasks[job.task].plan
    /\ pc \in {"resolve", "apply"} /\ applied[job.task] > 0 => job.task \in unmarked
    /\ pc \in {"local", "done"} => applied[job.task] > 0 \/ Skipped(job.plan)
    /\ pc = "error" /\ faults = 0 => applied[job.task] = 0
    /\ \A t \in Tasks :
         /\ tasks[t] = NoTask => applied[t] = 0
         /\ applied[t] > 0 /\ Pending(t) =>
              t \in unmarked \/ (pc # "idle" /\ job.task = t)
    /\ unmarked # {} => faults > 0

\* Without faults and requests, the table and the provider agree except between
\* the two writes of a task, for a provider that has enabled flags.
RowsAgree ==
    faults = 0 /\ ~disturbed /\ SupportsStatus =>
        \A r \in Records :
            local[r] # provider[r] => pc = "local" /\ Record = r

\* A task that is due is executed, or deleted, whatever fails.
DueTaskExecuted == \A t \in Tasks : Due(t) ~> ~Pending(t)
=============================================================================
