----------------------------- MODULE DnsFailover -----------------------------
(***************************************************************************)
(* The DNS failover tasks of one zone (api/dns/controller/failover.go).    *)
(* A task probes a target; after max_errors failed probes it switches a    *)
(* record to the failover value, and switches it back when the target      *)
(* answers again.                                                          *)
(*                                                                         *)
(* A task is executed by the background worker, one task after the other,  *)
(* from a list it read when the tick began, and by "check now" requests,   *)
(* each a goroutine of its own.  Nothing serialises them: an execution     *)
(* works on the task row and the record row it has read, and every call it *)
(* makes (probe, read, provider, upsert, mark) is a step others can come   *)
(* between.                                                                *)
(*                                                                         *)
(* Time is abstracted to whether a task's interval has elapsed; error_count *)
(* saturates at MaxCount, which no max_errors exceeds, so that every       *)
(* comparison of the two is the code's.                                    *)
(***************************************************************************)
EXTENDS DnsZone

CONSTANTS
    Tasks,      \* ids of failover tasks, naturals in the order of creation
    Configs,    \* the settings an operator may give a task
    Root,       \* the records whose host is "@"
    Managed,    \* the A, AAAA and CNAME records
    AnyRecord,  \* the empty record_id: the task selects a record itself
    NoValue,    \* the empty original or failover value
    MaxCount,   \* saturation of error_count
    MaxEdits,   \* bound on the operator's changes of tasks
    Worker,     \* the background worker
    Checkers,   \* "check now" requests that may be in flight
    NoTask,     \* the task was not created yet
    Deleted,    \* the task was deleted
    NoJob       \* the executor is not executing a task

Executors == Checkers \cup {Worker}

ConfigType == [record: Records \cup {AnyRecord}, maxErrors: Nat,
               original: Values \cup {NoValue}, failover: Values \cup {NoValue},
               enabled: BOOLEAN]
TaskRow == [cfg: Configs, count: 0 .. MaxCount]

\* What an execution carries: the task row it read, the probe's answer, the
\* record row it selected and the error count it is to write.
Job == [task: Tasks, cfg: Configs, count: 0 .. MaxCount]
Target == [id: Records, row: Row]

ASSUME FailoverAssumption ==
    /\ Tasks \subseteq Nat
    /\ Configs \subseteq ConfigType
    /\ \A c \in Configs : c.maxErrors <= MaxCount
    /\ Root \subseteq Records /\ Managed \subseteq Records
    /\ AnyRecord \notin Records
    /\ NoValue \notin Values
    /\ MaxCount \in Nat \ {0}
    /\ MaxEdits \in Nat
    /\ Worker \notin Checkers

ASSUME SentinelAssumption ==
    /\ NoTask \notin TaskRow /\ Deleted \notin TaskRow /\ NoTask # Deleted
    /\ NoJob \notin Job

VARIABLES
    tasks,    \* dns_failover_tasks
    due,      \* the tasks whose check_interval has elapsed
    up,       \* the tasks whose target answers probes
    edits,    \* operator changes so far
    queue,    \* jobs the worker's tick has still to run
    pc,       \* where each executor is
    job,      \* the task row it read
    healthy,  \* its probe's answer
    target,   \* the record it selected
    streak,   \* history: failed probes of a task since the last good one
    lost,     \* history: records switched at the provider but not locally
    shared    \* history: two executions have overlapped, or a handler has run

jobVars == <<queue, pc, job, healthy, target>>
failoverVars == <<tasks, due, up, edits, jobVars, streak, lost, shared>>
vars == <<zoneVars, failoverVars>>

PCs == {"idle", "probe", "resolve", "apply", "upsert", "mark", "markUnresolved"}

\* The value an execution switches to.
NewValue(e) == IF healthy[e] THEN job[e].cfg.original ELSE job[e].cfg.failover

TypeOK ==
    /\ ZoneTypeOK
    /\ tasks \in [Tasks -> TaskRow \cup {NoTask, Deleted}]
    /\ due \subseteq Tasks
    /\ up \subseteq Tasks
    /\ edits \in 0 .. MaxEdits
    /\ queue \subseteq Job
    /\ pc \in [Executors -> PCs]
    /\ job \in [Executors -> Job \cup {NoJob}]
    /\ healthy \in [Executors -> BOOLEAN]
    /\ target \in [Executors -> Target \cup {NoRow}]
    /\ \A e \in Executors :
         /\ pc[e] # "idle" => job[e] \in Job
         /\ pc[e] \in {"apply", "upsert"} => target[e] \in Target
         /\ pc[e] = "upsert" => NewValue(e) \in Values
    /\ streak \in [Tasks -> 0 .. MaxCount]
    /\ lost \subseteq Records
    /\ shared \in BOOLEAN

Init ==
    /\ ZoneInit
    /\ tasks = [t \in Tasks |-> NoTask]
    /\ due = {}
    /\ up = Tasks
    /\ edits = 0
    /\ queue = {}
    /\ pc = [e \in Executors |-> "idle"]
    /\ job = [e \in Executors |-> NoJob]
    /\ healthy = [e \in Executors |-> FALSE]
    /\ target = [e \in Executors |-> NoRow]
    /\ streak = [t \in Tasks |-> 0]
    /\ lost = {}
    /\ shared = FALSE

-----------------------------------------------------------------------------
Exists(t) == tasks[t] \in TaskRow
Enabled(t) == Exists(t) /\ tasks[t].cfg.enabled

Next1(n) == IF n < MaxCount THEN n + 1 ELSE MaxCount

\* MaxErrors <= 0 counts as 1.
Threshold(c) == IF c.maxErrors = 0 THEN 1 ELSE c.maxErrors

First(S) == {r \in S : \A q \in S : r <= q}

\* dnsSelectFailoverRecord: the records it may choose, none or one.
Selected(c) ==
    LET usable == {r \in Managed : local[r] # NoRow /\ local[r].on}
        original == {r \in usable : local[r].value = c.original}
        root == usable \cap Root
    IN  IF c.record # AnyRecord THEN {c.record} \ {r \in Records : local[r] = NoRow}
        ELSE IF original # {} THEN First(original)
        ELSE IF root # {} THEN First(root)
        ELSE First(usable)

\* dnsApplyFailoverTransition, on what the execution has read.
\* Variants: a good probe does not reset the count; a failed one does not raise it.
NewCount_NoReset(e) == IF healthy[e] THEN job[e].count ELSE Next1(job[e].count)
NewCount_NoRise(e) == IF healthy[e] THEN 0 ELSE job[e].count

NewCount(e) == IF healthy[e] THEN 0 ELSE Next1(job[e].count)

\* Variant: compares the row with the wrong one of the two values.
Recovers_WrongValue(e) ==
    LET c == job[e].cfg IN
    /\ healthy[e]
    /\ c.original # NoValue /\ c.failover # NoValue
    /\ c.original # c.failover
    /\ target[e].row.value = c.original

Recovers(e) ==
    LET c == job[e].cfg IN
    /\ healthy[e]
    /\ c.original # NoValue /\ c.failover # NoValue
    /\ c.original # c.failover
    /\ target[e].row.value = c.failover

FailsOver(e) ==
    LET c == job[e].cfg IN
    /\ ~healthy[e]
    /\ NewCount(e) >= Threshold(c)
    /\ c.failover # NoValue
    /\ target[e].row.value # c.failover

Switches(e) == Recovers(e) \/ FailsOver(e)

-----------------------------------------------------------------------------
(* dnsExecuteFailoverTask, one step per call that can be overtaken.        *)

Goto(e, l) == pc' = [pc EXCEPT ![e] = l]

Snapshot(t) == [task |-> t, cfg |-> tasks[t].cfg, count |-> tasks[t].count]

\* Variant: the execution keeps no copy of the task.
Start_NoCopy(e, j) ==
    /\ pc[e] = "idle"
    /\ Goto(e, "probe")
    /\ shared' = (shared \/ \E x \in Executors : pc[x] # "idle")
    /\ UNCHANGED <<zoneVars, tasks, due, up, edits, job, healthy, target, streak, lost>>

Start(e, j) ==
    /\ pc[e] = "idle"
    /\ job' = [job EXCEPT ![e] = j]
    /\ Goto(e, "probe")
    /\ shared' = (shared \/ \E x \in Executors : pc[x] # "idle")
    /\ UNCHANGED <<zoneVars, tasks, due, up, edits, healthy, target, streak, lost>>

\* dnsTickFailover reads the list and keeps the tasks that are due.
WorkerTick ==
    /\ pc[Worker] = "idle"
    /\ queue = {}
    /\ queue' = {Snapshot(t) : t \in {u \in due : Enabled(u)}}
    /\ UNCHANGED <<zoneVars, tasks, due, up, edits, pc, job, healthy, target,
                   streak, lost, shared>>

\* The list is ordered by descending id.
WorkerNext ==
    \E j \in queue :
        /\ \A k \in queue : k.task <= j.task
        /\ Start(Worker, j)
        /\ queue' = queue \ {j}

\* handleDnsFailoverCheck.
CheckNow(u, t) ==
    /\ Enabled(t)
    /\ Start(u, Snapshot(t))
    /\ UNCHANGED queue

\* dnsDoHealthCheck.
Probe(e) ==
    /\ pc[e] = "probe"
    /\ LET t == job[e].task IN
         /\ healthy' = [healthy EXCEPT ![e] = (t \in up)]
         /\ streak' = [streak EXCEPT ![t] = IF t \in up THEN 0 ELSE Next1(@)]
    /\ Goto(e, "resolve")
    /\ UNCHANGED <<zoneVars, tasks, due, up, edits, queue, job, target, lost,
                   shared>>

\* dnsResolveFailoverTarget.
Resolve(e) ==
    /\ pc[e] = "resolve"
    /\ \E r \in Selected(job[e].cfg) :
         target' = [target EXCEPT ![e] = [id |-> r, row |-> local[r]]]
    /\ Goto(e, "apply")
    /\ UNCHANGED <<zoneVars, tasks, due, up, edits, queue, job, healthy, streak, lost,
                   shared>>

\* No record to act on, or a read fails: the check is marked all the same.
ResolveFails(e) ==
    /\ pc[e] = "resolve"
    /\ \/ Selected(job[e].cfg) = {} /\ UNCHANGED faults
       \/ Fault
    /\ Goto(e, "markUnresolved")
    /\ UNCHANGED <<provider, local, unused, request, stale, tasks, due, up, edits,
                   queue, job, healthy, target, streak, lost, shared>>

\* Nothing to switch: below the threshold, already switched, healthy, or no
\* failover value is set.
Keep(e) ==
    /\ pc[e] = "apply"
    /\ ~Switches(e)
    /\ Goto(e, "mark")
    /\ UNCHANGED <<zoneVars, tasks, due, up, edits, queue, job, healthy, target,
                   streak, lost, shared>>

Switched(e) == WithValue(provider, target[e].id, NewValue(e))

Switch(e) ==
    /\ pc[e] = "apply"
    /\ Switches(e)
    /\ provider[target[e].id] # NoRow
    /\ provider' = Switched(e)
    /\ Spoil(Running)
    /\ Goto(e, "upsert")
    /\ UNCHANGED <<local, unused, request, faults, tasks, due, up, edits, queue,
                   job, healthy, target, streak, lost, shared>>

\* The provider reports an error: it does not have the record, the call was
\* not carried out, or it was and only the answer was lost.
SwitchFails(e) ==
    /\ pc[e] = "apply"
    /\ Switches(e)
    /\ \/ /\ provider[target[e].id] = NoRow
          /\ UNCHANGED <<provider, faults, lost>>
       \/ /\ Fault
          /\ UNCHANGED <<provider, lost>>
       \/ /\ Fault
          /\ provider[target[e].id] # NoRow
          /\ provider' = Switched(e)
          /\ lost' = lost \cup {target[e].id}
    /\ Spoil(Running)
    /\ Goto(e, "mark")
    /\ UNCHANGED <<local, unused, request, tasks, due, up, edits, queue, job,
                   healthy, target, streak, shared>>

\* Variant: writes the row as it was selected.
Upsert_OldRow(e) ==
    /\ pc[e] = "upsert"
    /\ local' = [local EXCEPT ![target[e].id] = target[e].row]
    /\ lost' = lost \ {target[e].id}
    /\ Spoil(Running)
    /\ Goto(e, "mark")
    /\ UNCHANGED <<provider, unused, request, faults, tasks, due, up, edits, queue,
                   job, healthy, target, streak, shared>>

\* dnsRecordUpsert.
Upsert(e) ==
    /\ pc[e] = "upsert"
    /\ local' = [local EXCEPT ![target[e].id] =
                   [value |-> NewValue(e), on |-> target[e].row.on]]
    /\ lost' = lost \ {target[e].id}
    /\ Spoil(Running)
    /\ Goto(e, "mark")
    /\ UNCHANGED <<provider, unused, request, faults, tasks, due, up, edits, queue,
                   job, healthy, target, streak, shared>>

Finish(e) ==
    /\ pc' = [pc EXCEPT ![e] = "idle"]
    /\ job' = [job EXCEPT ![e] = NoJob]
    /\ healthy' = [healthy EXCEPT ![e] = FALSE]
    /\ target' = [target EXCEPT ![e] = NoRow]
    /\ UNCHANGED <<up, edits, queue, streak, shared>>

\* The row is not written and the function returns before it marks the check.
UpsertFails(e) ==
    /\ pc[e] = "upsert"
    /\ Fault
    /\ lost' = lost \cup {target[e].id}
    /\ Spoil(Running)
    /\ Finish(e)
    /\ UNCHANGED <<provider, local, unused, request, tasks, due>>

\* Variant: last_check_at is not written.
Mark_KeepsDue(e) ==
    LET t == job[e].task IN
    /\ pc[e] \in {"mark", "markUnresolved"}
    /\ tasks' = IF Exists(t) THEN [tasks EXCEPT ![t].count = NewCount(e)] ELSE tasks
    /\ Finish(e)
    /\ UNCHANGED <<zoneVars, due, lost>>

\* dnsFailoverMarkCheck: no effect on a task deleted meanwhile.  After a
\* failure to resolve, a good probe leaves the count as it was read.
Mark(e) ==
    LET t == job[e].task
        count == IF pc[e] = "markUnresolved" /\ healthy[e] THEN job[e].count
                 ELSE NewCount(e)
    IN
    /\ pc[e] \in {"mark", "markUnresolved"}
    /\ tasks' = IF Exists(t) THEN [tasks EXCEPT ![t].count = count] ELSE tasks
    /\ due' = due \ {t}
    /\ Finish(e)
    /\ UNCHANGED <<zoneVars, lost>>

MarkFails(e) ==
    /\ pc[e] \in {"mark", "markUnresolved"}
    /\ Fault
    /\ Finish(e)
    /\ UNCHANGED <<provider, local, unused, request, stale, tasks, due, lost>>

-----------------------------------------------------------------------------
(* The operator, time, the targets, and a restart of the process.          *)

Edit(t, row) ==
    /\ edits < MaxEdits
    /\ edits' = edits + 1
    /\ tasks' = [tasks EXCEPT ![t] = row]
    /\ UNCHANGED <<zoneVars, up, jobVars, streak, lost, shared>>

\* handleDnsFailoverCreate: the INSERT leaves status and error_count at their
\* defaults, and a task never checked is due.
CreateTask(t, c) ==
    /\ tasks[t] = NoTask
    /\ c.enabled
    /\ Edit(t, [cfg |-> c, count |-> 0])
    /\ due' = due \cup {t}

\* handleDnsFailoverUpdate leaves error_count alone.
UpdateTask(t, c) ==
    /\ Exists(t)
    /\ Edit(t, [cfg |-> c, count |-> tasks[t].count])
    /\ UNCHANGED due

DeleteTask(t) ==
    /\ Exists(t)
    /\ Edit(t, Deleted)
    /\ due' = due \ {t}

IntervalElapses(t) ==
    /\ Exists(t)
    /\ t \notin due
    /\ due' = due \cup {t}
    /\ UNCHANGED <<zoneVars, tasks, up, edits, jobVars, streak, lost, shared>>

TargetChanges(t) ==
    /\ up' = IF t \in up THEN up \ {t} ELSE up \cup {t}
    /\ UNCHANGED <<zoneVars, tasks, due, edits, jobVars, streak, lost, shared>>

Restart ==
    /\ ZoneRestart
    /\ queue' = {}
    /\ pc' = [e \in Executors |-> "idle"]
    /\ job' = [e \in Executors |-> NoJob]
    /\ healthy' = [e \in Executors |-> FALSE]
    /\ target' = [e \in Executors |-> NoRow]
    /\ lost' = lost \cup {r \in Records :
                           \E e \in Executors : pc[e] = "upsert" /\ target[e].id = r}
    /\ UNCHANGED <<tasks, due, up, edits, streak, shared>>

\* A handler of the zone takes a step.
Handle ==
    /\ ZoneStep
    /\ shared' = TRUE
    /\ UNCHANGED <<tasks, due, up, edits, jobVars, streak, lost>>

Execute(e) ==
    \/ Probe(e) \/ Resolve(e) \/ ResolveFails(e)
    \/ Keep(e) \/ Switch(e) \/ SwitchFails(e)
    \/ Upsert(e) \/ UpsertFails(e) \/ Mark(e) \/ MarkFails(e)

Operator ==
    \E t \in Tasks :
        \/ \E c \in Configs : CreateTask(t, c) \/ UpdateTask(t, c)
        \/ DeleteTask(t)

Environment == \E t \in Tasks : IntervalElapses(t) \/ TargetChanges(t)

Next ==
    \/ WorkerTick \/ WorkerNext
    \/ \E u \in Checkers, t \in Tasks : CheckNow(u, t)
    \/ \E e \in Executors : Execute(e)
    \/ Operator \/ Environment
    \/ Handle
    \/ Restart

Spec == Init /\ [][Next]_vars

\* The worker goroutine keeps running, the calls of every execution end (they
\* carry a timeout), and time passes.  Nothing obliges the operator, a request
\* to start or a target to answer.
Fairness ==
    /\ WF_vars(WorkerTick)
    /\ WF_vars(WorkerNext)
    /\ \A e \in Executors : WF_vars(Execute(e))
    /\ \A t \in Tasks : WF_vars(IntervalElapses(t))

FairSpec == Spec /\ Fairness

-----------------------------------------------------------------------------
(* Properties.                                                             *)

Upserting(r) == \E e \in Executors : pc[e] = "upsert" /\ target[e].id = r

\* As long as no two executions have overlapped and no handler has run, the
\* table and the provider differ on a record only between the provider call and
\* the upsert, or because the upsert was lost (dnsExecuteFailoverTask).
LocalTracksProvider ==
    ~shared =>
        \A r \in Records : local[r] # provider[r] => r \in lost \/ Upserting(r)

\* What makes it inductive: the two rows differ at most in the value, and a
\* switch in progress carries the enabled flag of the row and the value the
\* provider now has.
SwitchInProgress ==
    ~shared =>
        /\ \A e, x \in Executors : pc[e] # "idle" /\ pc[x] # "idle" => e = x
        /\ \A r \in Records : (local[r] = NoRow) = (provider[r] = NoRow)
        /\ \A r \in Records : local[r] # NoRow => local[r].on = provider[r].on
        /\ \A e \in Executors : pc[e] \in {"apply", "upsert"} =>
             /\ local[target[e].id] # NoRow
             /\ target[e].row.on = local[target[e].id].on
        /\ \A e \in Executors : pc[e] = "upsert" =>
             provider[target[e].id].value = NewValue(e)

\* A record is switched away only after max_errors failed probes in a row
\* (DnsFailover.tsx, "max consecutive failures").
SwitchNeedsConsecutiveFailures ==
    [][\A e \in Executors :
         pc[e] = "apply" /\ pc'[e] = "upsert" /\ ~healthy[e] =>
             streak[job[e].task] >= Threshold(job[e].cfg)]_vars

\* What the promise needs: the worker alone executes tasks, nothing has failed,
\* and a task whose target answers finds its record.  Otherwise a count that
\* was already out of date is written back, or kept.
Undisturbed ==
    /\ faults = 0
    /\ \A u \in Checkers : pc[u] = "idle"
    /\ pc[Worker] = "markUnresolved" => ~healthy[Worker]

\* The worker's probe failed (Failing), or it answered; the mark is to come.
Probed == pc[Worker] \notin {"idle", "probe"}
Failing == Probed /\ ~healthy[Worker]

\* What makes it inductive: no count, in the table or read from it, exceeds the
\* failed probes in a row, except in the row whose good probe is still to be
\* marked; the worker has at most one job of a task.
CountsBacked ==
    /\ \A t \in Tasks :
         Exists(t) /\ ~(Probed /\ job[Worker].task = t) =>
             tasks[t].count <= streak[t]
    /\ \A j \in queue : j.count <= streak[j.task]
    /\ \A j, k \in queue : j.task = k.task => j = k
    /\ pc[Worker] # "idle" => \A j \in queue : j.task # job[Worker].task
    /\ pc[Worker] = "probe" => job[Worker].count <= streak[job[Worker].task]
    /\ Failing => NewCount(Worker) <= streak[job[Worker].task]

Serves(t, v) ==
    /\ Exists(t)
    /\ provider[tasks[t].cfg.record] # NoRow
    /\ provider[tasks[t].cfg.record].value = v

\* Two enabled tasks on one record fight over it, so no other task may have it.
Alone(t) ==
    /\ Enabled(t)
    /\ \A u \in Tasks \ {t} : Exists(u) => tasks[u].cfg.record # tasks[t].cfg.record

\* When the target answers for good, the provider is back on the original
\* value for good.
RecoversEventually ==
    \A t \in Tasks :
        <>[](t \in up /\ Alone(t)) => <>[]Serves(t, tasks[t].cfg.original)

\* When the target is down for good, the provider ends on the failover value.
FailsOverEventually ==
    \A t \in Tasks :
        <>[](t \notin up /\ Alone(t)) => <>[]Serves(t, tasks[t].cfg.failover)

\* No due task is left unchecked for ever behind the others of the tick.
DueTaskChecked ==
    \A t \in Tasks : t \in due /\ Enabled(t) ~> t \notin due \/ ~Enabled(t)
=============================================================================
