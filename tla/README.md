# EasyPanel: models, checks and proofs

EasyPanel is an operations panel: a Go backend (`src/backend`), a React frontend
(`src/frontend`) and manifests (`src/k8s`). Most of the backend are handlers
that pass a request on to Kubernetes, vCenter, Harbor or Prometheus. What can go
wrong in it over time is in the parts that keep state of their own beside a
request: DNS failover and scheduling, the platform key-value store and its
cache, the alert rules, the synchronisation of ingresses to a Baota panel, the
library of documents with its cache, and the two pages of the frontend that keep
state over several requests, the document editor and the file transfer panel.
This directory models those parts in TLA+, checks them with TLC and proves their
main invariants with TLAPS.

`PROJECT.json` has the whole list: components, runs, mutants, the source lines of
every definition, findings, hazards and theorems. `PROJECT.json` and this file
name source lines as `src/<path>:<line>`.

- [The system](#the-system)
- [Modules](#modules)
- [Runs](#runs)
- [What the runs found](#what-the-runs-found)
- [Proofs](#proofs)
- [What is not modelled](#what-is-not-modelled)
- [Plan](#plan)

## The system

One or more replicas of the backend run behind a service. `main.go` starts the
background jobs in a replica when `EASYPANEL_ENABLE_BACKGROUND_JOBS` is true; the
manifests and `SECURITY.md` ask for exactly one such replica. Handlers run in all
of them. The replicas share a MySQL database, Redis, the cluster and the outside
services. Nothing but the database orders what they do: there are mutexes within
a process, and hardly any transaction, lease or version check between processes.

| Component | State | Operations | Interacts with | What makes it hard |
|---|---|---|---|---|
| DNS zone records (`api/dns/controller/handlers.go`, `store_mysql.go`) | provider's records; rows of `dns_records` | create, update, delete, set status, sync | provider API, MySQL | every handler writes the provider first, ignores its error, then writes the table; sync empties the table and fills it row by row; no lock |
| DNS failover (`failover.go`) | `dns_failover_tasks` with error count and last check | worker tick, "check now", create, update, delete | zone records, probed targets | an execution works on rows it read before its probe and its provider call; requests run it beside the worker; faults at each step |
| DNS scheduled tasks (`scheduled.go`) | `dns_scheduled_tasks` | worker tick, create, delete | zone records | list read once per tick; effect and result are separate writes; restart between them repeats the effect; one provider skips a pause without saying so |
| Platform key-value store (`platform_kv_redis_hot.go`, `pkg/platformkv`) | JSON documents in a file or MySQL; copies in Redis | Get, Set; load and save by callers | every component that keeps settings, reports or logs | fill after read races Set after write; unlocked load and save; cache writes that fail silently; a replica that found no Redis |
| Alert rules (`ops_center_alert_worker.go`) | rules and silences; firing and pending state | tick every minute, save of the settings | store, Prometheus, channels | messages go out before the state that says so is saved, and one that reaches nobody is not sent again; pending time across edits, silences and failed queries |
| Ingress to Baota (`baota_sync_run.go`, `baota_delete.go`, `syncer.go`) | sites of the panel; report in the store | run from timer or request, deletion with background retries | cluster, panel, store | list read once per run; calls that take effect and whose answer is lost, answers that are taken for a success; one mutex per process; a restart in the middle |
| Documents (`docs_handlers.go`, `docs_cache.go`) | row, tags and versions in MySQL; the answer of a get in Redis | get, create, save, restore, duplicate, move, delete | MySQL, Redis, editor | every statement is committed by itself; a get fills the cache after its answer; a save that fails half way deletes nothing from the cache |
| Document editor (`md-editor/EditorContainer.tsx`, `DocExcalidrawPane.tsx`) | body and kind in the page; query cache; mutations under way; the drawing and the timer of a canvas | open, type, draw, save, share, restore | documents | the editor is a copy that effects refresh; a canvas keeps what it was mounted with; nothing waits for a document to have come; closures and timers outlive the document they were made for |
| File transfer (`VCenterBastionSftpPanel.tsx`, `vcenter_bastion_sftp_ws.go`) | directory, entries and socket of the panel; requests and answers under way | list, upload, download, remove, change of the target | hosts, the pages that show the panel | requests are not answered one at a time; the socket is replaced when the target is, and the old session goes on |
| DNS certificates (`handlers.go`, `cert_acme.go`) | certificate orders | apply, push | ACME, provider, Baota | status and PEM are blanked before the new certificate exists |
| Harbor index (`api/harbor/service`) | payload, meta, progress in Redis | crawl from worker or request | Harbor, Redis | three writes that belong together |
| OpenClaw health (`api/appcenter/service`) | snapshot and unread flag in memory | periodic check, removal, read | store, instances | list read minutes before the snapshot is replaced |
| Application state (`server_app.go`, `redis_reconnect.go`) | configuration, clients, store of the process | Reload, reconnect | all of the above | clients and store are swapped under running requests |
| Login, permissions, audit, caches, consoles, guides, monitoring, other pages | see `PROJECT.json` | | | request and response, or streams; little state that outlives a request |

What should hold of the modelled ones:

- *zone*: a sync that nothing disturbed leaves exactly what the provider serves;
- *failover*: table and provider differ only in the middle of a switch or after a
  lost write; a record is switched only after enough failures in a row; it ends on
  the right value; no task starves;
- *scheduled*: a task's result says what the provider carried out, its effect happens
  once unless a result was lost, table and provider differ only in the middle of one,
  and due tasks end;
- *store*: the cache is the store's document unless something came between them,
  what was saved stays saved, a Get finds nothing that nobody keeps any more, and the
  two agree in the end;
- *alerts*: messages say firing and resolved in turn but for one repetition per
  failure, a rule fires only if its condition held for its time, and what stays true
  or false is told, once;
- *documents*: Redis keeps the document as it is unless a get or a bump came too
  late; a text that was saved as a version stays; readers are never answered with
  something nobody keeps any more;
- *editor*: what is sent to a document came from it, and what is shown unedited, in
  the editor and on a canvas, is what is stored;
- *file transfer*: what is shown belongs to the host and the directory it is shown
  for, uploads land where they were picked, and when all is answered the panel
  shows what is there;
- *Baota*: a site that was deleted stays deleted, the report is true, and once
  failures end everything is served, as the ingress asks, and reported so.

## Modules

| Module | Models | State and code |
|---|---|---|
| `DnsZone` | one zone and its handlers | `provider` is what the provider serves, `local` the table; `request[h]` is what a handler has still to write. `RecordCreate`, `RecordUpdate`, `RecordDelete`, `RecordSetStatus`, `SyncList` are the handlers up to their provider call, `WriteLocal`, `SetLocalStatus`, `SyncClear`, `SyncWrite`, `SyncEnd` the statements after it |
| `DnsFailover` | failover tasks; EXTENDS `DnsZone` | `tasks` is `dns_failover_tasks`; `pc`, `job`, `healthy`, `target` are the local variables of `dnsExecuteFailoverTask`, one set per executor; `queue` is the slice of a tick. One action per call of an execution: `Probe`, `Resolve`, `Switch`, `Upsert`, `Mark`, each with its failure |
| `DnsScheduled` | scheduled tasks; EXTENDS `DnsZone` | `tasks` is `dns_scheduled_tasks`; `queue`, `pc`, `job`, `found` are the worker's. `Resolve`, `Apply`, `WriteRow`, `Mark`, each with its failure; `Skipped` is a pause or an enable at a provider without an enabled flag, for which the task goes on and nothing is `applied` |
| `PlatformKV` | one key of the store behind the cache; implements `DocRegister` | `store` is what the store answers, `disk` what it answers after a restart, `cache` the document in Redis, `hot` the processes whose store is wrapped. `GetHit` to `Answer` are Get, `SetStore` to `PutFails` Set; a writer loads, adds its entry and saves |
| `OpsAlerts` | the alert worker | `firing`, `pending` are the stored state, `state` the worker's copy, `config` the settings it loaded, `todo` the rules of this tick. One action per outcome of a rule, and `SaveState`. `last` is the message a rule sent last, `heard` the last one that reached anybody: `Send` cannot tell the two apart |
| `BaotaSync` | runs and deletions | `sites` is the panel, `run[p]` the run of a process, `report` the stored report, `deleter[x]` a deletion with its retries. One action per call of a run and of a deletion, with failures before and after the effect. `Misread` and `DeletionMisread` are the answers that count as a success with nothing done; `doubt` has the domains of which a run or the report cannot be sure for that, or because a deletion took something away |
| `SftpPanel` | the panel, its sockets, the sessions behind them | `socket[s]` has the state and both directions of a WebSocket, `ws` is `wsRef`; `path`, `entries`, `busy` are the panel's state, `upload` the file the browser still reads. `Serve*` are the branches of `runBastionSFTPSession`, `On*` the event handlers of the socket, `Refresh` to `SendUpload` the user's, `Retarget` and `Remount` the effect on the target |
| `DocRegister` | what the documents' API and the key-value store promise their readers: abstract | `value` is the document, `answerable` what its readers may be answered with. A value that nobody keeps comes back only by being written again |
| `DocsStore` | one document; implements `DocRegister` | `row`, `tags`, `versions` are the tables, `cache` the key in Redis, `request[r]` what a handler has read and still has to do. One action per statement, and `Fail` after any of them |
| `DocsEditor` | the editor page; EXTENDS `DocRegister` as its server | `editor` is the state the page edits, `data` the query cache, `fetch` the request for the current document, `job[m]` a mutation with its request and answer, `scene` the drawing of the canvas that is mounted, `timer` its debounce. `Copy` is the effect on the data with the render before and after it (`Render`), `Draw` a change a canvas reports, its own first one included, `TimerFires` the drawing handed to the editor, `OnSuccess` the callback of a mutation |

`DnsFailover` and `DnsScheduled` compose their component with the zone: they extend
`DnsZone`, and their Next contains `ZoneStep`, so record handlers interleave with the
worker. The alert log, the alert rules and the Baota report are documents of the
store; each is one of the writers of `PlatformKV`, and the other modules take a Get or
Set of the store as one step that may fail.

`PlatformKV` implements `DocRegister`, with `value` the document the store answers with
and `answerable` that, what Redis keeps and what a Get or a Set is about to write there.
A failed query of MySQL, which looks like an absent key, is allowed for: on MySQL "no
document" can always be answered, on a file only until the first Set. `answer` is given
where a Get finds its document, not where it returns.

`DocsStore` and `DocsEditor` meet in `DocRegister`. The store is shown to implement
it, with `value` the row and `answerable` the row, what Redis keeps and what a get
under way has read (`Register == INSTANCE DocRegister WITH ...`); the editor makes
no step the register does not allow, and relies on nothing else. So what holds of
the page holds with the handlers, the table and Redis behind it, and each is
checked without the states of the other. A document's text is all the editor
shares with the register; tags and category are in `DocsStore` only.

`MC<Module>` gives the constants values for TLC, `<Module>Proofs` has the theorems.
A variable described as *history* is read by no guard. An operator called
`Name_Variant` is a mistaken version of `Name`, which the mutants of
`PROJECT.json` put in its place to see that the property notices.

Conventions: data is reduced to what the properties compare. A record is a value
and a flag, a document the set of its entries, an ingress an address and whether it
asks for HTTPS. Time is the fact that an interval has elapsed (failover), a small
counter (scheduled) or ages in minutes (alerts). A failure is a disjunct or an
action of its own. A restart loses what is in memory only.

## Runs

`tlc -workers 2 -config <cfg> <module>`; none takes more than about two and a half minutes.

| Run (cfg) | Properties | Bounds |
|---|---|---|
| `failover` (`MCDnsFailover`) | `TypeOK`, `LocalTracksProvider` | two records, worker and one "check now", one task with and without a record id, two edits, one fault |
| `failover_requests` (`MCDnsFailover_requests`) | `SyncFaithful` | an empty zone and two ids to give out, a provider without enabled flags, a handler beside the worker, one task, one edit, one fault |
| `failover_live` (`MCDnsFailover_live`) | `RecoversEventually`, `FailsOverEventually`, `DueTaskChecked`, `SwitchNeedsConsecutiveFailures` | worker alone, two tasks, three edits, no faults |
| `scheduled` (`MCDnsScheduled`) | `TypeOK`, `OutcomeTold`, `AppliedOnce`, `RowsAgree`, `DueTaskExecuted` | one task out of seven plans, a provider with enabled flags, one handler, two faults |
| `kv` (`MCPlatformKV`) | `TypeOK`, `CacheFresh`, `NothingForgotten`, `CacheConverges`, `ImplementsRegister` | three writers and a reader, two processes, documents of three entries where two still fit the cache |
| `alerts` (`MCOpsAlerts`) | `TypeOK`, `MessagesAlternate`, `FiresOnlyIfHeld`, `AlertBegins`, `AlertEnds` | one rule of two minutes, gaps of up to two minutes between ticks, three faults |
| `baota` (`MCBaotaSync`) | `TypeOK`, `GoneStaysGone`, `ReportTrue`, `AllServedEventually`, `ReportConverges` | one host with HTTPS, one process, two deletions with one retry, two attempts per call, any number of faults, misread answers and edits |
| `sftp` (`MCSftpPanel`) | `TypeOK`, `ShownIsHere`, `UploadsLand`, `ListingCurrent`, `NavigationKept`, `BusyMeansWaiting` | two hosts, a folder and a file, two sockets, `MaxQueue` two requests, answers and uploads under way, `MaxLeft` one request on a socket that is closed |
| `docs` (`MCDocsStore`) | `TypeOK`, `DetailFresh`, `SavedIsKept`, `ImplementsRegister` | two texts, two categories, a tag, two requests at once, `MaxVersion` two versions |
| `editor` (`MCDocsEditor`) | `TypeOK`, `SendsOwnText`, `ShowsStored` | a canvas beside a second document of either kind, two texts, one mutation that saves or shares and one that restores, `MaxPending` one mutation or timer under way, `Foreign` one document others write |
| `failover_race`, `baota_moved` | one each | violated, see below |

Why the bounds are enough to be interesting:

- *failover, scheduled*: two ids to give out are what a lost answer of a creation
  needs: the provider has the record under one, the table under the other. An
  undisturbed and a disturbed sync need a request and somebody beside it, here the
  worker, and `ZoneSyncFaithful` is about any number of requests; a race needs two
  executors; a lost write needs one fault, a repeated effect two. Two records are what
  it takes for a task without a record id to pick the wrong one. `MaxCount`, where the
  error count stops, is no smaller than any `maxErrors`, so no comparison of the two
  changes.
- *kv*: a stale fill, a lost update and an overtaken cache write each need two
  or three requests; `MaxCached` 2 of 3 makes a document grow out of the cache.
  `VIEW WhatMatters` leaves out `answer`, which nothing reads (`MCPlatformKV`).
- *alerts*: rules share only the moment of saving; faults of one rule's result can
  be lost, repeated and lost again within three.
- *baota*: hosts share only the order of a run. Processes share the panel and the
  report; two would multiply the states beyond what liveness can be checked on,
  and the theorems are about any number of both.
- *sftp*: a stale session needs a second socket, an upload that goes astray a second
  host, and a listing that leads back a request behind another. Hosts and sockets
  are interchangeable (`SYMMETRY`).
- *docs*: a late fill, a late bump and a version number drawn twice each need two
  requests; the second version is the one that can collide. With one tag a sync has
  a moment without it. Texts, categories and requests are interchangeable; the
  refinement is an action property, for which that is sound.
- *editor*: the kind and the text of one document in another need one of each kind, a
  canvas that is mounted with another's drawing two canvases; `Kinds` has both. A
  save that meets a move of the page needs one mutation, and so does a timer; more
  under way at once only add to what is excused, and the theorems are about any number.
  `saveMut` and `shareSaveMut` differ in which answers end in a refetch, so one mutation
  in `Saves` and `Shares` may be either.
  `Forgets` is FALSE: a server that forgets nothing can answer all that another can,
  and no property is about what it cannot answer. States count as one that differ only
  in what nothing reads (`VIEW WhatMatters`, explained in `MCDocsEditor`).

Bounds on faults and edits are constants in guards (`MaxFaults`, `MaxEdits`,
`MaxTime`), so a fault is always possible until the bound is used up.
`BaotaSync` has none: `calm` says whether the world behaves, and may change at any
time; nor have `SftpPanel`, `DocsStore` and `DocsEditor`, where anything may fail at
any time. `CHECK_DEADLOCK FALSE` is set for the DNS runs, which end when every task
has run and every bound is used up; the others check for deadlock.

Fairness. Weak fairness of the workers' steps: the goroutines run in a loop with a
ticker, and every call they make has a timeout, so a step ends, well or badly
(`StartDnsFailoverWorker`, `StartDnsScheduledWorker`, `StartOpsCenterBackground`,
`StartSyncer`). Requests and background deletions that have begun come to an end
for the same reason. Cached documents expire (`EX` of every Set to Redis), and an
interval elapses. Nothing is assumed of operators, targets, restarts or
failures: a liveness property that needs failures to end says so in its premise
(`<>[]calm`, `<>[](t \in up /\ Alone(t))`), or holds whatever fails
(`DueTaskExecuted`, `CacheConverges`).

## What the runs found

| Run | What it shows |
|---|---|
| `failover_race` | "Check now" runs beside the worker without a lock. A recovery and a switch of one record can reach the provider in one order and the table in the other; then the table says the record is in order, every later check leaves it alone, and the provider serves the failover value for ever. |
| `baota_moved` | A proxy that exists is "already exists", counts as success and is never changed. When the address an ingress is reached at changes, the panel keeps the old one for ever, and the report is content. |

What the models have, as the code does, and what a reader should know although no
run is made to fail over it:

- A failover task without a record id whose record is already switched finds no
  record with its original value and falls back to another one, which the next
  failed check switches (`src/backend/api/dns/controller/failover.go:507`). The page
  says the record is matched by its original value
  (`src/frontend/src/features/dns/pages/DnsFailover.tsx:269`). `Selected` is the choice.
- Scheduled tasks due in one tick run latest first, so the earlier one has the last
  word (`src/backend/api/dns/controller/store_mysql.go:477`, `WorkerNext`).
- A save of a document that changes only its tags, or only its share password, is
  always answered "文档不存在" and not carried out
  (`src/backend/common/core/docs_handlers.go:828`): its UPDATE changes no column, MySQL
  counts the rows it changed, and the connection does not ask for those it found
  (`UpdateAffectsNone`).
- The editor opens a document that is not in the query cache with the text and kind
  of the last one until it has come, and saves already go to the new address
  (`src/frontend/src/md-editor/EditorContainer.tsx:159`); if it does not come, that
  remains so. The category of the last document stays even after it has come, when
  the new one has none (line 166). `SendsOwnText` excuses it as *hurried*.
- A canvas that is left within half a second of a stroke hands its drawing to
  whatever document is open then
  (`src/frontend/src/md-editor/DocExcalidrawPane.tsx:58`; *leaked*).
- A canvas takes a drawing only when it is mounted
  (`src/frontend/src/md-editor/DocExcalidrawPane.tsx:68`), and its key, document and date,
  changes in the render before the effect that copies the document. So one that is opened
  from another canvas shows the other's drawing, and one that was restored or refetched the
  drawing before that; half a second later it hands it to the editor with nobody editing,
  and a save writes it into the document. The same holds of a canvas opened for the first
  time from another one: the editor still has the other's body when its data come.
  `ShowsStored` leaves such a canvas out (*stale*), `SendsOwnText` a save after another
  document's drawing was handed over (*leaked*).
- Cloudflare has no enabled flag. Its `SetStatus` does nothing and returns no error
  (`src/backend/api/dns/controller/providers.go:324`), so a scheduled pause ends "done"
  and the table shows a paused record that is still served (`Skipped`).
- A message that no channel carries is lost for good: errors are ignored, the rule
  counts as announced or withdrawn, and nothing sends it again
  (`src/backend/common/core/ops_center_alert_worker.go:250`; `Missed`).
- A refusal of the panel with "exist" in its message, about whatever, and an answer with
  status 200 that is no JSON or has no status count as success of every call
  (`src/backend/api/baota/provider/client.go:180`); an error of the search for a site that
  sounds like "no such site", and a site beyond the first hundred rows, as a deletion that
  is over (`src/backend/common/core/baota_delete.go:121`). The report is then in order, or
  the deletion confirmed, with nothing done (`Misread`, `DeletionMisread`).
- What is typed while a save is under way is lost when the refetch comes (`Arrive`
  copies whatever was typed). Two tabs overwrite each other: nothing compares versions.
- An upload that was picked before the panel was given another host is written to
  that host (`src/frontend/src/features/vcenter/pages/VCenterBastionSftpPanel.tsx:178`;
  *moved*), and the listing after an upload or a removal takes the user back to a
  directory already left (line 99; *crossed*).

Smaller things that the models have, as the code does, and that are kept out of
the properties by their premises are in the hazards: a failed provider call that
leaves the table ahead of the provider until the next sync; rules switched off
while they fire or are pending; a background retry of a deletion that takes away a
site an ingress has asked for meanwhile, until the next run; a run that creates a
site again whose deletion was confirmed after the run had listed it. Where a property
leaves out what a hazard is about, because the code does so and nothing says it should
not, the hazard names no property and its note says what the property leaves out.

## Proofs

`tlapm <Module>Proofs.tla` checks them. They hold for every value of the constants
that satisfies the assumptions in the modules: sentinels differ from the values
they stand beside, bounds are naturals, sets that are ordered are sets of naturals.

| Module | Theorem | Inductive invariant |
|---|---|---|
| `DnsFailoverProofs` (with `DnsZone`) | `ZoneTypeCorrect`, `ZoneSyncFaithful`, `TypeCorrect`, `TracksCorrect`, `FailoverSyncFaithful`, `SwitchesAreEarned` | `SyncUndisturbed`: the list of an undisturbed sync is still what the provider serves; `SwitchInProgress`: a switch in progress carries the row's flag, and the provider has its value; `CountsBacked`: no error count, in the table or in a job, exceeds the failed probes in a row |
| `DnsScheduledProofs` | `TypeCorrect`, `AppliedOnceCorrect`, `OutcomeCorrect`, `RowsAgreeCorrect` | `Bookkeeping`: listed tasks are distinct, unfinished, as planned in the table and not applied unless left unmarked, and a task that comes to "done" was carried out or skipped; `WorkerAgrees`: the row the worker has read is the table's, and the provider has the change it is about to make |
| `PlatformKVProofs` | `TypeCorrect`, `CacheFreshCorrect`, `NothingForgottenCorrect`, `KVImplementsRegister` | `RequestsCurrent`: a request nothing has overtaken holds the store's document |
| `OpsAlertsProofs` | `TypeCorrect`, `MessagesAlternateCorrect`, `FiresOnlyIfHeldCorrect` | `StateTrue`: the state the worker goes by knows what was said and how long a rule has held; `RepeatsPaid`: a message that is still to be repeated has been paid for by a failure |
| `DocsStoreProofs` | `DocsTypeCorrect`, `DocsDetailFresh`, `DocsSavedIsKept`, `DocsImplementsRegister` | `ReadsCurrent`: what a get has read that is not late is what the document is; `VersionsBehind`: a request that comes to its bump has put its text among the versions; `Unborn`: before the document exists nothing knows of it |
| `DocsEditorProofs` | `EditorTypeCorrect`, `EditorSendsOwnText`, `EditorShowsStored`, `EditorUsesRegister` | `EditorInv`: what is in the editor is the current document's own (`Owned`) and unedited its data, as is the drawing of a canvas that is not stale (`Shown`), and data that nothing excuses are what is stored (`Fresh`) |
| `BaotaSyncProofs` | `TypeCorrect`, `GoneStaysGoneCorrect`, `ReportTrueCorrect` | `GoneForNobody`: nobody is about to create a site that is gone; `RunsInOrder`: a run knows what it has brought about for its target so far, where nothing put it in doubt |
| `SftpPanelProofs` | `PanelTypeCorrect`, `PanelShownIsHere`, `PanelUploadsLand`, `PanelBusyMeansWaiting`, `PanelListingCurrent`, `PanelNavigationKept` | `PanelAgrees`: only the panel's own socket has answers to deliver; `Current`: a listing still to come covers what is shown, or the last one tells the truth; `Navigated`: from some listing on, shown, on its way or still asked for, everything leads to where the user went |

The properties are not inductive alone because they speak of the result: the table
after a switch, the report after a run. What leads to it is in local variables of
an execution in progress, and the strengthening says how those relate to the shared
state at every step. Each proof has the same shape. `InitType` and a lemma per
action give type correctness; then the strengthening is shown to hold initially and
to be kept by every action, one lemma per action or group of actions that touch the
same variables; the theorem combines them with `PTL`. Type correctness is not
shallow in `DnsFailover`, `DnsScheduled` and `BaotaSync`: it says that a step that
uses a row, a value or a target has one.

`DocsImplementsRegister` is a refinement: the initial states map to initial states,
and every statement of a handler maps to a `Write`, a `Forget` or an `Answer` of the
register, or to a step that leaves it alone; `KVImplementsRegister` says the same of
every step of a Get or a Set, of failures and of restarts. `EditorUsesRegister` is the
other half: every step of the page is one of the register's.

`SwitchesAreEarned` is about behaviours that are `Undisturbed` throughout: no "check
now", no fault, and no good probe whose record is not found. Each of the three is
needed, because each can leave or write back a count that a good probe should have
reset; then a record is switched after fewer failures in a row than `max_errors`. The
run `failover_live` has such behaviours only, and the theorem says the same of any
number of tasks, records, edits and requests on the zone. Within it the count in the
table is out of date between a good probe and its mark, which `CountsBacked` excepts.

`PanelListingCurrent` and `PanelNavigationKept` argue along the two queues of a
socket. Requests are answered in order, so what the panel will show last is decided by
the last listing in the answers, or by one still to be asked for: by the requests, or
by the answer to an upload or a removal, which makes the panel ask again. `Navigated`
names the place in the queues from which on this holds; answers before it may be late
or lead elsewhere. A few lemmas about appending to a sequence and taking its head carry
the places along, and `OpenCases` shows that every step that leaves the panel with an
open socket sends a request, answers one, takes an answer, opens the socket or leaves
all of this alone.

Model-checked only: all liveness properties (`RecoversEventually`,
`FailsOverEventually`, `DueTaskChecked`, `DueTaskExecuted`, `CacheConverges`,
`AlertBegins`, `AlertEnds`, `AllServedEventually`, `ReportConverges`), since the
prover has no support for `ENABLED` here; and the two properties the code violates.
Every other property of a run is a theorem.

## What is not modelled

Within the modelled components: the contents of messages, probes, reports and
certificates; more than one panel, zone or key at a time; the Redis mirror that is
written when Redis comes back, and Snapshot; Reload under running requests; the daily
report; the switch that turns the Baota timer off; the default of three for
`maxErrors` of a failover task (`handlers.go:906`), since the runs give every task its
number; the store of their own through which the certificates of Baota are written
beside the cache (`src/backend/common/core/baota_ssl.go:146`). A Baota site is a proxy
and a flag; a proxy that leads elsewhere is served in the sense of `ReportTrue`, and
`baota_moved` is about that. In `DnsZone` a provider call by `RecordUpdate` keeps the
enabled flag, as the clients of Aliyun, DNSPod and Tencent do. Of documents: the share
password, media, the public page, and the list, whose cache keys carry a revision that
is read before the query, so a late fill goes to a key nobody asks for any more, and
the document a new page guide brings along (`docs_guides.go:307`), which is inserted
in one transaction before anyone can know of it. Of the editor: the title (and its
default, `EditorContainer.tsx:381`) and the published flag, which can be edited on any
document and go the way of a markdown body; category, tags, uploads, creating and
deleting documents; and the wait for the code of the canvas when it is shown for the
first time. Of the file transfer: content and size of files, and the operations the
panel never sends.

Other components are listed with their reasons in `PROJECT.json`: handlers that only
pass requests on, streams between a browser and a host, rendering, and caches with a
short time to live whose pattern is that of `PlatformKV`.

Most of the logic that keeps state is in the Go backend, and most of the
frontend's lines are forms, tables and layout around one request each: they hold
nothing a model checker could find wrong. That is why the models cover a small part
of the repository's lines.

## Plan

Written so far, in the order of importance: zone, failover, scheduled tasks, store,
alerts, Baota; then documents with their register, the editor, and file transfer.
What would come next:

1. `DnsCertificate`: orders, the blanking of the issued certificate when it is applied
   for again, overlapping applications, cleanup of the TXT records in the zone, and
   the push to Baota. Properties: an issued certificate is not lost, no order stays
   "applying", TXT records do not pile up.
2. `HarborIndex`: payload, meta and progress, with a worker and a request. The meta
   hash always describes the payload; progress does not stay "running".
3. `GatewayHealth`: the check against removals and reads. The unread flag is set when,
   and only when, an instance that exists has failed.
4. The schedule of the daily report, in `OpsAlerts` or a module beside it: at most one
   a day, and none is skipped, which a late tick does.
5. Reload and reconnect in `PlatformKV`: two stores of one process.
6. Abstract specifications for `BaotaSync` (a reconciler that only ever brings the panel
   closer to the ingresses) and `DnsScheduled` (a task ledger).
7. Proofs: of the abstract specifications of 6, step by step, and of what the modules
   of 1 to 5 promise.
