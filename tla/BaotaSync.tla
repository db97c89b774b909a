------------------------------ MODULE BaotaSync ------------------------------
(***************************************************************************)
(* The synchronisation of Kubernetes ingresses to a Baota panel            *)
(* (common/core/baota_sync_run.go, syncer.go) and the deletion of an       *)
(* ingress together with its site (web.go, baota_delete.go).               *)
(*                                                                         *)
(* A run lists the managed ingresses once and then brings a site, a        *)
(* reverse proxy and, if asked for, HTTPS to the panel for every host, each *)
(* with a few attempts.  It starts from a timer in one process and on      *)
(* request in any; only runs of one process exclude each other.  What a    *)
(* run has done is kept in a report all processes share.  A deletion works *)
(* beside the runs and, when it fails, goes on in a goroutine.             *)
(*                                                                         *)
(* While calm holds nothing fails, no process restarts and nobody edits an *)
(* ingress; otherwise any of it may happen, as often as it likes, and an   *)
(* answer that is none of the panel's may count as success.                *)
(***************************************************************************)
EXTENDS Integers, FiniteSets

CONSTANTS
    Ingresses,  \* ingresses that may exist
    Domains,    \* hosts
    Domain,     \* the host of each ingress
    Urls,       \* addresses of the cluster's entry
    Rules,      \* what an ingress may ask for: an address, and HTTPS or not
    Processes,  \* replicas of the backend
    Timer,      \* the one that runs background jobs
    Deleters,   \* deletions that may be in progress
    Attempts,   \* calls of one step before it counts as failed
    Retries,    \* attempts of a failed deletion in the background
    None,       \* no managed ingress
    NoSite,     \* the panel has no site for the domain
    NoProxy,    \* the site has no reverse proxy
    NoTarget,   \* the run is not working on a target
    NoDeletion  \* no deletion in progress

Rule == [url: Urls, https: BOOLEAN]
ProxyTarget == [domain: Domains, url: Urls, https: BOOLEAN]
Site == [proxy: Urls \cup {NoProxy}, https: BOOLEAN]

\* A deletion in progress; left: attempts to be made when this one fails.
Deleter == [phase: {"proxy", "lookup", "delete", "stale"},
            domain: Domains, left: 0 .. Retries]

ASSUME BaotaAssumption ==
    /\ Domain \in [Ingresses -> Domains]
    /\ Rules \subseteq Rule
    /\ Timer \in Processes
    /\ Attempts \in Nat \ {0}
    /\ Retries \in Nat
    /\ None \notin Rule
    /\ NoSite \notin Site
    /\ NoProxy \notin Urls
    /\ NoTarget \notin ProxyTarget
    /\ NoDeletion \notin Deleter

VARIABLES
    ingress,  \* what each managed ingress of the cluster asks for
    sites,    \* the sites of the panel
    run,      \* the run of each process
    report,   \* the report in the platform store
    deleter,  \* the deletions in progress
    calm,     \* nothing fails and nobody edits
    gone      \* history: domains the panel has deleted and nothing brought back

vars == <<ingress, sites, run, report, deleter, calm, gone>>

Phases == {"idle", "list", "next", "site", "proxy", "https", "report"}
Calling == {"site", "proxy", "https"}

\* done: the targets reported in order.  doubt is history: the domains from
\* which a deletion took something since the run came to them, and those for
\* which an answer that said nothing was taken for a success.
Run == [phase: Phases, todo: SUBSET ProxyTarget,
        at: ProxyTarget \cup {NoTarget}, tries: 1 .. Attempts, good: BOOLEAN,
        done: SUBSET ProxyTarget, doubt: SUBSET Domains]
NoRun == [phase |-> "idle", todo |-> {}, at |-> NoTarget, tries |-> 1,
          good |-> TRUE, done |-> {}, doubt |-> {}]
Report == [running: BOOLEAN, done: SUBSET ProxyTarget, doubt: SUBSET Domains]

\* A run has a target exactly while it works on it, and a list after List.
Coherent(r) ==
    /\ r.phase \in Calling \cup {"report"} <=> r.at # NoTarget
    /\ r.phase \in {"idle", "list"} => r.todo = {}

TypeOK ==
    /\ ingress \in [Ingresses -> {None} \cup Rules]
    /\ sites \in [Domains -> {NoSite} \cup Site]
    /\ run \in [Processes -> Run]
    /\ \A p \in Processes : Coherent(run[p])
    /\ report \in Report
    /\ deleter \in [Deleters -> {NoDeletion} \cup Deleter]
    /\ calm \in BOOLEAN
    /\ gone \subseteq Domains

Init ==
    /\ ingress = [i \in Ingresses |-> None]
    /\ sites = [d \in Domains |-> NoSite]
    /\ run = [p \in Processes |-> NoRun]
    /\ report = [running |-> FALSE, done |-> {}, doubt |-> {}]
    /\ deleter = [x \in Deleters |-> NoDeletion]
    /\ calm = FALSE
    /\ gone = {}

-----------------------------------------------------------------------------
Exists(d) == sites[d] # NoSite
Proxied(d) == Exists(d) /\ sites[d].proxy # NoProxy

\* listBaotaProxyTargetsFromCluster: the hosts of all managed ingresses.
Targets ==
    {[domain |-> Domain[i], url |-> ingress[i].url, https |-> ingress[i].https] :
        i \in {j \in Ingresses : ingress[j] # None}}

\* The run of process p still works on domain d, or will.
Holds(p, d) == \E t \in run[p].todo \cup {run[p].at} : t # NoTarget /\ t.domain = d
Wanted(d) == \E i \in Ingresses : ingress[i] # None /\ Domain[i] = d

-----------------------------------------------------------------------------
(* The panel.  A site or proxy that exists already is left as it is and the *)
(* answer counts as success; a proxy or certificate needs its site.  Every  *)
(* message that contains "exist" is taken to say so (InterpretJSONBody), in *)
(* the proxy's case also that the site does not exist.                      *)

\* Variant: a site that exists already is an error.
Accepted_NewOnly(phase, t) == Exists(t.domain) <=> phase # "site"
Accepted(phase, t) == phase # "site" => Exists(t.domain)
TakenForMade(phase, t) == phase = "proxy" /\ ~Exists(t.domain)

AfterCall(phase, t) ==
    CASE phase = "site" /\ ~Exists(t.domain) ->
           [sites EXCEPT ![t.domain] = [proxy |-> NoProxy, https |-> FALSE]]
      [] phase = "proxy" /\ Exists(t.domain) /\ ~Proxied(t.domain) ->
           [sites EXCEPT ![t.domain].proxy = t.url]
      [] phase = "https" /\ Exists(t.domain) ->
           [sites EXCEPT ![t.domain].https = TRUE]
      [] OTHER -> sites

Following(phase, t) ==
    CASE phase = "site" -> "proxy"
      [] phase = "proxy" /\ t.https -> "https"
      [] OTHER -> "report"

-----------------------------------------------------------------------------
(* A run.                                                                   *)

\* persistBaotaIngressSyncReport, which may fail and says nothing of it.
Persist(r, running) ==
    \/ report' = [running |-> running, done |-> r.done, doubt |-> r.doubt]
    \/ ~calm /\ UNCHANGED report

\* Whether the timer or a request starts the run makes no difference to it.
Start(p) ==
    /\ run[p].phase = "idle"
    /\ run' = [run EXCEPT ![p] = [NoRun EXCEPT !.phase = "list"]]
    /\ Persist(NoRun, TRUE)
    /\ UNCHANGED <<ingress, sites, deleter, calm, gone>>

\* Variant: what the last report has in order is gone through once more.
List_AlsoReported(p) ==
    /\ run[p].phase = "list"
    /\ run' = [run EXCEPT ![p] =
           [run[p] EXCEPT !.phase = "next", !.todo = Targets \cup report.done]]
    /\ UNCHANGED <<ingress, sites, report, deleter, calm, gone>>
List(p) ==
    /\ run[p].phase = "list"
    /\ run' = [run EXCEPT ![p] = [run[p] EXCEPT !.phase = "next", !.todo = Targets]]
    /\ UNCHANGED <<ingress, sites, report, deleter, calm, gone>>

\* No cluster, no panel configured, or the list cannot be had: skipped.
ListFails(p) ==
    /\ ~calm
    /\ run[p].phase = "list"
    /\ run' = [run EXCEPT ![p] = NoRun]
    /\ Persist(NoRun, FALSE)
    /\ UNCHANGED <<ingress, sites, deleter, calm, gone>>

NextTarget(p) ==
    /\ run[p].phase = "next"
    /\ \E t \in run[p].todo :
         run' = [run EXCEPT ![p] =
             [run[p] EXCEPT !.phase = "site", !.at = t, !.todo = @ \ {t},
                            !.tries = 1, !.good = TRUE]]
    /\ UNCHANGED <<ingress, sites, report, deleter, calm, gone>>

\* The step of the run r is over.
\* Variant: a later step that succeeds hides an earlier one that failed.
Advance_LastOnly(r, ok) == [r EXCEPT !.phase = Following(r.phase, r.at),
                                     !.tries = 1, !.good = ok]
\* Variant: HTTPS is never set up.
Advance_NoHttps(r, ok) ==
    [r EXCEPT !.phase = IF r.phase = "site" THEN "proxy" ELSE "report",
              !.tries = 1, !.good = r.good /\ ok]
Advance(r, ok) == [r EXCEPT !.phase = Following(r.phase, r.at),
                            !.tries = 1, !.good = r.good /\ ok]

Call(p) ==
    LET r == run[p] IN
    /\ r.phase \in Calling
    /\ Accepted(r.phase, r.at) \/ TakenForMade(r.phase, r.at)
    /\ sites' = AfterCall(r.phase, r.at)
    /\ run' = [run EXCEPT ![p] = Advance(r, TRUE)]
    /\ UNCHANGED <<ingress, report, deleter, calm, gone>>

\* Nothing was done and yet the step is a success: AddSite or CreateProxy was
\* refused with an "exist" in the message, or any of the three was answered
\* with status 200 and a body that is no JSON or has no status.
Misread(p) ==
    LET r == run[p] IN
    /\ ~calm
    /\ r.phase \in Calling
    /\ run' = [run EXCEPT ![p] =
           Advance([r EXCEPT !.doubt = @ \cup {r.at.domain}], TRUE)]
    /\ UNCHANGED <<ingress, sites, report, deleter, calm, gone>>

\* The panel refuses, or the call fails before or after it had its effect.
CallFails(p) ==
    LET r == run[p] IN
    /\ r.phase \in Calling
    /\ ~Accepted(r.phase, r.at) \/ ~calm
    /\ \/ sites' = sites
       \/ Accepted(r.phase, r.at) /\ sites' = AfterCall(r.phase, r.at)
    /\ run' = [run EXCEPT ![p] = IF r.tries < Attempts
                                 THEN [r EXCEPT !.tries = @ + 1]
                                 ELSE Advance(r, FALSE)]
    /\ UNCHANGED <<ingress, report, deleter, calm, gone>>

\* Variant: the domain stays the one the run is working on.
ReportDomain_KeepsTarget(p) ==
    /\ run[p].phase = "report"
    /\ run' = [run EXCEPT ![p].phase = "next"]
    /\ Persist(run'[p], TRUE)
    /\ UNCHANGED <<ingress, sites, deleter, calm, gone>>
ReportDomain(p) ==
    LET r == run[p] IN
    /\ r.phase = "report"
    /\ run' = [run EXCEPT ![p] =
           [r EXCEPT !.phase = "next", !.at = NoTarget,
                     !.done = IF r.good THEN @ \cup {r.at} ELSE @]]
    /\ Persist(run'[p], TRUE)
    /\ UNCHANGED <<ingress, sites, deleter, calm, gone>>

End(p) ==
    /\ run[p].phase = "next" /\ run[p].todo = {}
    /\ run' = [run EXCEPT ![p] = NoRun]
    /\ Persist(run[p], FALSE)
    /\ UNCHANGED <<ingress, sites, deleter, calm, gone>>

-----------------------------------------------------------------------------
(* Deletions.                                                               *)

At(x, phase) == deleter[x] # NoDeletion /\ deleter[x].phase = phase

\* A deletion takes the proxy or the site of domain d away: history for the
\* runs that have come to d and for the report.
Hurt(d) ==
    /\ run' = [p \in Processes |->
           IF \E t \in run[p].done \cup {run[p].at} : t # NoTarget /\ t.domain = d
           THEN [run[p] EXCEPT !.doubt = @ \cup {d}] ELSE run[p]]
    /\ report' = IF \E t \in report.done : t.domain = d
                 THEN [report EXCEPT !.doubt = @ \cup {d}] ELSE report

\* handleDeleteIngress, with the box for the site ticked.
DeleteIngress(x, i) ==
    /\ ~calm
    /\ deleter[x] = NoDeletion
    /\ ingress[i] # None
    /\ ingress' = [ingress EXCEPT ![i] = None]
    /\ deleter' = [deleter EXCEPT ![x] =
           [phase |-> "proxy", domain |-> Domain[i], left |-> Retries]]
    /\ UNCHANGED <<sites, run, report, calm, gone>>

\* removeBaotaProxy; whatever comes of it, the deletion goes on.
RemoveProxy(x) ==
    LET d == deleter[x].domain IN
    /\ At(x, "proxy")
    /\ deleter' = [deleter EXCEPT ![x].phase = "lookup"]
    /\ \/ /\ Proxied(d)
          /\ sites' = [sites EXCEPT ![d].proxy = NoProxy]
          /\ Hurt(d)
       \/ /\ ~Proxied(d) \/ ~calm
          /\ UNCHANGED <<sites, run, report>>
    /\ UNCHANGED <<ingress, calm, gone>>

\* The panel has no site for domain d any more, and the deletion is over.
Confirm(d) ==
    gone' = IF Wanted(d) \/ \E p \in Processes : Holds(p, d)
            THEN gone ELSE gone \cup {d}

\* ScheduleBaotaDeleteRetry; after the last retry nothing more is done.
Retry(x) ==
    IF deleter[x].left > 0
    THEN [deleter[x] EXCEPT !.phase = "proxy", !.left = @ - 1]
    ELSE NoDeletion

\* BaotaSiteIDByDomain; no site means that there is nothing to delete.
LookUp(x) ==
    /\ At(x, "lookup")
    /\ \/ /\ Exists(deleter[x].domain)
          /\ deleter' = [deleter EXCEPT ![x].phase = "delete"]
          /\ UNCHANGED gone
       \/ /\ ~Exists(deleter[x].domain)
          /\ deleter' = [deleter EXCEPT ![x] = NoDeletion]
          /\ Confirm(deleter[x].domain)
       \/ /\ ~calm
          /\ deleter' = [deleter EXCEPT ![x] = Retry(x)]
          /\ UNCHANGED gone
    /\ UNCHANGED <<ingress, sites, run, report, calm>>

\* The site of domain d goes, and with it the id other deletions have found.
RemoveSite(x, next) ==
    LET d == deleter[x].domain IN
    /\ At(x, "delete")
    /\ sites' = [sites EXCEPT ![d] = NoSite]
    /\ Hurt(d)
    /\ deleter' = [y \in Deleters |->
           IF y = x THEN next
           ELSE IF At(y, "delete") /\ deleter[y].domain = d
           THEN [deleter[y] EXCEPT !.phase = "stale"] ELSE deleter[y]]
    /\ UNCHANGED <<ingress, calm>>

DeleteSite(x) ==
    /\ RemoveSite(x, NoDeletion)
    /\ Confirm(deleter[x].domain)

\* The call fails: after it had its effect, before it, or for an old id.
DeleteSiteFails(x) ==
    \/ ~calm /\ RemoveSite(x, Retry(x)) /\ UNCHANGED gone
    \/ /\ At(x, "stale") \/ (At(x, "delete") /\ ~calm)
       /\ deleter' = [deleter EXCEPT ![x] = Retry(x)]
       /\ UNCHANGED <<ingress, sites, run, report, calm, gone>>

\* The deletion is over though the site is still there: an error of the
\* search that sounds like "no such site", a row beyond the first hundred, or
\* an answer to either call that is not the panel's.
DeletionMisread(x) ==
    /\ ~calm
    /\ At(x, "lookup") \/ At(x, "delete") \/ At(x, "stale")
    /\ deleter' = [deleter EXCEPT ![x] = NoDeletion]
    /\ UNCHANGED <<ingress, sites, run, report, calm, gone>>

-----------------------------------------------------------------------------
(* The world around.                                                        *)

\* An ingress is created, annotated, changed or removed, by whatever means.
Edit(i) ==
    /\ ~calm
    /\ \E w \in {None} \cup Rules :
         /\ ingress' = [ingress EXCEPT ![i] = w]
         /\ gone' = IF w = None THEN gone ELSE gone \ {Domain[i]}
    /\ UNCHANGED <<sites, run, report, deleter, calm>>

\* A restart ends the run of a process and loses its deletions.
Restart(p) ==
    /\ ~calm
    /\ run' = [run EXCEPT ![p] = NoRun]
    /\ \E lost \in SUBSET Deleters :
         deleter' = [x \in Deleters |-> IF x \in lost THEN NoDeletion ELSE deleter[x]]
    /\ UNCHANGED <<ingress, sites, report, calm, gone>>

Weather ==
    /\ calm' = ~calm
    /\ UNCHANGED <<ingress, sites, run, report, deleter, gone>>

-----------------------------------------------------------------------------
Working(p) ==
    \/ List(p) \/ ListFails(p)
    \/ NextTarget(p) \/ Call(p) \/ Misread(p) \/ CallFails(p)
    \/ ReportDomain(p) \/ End(p)

Deleting(x) ==
    \/ RemoveProxy(x) \/ LookUp(x)
    \/ DeleteSite(x) \/ DeleteSiteFails(x) \/ DeletionMisread(x)

Next ==
    \/ \E p \in Processes : Start(p) \/ Working(p) \/ Restart(p)
    \/ \E x \in Deleters : Deleting(x) \/ \E i \in Ingresses : DeleteIngress(x, i)
    \/ \E i \in Ingresses : Edit(i)
    \/ Weather

Spec == Init /\ [][Next]_vars

\* The timer starts runs, every run has timeouts on its calls, and so have
\* the deletions.  Nothing is assumed of failures or of the operator.
FairSpec ==
    /\ Spec
    /\ WF_vars(Start(Timer))
    /\ \A p \in Processes : WF_vars(Working(p))
    /\ \A x \in Deleters : WF_vars(Deleting(x))

-----------------------------------------------------------------------------
\* The panel serves what target t asks for, at whichever address.
Served(t) ==
    /\ Proxied(t.domain)
    /\ t.https => sites[t.domain].https

(* A domain the panel has deleted stays without a site until an ingress     *)
(* asks for it again, unless an ingress wanted it when the deletion ended   *)
(* or a run that had listed it before was still at work                     *)
(* (DeleteBaotaSiteAndProxy, RunBaotaIngressSync).                          *)
GoneStaysGone == \A d \in gone : ~Exists(d)

(* What the report calls in order, and what a run is about to, is served by *)
(* the panel, unless a deletion has taken something away since or an answer *)
(* that said nothing was taken for a success (InterpretJSONBody): lost      *)
(* answers, retries, partial failures, runs of other processes and a proxy  *)
(* refused because its site is missing do not make it untrue                *)
(* (ensureBaotaSiteAndProxyWithReport).                                     *)
ReportTrue ==
    /\ \A t \in report.done : t.domain \in report.doubt \/ Served(t)
    /\ \A p \in Processes : \A t \in run[p].done : t.domain \in run[p].doubt \/ Served(t)

\* What these two rest on.  Nobody is about to create a site that is gone.
GoneForNobody ==
    \A d \in gone : ~Exists(d) /\ ~Wanted(d) /\ \A p \in Processes : ~Holds(p, d)

\* And a run knows what it has brought about so far, for the targets it is
\* done with and for the one it is working on.
InOrder(r) ==
    /\ \A t \in r.done : t.domain \in r.doubt \/ Served(t)
    /\ r.at # NoTarget /\ r.good /\ r.at.domain \notin r.doubt =>
         /\ r.phase # "site" => Exists(r.at.domain)
         /\ r.phase \in {"https", "report"} => Proxied(r.at.domain)
         /\ r.phase = "report" => Served(r.at)

RunsInOrder ==
    /\ \A p \in Processes : InOrder(run[p])
    /\ \A t \in report.done : t.domain \in report.doubt \/ Served(t)

(* Once nothing fails any more every managed ingress is served for good,    *)
(* whatever failures, restarts and deletions there were before (StartSyncer *)
(* and the retries of baotaPOSTWithRetry).                                  *)
AllServedEventually == (<>[]calm) => <>[](\A t \in Targets : Served(t))

(* Once nothing fails any more the report says again and again that a run   *)
(* has ended with every ingress in order; a report that a restart has left  *)
(* unfinished does not stay (persistBaotaIngressSyncReport).                *)
ReportConverges ==
    (<>[]calm) => []<>(~report.running /\ Targets \subseteq report.done)

(* What the documents promise: the address a proxy leads to is the one its  *)
(* ingress asks for now.  The code never changes a proxy that exists.       *)
ProxyFollowsIngress ==
    (<>[]calm) => []<>(\A i \in Ingresses :
        ingress[i] # None => Exists(Domain[i]) /\ sites[Domain[i]].proxy = ingress[i].url)
=============================================================================
