--------------------------- MODULE BaotaSyncProofs ---------------------------
(***************************************************************************)
(* BaotaSync for any number of ingresses, hosts, processes and deletions:  *)
(* the types, that what was deleted stays away, that the report is true.  *)
(***************************************************************************)
EXTENDS BaotaSync, TLAPS

-----------------------------------------------------------------------------
(* Types.                                                                   *)

LEMMA Given ==
    /\ Domain \in [Ingresses -> Domains] /\ Rules \subseteq Rule
    /\ Timer \in Processes /\ Attempts \in Nat \ {0} /\ Retries \in Nat
    /\ None \notin Rule /\ NoSite \notin Site /\ NoProxy \notin Urls
    /\ NoTarget \notin ProxyTarget /\ NoDeletion \notin Deleter
  BY BaotaAssumption DEF BaotaAssumption

LEMMA RunTypes ==
    ASSUME TypeOK, NEW p \in Processes
    PROVE  /\ run[p] \in Run /\ Coherent(run[p])
           /\ run[p].phase \in Phases /\ run[p].todo \subseteq ProxyTarget
           /\ run[p].at \in ProxyTarget \cup {NoTarget}
           /\ run[p].tries \in 1 .. Attempts /\ run[p].good \in BOOLEAN
           /\ run[p].done \subseteq ProxyTarget /\ run[p].doubt \subseteq Domains
  BY DEF TypeOK, Run

LEMMA AtType ==
    ASSUME TypeOK, NEW p \in Processes, run[p].phase \in Calling \cup {"report"}
    PROVE  run[p].at \in ProxyTarget /\ run[p].at # NoTarget
  BY RunTypes DEF Coherent

LEMMA NoRunType == NoRun \in Run /\ Coherent(NoRun)
  BY Given DEF NoRun, Run, Coherent, Phases, Calling

LEMMA OneRunType ==
    ASSUME TypeOK, NEW p \in Processes, NEW r \in Run, Coherent(r),
           run' = [run EXCEPT ![p] = r]
    PROVE  run' \in [Processes -> Run] /\ \A q \in Processes : Coherent(run'[q])
  BY DEF TypeOK

LEMMA SiteType ==
    ASSUME TypeOK, NEW d \in Domains, Exists(d)
    PROVE  /\ sites[d] \in Site
           /\ sites[d].proxy \in Urls \cup {NoProxy} /\ sites[d].https \in BOOLEAN
  BY DEF TypeOK, Exists, Site

LEMMA TargetType ==
    ASSUME NEW t \in ProxyTarget
    PROVE  t.domain \in Domains /\ t.url \in Urls /\ t.https \in BOOLEAN
  BY DEF ProxyTarget

\* What a call does to the panel: it adds to its site and leaves the others.
LEMMA AfterCallType ==
    ASSUME TypeOK, NEW phase \in Calling, NEW t \in ProxyTarget,
           Accepted(phase, t) \/ TakenForMade(phase, t),
           sites' = AfterCall(phase, t)
    PROVE  /\ sites' \in [Domains -> {NoSite} \cup Site]
           /\ \A d \in Domains : d # t.domain => sites'[d] = sites[d]
           /\ \A d \in Domains : Exists(d) => Exists(d)'
           /\ \A d \in Domains : Proxied(d) => Proxied(d)'
           /\ \A d \in Domains : Exists(d) /\ sites[d].https => sites'[d].https
           /\ phase = "site" => Exists(t.domain)'
           /\ phase = "proxy" /\ Exists(t.domain) => Proxied(t.domain)'
           /\ phase = "https" => sites'[t.domain].https
  <1>1. t.domain \in Domains /\ t.url \in Urls /\ t.url # NoProxy
    BY TargetType, Given
  <1>2. CASE phase = "site" /\ ~Exists(t.domain)
    <2> DEFINE s == [proxy |-> NoProxy, https |-> FALSE]
    <2>1. s \in Site
      BY DEF Site
    <2>2. sites' = [sites EXCEPT ![t.domain] = s]
      BY <1>2 DEF AfterCall
    <2> HIDE DEF s
    <2>3. s # NoSite
      BY <2>1, Given
    <2> QED
      BY <1>1, <1>2, <2>1, <2>2, <2>3 DEF TypeOK, Exists, Proxied
  <1>3. CASE phase = "proxy" /\ Exists(t.domain) /\ ~Proxied(t.domain)
    <2> DEFINE s == [sites[t.domain] EXCEPT !.proxy = t.url]
    <2>1. s \in Site /\ s # NoSite /\ s.proxy # NoProxy
          /\ s.https = sites[t.domain].https
      BY <1>1, <1>3, SiteType, Given DEF Site
    <2>2. sites' = [sites EXCEPT ![t.domain] = s]
      BY <1>3 DEF AfterCall
    <2> HIDE DEF s
    <2> QED
      BY <1>1, <1>3, <2>1, <2>2 DEF TypeOK, Exists, Proxied
  <1>4. CASE phase = "https"
    <2> DEFINE s == [sites[t.domain] EXCEPT !.https = TRUE]
    <2>0. Exists(t.domain)
      BY <1>4 DEF Accepted, TakenForMade
    <2>1. s \in Site /\ s # NoSite /\ s.proxy = sites[t.domain].proxy /\ s.https
      BY <1>1, <2>0, SiteType, Given DEF Site
    <2>2. sites' = [sites EXCEPT ![t.domain] = s]
      BY <1>4, <2>0 DEF AfterCall
    <2> HIDE DEF s
    <2> QED
      BY <1>1, <1>4, <2>0, <2>1, <2>2 DEF TypeOK, Exists, Proxied
  <1>5. CASE \/ phase = "site" /\ Exists(t.domain)
             \/ phase = "proxy" /\ Proxied(t.domain)
             \/ TakenForMade(phase, t)
    <2>1. sites' = sites
      BY <1>5 DEF AfterCall, Proxied, TakenForMade
    <2> QED
      BY <1>1, <1>5, <2>1 DEF TypeOK, Exists, Proxied, TakenForMade
  <1> QED
    BY <1>2, <1>3, <1>4, <1>5 DEF Accepted, TakenForMade, Calling, Proxied

LEMMA AdvanceType ==
    ASSUME TypeOK, NEW p \in Processes, run[p].phase \in Calling, NEW ok \in BOOLEAN
    PROVE  /\ Advance(run[p], ok) \in Run /\ Coherent(Advance(run[p], ok))
           /\ Advance(run[p], ok).todo = run[p].todo
           /\ Advance(run[p], ok).at = run[p].at
           /\ Advance(run[p], ok).done = run[p].done
           /\ Advance(run[p], ok).doubt = run[p].doubt
           /\ Advance(run[p], ok).good <=> run[p].good /\ ok
           /\ Advance(run[p], ok).phase = Following(run[p].phase, run[p].at)
           /\ Advance(run[p], ok).phase \in {"proxy", "https", "report"}
  <1>1. Following(run[p].phase, run[p].at) \in {"proxy", "https", "report"}
    BY DEF Following
  <1>2. PICK g \in BOOLEAN : g <=> run[p].good /\ ok
    BY RunTypes
  <1>3. Advance(run[p], ok) = [run[p] EXCEPT
            !.phase = Following(run[p].phase, run[p].at), !.tries = 1, !.good = g]
    BY <1>2, RunTypes DEF Advance
  <1>4. 1 \in 1 .. Attempts
    BY Given
  <1> QED
    BY <1>1, <1>2, <1>3, <1>4, RunTypes, AtType
    DEF Run, Coherent, Phases, Calling

LEMMA MisreadType ==
    ASSUME TypeOK, NEW p \in Processes, Misread(p)
    PROVE  /\ run[p].phase \in Calling
           /\ \E r \in Run :
                /\ run' = [run EXCEPT ![p] = r] /\ Coherent(r)
                /\ r.todo = run[p].todo /\ r.at = run[p].at
                /\ r.done = run[p].done
                /\ r.doubt = run[p].doubt \cup {run[p].at.domain}
  <1>1. run[p].phase \in Calling
    BY DEF Misread
  <1>2. run[p].at \in ProxyTarget /\ run[p].at # NoTarget
        /\ run[p].at.domain \in Domains
    BY <1>1, AtType, TargetType
  <1>3. Following(run[p].phase, run[p].at) \in {"proxy", "https", "report"}
    BY DEF Following
  <1> DEFINE r == [run[p] EXCEPT !.doubt = @ \cup {run[p].at.domain},
                       !.phase = Following(run[p].phase, run[p].at), !.tries = 1]
  <1>4. run' = [run EXCEPT ![p] = r]
    <2>1. [run[p] EXCEPT !.doubt = @ \cup {run[p].at.domain},
             !.phase = Following(run[p].phase, run[p].at),
             !.tries = 1, !.good = run[p].good /\ TRUE] = r
      BY RunTypes DEF Run
    <2> QED
      BY <2>1, RunTypes DEF Misread, Advance, Run
  <1>5. 1 \in 1 .. Attempts
    BY Given
  <1>6. /\ r \in Run /\ Coherent(r)
        /\ r.todo = run[p].todo /\ r.at = run[p].at /\ r.done = run[p].done
        /\ r.doubt = run[p].doubt \cup {run[p].at.domain}
    BY <1>1, <1>2, <1>3, <1>5, RunTypes DEF Run, Coherent, Phases, Calling
  <1> HIDE DEF r
  <1> QED
    BY <1>1, <1>4, <1>6

LEMMA PersistType ==
    ASSUME TypeOK, NEW r \in Run, NEW running \in BOOLEAN, Persist(r, running)
    PROVE  report' \in Report
  BY DEF Persist, TypeOK, Run, Report

LEMMA TargetsType == ASSUME TypeOK PROVE Targets \subseteq ProxyTarget
  <1> SUFFICES ASSUME NEW i \in Ingresses, ingress[i] # None
               PROVE  [domain |-> Domain[i], url |-> ingress[i].url,
                       https |-> ingress[i].https] \in ProxyTarget
    BY DEF Targets
  <1>1. ingress[i] \in Rule
    BY Given DEF TypeOK
  <1>2. ingress[i].url \in Urls /\ ingress[i].https \in BOOLEAN
    BY <1>1 DEF Rule
  <1>3. Domain[i] \in Domains
    BY Given
  <1> QED
    BY <1>2, <1>3 DEF ProxyTarget

\* Start, List, ListFails, NextTarget, ReportDomain, End and Restart: what
\* becomes of the run.
LEMMA StartedType ==
    LET r == [NoRun EXCEPT !.phase = "list"] IN
    /\ r \in Run /\ Coherent(r) /\ r.todo = {} /\ r.at = NoTarget /\ r.done = {}
  BY NoRunType DEF NoRun, Run, Coherent, Phases, Calling

LEMMA ListedType ==
    ASSUME TypeOK, NEW p \in Processes, run[p].phase = "list"
    PROVE  LET r == [run[p] EXCEPT !.phase = "next", !.todo = Targets] IN
           /\ r \in Run /\ Coherent(r) /\ r.todo = Targets
           /\ r.at = NoTarget /\ r.done = run[p].done /\ r.doubt = run[p].doubt
  BY RunTypes, TargetsType DEF Run, Coherent, Phases, Calling

LEMMA NextTargetType ==
    ASSUME TypeOK, NEW p \in Processes, run[p].phase = "next", NEW t \in run[p].todo
    PROVE  LET r == [run[p] EXCEPT !.phase = "site", !.at = t, !.todo = @ \ {t},
                                   !.tries = 1, !.good = TRUE] IN
           /\ r \in Run /\ Coherent(r) /\ r.phase = "site"
           /\ r.todo = run[p].todo \ {t} /\ r.at = t
           /\ r.done = run[p].done /\ r.doubt = run[p].doubt
  <1>1. t \in ProxyTarget /\ t # NoTarget /\ 1 \in 1 .. Attempts
    BY RunTypes, Given
  <1> QED
    BY <1>1, RunTypes DEF Run, Coherent, Phases, Calling

LEMMA RetriedType ==
    ASSUME TypeOK, NEW p \in Processes, run[p].phase \in Calling,
           run[p].tries < Attempts
    PROVE  LET r == [run[p] EXCEPT !.tries = @ + 1] IN
           /\ r \in Run /\ Coherent(r)
           /\ r.phase = run[p].phase /\ r.todo = run[p].todo /\ r.at = run[p].at
           /\ r.good = run[p].good /\ r.done = run[p].done /\ r.doubt = run[p].doubt
  <1>1. run[p].tries + 1 \in 1 .. Attempts
    BY RunTypes, Given
  <1> QED
    BY <1>1, RunTypes DEF Run, Coherent

LEMMA ReportedType ==
    ASSUME TypeOK, NEW p \in Processes, run[p].phase = "report"
    PROVE  LET r == [run[p] EXCEPT !.phase = "next", !.at = NoTarget,
                         !.done = IF run[p].good THEN @ \cup {run[p].at} ELSE @] IN
           /\ r \in Run /\ Coherent(r)
           /\ r.todo = run[p].todo /\ r.at = NoTarget /\ r.doubt = run[p].doubt
           /\ r.done = IF run[p].good THEN run[p].done \cup {run[p].at}
                       ELSE run[p].done
  BY RunTypes, AtType DEF Run, Coherent, Phases, Calling

\* A deletion changes nothing but the histories of runs and report.
LEMMA HurtType ==
    ASSUME TypeOK, NEW d \in Domains, Hurt(d)
    PROVE  /\ run' \in [Processes -> Run] /\ report' \in Report
           /\ report'.done = report.done /\ report.doubt \subseteq report'.doubt
           /\ \A t \in report.done : t.domain = d => d \in report'.doubt
           /\ \A p \in Processes :
                /\ Coherent(run'[p]) /\ run'[p].phase = run[p].phase
                /\ run'[p].todo = run[p].todo /\ run'[p].at = run[p].at
                /\ run'[p].good = run[p].good /\ run'[p].done = run[p].done
                /\ run[p].doubt \subseteq run'[p].doubt
                /\ \A t \in run[p].done \cup {run[p].at} :
                     t # NoTarget /\ t.domain = d => d \in run'[p].doubt
  <1>1. /\ report' \in Report
        /\ report'.done = report.done /\ report.doubt \subseteq report'.doubt
        /\ \A t \in report.done : t.domain = d => d \in report'.doubt
    BY DEF Hurt, TypeOK, Report
  <1> DEFINE New(p) ==
         IF \E t \in run[p].done \cup {run[p].at} : t # NoTarget /\ t.domain = d
         THEN [run[p] EXCEPT !.doubt = @ \cup {d}] ELSE run[p]
  <1>2. run' = [p \in Processes |-> New(p)]
    BY DEF Hurt
  <1>3. ASSUME NEW p \in Processes
        PROVE  /\ New(p) \in Run
               /\ Coherent(New(p)) /\ New(p).phase = run[p].phase
               /\ New(p).todo = run[p].todo /\ New(p).at = run[p].at
               /\ New(p).good = run[p].good /\ New(p).done = run[p].done
               /\ run[p].doubt \subseteq New(p).doubt
               /\ \A t \in run[p].done \cup {run[p].at} :
                    t # NoTarget /\ t.domain = d => d \in New(p).doubt
    BY RunTypes DEF Run, Coherent
  <1> HIDE DEF New
  <1> QED
    BY <1>1, <1>2, <1>3

LEMMA DeleterType ==
    ASSUME TypeOK, NEW x \in Deleters, deleter[x] # NoDeletion
    PROVE  /\ deleter[x] \in Deleter
           /\ deleter[x].domain \in Domains /\ deleter[x].left \in 0 .. Retries
  BY DEF TypeOK, Deleter

LEMMA RetryType ==
    ASSUME TypeOK, NEW x \in Deleters, deleter[x] # NoDeletion
    PROVE  Retry(x) \in {NoDeletion} \cup Deleter
  <1>1. CASE deleter[x].left > 0
    <2>1. deleter[x].left - 1 \in 0 .. Retries
      BY <1>1, DeleterType, Given
    <2> QED
      BY <1>1, <2>1, DeleterType DEF Retry, Deleter
  <1> QED
    BY <1>1 DEF Retry

LEMMA OneDeleterType ==
    ASSUME TypeOK, NEW x \in Deleters, NEW n \in {NoDeletion} \cup Deleter,
           deleter' = [deleter EXCEPT ![x] = n]
    PROVE  deleter' \in [Deleters -> {NoDeletion} \cup Deleter]
  BY DEF TypeOK

LEMMA PhaseType ==
    ASSUME TypeOK, NEW x \in Deleters, deleter[x] # NoDeletion,
           NEW phase \in {"proxy", "lookup", "delete", "stale"}
    PROVE  [deleter[x] EXCEPT !.phase = phase] \in Deleter
  BY DeleterType DEF Deleter

LEMMA ConfirmType ==
    ASSUME TypeOK, NEW d \in Domains, Confirm(d)
    PROVE  gone' \subseteq Domains
  BY DEF Confirm, TypeOK

\* What a deletion does to the panel: it takes from its site only.
LEMMA RemoveProxySites ==
    ASSUME TypeOK, NEW x \in Deleters, RemoveProxy(x)
    PROVE  LET d == deleter[x].domain IN
           /\ d \in Domains
           /\ sites' \in [Domains -> {NoSite} \cup Site]
           /\ \A e \in Domains : e # d => sites'[e] = sites[e]
           /\ ~Exists(d) => sites'[d] = NoSite
           /\ \/ UNCHANGED <<sites, run, report>>
              \/ Hurt(d)
  <1> DEFINE d == deleter[x].domain
  <1>1. d \in Domains
    BY DeleterType DEF RemoveProxy, At
  <1>2. CASE /\ Proxied(d) /\ sites' = [sites EXCEPT ![d].proxy = NoProxy]
             /\ Hurt(d)
    <2> DEFINE s == [sites[d] EXCEPT !.proxy = NoProxy]
    <2>1. s \in Site
      BY <1>1, <1>2, SiteType DEF Site, Proxied
    <2>2. sites' = [sites EXCEPT ![d] = s]
      BY <1>2
    <2> HIDE DEF s
    <2> QED
      BY <1>1, <1>2, <2>1, <2>2 DEF TypeOK, Exists, Proxied
  <1>3. CASE UNCHANGED <<sites, run, report>>
    BY <1>1, <1>3 DEF TypeOK, Exists
  <1> QED
    BY <1>2, <1>3 DEF RemoveProxy

LEMMA RemoveSiteSites ==
    ASSUME TypeOK, NEW x \in Deleters, NEW n \in {NoDeletion} \cup Deleter,
           RemoveSite(x, n)
    PROVE  LET d == deleter[x].domain IN
           /\ d \in Domains /\ Hurt(d) /\ sites'[d] = NoSite
           /\ sites' \in [Domains -> {NoSite} \cup Site]
           /\ \A e \in Domains : e # d => sites'[e] = sites[e]
           /\ deleter' \in [Deleters -> {NoDeletion} \cup Deleter]
           /\ ingress' = ingress /\ calm' = calm
  <1> DEFINE d == deleter[x].domain
  <1>1. d \in Domains
    BY DeleterType DEF RemoveSite, At
  <1>2. sites' = [sites EXCEPT ![d] = NoSite] /\ Hurt(d)
    BY DEF RemoveSite
  <1>3. /\ sites' \in [Domains -> {NoSite} \cup Site] /\ sites'[d] = NoSite
        /\ \A e \in Domains : e # d => sites'[e] = sites[e]
    BY <1>1, <1>2 DEF TypeOK, Exists
  <1>4. \A y \in Deleters : deleter[y] # NoDeletion =>
            [deleter[y] EXCEPT !.phase = "stale"] \in Deleter
    BY PhaseType
  <1>5. deleter' \in [Deleters -> {NoDeletion} \cup Deleter]
    BY <1>4 DEF RemoveSite, At, TypeOK
  <1> QED
    BY <1>1, <1>2, <1>3, <1>5 DEF RemoveSite

-----------------------------------------------------------------------------
LEMMA WorkingTypes ==
    ASSUME TypeOK, NEW p \in Processes, Start(p) \/ Working(p) \/ Restart(p)
    PROVE  TypeOK'
  <1>1. CASE Start(p)
    <2>1. report' \in Report
      BY <1>1, PersistType, NoRunType DEF Start
    <2>2. PICK r \in Run : Coherent(r) /\ run' = [run EXCEPT ![p] = r]
      BY <1>1, StartedType DEF Start
    <2> QED
      BY <1>1, <2>1, <2>2, OneRunType DEF Start, TypeOK
  <1>2. CASE List(p)
    <2>1. PICK r \in Run : Coherent(r) /\ run' = [run EXCEPT ![p] = r]
      BY <1>2, ListedType DEF List
    <2> QED
      BY <1>2, <2>1, OneRunType DEF List, TypeOK
  <1>3. CASE ListFails(p)
    <2>1. report' \in Report
      BY <1>3, PersistType, NoRunType DEF ListFails
    <2> QED
      BY <1>3, <2>1, OneRunType, NoRunType DEF ListFails, TypeOK
  <1>4. CASE NextTarget(p)
    <2>1. PICK r \in Run : Coherent(r) /\ run' = [run EXCEPT ![p] = r]
      BY <1>4, NextTargetType DEF NextTarget
    <2> QED
      BY <1>4, <2>1, OneRunType DEF NextTarget, TypeOK
  <1>5. CASE Call(p)
    <2>1. sites' \in [Domains -> {NoSite} \cup Site]
      BY <1>5, AfterCallType, AtType DEF Call
    <2>2. PICK r \in Run : Coherent(r) /\ run' = [run EXCEPT ![p] = r]
      BY <1>5, AdvanceType DEF Call
    <2> QED
      BY <1>5, <2>1, <2>2, OneRunType DEF Call, TypeOK
  <1>6. CASE CallFails(p)
    <2>1. sites' \in [Domains -> {NoSite} \cup Site]
      BY <1>6, AfterCallType, AtType DEF CallFails, TypeOK
    <2>2. PICK r \in Run : Coherent(r) /\ run' = [run EXCEPT ![p] = r]
      BY <1>6, AdvanceType, RetriedType DEF CallFails
    <2> QED
      BY <1>6, <2>1, <2>2, OneRunType DEF CallFails, TypeOK
  <1>7. CASE ReportDomain(p)
    <2>1. PICK r \in Run : Coherent(r) /\ run' = [run EXCEPT ![p] = r]
      BY <1>7, ReportedType DEF ReportDomain
    <2>2. run'[p] \in Run
      BY <2>1, OneRunType
    <2>3. report' \in Report
      BY <1>7, <2>2, PersistType DEF ReportDomain
    <2> QED
      BY <1>7, <2>1, <2>3, OneRunType DEF ReportDomain, TypeOK
  <1>8. CASE End(p)
    <2>1. report' \in Report
      BY <1>8, PersistType, RunTypes DEF End
    <2> QED
      BY <1>8, <2>1, OneRunType, NoRunType DEF End, TypeOK
  <1>9. CASE Restart(p)
    <2>1. deleter' \in [Deleters -> {NoDeletion} \cup Deleter]
      BY <1>9 DEF Restart, TypeOK
    <2> QED
      BY <1>9, <2>1, OneRunType, NoRunType DEF Restart, TypeOK
  <1>10. CASE Misread(p)
    <2>1. PICK r \in Run : Coherent(r) /\ run' = [run EXCEPT ![p] = r]
      BY <1>10, MisreadType
    <2> QED
      BY <1>10, <2>1, OneRunType DEF Misread, TypeOK
  <1> QED
    BY <1>1, <1>2, <1>3, <1>4, <1>5, <1>6, <1>7, <1>8, <1>9, <1>10 DEF Working

LEMMA DeletingTypes ==
    ASSUME TypeOK, NEW x \in Deleters, Deleting(x)
    PROVE  TypeOK'
  <1>0. deleter[x] # NoDeletion /\ deleter[x].domain \in Domains
    BY DeleterType
    DEF Deleting, RemoveProxy, LookUp, DeleteSite, DeleteSiteFails, RemoveSite, At,
        DeletionMisread
  <1>1. CASE RemoveProxy(x)
    <2>1. /\ sites' \in [Domains -> {NoSite} \cup Site]
          /\ UNCHANGED <<sites, run, report>> \/ Hurt(deleter[x].domain)
      BY <1>1, RemoveProxySites
    <2>2. /\ run' \in [Processes -> Run] /\ report' \in Report
          /\ \A p \in Processes : Coherent(run'[p])
      BY <1>0, <2>1, HurtType DEF TypeOK
    <2>3. deleter' = [deleter EXCEPT ![x] = [deleter[x] EXCEPT !.phase = "lookup"]]
      BY <1>1 DEF RemoveProxy
    <2> QED
      BY <1>0, <1>1, <2>1, <2>2, <2>3, PhaseType, OneDeleterType
      DEF RemoveProxy, TypeOK
  <1>2. CASE LookUp(x)
    <2>1. PICK n \in {NoDeletion} \cup Deleter : deleter' = [deleter EXCEPT ![x] = n]
      <3>1. CASE deleter' = [deleter EXCEPT ![x].phase = "delete"]
        BY <1>0, <3>1, PhaseType
      <3> QED
        BY <1>0, <1>2, <3>1, RetryType DEF LookUp
    <2>2. gone' \subseteq Domains
      BY <1>0, <1>2, ConfirmType DEF LookUp, TypeOK
    <2> QED
      BY <1>2, <2>1, <2>2, OneDeleterType DEF LookUp, TypeOK
  <1>3. ASSUME NEW n \in {NoDeletion} \cup Deleter, RemoveSite(x, n),
               gone' \subseteq Domains
        PROVE  TypeOK'
    BY <1>0, <1>3, RemoveSiteSites, HurtType DEF TypeOK
  <1>4. CASE DeleteSite(x)
    BY <1>0, <1>3, <1>4, ConfirmType DEF DeleteSite
  <1>5. CASE DeleteSiteFails(x)
    <2>1. CASE RemoveSite(x, Retry(x)) /\ UNCHANGED gone
      BY <1>0, <1>3, <2>1, RetryType DEF TypeOK
    <2>2. CASE /\ deleter' = [deleter EXCEPT ![x] = Retry(x)]
               /\ UNCHANGED <<ingress, sites, run, report, calm, gone>>
      BY <1>0, <2>2, RetryType, OneDeleterType DEF TypeOK
    <2> QED
      BY <1>5, <2>1, <2>2 DEF DeleteSiteFails
  <1>6. CASE DeletionMisread(x)
    BY <1>6, OneDeleterType DEF DeletionMisread, TypeOK
  <1> QED
    BY <1>1, <1>2, <1>4, <1>5, <1>6 DEF Deleting

LEMMA TypeStep == TypeOK /\ [Next]_vars => TypeOK'
  <1> SUFFICES ASSUME TypeOK, [Next]_vars PROVE TypeOK'
    OBVIOUS
  <1>1. ASSUME NEW p \in Processes, Start(p) \/ Working(p) \/ Restart(p)
        PROVE  TypeOK'
    BY <1>1, WorkingTypes
  <1>2. ASSUME NEW x \in Deleters, Deleting(x) PROVE TypeOK'
    BY <1>2, DeletingTypes
  <1>3. ASSUME NEW x \in Deleters, NEW i \in Ingresses, DeleteIngress(x, i)
        PROVE  TypeOK'
    <2> DEFINE n == [phase |-> "proxy", domain |-> Domain[i], left |-> Retries]
    <2>1. Domain[i] \in Domains /\ Retries \in 0 .. Retries
      BY Given
    <2>2. n \in {NoDeletion} \cup Deleter
      BY <2>1 DEF Deleter
    <2>3. deleter' = [deleter EXCEPT ![x] = n]
      BY <1>3 DEF DeleteIngress
    <2> HIDE DEF n
    <2>4. deleter' \in [Deleters -> {NoDeletion} \cup Deleter]
      BY <2>2, <2>3, OneDeleterType
    <2> QED
      BY <1>3, <2>4 DEF DeleteIngress, TypeOK
  <1>4. ASSUME NEW i \in Ingresses, Edit(i) PROVE TypeOK'
    BY <1>4 DEF Edit, TypeOK
  <1>5. CASE Weather
    BY <1>5 DEF Weather, TypeOK
  <1>6. CASE UNCHANGED vars
    BY <1>6 DEF vars, TypeOK
  <1> QED
    BY <1>1, <1>2, <1>3, <1>4, <1>5, <1>6 DEF Next

LEMMA TypeInit == Init => TypeOK
  <1> DEFINE none == [running |-> FALSE, done |-> {}, doubt |-> {}]
  <1>1. none \in Report
    BY DEF Report
  <1>2. Init => report = none
    BY DEF Init
  <1> HIDE DEF none
  <1> QED
    BY <1>1, <1>2, NoRunType DEF Init, TypeOK

(* Cluster, panel, runs, report and deletions keep their types, and a run   *)
(* has a target exactly while it works on one.                              *)
THEOREM TypeCorrect == Spec => []TypeOK
  BY TypeInit, TypeStep, PTL DEF Spec

-----------------------------------------------------------------------------
(* What was deleted stays away: GoneForNobody is inductive.                 *)

LEMMA HoldsLess ==
    ASSUME TypeOK, NEW p \in Processes, NEW r \in Run,
           run' = [run EXCEPT ![p] = r],
           r.todo \subseteq run[p].todo,
           r.at \in run[p].todo \cup {run[p].at, NoTarget}
    PROVE  \A q \in Processes : \A d \in Domains : Holds(q, d)' => Holds(q, d)
  BY DEF TypeOK, Holds

LEMMA ListHolds ==
    ASSUME TypeOK, NEW p \in Processes, List(p), NEW d \in Domains, ~Wanted(d)
    PROVE  \A q \in Processes : Holds(q, d)' => Holds(q, d)
  <1>1. PICK r \in Run : /\ r.todo = Targets /\ r.at = NoTarget
                         /\ run' = [run EXCEPT ![p] = r]
    BY ListedType DEF List
  <1>2. \A t \in Targets : t.domain # d
    BY DEF Targets, Wanted
  <1> QED
    BY <1>1, <1>2 DEF Holds, TypeOK

LEMMA CallHolds ==
    ASSUME TypeOK, NEW p \in Processes, Call(p) \/ CallFails(p)
    PROVE  /\ \A q \in Processes : \A d \in Domains : Holds(q, d)' => Holds(q, d)
           /\ \A d \in Domains : ~Holds(p, d) => sites'[d] = sites[d]
  <1>1. run[p].phase \in Calling
    BY DEF Call, CallFails
  <1>2. PICK r \in Run : /\ r.todo = run[p].todo /\ r.at = run[p].at
                         /\ run' = [run EXCEPT ![p] = r]
    BY <1>1, AdvanceType, RetriedType DEF Call, CallFails
  <1>3. /\ run[p].at \in ProxyTarget /\ run[p].at # NoTarget
        /\ run[p].at.domain \in Domains /\ Holds(p, run[p].at.domain)
    BY <1>1, AtType, TargetType DEF Holds
  <1>4. \A d \in Domains : d # run[p].at.domain => sites'[d] = sites[d]
    BY <1>1, <1>3, AfterCallType DEF Call, CallFails
  <1> QED
    BY <1>2, <1>3, <1>4, HoldsLess

LEMMA GoneWorking ==
    ASSUME TypeOK, GoneForNobody, NEW p \in Processes,
           Start(p) \/ Working(p) \/ Restart(p)
    PROVE  GoneForNobody'
  <1>1. ASSUME \A q \in Processes : \A d \in gone : Holds(q, d)' => Holds(q, d),
               \A d \in gone : sites'[d] = sites[d],
               UNCHANGED <<ingress, gone>>
        PROVE  GoneForNobody'
    BY <1>1 DEF GoneForNobody, Exists, Wanted
  <1>2. gone \subseteq Domains
    BY DEF TypeOK
  <1>3. CASE Start(p) \/ ListFails(p) \/ End(p) \/ Restart(p)
    <2>1. PICK r \in Run : /\ r.todo = {} /\ r.at = NoTarget
                           /\ run' = [run EXCEPT ![p] = r]
      BY <1>3, StartedType, NoRunType
      DEF Start, ListFails, End, Restart, NoRun
    <2> QED
      BY <1>1, <1>2, <1>3, <2>1, HoldsLess DEF Start, ListFails, End, Restart
  <1>4. CASE List(p)
    <2>1. \A d \in gone : ~Wanted(d)
      BY DEF GoneForNobody
    <2> QED
      BY <1>1, <1>2, <1>4, <2>1, ListHolds DEF List
  <1>5. CASE NextTarget(p)
    <2>1. run[p].phase = "next" /\ UNCHANGED <<ingress, sites, gone>>
      BY <1>5 DEF NextTarget
    <2>2. PICK t \in run[p].todo :
             run' = [run EXCEPT ![p] = [run[p] EXCEPT !.phase = "site", !.at = t,
                        !.todo = @ \ {t}, !.tries = 1, !.good = TRUE]]
      BY <1>5 DEF NextTarget
    <2> DEFINE r == [run[p] EXCEPT !.phase = "site", !.at = t, !.todo = @ \ {t},
                                   !.tries = 1, !.good = TRUE]
    <2>3. run[p] \in Run /\ t \in ProxyTarget /\ 1 \in 1 .. Attempts
      BY RunTypes, Given
    <2>4. r \in Run /\ r.todo = run[p].todo \ {t} /\ r.at = t
      BY <2>3 DEF Run, Phases, Calling
    <2>5. run' = [run EXCEPT ![p] = r]
      BY <2>2
    <2> HIDE DEF r
    <2> QED
      BY <1>1, <1>2, <2>1, <2>4, <2>5, HoldsLess
  <1>6. CASE Call(p) \/ CallFails(p)
    <2>1. \A d \in gone : ~Holds(p, d)
      BY DEF GoneForNobody
    <2> QED
      BY <1>1, <1>2, <1>6, <2>1, CallHolds DEF Call, CallFails
  <1>7. CASE ReportDomain(p)
    <2>1. PICK r \in Run : /\ r.todo = run[p].todo /\ r.at = NoTarget
                           /\ run' = [run EXCEPT ![p] = r]
      BY <1>7, ReportedType DEF ReportDomain
    <2> QED
      BY <1>1, <1>2, <1>7, <2>1, HoldsLess DEF ReportDomain
  <1>8. CASE Misread(p)
    <2>1. PICK r \in Run : /\ r.todo = run[p].todo /\ r.at = run[p].at
                           /\ run' = [run EXCEPT ![p] = r]
      BY <1>8, MisreadType
    <2> QED
      BY <1>1, <1>2, <1>8, <2>1, HoldsLess DEF Misread
  <1> QED
    BY <1>3, <1>4, <1>5, <1>6, <1>7, <1>8 DEF Working

LEMMA GoneDeleting ==
    ASSUME TypeOK, GoneForNobody, NEW x \in Deleters, Deleting(x)
    PROVE  GoneForNobody'
  <1> DEFINE d == deleter[x].domain
  <1>0. deleter[x] # NoDeletion /\ d \in Domains /\ gone \subseteq Domains
    BY DeleterType
    DEF Deleting, RemoveProxy, LookUp, DeleteSite, DeleteSiteFails, RemoveSite, At,
        DeletionMisread, TypeOK
  <1>1. ASSUME Hurt(d)
        PROVE  \A q \in Processes : \A e \in Domains : Holds(q, e)' <=> Holds(q, e)
    BY <1>0, <1>1, HurtType DEF Holds
  <1>2. CASE RemoveProxy(x)
    <2>1. \A e \in gone : sites'[e] = NoSite
      BY <1>0, <1>2, RemoveProxySites DEF GoneForNobody, Exists
    <2>2. \A q \in Processes : \A e \in Domains : Holds(q, e)' <=> Holds(q, e)
      BY <1>1, <1>2, RemoveProxySites DEF Holds
    <2> QED
      BY <1>0, <1>2, <2>1, <2>2 DEF RemoveProxy, GoneForNobody, Exists, Wanted
  <1>3. ASSUME Confirm(d), sites'[d] = NoSite, ingress' = ingress,
               \A e \in Domains : e # d => sites'[e] = sites[e],
               \A q \in Processes : \A e \in Domains : Holds(q, e)' <=> Holds(q, e)
        PROVE  GoneForNobody'
    <2>1. \A e \in Domains : Wanted(e)' <=> Wanted(e)
      BY <1>3 DEF Wanted
    <2>2. \A e \in gone' : e \in gone \/ (e = d /\ ~Wanted(d)
                                        /\ \A q \in Processes : ~Holds(q, d))
      BY <1>3 DEF Confirm
    <2>3. \A e \in gone : sites'[e] = NoSite
      BY <1>0, <1>3 DEF GoneForNobody, Exists
    <2> QED
      BY <1>0, <1>3, <2>1, <2>2, <2>3 DEF GoneForNobody, Exists
  <1>4. ASSUME UNCHANGED <<ingress, gone>>,
               \A e \in gone : sites'[e] = NoSite,
               \A q \in Processes : \A e \in Domains : Holds(q, e)' <=> Holds(q, e)
        PROVE  GoneForNobody'
    BY <1>0, <1>4 DEF GoneForNobody, Exists, Wanted
  <1>5. CASE LookUp(x)
    <2>1. /\ UNCHANGED <<ingress, sites, run>>
          /\ \A q \in Processes : \A e \in Domains : Holds(q, e)' <=> Holds(q, e)
      BY <1>5 DEF LookUp, Holds
    <2>2. CASE ~Exists(d) /\ Confirm(d)
      BY <1>3, <2>1, <2>2 DEF Exists
    <2>3. CASE UNCHANGED gone
      BY <1>4, <2>1, <2>3 DEF GoneForNobody, Exists
    <2> QED
      BY <1>5, <2>2, <2>3 DEF LookUp
  <1>6. ASSUME NEW n \in {NoDeletion} \cup Deleter, RemoveSite(x, n)
        PROVE  /\ sites'[d] = NoSite /\ ingress' = ingress
               /\ \A e \in Domains : e # d => sites'[e] = sites[e]
               /\ \A e \in gone : sites'[e] = NoSite
               /\ \A q \in Processes : \A e \in Domains : Holds(q, e)' <=> Holds(q, e)
    BY <1>0, <1>1, <1>6, RemoveSiteSites DEF GoneForNobody, Exists
  <1>7. CASE DeleteSite(x)
    BY <1>3, <1>6, <1>7 DEF DeleteSite
  <1>8. CASE DeleteSiteFails(x)
    <2>1. CASE RemoveSite(x, Retry(x)) /\ UNCHANGED gone
      BY <1>0, <1>4, <1>6, <2>1, RetryType
    <2>2. CASE UNCHANGED <<ingress, sites, run, report, calm, gone>>
      BY <1>4, <2>2 DEF GoneForNobody, Exists, Holds
    <2> QED
      BY <1>8, <2>1, <2>2 DEF DeleteSiteFails
  <1>9. CASE DeletionMisread(x)
    BY <1>4, <1>9 DEF DeletionMisread, GoneForNobody, Exists, Holds
  <1> QED
    BY <1>2, <1>5, <1>7, <1>8, <1>9 DEF Deleting

LEMMA GoneStep == TypeOK /\ GoneForNobody /\ [Next]_vars => GoneForNobody'
  <1> SUFFICES ASSUME TypeOK, GoneForNobody, [Next]_vars PROVE GoneForNobody'
    OBVIOUS
  <1>1. ASSUME NEW p \in Processes, Start(p) \/ Working(p) \/ Restart(p)
        PROVE  GoneForNobody'
    BY <1>1, GoneWorking
  <1>2. ASSUME NEW x \in Deleters, Deleting(x) PROVE GoneForNobody'
    BY <1>2, GoneDeleting
  <1>3. ASSUME NEW x \in Deleters, NEW i \in Ingresses, DeleteIngress(x, i)
        PROVE  GoneForNobody'
    <2>1. \A d \in Domains : Wanted(d)' => Wanted(d)
      BY <1>3 DEF DeleteIngress, Wanted, TypeOK
    <2> QED
      BY <1>3, <2>1 DEF DeleteIngress, GoneForNobody, Exists, Holds, TypeOK
  <1>4. ASSUME NEW i \in Ingresses, Edit(i) PROVE GoneForNobody'
    <2>1. PICK w \in {None} \cup Rules :
             /\ ingress' = [ingress EXCEPT ![i] = w]
             /\ gone' = IF w = None THEN gone ELSE gone \ {Domain[i]}
      BY <1>4 DEF Edit
    <2>2. \A d \in gone' : d \in gone /\ (Wanted(d)' => Wanted(d))
      BY <2>1 DEF Wanted, TypeOK
    <2> QED
      BY <1>4, <2>2 DEF Edit, GoneForNobody, Exists, Holds
  <1>5. CASE Weather
    BY <1>5 DEF Weather, GoneForNobody, Exists, Wanted, Holds
  <1>6. CASE UNCHANGED vars
    BY <1>6 DEF vars, GoneForNobody, Exists, Wanted, Holds
  <1> QED
    BY <1>1, <1>2, <1>3, <1>4, <1>5, <1>6 DEF Next

(* A domain the panel has deleted stays without a site until an ingress     *)
(* asks for it again.                                                       *)
THEOREM GoneStaysGoneCorrect == Spec => []GoneStaysGone
  <1>1. Init => GoneForNobody
    BY DEF Init, GoneForNobody
  <1>2. GoneForNobody => GoneStaysGone
    BY DEF GoneForNobody, GoneStaysGone
  <1> QED
    BY <1>1, <1>2, TypeCorrect, GoneStep, PTL DEF Spec

-----------------------------------------------------------------------------
(* The report is true: RunsInOrder is inductive.                            *)

Reported(done, doubt) == \A t \in done : t.domain \in doubt \/ Served(t)

Grown == \A d \in Domains : /\ Exists(d) => Exists(d)'
                            /\ Proxied(d) => Proxied(d)'
                            /\ Exists(d) /\ sites[d].https => sites'[d].https

LEMMA ServedGrows ==
    ASSUME Grown, NEW t \in ProxyTarget, Served(t)
    PROVE  Served(t)'
  BY TargetType DEF Served, Grown, Proxied

\* What was true of a run stays true while the panel only gains.
LEMMA InOrderGrows ==
    ASSUME TypeOK, Grown, NEW q \in Processes, InOrder(run[q]), run'[q] = run[q]
    PROVE  InOrder(run[q])'
  <1>1. \A t \in run[q].done : Served(t) => Served(t)'
    BY ServedGrows, RunTypes
  <1>2. CASE run[q].at = NoTarget
    BY <1>1, <1>2 DEF InOrder
  <1>3. CASE run[q].at # NoTarget
    <2>1. run[q].at \in ProxyTarget /\ run[q].at.domain \in Domains
      BY <1>3, RunTypes, TargetType
    <2>2. /\ Exists(run[q].at.domain) => sites'[run[q].at.domain] # NoSite
          /\ Proxied(run[q].at.domain) =>
               /\ sites'[run[q].at.domain] # NoSite
               /\ sites'[run[q].at.domain].proxy # NoProxy
      BY <2>1 DEF Grown, Exists, Proxied
    <2>3. Served(run[q].at) => Served(run[q].at)'
      BY <2>1, ServedGrows DEF Served, Proxied, Exists, Grown
    <2> QED
      BY <1>1, <2>2, <2>3 DEF InOrder, Exists, Proxied
  <1> QED
    BY <1>2, <1>3

\* The other runs, and the report, when only the run of p has moved.
LEMMA OthersInOrder ==
    ASSUME TypeOK, RunsInOrder, Grown, NEW p \in Processes, NEW r \in Run,
           run' = [run EXCEPT ![p] = r], InOrder(run[p])'
    PROVE  /\ \A q \in Processes : InOrder(run[q])'
           /\ Reported(report.done, report.doubt)
           /\ \A t \in report.done : Served(t) => Served(t)'
  <1>1. ASSUME NEW q \in Processes, q # p PROVE InOrder(run[q])'
    BY <1>1, InOrderGrows DEF TypeOK, RunsInOrder
  <1>2. \A t \in report.done : Served(t) => Served(t)'
    BY ServedGrows DEF TypeOK, Report
  <1> QED
    BY <1>1, <1>2 DEF RunsInOrder, Reported

LEMMA SameGrown == ASSUME sites' = sites PROVE Grown
  BY DEF Grown, Exists, Proxied

\* A run with nothing done and no target.
LEMMA FreshInOrder ==
    ASSUME NEW p \in Processes, run'[p].done = {}, run'[p].at = NoTarget
    PROVE  InOrder(run[p])'
  BY DEF InOrder

LEMMA CallInOrder ==
    ASSUME TypeOK, RunsInOrder, NEW p \in Processes, Call(p)
    PROVE  RunsInOrder'
  <1>1. /\ run[p].phase \in Calling
        /\ Accepted(run[p].phase, run[p].at) \/ TakenForMade(run[p].phase, run[p].at)
        /\ sites' = AfterCall(run[p].phase, run[p].at)
        /\ run' = [run EXCEPT ![p] = Advance(run[p], TRUE)] /\ report' = report
    BY DEF Call
  <1>2. PICK r \in Run : r = run[p]
    BY RunTypes
  <1>3. PICK t \in ProxyTarget : t = r.at
    BY <1>1, <1>2, AtType
  <1>4. PICK n \in Run : /\ run' = [run EXCEPT ![p] = n]
                         /\ n.at = t /\ n.done = r.done /\ n.doubt = r.doubt
                         /\ n.good <=> r.good
                         /\ n.phase = Following(r.phase, t)
    BY <1>1, <1>2, <1>3, AdvanceType
  <1>5. t # NoTarget /\ t.domain \in Domains /\ t.https \in BOOLEAN
    BY <1>3, TargetType, Given
  <1>6. /\ r.phase \in Calling /\ InOrder(r)
        /\ r.done \subseteq ProxyTarget
    BY <1>1, <1>2, RunTypes DEF RunsInOrder
  <1>7. /\ Grown
        /\ r.phase = "site" => Exists(t.domain)'
        /\ r.phase = "proxy" /\ Exists(t.domain) => Proxied(t.domain)'
        /\ r.phase = "https" => sites'[t.domain].https
    BY <1>1, <1>2, <1>3, AfterCallType DEF Grown
  <1>8. \A u \in r.done : u.domain \in r.doubt \/ Served(u)'
    BY <1>6, <1>7, ServedGrows DEF InOrder
  <1>9. ASSUME n.good, t.domain \notin n.doubt
        PROVE  /\ n.phase # "site" => Exists(t.domain)'
               /\ n.phase \in {"https", "report"} => Proxied(t.domain)'
               /\ n.phase = "report" => Served(t)'
    <2>1. /\ r.phase # "site" => Exists(t.domain)
          /\ r.phase = "https" => Proxied(t.domain)
      BY <1>3, <1>4, <1>5, <1>6, <1>9 DEF InOrder
    <2>2. CASE r.phase = "site"
      BY <1>4, <1>7, <2>2 DEF Following
    <2>3. CASE r.phase = "proxy"
      <3>1. Proxied(t.domain)' /\ (n.phase = "report" => ~t.https)
        BY <1>4, <1>7, <2>1, <2>3 DEF Following
      <3> QED
        BY <3>1 DEF Served, Proxied
    <2>4. CASE r.phase = "https"
      <3>1. Proxied(t.domain)' /\ sites'[t.domain].https
        BY <1>5, <1>7, <2>1, <2>4 DEF Grown
      <3> QED
        BY <3>1 DEF Served, Proxied
    <2> QED
      BY <1>6, <2>2, <2>3, <2>4 DEF Calling
  <1>10. run'[p] = n
    BY <1>4 DEF TypeOK
  <1>11. InOrder(n)'
    BY <1>4, <1>8, <1>9 DEF InOrder
  <1>12. /\ \A q \in Processes : InOrder(run[q])'
         /\ Reported(report.done, report.doubt)
         /\ \A u \in report.done : Served(u) => Served(u)'
    BY <1>4, <1>7, <1>10, <1>11, OthersInOrder
  <1> QED
    BY <1>1, <1>12 DEF RunsInOrder, Reported

\* A call that failed changes nothing the run goes by: it calls again, or
\* the domain is no longer good.
LEMMA CallFailsInOrder ==
    ASSUME TypeOK, RunsInOrder, NEW p \in Processes, CallFails(p)
    PROVE  RunsInOrder'
  <1>1. run[p].phase \in Calling /\ report' = report
    BY DEF CallFails
  <1>2. PICK r \in Run : r = run[p]
    BY RunTypes
  <1>3. PICK t \in ProxyTarget : t = r.at
    BY <1>1, <1>2, AtType
  <1>4. PICK n \in Run : /\ run' = [run EXCEPT ![p] = n]
                         /\ n.at = t /\ n.done = r.done /\ n.doubt = r.doubt
                         /\ ~n.good \/ (n.good = r.good /\ n.phase = r.phase)
    <2>1. CASE r.tries < Attempts
      <3> DEFINE n == [run[p] EXCEPT !.tries = @ + 1]
      <3>1. run' = [run EXCEPT ![p] = n]
        BY <1>2, <2>1 DEF CallFails
      <3>2. /\ n \in Run /\ n.phase = r.phase /\ n.at = t
            /\ n.good = r.good /\ n.done = r.done /\ n.doubt = r.doubt
        BY <1>1, <1>2, <1>3, <2>1, RetriedType
      <3> HIDE DEF n
      <3> QED
        BY <3>1, <3>2
    <2>2. CASE ~(r.tries < Attempts)
      <3>1. run' = [run EXCEPT ![p] = Advance(run[p], FALSE)]
        BY <1>2, <2>2 DEF CallFails
      <3> QED
        BY <1>1, <1>2, <1>3, <3>1, AdvanceType
    <2> QED
      BY <2>1, <2>2
  <1>5. t # NoTarget /\ t.domain \in Domains
    BY <1>3, TargetType, Given
  <1>6. InOrder(r) /\ r.done \subseteq ProxyTarget
    BY <1>2, RunTypes DEF RunsInOrder
  <1>7. Grown
    BY <1>1, <1>2, <1>3, AfterCallType, SameGrown DEF CallFails, Grown
  <1>8. \A u \in r.done : u.domain \in r.doubt \/ Served(u)'
    BY <1>6, <1>7, ServedGrows DEF InOrder
  <1>9. ASSUME n.good, t.domain \notin n.doubt
        PROVE  /\ n.phase # "site" => Exists(t.domain)'
               /\ n.phase \in {"https", "report"} => Proxied(t.domain)'
               /\ n.phase = "report" => Served(t)'
    <2>1. /\ n.phase # "site" => Exists(t.domain)
          /\ n.phase \in {"https", "report"} => Proxied(t.domain)
          /\ n.phase = "report" => Served(t)
      BY <1>3, <1>4, <1>5, <1>6, <1>9 DEF InOrder
    <2>2. /\ Exists(t.domain) => Exists(t.domain)'
          /\ Proxied(t.domain) => Proxied(t.domain)'
          /\ Served(t) => Served(t)'
      BY <1>3, <1>5, <1>7, ServedGrows DEF Grown
    <2> QED
      BY <2>1, <2>2
  <1>10. run'[p] = n
    BY <1>4 DEF TypeOK
  <1>11. InOrder(n)'
    BY <1>4, <1>8, <1>9 DEF InOrder
  <1>12. /\ \A q \in Processes : InOrder(run[q])'
         /\ Reported(report.done, report.doubt)
         /\ \A u \in report.done : Served(u) => Served(u)'
    BY <1>4, <1>7, <1>10, <1>11, OthersInOrder
  <1> QED
    BY <1>1, <1>12 DEF RunsInOrder, Reported

\* A step of a run that leaves the panel alone, and the report it may save.
LEMMA QuietInOrder ==
    ASSUME TypeOK, RunsInOrder, NEW p \in Processes, NEW r \in Run,
           run' = [run EXCEPT ![p] = r], sites' = sites, InOrder(r),
           report' = report \/ Reported(report'.done, report'.doubt)
    PROVE  RunsInOrder'
  <1>1. \A u \in ProxyTarget \cup report'.done : Served(u)' <=> Served(u)
    BY DEF Served, Proxied, Exists
  <1>2. InOrder(r)'
    BY DEF InOrder, Served, Proxied, Exists
  <1>3. run'[p] = r
    BY DEF TypeOK
  <1>4. \A q \in Processes : InOrder(run[q])'
    BY <1>2, <1>3, OthersInOrder, SameGrown
  <1>5. Reported(report'.done, report'.doubt)
    BY DEF RunsInOrder, Reported
  <1> QED
    BY <1>1, <1>4, <1>5 DEF RunsInOrder, Reported

LEMMA PersistTrue ==
    ASSUME NEW r \in Run, InOrder(r), NEW running \in BOOLEAN, Persist(r, running)
    PROVE  report' = report \/ Reported(report'.done, report'.doubt)
  BY DEF Persist, InOrder, Reported

LEMMA WorkingInOrder ==
    ASSUME TypeOK, RunsInOrder, NEW p \in Processes,
           Start(p) \/ Working(p) \/ Restart(p)
    PROVE  RunsInOrder'
  <1>1. NoRun \in Run /\ InOrder(NoRun)
    BY NoRunType DEF NoRun, InOrder
  <1>2. run[p] \in Run /\ InOrder(run[p])
    BY RunTypes DEF RunsInOrder
  <1>3. CASE Start(p)
    <2>1. PICK r \in Run : /\ r.at = NoTarget /\ r.done = {}
                           /\ run' = [run EXCEPT ![p] = r]
      BY <1>3, StartedType DEF Start
    <2>2. InOrder(r)
      BY <2>1 DEF InOrder
    <2> QED
      BY <1>1, <1>3, <2>1, <2>2, PersistTrue, QuietInOrder DEF Start
  <1>4. CASE List(p)
    <2>1. PICK r \in Run : /\ r.at = NoTarget /\ r.done = run[p].done
                           /\ r.doubt = run[p].doubt
                           /\ run' = [run EXCEPT ![p] = r]
      BY <1>4, ListedType DEF List
    <2>2. InOrder(r)
      BY <1>2, <2>1 DEF InOrder
    <2> QED
      BY <1>4, <2>1, <2>2, QuietInOrder DEF List
  <1>5. CASE ListFails(p)
    BY <1>1, <1>5, PersistTrue, QuietInOrder DEF ListFails
  <1>6. CASE NextTarget(p)
    <2>1. run[p].phase = "next" /\ sites' = sites /\ report' = report
      BY <1>6 DEF NextTarget
    <2>2. PICK t \in run[p].todo :
             run' = [run EXCEPT ![p] = [run[p] EXCEPT !.phase = "site", !.at = t,
                        !.todo = @ \ {t}, !.tries = 1, !.good = TRUE]]
      BY <1>6 DEF NextTarget
    <2> DEFINE r == [run[p] EXCEPT !.phase = "site", !.at = t, !.todo = @ \ {t},
                                   !.tries = 1, !.good = TRUE]
    <2>3. /\ r \in Run /\ r.phase = "site"
          /\ r.done = run[p].done /\ r.doubt = run[p].doubt
      BY <2>1, NextTargetType
    <2>4. run' = [run EXCEPT ![p] = r]
      BY <2>2
    <2> HIDE DEF r
    <2>5. InOrder(r)
      BY <1>2, <2>3 DEF InOrder
    <2> QED
      BY <2>1, <2>3, <2>4, <2>5, QuietInOrder
  <1>7. CASE ReportDomain(p)
    <2>1. PICK r \in Run : /\ r.at = NoTarget /\ r.doubt = run[p].doubt
                           /\ r.done = IF run[p].good
                                       THEN run[p].done \cup {run[p].at}
                                       ELSE run[p].done
                           /\ run' = [run EXCEPT ![p] = r]
      BY <1>7, ReportedType DEF ReportDomain
    <2>2. run[p].at # NoTarget /\ run[p].phase = "report"
      BY <1>7, AtType DEF ReportDomain
    <2>3. InOrder(r)
      BY <1>2, <2>1, <2>2 DEF InOrder
    <2>4. Persist(r, TRUE) /\ sites' = sites
      BY <1>7, <2>1 DEF ReportDomain, TypeOK
    <2> QED
      BY <2>1, <2>3, <2>4, PersistTrue, QuietInOrder
  <1>8. CASE End(p)
    BY <1>1, <1>2, <1>8, PersistTrue, QuietInOrder DEF End
  <1>9. CASE Restart(p)
    BY <1>1, <1>9, QuietInOrder DEF Restart
  <1>10. CASE Misread(p)
    <2>1. PICK r \in Run : /\ run' = [run EXCEPT ![p] = r]
                           /\ r.at = run[p].at /\ r.done = run[p].done
                           /\ r.doubt = run[p].doubt \cup {run[p].at.domain}
      BY <1>10, MisreadType
    <2>2. InOrder(r)
      BY <1>2, <2>1 DEF InOrder
    <2> QED
      BY <1>10, <2>1, <2>2, QuietInOrder DEF Misread
  <1> QED
    BY <1>3, <1>4, <1>5, <1>6, <1>7, <1>8, <1>9, <1>10,
       CallInOrder, CallFailsInOrder
    DEF Working

\* A deletion marks what it makes untrue.
LEMMA HurtInOrder ==
    ASSUME TypeOK, RunsInOrder, NEW d \in Domains, Hurt(d),
           \A e \in Domains : e # d => sites'[e] = sites[e]
    PROVE  RunsInOrder'
  <1>1. ASSUME NEW t \in ProxyTarget, t.domain # d
        PROVE  /\ Exists(t.domain)' <=> Exists(t.domain)
               /\ Proxied(t.domain)' <=> Proxied(t.domain)
               /\ Served(t)' <=> Served(t)
    BY <1>1, TargetType DEF Served, Proxied, Exists
  <1>2. Reported(report.done, report.doubt)'
    <2>1. ASSUME NEW t \in report.done PROVE t.domain \in report'.doubt \/ Served(t)'
      <3>1. t \in ProxyTarget
        BY DEF TypeOK, Report
      <3> QED
        BY <1>1, <2>1, <3>1, HurtType DEF RunsInOrder
    <2> QED
      BY <2>1, HurtType DEF Reported
  <1>3. ASSUME NEW p \in Processes PROVE InOrder(run[p])'
    <2>1. PICK r \in Run : r = run[p]
      BY RunTypes
    <2>2. PICK n \in Run : n = run'[p]
      BY HurtType
    <2>3. /\ n.phase = r.phase /\ n.at = r.at /\ n.good = r.good
          /\ n.done = r.done /\ r.doubt \subseteq n.doubt
          /\ \A t \in r.done \cup {r.at} : t # NoTarget /\ t.domain = d => d \in n.doubt
      BY <2>1, <2>2, HurtType
    <2>4. /\ InOrder(r) /\ r.done \subseteq ProxyTarget
          /\ r.at \in ProxyTarget \cup {NoTarget}
      BY <2>1, RunTypes DEF RunsInOrder
    <2>5. ASSUME NEW t \in n.done PROVE t.domain \in n.doubt \/ Served(t)'
      <3>1. t \in ProxyTarget /\ t # NoTarget
        BY <2>3, <2>4, <2>5, Given
      <3> QED
        BY <1>1, <2>3, <2>4, <2>5, <3>1 DEF InOrder
    <2>6. ASSUME n.at # NoTarget, n.good, n.at.domain \notin n.doubt
          PROVE  /\ n.phase # "site" => Exists(n.at.domain)'
                 /\ n.phase \in {"https", "report"} => Proxied(n.at.domain)'
                 /\ n.phase = "report" => Served(n.at)'
      <3>1. n.at \in ProxyTarget /\ n.at.domain # d
        BY <2>3, <2>4, <2>6
      <3>2. /\ n.phase # "site" => Exists(n.at.domain)
            /\ n.phase \in {"https", "report"} => Proxied(n.at.domain)
            /\ n.phase = "report" => Served(n.at)
        BY <2>3, <2>4, <2>6 DEF InOrder
      <3> QED
        BY <1>1, <3>1, <3>2
    <2>7. InOrder(n)'
      BY <2>5, <2>6 DEF InOrder
    <2> QED
      BY <2>2, <2>7
  <1> QED
    BY <1>2, <1>3 DEF RunsInOrder, Reported

LEMMA StutterInOrder ==
    ASSUME RunsInOrder, UNCHANGED <<sites, run, report>>
    PROVE  RunsInOrder'
  BY DEF RunsInOrder, InOrder, Served, Proxied, Exists

LEMMA InOrderStep == TypeOK /\ RunsInOrder /\ [Next]_vars => RunsInOrder'
  <1> SUFFICES ASSUME TypeOK, RunsInOrder, [Next]_vars PROVE RunsInOrder'
    OBVIOUS
  <1>1. ASSUME NEW p \in Processes, Start(p) \/ Working(p) \/ Restart(p)
        PROVE  RunsInOrder'
    BY <1>1, WorkingInOrder
  <1>2. ASSUME NEW x \in Deleters, Deleting(x) PROVE RunsInOrder'
    <2>1. CASE RemoveProxy(x)
      BY <2>1, RemoveProxySites, HurtInOrder, StutterInOrder
    <2>2. ASSUME NEW n \in {NoDeletion} \cup Deleter, RemoveSite(x, n)
          PROVE  RunsInOrder'
      BY <2>2, RemoveSiteSites, HurtInOrder
    <2>3. CASE LookUp(x)
      BY <2>3, StutterInOrder DEF LookUp
    <2>4. CASE DeleteSite(x)
      BY <2>2, <2>4 DEF DeleteSite
    <2>5. CASE DeleteSiteFails(x)
      <3>1. CASE RemoveSite(x, Retry(x))
        <4>1. deleter[x] # NoDeletion
          BY <3>1 DEF RemoveSite, At
        <4> QED
          BY <2>2, <3>1, <4>1, RetryType
      <3> QED
        BY <2>5, <3>1, StutterInOrder DEF DeleteSiteFails
    <2>6. CASE DeletionMisread(x)
      BY <2>6, StutterInOrder DEF DeletionMisread
    <2> QED
      BY <1>2, <2>1, <2>3, <2>4, <2>5, <2>6 DEF Deleting
  <1>3. ASSUME NEW x \in Deleters, NEW i \in Ingresses, DeleteIngress(x, i)
        PROVE  RunsInOrder'
    BY <1>3, StutterInOrder DEF DeleteIngress
  <1>4. ASSUME NEW i \in Ingresses, Edit(i) PROVE RunsInOrder'
    BY <1>4, StutterInOrder DEF Edit
  <1>5. CASE Weather \/ UNCHANGED vars
    BY <1>5, StutterInOrder DEF Weather, vars
  <1> QED
    BY <1>1, <1>2, <1>3, <1>4, <1>5 DEF Next

(* What the report and the runs call in order is served by the panel unless *)
(* a deletion has taken something away since, or an answer that said        *)
(* nothing was taken for a success.                                         *)
THEOREM ReportTrueCorrect == Spec => []ReportTrue
  <1>1. Init => RunsInOrder
    BY DEF Init, RunsInOrder, InOrder, NoRun
  <1>2. RunsInOrder => ReportTrue
    BY DEF RunsInOrder, InOrder, ReportTrue
  <1> QED
    BY <1>1, <1>2, TypeCorrect, InOrderStep, PTL DEF Spec
=============================================================================
