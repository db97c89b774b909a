--------------------------- MODULE DocsStoreProofs ---------------------------
(***************************************************************************)
(* Theorems about a document's row, tags, versions and cached answer, for  *)
(* every number of requests, texts, categories, tags and versions.         *)
(***************************************************************************)
EXTENDS DocsStore, TLAPS

\* What a request at each of its steps holds.
Good ==
    {q \in Request :
        /\ q.step \in {"tags", "fill", "compare", "write"} => q.row \in Rows
        /\ q.step \in {"restore", "next", "version"} => q.text \in Texts
        /\ q.no \in 0 .. MaxVersion
        /\ q.step = "version" => q.no # 0}

StoreType == TypeOK /\ request \in [Requests -> Good]

LEMMA TaskGood ==
    ASSUME NEW st \in Step, NEW w \in Rows \cup {None}, NEW ts \in SUBSET Tags,
           NEW t \in Texts \cup {None}, NEW n \in 0 .. MaxVersion,
           st \in {"tags", "fill", "compare", "write"} => w \in Rows,
           st \in {"restore", "next", "version"} => t \in Texts,
           st = "version" => n # 0
    PROVE  Task(st, w, ts, t, n) \in Good
  <1>1. Task(st, w, ts, t, n) \in Request
    BY DEF Task, Request
  <1> QED
    BY <1>1 DEF Task, Good

LEMMA IdleGood == Idle \in Good
  BY TaskGood, StoreAssumption DEF Idle, Step, StoreAssumption

LEMMA GoesType ==
    ASSUME StoreType, NEW r \in Requests, NEW q \in Good, Goes(r, q)
    PROVE  /\ request' \in [Requests -> Good] /\ request' \in [Requests -> Request]
           /\ answer' \in Rows \cup {None, Unread}
           /\ request'[r] = q /\ \A s \in Requests \ {r} : request'[s] = request[s]
  <1>1. Good \subseteq Request
    BY DEF Good
  <1> QED
    BY <1>1 DEF StoreType, Goes

LEMMA LateGood ==
    ASSUME NEW q \in Good
    PROVE  [q EXCEPT !.late = TRUE] \in Good
  BY DEF Good, Request

LEMMA ChangesType ==
    ASSUME StoreType, NEW r \in Requests, NEW q \in Good, Changes(r, q)
    PROVE  /\ request' \in [Requests -> Good] /\ request' \in [Requests -> Request]
           /\ answer' \in Rows \cup {None, Unread}
           /\ request'[r] = q
           /\ \A s \in Requests \ {r} :
                request'[s] = IF Reading(s) THEN [request[s] EXCEPT !.late = TRUE]
                              ELSE request[s]
  <1>1. Good \subseteq Request
    BY DEF Good
  <1>2. ASSUME NEW s \in Requests PROVE [request[s] EXCEPT !.late = TRUE] \in Good
    BY LateGood DEF StoreType
  <1> QED
    BY <1>1, <1>2 DEF StoreType, Changes

LEMMA SyncedGood ==
    ASSUME NEW q \in Good, q.step \in {"clear", "insert"} PROVE Synced(q) \in Good
  BY DEF Good, Request, Synced, Step

LEMMA InitType == Init => StoreType
<1> SUFFICES ASSUME Init PROVE StoreType
  OBVIOUS
<1>1. Idle \in Good /\ Idle \in Request
  BY IdleGood DEF Good
<1> QED
  BY <1>1 DEF Init, StoreType, TypeOK

-----------------------------------------------------------------------------
LEMMA GetType ==
    ASSUME StoreType, NEW r \in Requests,
           GetHit(r) \/ GetGone(r) \/ GetRow(r) \/ GetTags(r) \/ Fill(r)
    PROVE  StoreType'
  <1> USE DEF table, history
  <1>0. /\ request \in [Requests -> Good] /\ request[r] \in Request
        /\ row \in Rows \cup {None}
    BY DEF StoreType, TypeOK
  <1>1. CASE GetHit(r)
    <2>1. cache.row \in Rows
      BY <1>1 DEF GetHit, StoreType, TypeOK, Cached
    <2> QED
      BY <1>1, <2>1 DEF GetHit, StoreType, TypeOK
  <1>2. CASE GetGone(r)
    BY <1>2 DEF GetGone, StoreType, TypeOK
  <1>3. CASE GetRow(r)
    <2>1. Task("tags", row, {}, None, 0) \in Good
      BY <1>0, <1>3, TaskGood, StoreAssumption DEF GetRow, Step, StoreAssumption
    <2> QED
      BY <1>3, <2>1, GoesType DEF GetRow, StoreType, TypeOK
  <1>4. CASE GetTags(r)
    <2>1. PICK part \in SUBSET tags :
            request' = [request EXCEPT ![r].step = "fill", ![r].tags = part,
                                       ![r].late = @ \/ part # tags]
      BY <1>4 DEF GetTags
    <2>2. request[r].row \in Rows /\ request[r] \in Good
      BY <1>4, <1>0 DEF GetTags, At, Good
    <2>3. part \in SUBSET Tags
      BY DEF StoreType, TypeOK
    <2>4. [request[r] EXCEPT !.step = "fill", !.tags = part,
                             !.late = @ \/ part # tags] \in Good
      BY <2>2, <2>3 DEF Good, Request, Step
    <2>5. request' \in [Requests -> Good] /\ request' \in [Requests -> Request]
      BY <1>0, <2>1, <2>4 DEF Good
    <2> QED
      BY <1>4, <2>2, <2>5 DEF GetTags, StoreType, TypeOK
  <1>5. CASE Fill(r)
    <2>1. cache' \in Cached
      BY <1>5, <1>0 DEF Fill, At, Good, Request, Cached
    <2> QED
      BY <1>5, <2>1, GoesType, IdleGood DEF Fill, StoreType, TypeOK
  <1> QED
    BY <1>1, <1>2, <1>3, <1>4, <1>5

LEMMA UpdateType ==
    ASSUME StoreType, NEW r \in Requests,
           UpdateReads(r) \/ UpdateCompares(r) \/ UpdateAffectsNone(r) \/ UpdateWrites(r)
    PROVE  StoreType'
  <1> USE DEF table, history
  <1>0. request[r] \in Good /\ request[r] \in Request
    BY DEF StoreType, TypeOK
  <1>1. CASE UpdateReads(r)
    <2>1. PICK w \in Rows, ts \in SUBSET Tags, v \in {None} \cup Texts :
            Goes(r, Task(IF w = row THEN "compare" ELSE "write", w, ts, v, 0))
      BY <1>1 DEF UpdateReads
    <2>2. Task(IF w = row THEN "compare" ELSE "write", w, ts, v, 0) \in Good
      <3>1. 0 \in 0 .. MaxVersion /\ {"compare", "write"} \subseteq Step
        BY StoreAssumption DEF StoreAssumption, Step
      <3> QED
        BY <3>1, TaskGood
    <2> QED
      BY <1>1, <2>1, <2>2, GoesType DEF UpdateReads, StoreType, TypeOK
  <1>2. CASE UpdateCompares(r)
    <2>1. [request[r] EXCEPT !.step = "write"] \in Good
      BY <1>0, <1>2 DEF UpdateCompares, At, Good, Request, Step
    <2> QED
      BY <1>2, <2>1, GoesType, IdleGood DEF UpdateCompares, StoreType, TypeOK
  <1>3. CASE UpdateAffectsNone(r)
    BY <1>3, GoesType, IdleGood DEF UpdateAffectsNone, StoreType, TypeOK
  <1>4. CASE UpdateWrites(r)
    <2>1. [request[r] EXCEPT !.step = "clear", !.row = None] \in Good
      BY <1>0 DEF Good, Request, Step
    <2>2. row' \in Rows
      BY <1>0, <1>4 DEF UpdateWrites, At, Good
    <2> QED
      BY <1>4, <2>1, <2>2, ChangesType DEF UpdateWrites, StoreType, TypeOK
  <1> QED
    BY <1>1, <1>2, <1>3, <1>4

LEMMA TagsType ==
    ASSUME StoreType, NEW r \in Requests, ClearTags(r) \/ InsertTag(r)
    PROVE  StoreType'
  <1> USE DEF history
  <1>0. request[r] \in Good /\ request[r] \in Request
    BY DEF StoreType, TypeOK
  <1>1. CASE ClearTags(r)
    <2>1. [request[r] EXCEPT !.step = "insert"] \in Good
      BY <1>0 DEF Good, Request, Step
    <2>2. Synced(request[r]) \in Good
      BY <1>0, <1>1, SyncedGood DEF ClearTags, At
    <2> QED
      BY <1>1, <2>1, <2>2, ChangesType DEF ClearTags, StoreType, TypeOK
  <1>2. CASE InsertTag(r)
    <2>1. PICK t \in request[r].tags :
            /\ tags' = tags \cup {t}
            /\ Changes(r, IF request[r].tags = {t} THEN Synced(request[r])
                          ELSE [request[r] EXCEPT !.tags = @ \ {t}])
      BY <1>2 DEF InsertTag
    <2>2. request[r].tags \subseteq Tags
      BY <1>0 DEF Request
    <2>3. [request[r] EXCEPT !.tags = @ \ {t}] \in Good
      BY <1>0, <2>2 DEF Good, Request
    <2>4. Synced(request[r]) \in Good
      BY <1>0, <1>2, SyncedGood DEF InsertTag, At
    <2>5. tags' \in SUBSET Tags
      BY <2>1, <2>2 DEF StoreType, TypeOK
    <2> QED
      BY <1>2, <2>1, <2>3, <2>4, <2>5, ChangesType DEF InsertTag, StoreType, TypeOK
  <1> QED
    BY <1>1, <1>2

LEMMA VersionType ==
    ASSUME StoreType, NEW r \in Requests, NextVersion(r) \/ InsertVersion(r)
    PROVE  StoreType'
  <1> USE DEF table, history
  <1>0. request[r] \in Good /\ request[r] \in Request
    BY DEF StoreType, TypeOK
  <1>1. CASE NextVersion(r)
    <2>1. PICK n \in 0 .. MaxVersion :
            n < MaxVersion /\ Goes(r, [request[r] EXCEPT !.step = "version", !.no = n + 1])
      BY <1>1 DEF NextVersion
    <2>2. [request[r] EXCEPT !.step = "version", !.no = n + 1] \in Good
      <3>1. n + 1 \in 0 .. MaxVersion /\ n + 1 # 0 /\ n + 1 \in Int
        BY <2>1, StoreAssumption DEF StoreAssumption
      <3>2. request[r].text \in Texts
        BY <1>0, <1>1 DEF NextVersion, At, Good
      <3> QED
        BY <1>0, <3>1, <3>2 DEF Good, Request, Step
    <2> QED
      BY <1>1, <2>1, <2>2, GoesType DEF NextVersion, StoreType, TypeOK
  <1>2. CASE InsertVersion(r)
    <2>1. [request[r] EXCEPT !.step = "bump", !.no = 0] \in Good
      <3>1. 0 \in 0 .. MaxVersion /\ 0 \in Int
        BY StoreAssumption DEF StoreAssumption
      <3> QED
        BY <1>0, <3>1 DEF Good, Request, Step
    <2>2. request[r].text \in Texts
      BY <1>0, <1>2 DEF InsertVersion, At, Good
    <2>3. versions' \in [Numbers -> Texts \cup {None}]
      BY <1>2, <2>2 DEF InsertVersion, StoreType, TypeOK
    <2> QED
      BY <1>2, <2>1, <2>3, GoesType DEF InsertVersion, StoreType, TypeOK
  <1> QED
    BY <1>1, <1>2

LEMMA CreateType ==
    ASSUME StoreType, (\E r \in Requests : CreateRow(r)) \/ Duplicate
    PROVE  StoreType'
  <1> USE DEF table, history
  <1>1. ASSUME NEW r \in Requests, CreateRow(r) PROVE StoreType'
    <2>1. PICK w \in Rows, ts \in SUBSET Tags :
            row' = w /\ Changes(r, Task("clear", None, ts, w.text, 1))
      BY <1>1 DEF CreateRow
    <2>2. Task("clear", None, ts, w.text, 1) \in Good
      <3>1. 1 \in 0 .. MaxVersion /\ "clear" \in Step /\ w.text \in Texts
        BY StoreAssumption DEF StoreAssumption, Step, Rows
      <3> QED
        BY <3>1, TaskGood
    <2> QED
      BY <1>1, <2>1, <2>2, ChangesType DEF CreateRow, StoreType, TypeOK
  <1>2. CASE Duplicate
    <2>1. PICK w \in Rows, ts \in SUBSET Tags :
            row' = w /\ tags' = ts /\ versions' = [versions EXCEPT ![1] = w.text]
      BY <1>2 DEF Duplicate
    <2>2. w.text \in Texts
      BY DEF Rows
    <2>3. versions' \in [Numbers -> Texts \cup {None}]
      BY <2>1, <2>2 DEF StoreType, TypeOK
    <2> QED
      BY <1>2, <2>1, <2>3 DEF Duplicate, StoreType, TypeOK
  <1> QED
    BY <1>1, <1>2

LEMMA RestoreType ==
    ASSUME StoreType, NEW r \in Requests, RestoreReads(r) \/ RestoreWrites(r)
    PROVE  StoreType'
  <1> USE DEF table, history
  <1>0. request[r] \in Good /\ request[r] \in Request
    BY DEF StoreType, TypeOK
  <1>1. CASE RestoreReads(r)
    <2>1. PICK n \in Numbers :
            versions[n] # None /\ Goes(r, Task("restore", None, {}, versions[n], 0))
      BY <1>1 DEF RestoreReads
    <2>2. Task("restore", None, {}, versions[n], 0) \in Good
      <3>1. 0 \in 0 .. MaxVersion /\ "restore" \in Step
        BY StoreAssumption DEF StoreAssumption, Step
      <3>2. versions[n] \in Texts
        BY <2>1 DEF StoreType, TypeOK
      <3> QED
        BY <3>1, <3>2, TaskGood
    <2> QED
      BY <1>1, <2>1, <2>2, GoesType DEF RestoreReads, StoreType, TypeOK
  <1>2. CASE RestoreWrites(r)
    <2>1. request[r].text \in Texts
      BY <1>0, <1>2 DEF RestoreWrites, At, Good
    <2>2. row' \in Rows \cup {None}
      BY <1>2, <2>1 DEF RestoreWrites, StoreType, TypeOK, Rows
    <2>3. [request[r] EXCEPT !.step = "next"] \in Good
      BY <1>0, <2>1 DEF Good, Request, Step
    <2> QED
      BY <1>2, <2>2, <2>3, ChangesType DEF RestoreWrites, StoreType, TypeOK
  <1> QED
    BY <1>1, <1>2

LEMMA OtherWriteType ==
    ASSUME StoreType, NEW r \in Requests, PatchCategory(r) \/ Delete(r)
    PROVE  StoreType'
  <1> USE DEF table, history
  <1>1. Task("bump", None, {}, None, 0) \in Good
    <2>1. 0 \in 0 .. MaxVersion /\ "bump" \in Step
      BY StoreAssumption DEF StoreAssumption, Step
    <2> QED
      BY <2>1, TaskGood
  <1>2. CASE PatchCategory(r)
    <2>1. row' \in Rows
      BY <1>2 DEF PatchCategory, StoreType, TypeOK, Rows
    <2> QED
      BY <1>1, <1>2, <2>1, ChangesType DEF PatchCategory, StoreType, TypeOK
  <1>3. CASE Delete(r)
    BY <1>1, <1>3, ChangesType DEF Delete, StoreType, TypeOK
  <1> QED
    BY <1>2, <1>3

LEMMA EndType ==
    ASSUME StoreType,
           (\E r \in Requests : Bump(r) \/ BumpFails(r) \/ Fail(r)) \/ Expire
    PROVE  StoreType'
  <1> USE DEF table, history
  <1>1. ASSUME NEW r \in Requests, Bump(r) \/ BumpFails(r) \/ Fail(r) PROVE StoreType'
    <2>1. request[r].text \in Texts \cup {None}
      BY DEF StoreType, TypeOK, Request
    <2>2. saved' \in SUBSET Texts
      BY <1>1, <2>1 DEF Bump, BumpFails, Ok, Fail, StoreType, TypeOK
    <2>3. unbumped' \in BOOLEAN
      BY <1>1 DEF Bump, BumpFails, Ok, Fail, StoreType, TypeOK
    <2>4. Goes(r, Idle) /\ cache' \in {cache, None} /\ UNCHANGED table
      BY <1>1 DEF Bump, BumpFails, Ok, Fail
    <2> QED
      BY <2>2, <2>3, <2>4, GoesType, IdleGood DEF StoreType, TypeOK
  <1>2. CASE Expire
    BY <1>2 DEF Expire, StoreType, TypeOK
  <1> QED
    BY <1>1, <1>2

LEMMA NextType == StoreType /\ [Next]_vars => StoreType'
<1> SUFFICES ASSUME StoreType, [Next]_vars PROVE StoreType'
  OBVIOUS
<1>1. CASE UNCHANGED vars
  BY <1>1 DEF vars, StoreType, TypeOK
<1>2. CASE Next
  BY <1>2, GetType, UpdateType, TagsType, VersionType, CreateType, RestoreType,
     OtherWriteType, EndType
  DEF Next, Statement, Begin
<1> QED
  BY <1>1, <1>2

\* Row, tags, versions, cached answer and requests keep their types under every
\* interleaving of requests and every failure.
THEOREM DocsTypeCorrect == Spec => []TypeOK
<1>1. StoreType => TypeOK
  BY DEF StoreType
<1> QED
  BY <1>1, InitType, NextType, PTL DEF Spec

-----------------------------------------------------------------------------
\* What a get has read that is not late is what the document is.
ReadsCurrent ==
    \A r \in Requests :
        Reading(r) /\ ~request[r].late =>
            /\ request[r].row = row
            /\ At(r, "fill") => request[r].tags = tags

Fresh == ReadsCurrent /\ DetailFresh

LEMMA InitFresh == Init => Fresh
  BY DEF Init, Fresh, ReadsCurrent, DetailFresh, Reading, Idle, Task

LEMMA GoesFresh ==
    ASSUME Fresh, NEW r \in Requests,
           \A s \in Requests \ {r} : request'[s] = request[s],
           request'[r].step \notin {"tags", "fill"},
           UNCHANGED <<row, tags, cache>>, unbumped => unbumped',
           unbumped' \/ (Changing(r) => Changing(r)')
    PROVE  Fresh'
  <1>1. ReadsCurrent'
    BY DEF Fresh, ReadsCurrent, Reading, At
  <1>2. ASSUME ~unbumped', \A s \in Requests : ~Changing(s)'
        PROVE  ~unbumped /\ \A s \in Requests : ~Changing(s)
    BY <1>2 DEF Changing
  <1>3. DetailFresh'
    BY <1>2 DEF Fresh, DetailFresh
  <1> QED
    BY <1>1, <1>3 DEF Fresh

LEMMA ChangesFresh ==
    ASSUME StoreType, Fresh, NEW r \in Requests, Changing(r)',
           \A s \in Requests \ {r} :
                request'[s] = IF Reading(s) THEN [request[s] EXCEPT !.late = TRUE]
                              ELSE request[s]
    PROVE  Fresh'
  <1>1. ASSUME NEW s \in Requests, Reading(s)' PROVE request'[s].late
    <2>1. s # r
      BY <1>1 DEF Reading, Changing
    <2>2. request[s] \in Request
      BY DEF StoreType, TypeOK
    <2>3. Reading(s)
      BY <1>1, <2>1, <2>2 DEF Reading, Request
    <2> QED
      BY <2>1, <2>2, <2>3 DEF Request
  <1>2. ReadsCurrent'
    BY <1>1 DEF ReadsCurrent
  <1>3. DetailFresh'
    BY DEF DetailFresh
  <1> QED
    BY <1>2, <1>3 DEF Fresh

-----------------------------------------------------------------------------
\* Before the document is created nobody has to do with it.
Unborn ==
    ~created => /\ row = None /\ cache = None /\ saved = {}
                /\ \A r \in Requests : At(r, "idle")
                /\ \A n \in Numbers : versions[n] = None

LEMMA InitUnborn == Init => Unborn
  BY DEF Init, Unborn, At, Idle, Task

LEMMA NextUnborn == StoreType /\ Unborn /\ [Next]_vars => Unborn'
<1> SUFFICES ASSUME StoreType, Unborn, [Next]_vars PROVE Unborn'
  OBVIOUS
<1> USE DEF table, history
<1>1. CASE UNCHANGED vars
  BY <1>1 DEF vars, Unborn, At
<1>2. CASE created'
  BY <1>2 DEF Unborn
<1>3. CASE Next /\ ~created'
  <2>1. ~created
    BY <1>3 DEF Next, Statement, Begin, GetHit, GetGone, GetRow, GetTags, Fill, Expire,
       UpdateReads, UpdateCompares, UpdateAffectsNone, UpdateWrites, ClearTags, InsertTag,
       NextVersion, InsertVersion, CreateRow, Duplicate, RestoreReads, RestoreWrites,
       PatchCategory, Delete, Bump, BumpFails, Ok, Fail, StoreType, TypeOK
  <2>2. /\ row = None /\ cache = None
        /\ \A r \in Requests : At(r, "idle")
        /\ \A n \in Numbers : versions[n] = None
    BY <2>1 DEF Unborn
  <2>3. ASSUME NEW r \in Requests PROVE ~Statement(r)
    BY <2>2 DEF Statement, At, UpdateCompares, UpdateAffectsNone, UpdateWrites,
       ClearTags, InsertTag, NextVersion, InsertVersion, RestoreWrites, GetTags, Fill,
       Bump, BumpFails, Fail
  <2>4. PICK r \in Requests : Begin(r)
    BY <1>3, <2>2, <2>3 DEF Next, Expire, Duplicate, StoreType, TypeOK
  <2>5. GetGone(r)
    BY <1>3, <2>2, <2>4 DEF Begin, GetHit, GetRow, UpdateReads, CreateRow, RestoreReads,
       PatchCategory, Delete
  <2> QED
    BY <2>1, <2>5 DEF GetGone, Unborn, At
<1> QED
  BY <1>1, <1>2, <1>3

-----------------------------------------------------------------------------
LEMMA GetFresh ==
    ASSUME StoreType, Fresh, NEW r \in Requests,
           GetHit(r) \/ GetGone(r) \/ GetRow(r) \/ GetTags(r) \/ Fill(r)
    PROVE  Fresh'
  <1> USE DEF table, history
  <1>0. request[r] \in Request /\ request \in [Requests -> Request]
    BY DEF StoreType, TypeOK
  <1>1. CASE GetHit(r) \/ GetGone(r)
    BY <1>1 DEF GetHit, GetGone, Fresh, ReadsCurrent, DetailFresh, Reading, Changing, At
  <1>2. CASE GetRow(r)
    <2>1. request' = [request EXCEPT ![r] = Task("tags", row, {}, None, 0)]
      BY <1>2 DEF GetRow, Goes
    <2>2. ReadsCurrent'
      BY <1>0, <1>2, <2>1 DEF GetRow, Fresh, ReadsCurrent, Reading, At, Task
    <2>3. \A s \in Requests : Changing(s)' <=> Changing(s)
      BY <1>0, <1>2, <2>1 DEF GetRow, Changing, At, Task
    <2> QED
      BY <1>2, <2>2, <2>3 DEF GetRow, Fresh, DetailFresh
  <1>3. CASE GetTags(r)
    <2>1. PICK part \in SUBSET tags :
            request' = [request EXCEPT ![r].step = "fill", ![r].tags = part,
                                       ![r].late = @ \/ part # tags]
      BY <1>3 DEF GetTags
    <2>2. /\ request'[r].step = "fill" /\ request'[r].tags = part
          /\ request'[r].row = request[r].row
          /\ request'[r].late = (request[r].late \/ part # tags)
          /\ \A s \in Requests \ {r} : request'[s] = request[s]
      BY <1>0, <2>1 DEF Request
    <2>3. ReadsCurrent'
      BY <1>3, <2>2 DEF GetTags, Fresh, ReadsCurrent, Reading, At
    <2>4. \A s \in Requests : Changing(s)' <=> Changing(s)
      BY <1>3, <2>2 DEF GetTags, Changing, At
    <2> QED
      BY <1>3, <2>3, <2>4 DEF GetTags, Fresh, DetailFresh
  <1>4. CASE Fill(r)
    <2>1. request' = [request EXCEPT ![r] = Idle]
      BY <1>4 DEF Fill, Goes
    <2>2. ReadsCurrent'
      BY <1>0, <1>4, <2>1 DEF Fill, Fresh, ReadsCurrent, Reading, At, Idle, Task
    <2>3. /\ cache'.row = request[r].row /\ cache'.tags = request[r].tags
          /\ cache'.late = request[r].late
      BY <1>4 DEF Fill
    <2>4. DetailFresh'
      BY <1>4, <2>3 DEF Fill, Fresh, ReadsCurrent, Reading, At, DetailFresh
    <2> QED
      BY <2>2, <2>4 DEF Fresh
  <1> QED
    BY <1>1, <1>2, <1>3, <1>4

\* A step that changes the document: gets that have read it are late.
LEMMA WriteStep ==
    ASSUME StoreType, NEW r \in Requests,
           UpdateWrites(r) \/ ClearTags(r) \/ InsertTag(r) \/ CreateRow(r)
                \/ RestoreWrites(r) \/ PatchCategory(r) \/ Delete(r)
    PROVE  /\ \A s \in Requests \ {r} :
                request'[s] = IF Reading(s) THEN [request[s] EXCEPT !.late = TRUE]
                              ELSE request[s]
           /\ Changing(r)'
           /\ answer' = Unread /\ UNCHANGED cache
<1> USE DEF table, history
<1>1. request[r] \in Request /\ request \in [Requests -> Request]
  BY DEF StoreType, TypeOK
<1>2. \A s \in Requests \ {r} :
          request'[s] = IF Reading(s) THEN [request[s] EXCEPT !.late = TRUE] ELSE request[s]
  BY DEF Changes, UpdateWrites, ClearTags, InsertTag, CreateRow, RestoreWrites,
     PatchCategory, Delete
<1>3. Changing(r)'
  <2>1. CASE UpdateWrites(r) \/ RestoreWrites(r)
    BY <1>1, <2>1 DEF Changes, Changing, UpdateWrites, RestoreWrites, Request
  <2>2. CASE ClearTags(r)
    BY <1>1, <2>2 DEF Changes, Changing, ClearTags, Synced, Request
  <2>3. CASE InsertTag(r)
    <3>1. PICK t \in request[r].tags :
            Changes(r, IF request[r].tags = {t} THEN Synced(request[r])
                       ELSE [request[r] EXCEPT !.tags = @ \ {t}])
      BY <2>3 DEF InsertTag
    <3>2. request'[r] \in {Synced(request[r]), [request[r] EXCEPT !.tags = @ \ {t}]}
      BY <3>1 DEF Changes
    <3>3. request[r].step = "insert"
      BY <2>3 DEF InsertTag, At
    <3> QED
      BY <1>1, <3>2, <3>3 DEF Changing, Synced, Request
  <2>4. CASE CreateRow(r)
    BY <2>4 DEF Changes, Changing, CreateRow, Task
  <2>5. CASE PatchCategory(r) \/ Delete(r)
    BY <2>5 DEF Changes, Changing, PatchCategory, Delete, Task
  <2> QED
    BY <2>1, <2>2, <2>3, <2>4, <2>5
<1>4. answer' = Unread /\ UNCHANGED cache
  BY DEF Changes, UpdateWrites, ClearTags, InsertTag, CreateRow, RestoreWrites,
     PatchCategory, Delete
<1> QED
  BY <1>2, <1>3, <1>4

\* A step that neither changes the document nor answers a reader, nor starts a get.
LEMMA QuietStep ==
    ASSUME StoreType, NEW r \in Requests,
           UpdateReads(r) \/ UpdateCompares(r) \/ UpdateAffectsNone(r) \/ NextVersion(r)
                \/ InsertVersion(r) \/ RestoreReads(r) \/ BumpFails(r) \/ Fail(r)
    PROVE  /\ UNCHANGED <<row, tags, cache>> /\ (unbumped => unbumped')
           /\ \A s \in Requests \ {r} : request'[s] = request[s]
           /\ request'[r].step \notin {"tags", "fill"}
           /\ unbumped' \/ (Changing(r) => Changing(r)')
           /\ answer' = Unread
<1> USE DEF table, history
<1>1. request[r] \in Request /\ request \in [Requests -> Request]
  BY DEF StoreType, TypeOK
<1>2. UNCHANGED <<row, tags, cache>> /\ (unbumped => unbumped')
  <2>1. CASE BumpFails(r)
    BY <2>1 DEF BumpFails, Ok
  <2>2. CASE Fail(r)
    <3>1. UNCHANGED <<row, tags, cache>> /\ unbumped' = (unbumped \/ Changing(r))
      BY <2>2 DEF Fail
    <3> QED
      BY <3>1
  <2>3. CASE UpdateReads(r) \/ UpdateCompares(r) \/ UpdateAffectsNone(r)
    BY <2>3 DEF UpdateReads, UpdateCompares, UpdateAffectsNone
  <2>4. CASE NextVersion(r)
    BY <2>4 DEF NextVersion
  <2>5. CASE InsertVersion(r)
    BY <2>5 DEF InsertVersion
  <2>6. CASE RestoreReads(r)
    BY <2>6 DEF RestoreReads
  <2> QED
    BY <2>1, <2>2, <2>3, <2>4, <2>5, <2>6
<1>3. \A s \in Requests \ {r} : request'[s] = request[s]
  <2>1. CASE UpdateReads(r)
    BY <1>1, <2>1 DEF Goes, UpdateReads
  <2>2. CASE UpdateCompares(r) \/ UpdateAffectsNone(r)
    BY <1>1, <2>2 DEF Goes, UpdateCompares, UpdateAffectsNone
  <2>3. CASE NextVersion(r) \/ InsertVersion(r) \/ RestoreReads(r)
    BY <1>1, <2>3 DEF Goes, NextVersion, InsertVersion, RestoreReads
  <2>4. CASE BumpFails(r) \/ Fail(r)
    BY <1>1, <2>4 DEF Goes, BumpFails, Ok, Fail
  <2> QED
    BY <2>1, <2>2, <2>3, <2>4
<1>4. /\ request'[r].step \notin {"tags", "fill"}
      /\ unbumped' \/ (Changing(r) => Changing(r)')
  <2>1. CASE UpdateReads(r)
    <3>1. request'[r].step \in {"compare", "write"} /\ ~Changing(r)
      BY <1>1, <2>1 DEF Goes, UpdateReads, Task, At, Changing
    <3> QED
      BY <3>1
  <2>5. CASE RestoreReads(r)
    <3>1. request'[r].step = "restore" /\ ~Changing(r)
      BY <1>1, <2>5 DEF Goes, RestoreReads, Task, At, Changing
    <3> QED
      BY <3>1
  <2>2. CASE UpdateCompares(r) \/ UpdateAffectsNone(r)
    BY <1>1, <2>2 DEF Goes, UpdateCompares, UpdateAffectsNone, Idle, Task, At, Changing,
       Request
  <2>3. CASE NextVersion(r) \/ InsertVersion(r)
    <3>1. ASSUME NEW n \in Nat, Goes(r, [request[r] EXCEPT !.step = "version", !.no = n])
          PROVE  request'[r].step = "version"
      BY <1>1, <3>1 DEF Goes, Request
    <3>2. CASE NextVersion(r)
      <4>1. PICK n \in 0 .. MaxVersion :
                Goes(r, [request[r] EXCEPT !.step = "version", !.no = n + 1])
        BY <3>2 DEF NextVersion
      <4>2. n + 1 \in Nat
        BY StoreAssumption DEF StoreAssumption
      <4>3. request'[r].step = "version"
        BY <3>1, <4>1, <4>2
      <4> QED
        BY <4>3 DEF Changing
    <3>3. CASE InsertVersion(r)
      <4>1. request'[r] = [request[r] EXCEPT !.step = "bump", !.no = 0]
        BY <1>1, <3>3 DEF Goes, InsertVersion
      <4> QED
        BY <1>1, <4>1 DEF Request, Changing
    <3> QED
      BY <2>3, <3>2, <3>3 DEF Changing
  <2>4. CASE BumpFails(r) \/ Fail(r)
    <3>1. request'[r].step = "idle"
      BY <1>1, <2>4 DEF Goes, BumpFails, Ok, Fail, Idle, Task
    <3>2. unbumped' \/ ~Changing(r)
      BY <2>4 DEF BumpFails, Fail
    <3> QED
      BY <3>1, <3>2
  <2> QED
    BY <2>1, <2>2, <2>3, <2>4, <2>5
<1>5. answer' = Unread
  BY DEF Goes, UpdateReads, UpdateCompares, UpdateAffectsNone, NextVersion, InsertVersion,
     RestoreReads, BumpFails, Ok, Fail
<1> QED
  BY <1>2, <1>3, <1>4, <1>5

LEMMA NextFresh ==
    StoreType /\ StoreType' /\ Unborn /\ Fresh /\ [Next]_vars => Fresh'
<1> SUFFICES ASSUME StoreType, StoreType', Unborn, Fresh, [Next]_vars PROVE Fresh'
  OBVIOUS
<1> USE DEF table, history
<1>1. CASE UNCHANGED vars
  BY <1>1 DEF vars, Fresh, ReadsCurrent, DetailFresh, Reading, Changing, At
<1>2. CASE Expire
  BY <1>2 DEF Expire, Fresh, ReadsCurrent, DetailFresh, Reading, At
<1>3. CASE Duplicate
  <2>1. cache = None /\ \A r \in Requests : ~Reading(r)
    BY <1>3 DEF Duplicate, Unborn, At, Reading
  <2> QED
    BY <1>3, <2>1 DEF Duplicate, Fresh, ReadsCurrent, DetailFresh, Reading
<1>4. ASSUME NEW r \in Requests,
             GetHit(r) \/ GetGone(r) \/ GetRow(r) \/ GetTags(r) \/ Fill(r)
      PROVE  Fresh'
  BY <1>4, GetFresh
<1>5. ASSUME NEW r \in Requests,
             UpdateWrites(r) \/ ClearTags(r) \/ InsertTag(r) \/ CreateRow(r)
                \/ RestoreWrites(r) \/ PatchCategory(r) \/ Delete(r)
      PROVE  Fresh'
  BY <1>5, WriteStep, ChangesFresh
<1>6. ASSUME NEW r \in Requests,
             UpdateReads(r) \/ UpdateCompares(r) \/ UpdateAffectsNone(r) \/ NextVersion(r)
                \/ InsertVersion(r) \/ RestoreReads(r) \/ BumpFails(r) \/ Fail(r)
      PROVE  Fresh'
  BY <1>6, QuietStep, GoesFresh
<1>7. ASSUME NEW r \in Requests, Bump(r) PROVE Fresh'
  <2>1. /\ cache' = None /\ UNCHANGED <<row, tags>>
        /\ request' = [request EXCEPT ![r] = Idle]
    BY <1>7 DEF Bump, Ok, Goes
  <2>2. ReadsCurrent'
    BY <2>1 DEF StoreType, TypeOK, Fresh, ReadsCurrent, Reading, At, Idle, Task
  <2> QED
    BY <2>1, <2>2 DEF Fresh, DetailFresh
<1>8. CASE Next
  BY <1>2, <1>3, <1>4, <1>5, <1>6, <1>7, <1>8 DEF Next, Statement, Begin
<1> QED
  BY <1>1, <1>8

\* What Redis keeps of a document is the document, unless a get was overtaken or
\* read only in part, or a write came to no bump.
THEOREM DocsDetailFresh == Spec => []DetailFresh
<1>1. Fresh => DetailFresh
  BY DEF Fresh
<1> QED
  BY <1>1, InitType, InitUnborn, InitFresh, NextType, NextUnborn, NextFresh, PTL DEF Spec

-----------------------------------------------------------------------------
\* Kept(t): some version has the text t.
Kept(t) == \E n \in Numbers : versions[n] = t

\* A request that comes to its bump has put its text among the versions, unless
\* the document was deleted.
VersionsBehind ==
    row # None =>
        \A r \in Requests : At(r, "bump") /\ request[r].text # None => Kept(request[r].text)

Versioned == VersionsBehind /\ SavedIsKept

LEMMA InitVersioned == Init => Versioned
  BY DEF Init, Versioned, VersionsBehind, SavedIsKept

\* Nothing but a deletion takes a text from the versions.
LEMMA KeptStays ==
    ASSUME StoreType, Unborn, [Next]_vars, row' # None, NEW t \in Texts, Kept(t)
    PROVE  Kept(t)'
<1> USE DEF table
<1>1. PICK n \in Numbers : versions[n] = t
  BY DEF Kept
<1>2. CASE UNCHANGED versions
  BY <1>1, <1>2 DEF Kept
<1>3. ASSUME NEW r \in Requests, InsertVersion(r) PROVE Kept(t)'
  <2>1. n # request[r].no
    BY <1>1, <1>3, StoreAssumption DEF InsertVersion, StoreAssumption
  <2>2. versions'[n] = t
    BY <1>1, <1>3, <2>1 DEF InsertVersion, StoreType, TypeOK
  <2> QED
    BY <2>2 DEF Kept
<1>4. ASSUME NEW r \in Requests, Delete(r) PROVE FALSE
  BY <1>4 DEF Delete
<1>5. CASE Duplicate
  BY <1>5, StoreAssumption DEF Duplicate, Unborn, Kept, StoreAssumption
<1>6. CASE UNCHANGED vars
  BY <1>2, <1>6 DEF vars
<1>7. CASE Next
  BY <1>2, <1>3, <1>4, <1>5, <1>7 DEF Next, Statement, Begin, GetHit, GetGone, GetRow,
     GetTags, Fill, Expire, UpdateReads, UpdateCompares, UpdateAffectsNone, UpdateWrites,
     ClearTags, InsertTag, NextVersion, CreateRow, RestoreReads, RestoreWrites,
     PatchCategory, Bump, BumpFails, Ok, Fail
<1> QED
  BY <1>6, <1>7

\* A request that is at its bump now and has a text was there before, or has just
\* added the text to the versions.
LEMMA ComesToBump ==
    ASSUME StoreType, Unborn, [Next]_vars, NEW r \in Requests,
           At(r, "bump")', request'[r].text # None
    PROVE  \/ At(r, "bump") /\ request'[r].text = request[r].text
           \/ InsertVersion(r) /\ request'[r].text = request[r].text
<1> USE DEF table, history
<1>0. request \in [Requests -> Request]
  BY DEF StoreType, TypeOK
<1>1. CASE UNCHANGED request
  BY <1>1 DEF At
<1>2. ASSUME NEW s \in Requests, NEW q, Goes(s, q) \/ Changes(s, q), s # r
      PROVE  At(r, "bump") /\ request'[r].text = request[r].text
  <2>1. request[r] \in Request
    BY <1>0
  <2>2. request'[r] \in {request[r], [request[r] EXCEPT !.late = TRUE]}
    BY <1>0, <1>2 DEF Goes, Changes
  <2> QED
    BY <2>1, <2>2 DEF At, Request
<1>3. ASSUME NEW s \in Requests, Statement(s) \/ Begin(s), s # r
      PROVE  At(r, "bump") /\ request'[r].text = request[r].text
  <2>1. CASE GetHit(s) \/ GetGone(s)
    BY <1>1, <2>1 DEF GetHit, GetGone, At
  <2>2. CASE GetTags(s)
    BY <1>0, <1>3, <2>2 DEF GetTags, At
  <2>3. CASE UpdateWrites(s) \/ ClearTags(s) \/ RestoreWrites(s) \/ PatchCategory(s) \/ Delete(s)
    BY <1>2, <1>3, <2>3 DEF UpdateWrites, ClearTags, RestoreWrites, PatchCategory, Delete
  <2>4. CASE InsertTag(s) \/ CreateRow(s)
    BY <1>2, <1>3, <2>4 DEF InsertTag, CreateRow
  <2>5. CASE GetRow(s) \/ Fill(s) \/ UpdateReads(s) \/ UpdateCompares(s) \/ UpdateAffectsNone(s)
    BY <1>2, <1>3, <2>5 DEF GetRow, Fill, UpdateReads, UpdateCompares, UpdateAffectsNone
  <2>6. CASE NextVersion(s) \/ InsertVersion(s) \/ RestoreReads(s)
    BY <1>2, <1>3, <2>6 DEF NextVersion, InsertVersion, RestoreReads
  <2>7. CASE Bump(s) \/ BumpFails(s) \/ Fail(s)
    BY <1>2, <1>3, <2>7 DEF Bump, BumpFails, Ok, Fail
  <2> QED
    BY <1>3, <2>1, <2>2, <2>3, <2>4, <2>5, <2>6, <2>7 DEF Statement, Begin
<1>4. CASE Statement(r) \/ Begin(r)
  <2>0. request[r] \in Request /\ request'[r].step = "bump"
    BY <1>0 DEF At
  <2>1. CASE GetHit(r) \/ GetGone(r)
    BY <1>1, <2>1 DEF GetHit, GetGone
  <2>2. CASE InsertVersion(r)
    BY <1>0, <2>0, <2>2 DEF InsertVersion, Goes, Request
  <2>3. CASE PatchCategory(r) \/ Delete(r)
    <3>1. request'[r].text = None
      BY <2>3 DEF PatchCategory, Delete, Changes, Task
    <3> QED
      BY <3>1
  <2>4. CASE ClearTags(r)
    BY <2>0, <2>4 DEF ClearTags, Changes, Synced, Request
  <2>5. CASE InsertTag(r)
    <3>1. PICK t : Changes(r, IF request[r].tags = {t} THEN Synced(request[r])
                              ELSE [request[r] EXCEPT !.tags = @ \ {t}])
      BY <2>5 DEF InsertTag
    <3>2. request'[r] \in {Synced(request[r]), [request[r] EXCEPT !.tags = @ \ {t}]}
      BY <3>1 DEF Changes
    <3>3. request[r].step = "insert"
      BY <2>5 DEF InsertTag, At
    <3> QED
      BY <2>0, <3>2, <3>3 DEF Synced, Request
  <2>6. CASE UpdateWrites(r) \/ RestoreWrites(r) \/ CreateRow(r)
    <3>1. CASE UpdateWrites(r)
      BY <2>0, <3>1 DEF UpdateWrites, Changes, Request
    <3>2. CASE RestoreWrites(r)
      BY <2>0, <3>2 DEF RestoreWrites, Changes, Request
    <3>3. CASE CreateRow(r)
      BY <2>0, <3>3 DEF CreateRow, Changes, Task
    <3> QED
      BY <2>6, <3>1, <3>2, <3>3
  <2>7. CASE GetRow(r) \/ Fill(r) \/ UpdateCompares(r) \/ UpdateAffectsNone(r) \/ Fail(r)
    BY <1>0, <2>0, <2>7 DEF GetRow, Fill, UpdateCompares, UpdateAffectsNone, Fail, Goes,
       Task, Idle, Request
  <2>8. CASE UpdateReads(r)
    <3>1. request'[r].step \in {"compare", "write"}
      BY <1>0, <2>8 DEF UpdateReads, Goes, Task
    <3> QED
      BY <2>0, <3>1
  <2>9. CASE RestoreReads(r) \/ NextVersion(r) \/ Bump(r) \/ BumpFails(r)
    <3>1. CASE RestoreReads(r)
      BY <1>0, <2>0, <3>1 DEF RestoreReads, Goes, Task
    <3>2. CASE NextVersion(r)
      BY <1>0, <2>0, <3>2 DEF NextVersion, Goes, Request
    <3>3. CASE Bump(r) \/ BumpFails(r)
      BY <1>0, <2>0, <3>3 DEF Bump, BumpFails, Ok, Goes, Task, Idle
    <3> QED
      BY <2>9, <3>1, <3>2, <3>3
  <2>10. CASE GetTags(r)
    BY <1>0, <2>0, <2>10 DEF GetTags, Request
  <2> QED
    BY <1>4, <2>1, <2>2, <2>3, <2>4, <2>5, <2>6, <2>7, <2>8, <2>9, <2>10
    DEF Statement, Begin
<1> QED
  BY <1>1, <1>3, <1>4 DEF Next, vars, Duplicate, Expire

LEMMA NextVersioned ==
    StoreType /\ StoreType' /\ Unborn /\ Versioned /\ [Next]_vars => Versioned'
<1> SUFFICES ASSUME StoreType, StoreType', Unborn, Versioned, [Next]_vars, row' # None
             PROVE  VersionsBehind' /\ SavedIsKept'
  BY DEF Versioned, VersionsBehind, SavedIsKept
<1> USE DEF table, history
<1>1. CASE row = None
  <2>1. CASE UNCHANGED vars
    BY <1>1, <2>1 DEF vars
  <2>2. CASE Next
    <3>1. ~created
      BY <1>1, <2>2 DEF Next, Statement, Begin, GetHit, GetGone, GetRow, GetTags, Fill,
         Expire, UpdateReads, UpdateCompares, UpdateAffectsNone, UpdateWrites, ClearTags,
         InsertTag, NextVersion, InsertVersion, CreateRow, Duplicate, RestoreReads,
         RestoreWrites, PatchCategory, Delete, Bump, BumpFails, Ok, Fail
    <3>2. saved = {} /\ \A r \in Requests : At(r, "idle")
      BY <3>1 DEF Unborn
    <3>3. ASSUME NEW r \in Requests, At(r, "bump")', request'[r].text # None PROVE FALSE
      BY <3>2, <3>3, ComesToBump DEF At, InsertVersion
    <3>4. saved' = saved
      BY <2>2, <3>2 DEF Next, Statement, Begin, GetHit, GetGone, GetRow, GetTags, Fill,
         Expire, UpdateReads, UpdateCompares, UpdateAffectsNone, UpdateWrites, ClearTags,
         InsertTag, NextVersion, InsertVersion, CreateRow, Duplicate, RestoreReads,
         RestoreWrites, PatchCategory, Delete, Bump, BumpFails, Fail, At
    <3> QED
      BY <3>2, <3>3, <3>4 DEF VersionsBehind, SavedIsKept
  <2> QED
    BY <2>1, <2>2
<1>2. CASE row # None
  <2>1. \A t \in saved : Kept(t)
    BY <1>2 DEF Versioned, SavedIsKept, Kept
  <2>2. ASSUME NEW r \in Requests, At(r, "bump"), request[r].text # None
        PROVE  \E n \in Numbers : versions'[n] = request[r].text
    <3>1. PICK t \in Texts : t = request[r].text
      BY <2>2 DEF StoreType, TypeOK, Request
    <3>2. Kept(t)
      BY <1>2, <2>2, <3>1 DEF Versioned, VersionsBehind
    <3>3. Kept(t)'
      BY <3>2, KeptStays
    <3> QED
      BY <3>1, <3>3 DEF Kept
  <2>3. ASSUME NEW r \in Requests, InsertVersion(r)
        PROVE  \E n \in Numbers : versions'[n] = request[r].text
    <3>1. request[r].no \in Numbers
      <4>1. request[r] \in Good /\ request[r].step = "version"
        BY <2>3 DEF InsertVersion, At, StoreType
      <4> QED
        BY <4>1, StoreAssumption DEF Good, Numbers, StoreAssumption
    <3>2. versions'[request[r].no] = request[r].text
      BY <2>3, <3>1 DEF InsertVersion, StoreType, TypeOK
    <3> QED
      BY <3>1, <3>2
  <2>4. VersionsBehind'
    BY <2>2, <2>3, ComesToBump DEF VersionsBehind, Kept, At
  <2>5. ASSUME NEW t \in saved' PROVE \E n \in Numbers : versions'[n] = t
    <3>1. CASE t \in saved
      <4>1. t \in Texts /\ Kept(t)
        BY <2>1, <3>1 DEF StoreType, TypeOK
      <4>2. Kept(t)'
        BY <4>1, KeptStays
      <4> QED
        BY <4>2 DEF Kept
    <3>2. CASE t \notin saved
      <4>1. PICK r \in Requests : Bump(r) \/ BumpFails(r)
        BY <2>5, <3>2 DEF Next, vars, Statement, Begin, GetHit, GetGone, GetRow, GetTags,
           Fill, Expire, UpdateReads, UpdateCompares, UpdateAffectsNone, UpdateWrites,
           ClearTags, InsertTag, NextVersion, InsertVersion, CreateRow, Duplicate,
           RestoreReads, RestoreWrites, PatchCategory, Delete, Fail
      <4>2. At(r, "bump") /\ request[r].text # None /\ t = request[r].text
        BY <2>5, <3>2, <4>1 DEF Bump, BumpFails, Ok
      <4> QED
        BY <2>2, <4>2
    <3> QED
      BY <3>1, <3>2
  <2> QED
    BY <2>4, <2>5 DEF SavedIsKept
<1> QED
  BY <1>1, <1>2

\* A text whose save was answered "ok" stays among the versions until the document
\* is deleted, however many saves and restores interleave or fail.
THEOREM DocsSavedIsKept == Spec => []SavedIsKept
<1>1. Versioned => SavedIsKept
  BY DEF Versioned
<1> QED
  BY <1>1, InitType, InitUnborn, InitVersioned, NextType, NextUnborn, NextVersioned, PTL
  DEF Spec

-----------------------------------------------------------------------------
LEMMA InitRegister == Init => Register!RegisterInit
  BY DEF Init, Register!RegisterInit, Answerable, Held, Reading, Idle, Task

\* What a step that leaves the table alone can do to what is answerable.
LEMMA Forgets ==
    ASSUME StoreType, row' \in Rows \cup {None}, answer' = Unread,
           Answerable' \subseteq Answerable \cup {row'}
    PROVE  \E v \in Rows \cup {None} : Register!Write("doc", v)
  <1>1. PICK S \in SUBSET Answerable : Answerable' = S \cup {row'}
    <2>1. row' \in Answerable'
      BY DEF Answerable
    <2>2. Answerable' = (Answerable' \cap Answerable) \cup {row'}
      BY <2>1
    <2> QED
      BY <2>2
  <1> QED
    BY <1>1 DEF Register!Write, Register!Keeps

LEMMA AnswerableShrinks ==
    ASSUME \A s \in Requests : Reading(s)' =>
                \/ Reading(s) /\ request'[s].row = request[s].row
                \/ request'[s].row = row',
           cache' # None => cache'.row \in Answerable \cup {row'}
    PROVE  Answerable' \subseteq Answerable \cup {row'}
  <1>1. ASSUME NEW s \in Requests, NEW v \in Held(s)' PROVE v \in Answerable \cup {row'}
    <2>1. Reading(s)' /\ v = request'[s].row
      BY <1>1 DEF Held
    <2>2. CASE Reading(s) /\ request'[s].row = request[s].row
      <3>1. v \in Held(s)
        BY <2>1, <2>2 DEF Held
      <3> QED
        BY <3>1 DEF Answerable
    <2> QED
      BY <2>1, <2>2
  <1> QED
    BY <1>1 DEF Answerable

LEMMA GoesRegister ==
    ASSUME StoreType, StoreType', NEW r \in Requests,
           answer' = Unread, Reading(r)' => request'[r].row = row',
           \A s \in Requests \ {r} : request'[s] \in
                {request[s], [request[s] EXCEPT !.late = TRUE]},
           cache' # None => cache'.row \in Answerable
    PROVE  \E v \in Rows \cup {None} : Register!Write("doc", v)
  <1>1. ASSUME NEW s \in Requests, Reading(s)'
        PROVE  \/ Reading(s) /\ request'[s].row = request[s].row
               \/ request'[s].row = row'
    <2>1. request[s] \in Request
      BY DEF StoreType, TypeOK
    <2> QED
      BY <1>1, <2>1 DEF Reading, Request
  <1>2. Answerable' \subseteq Answerable \cup {row'}
    BY <1>1, AnswerableShrinks
  <1>3. row' \in Rows \cup {None}
    BY DEF StoreType, TypeOK
  <1> QED
    BY <1>2, <1>3, Forgets

LEMMA NextRegister ==
    StoreType /\ StoreType' /\ [Next]_vars
        => [Register!RegisterNext]_(Register!registerVars)
<1> SUFFICES ASSUME StoreType, StoreType', [Next]_vars
             PROVE  [Register!RegisterNext]_(Register!registerVars)
  OBVIOUS
<1> USE DEF table, history
<1>0. request \in [Requests -> Request] /\ (cache # None => cache.row \in Answerable)
  BY DEF StoreType, TypeOK, Answerable
<1>1. CASE UNCHANGED vars
  <2>1. Answerable' = Answerable
    BY <1>1 DEF vars, Answerable, Held, Reading
  <2> QED
    BY <1>1, <2>1 DEF vars, Register!registerVars
<1>2. CASE \E v \in Rows \cup {None} : Register!Write("doc", v)
  BY <1>2 DEF Register!RegisterNext
<1>3. CASE Register!Answer("doc")
  BY <1>3 DEF Register!RegisterNext
<1>4. ASSUME NEW r \in Requests, GetHit(r) \/ GetGone(r) PROVE Register!Answer("doc")
  <2>1. answer' \in Answerable
    BY <1>4 DEF GetHit, GetGone, Answerable
  <2>2. UNCHANGED <<row, cache, request>>
    BY <1>4 DEF GetHit, GetGone
  <2>3. Answerable' = Answerable
    BY <2>2 DEF Answerable, Held, Reading
  <2> QED
    BY <2>1, <2>2, <2>3 DEF Register!Answer
<1>5. ASSUME NEW r \in Requests, GetTags(r) PROVE Register!Answer("doc")
  <2>1. /\ UNCHANGED <<row, cache>>
        /\ answer' = request[r].row /\ At(r, "tags")
    BY <1>5 DEF GetTags
  <2>2. answer' \in Answerable
    BY <2>1 DEF Answerable, Held, Reading, At
  <2>3. /\ request'[r].step = "fill" /\ request'[r].row = request[r].row
        /\ \A s \in Requests \ {r} : request'[s] = request[s]
    BY <1>0, <1>5 DEF GetTags, Request
  <2>4. \A s \in Requests : Held(s)' = Held(s)
    BY <2>1, <2>3 DEF Held, Reading, At
  <2>5. Answerable' = Answerable
    BY <2>1, <2>4 DEF Answerable
  <2> QED
    BY <2>1, <2>2, <2>5 DEF Register!Answer
<1>6. ASSUME NEW r \in Requests,
             UpdateWrites(r) \/ ClearTags(r) \/ InsertTag(r) \/ CreateRow(r)
                \/ RestoreWrites(r) \/ PatchCategory(r) \/ Delete(r)
      PROVE  \E v \in Rows \cup {None} : Register!Write("doc", v)
  <2>1. ~Reading(r)'
    BY <1>6, WriteStep DEF Changing, Reading
  <2>2. \A s \in Requests \ {r} : request'[s] \in
            {request[s], [request[s] EXCEPT !.late = TRUE]}
    BY <1>6, WriteStep
  <2> QED
    BY <1>0, <1>6, <2>1, <2>2, WriteStep, GoesRegister
<1>7. ASSUME NEW r \in Requests,
             UpdateReads(r) \/ UpdateCompares(r) \/ UpdateAffectsNone(r) \/ NextVersion(r)
                \/ InsertVersion(r) \/ RestoreReads(r) \/ BumpFails(r) \/ Fail(r)
      PROVE  \E v \in Rows \cup {None} : Register!Write("doc", v)
  <2>1. ~Reading(r)'
    BY <1>7, QuietStep DEF Reading
  <2> QED
    BY <1>0, <1>7, <2>1, QuietStep, GoesRegister
<1>8. ASSUME NEW r \in Requests, GetRow(r) \/ Fill(r) \/ Bump(r)
      PROVE  \E v \in Rows \cup {None} : Register!Write("doc", v)
  <2>1. answer' = Unread /\ \A s \in Requests \ {r} : request'[s] = request[s]
    BY <1>0, <1>8 DEF GetRow, Fill, Bump, Ok, Goes
  <2>2. Reading(r)' => request'[r].row = row'
    BY <1>0, <1>8 DEF GetRow, Fill, Bump, Ok, Goes, Reading, Task, Idle
  <2>3. cache' # None => cache'.row \in Answerable
    <3>1. CASE Fill(r)
      <4>1. cache'.row = request[r].row /\ At(r, "fill")
        BY <3>1 DEF Fill
      <4>2. cache'.row \in Held(r)
        BY <4>1 DEF Held, Reading, At
      <4> QED
        BY <4>2 DEF Answerable
    <3>2. CASE GetRow(r) \/ Bump(r)
      BY <1>0, <3>2 DEF GetRow, Bump
    <3> QED
      BY <1>8, <3>1, <3>2
  <2> QED
    BY <2>1, <2>2, <2>3, GoesRegister
<1>9. CASE Duplicate \/ Expire
  <2>1. answer' = Unread /\ UNCHANGED request /\ (cache' # None => cache'.row \in Answerable)
    BY <1>0, <1>9 DEF Duplicate, Expire
  <2>2. Answerable' \subseteq Answerable \cup {row'}
    BY <2>1, AnswerableShrinks DEF Reading
  <2>3. row' \in Rows \cup {None}
    BY DEF StoreType, TypeOK
  <2> QED
    BY <1>2, <2>1, <2>2, <2>3, Forgets
<1>10. CASE Next
  BY <1>2, <1>3, <1>4, <1>5, <1>6, <1>7, <1>8, <1>9, <1>10 DEF Next, Statement, Begin
<1> QED
  BY <1>1, <1>10

\* The handlers, the table and Redis implement DocRegister: a reader is answered
\* only with a row the document has, or one that Redis or a get still keeps.
THEOREM DocsImplementsRegister == Spec => ImplementsRegister
<1>1. Init => Register!RegisterInit
  BY InitRegister
<1>2. StoreType /\ StoreType' /\ [Next]_vars
        => [Register!RegisterNext]_(Register!registerVars)
  BY NextRegister
<1> QED
  BY <1>1, <1>2, InitType, NextType, PTL DEF Spec, ImplementsRegister, Register!RegisterSpec
=============================================================================
