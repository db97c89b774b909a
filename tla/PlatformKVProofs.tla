-------------------------- MODULE PlatformKVProofs --------------------------
(* Theorems about the key-value store and its cache, for every set of      *)
(* writers, readers and processes and every size limit of the cache.       *)
EXTENDS PlatformKV, TLAPS

LEMMA LoadedType ==
    ASSUME NEW d \in {Nothing} \cup Documents PROVE Loaded(d) \in Documents
  BY DEF Loaded, Documents

LEMMA NothingIsNoDocument == Nothing \notin Documents
  BY KVAssumption DEF KVAssumption

LEMMA StepType ==
    ASSUME TypeOK, NEW c \in Clients, NEW d \in Documents,
           NEW next \in {"idle", "read", "fill", "got", "put", "done", "failed"},
           Step(c, next, d)
    PROVE  /\ pc' \in [Clients -> {"idle", "read", "fill", "got", "put", "done",
                                   "failed"}]
           /\ doc' \in [Clients -> Documents]
           /\ pc'[c] = next /\ doc'[c] = d
           /\ \A o \in Clients \ {c} : pc'[o] = pc[o] /\ doc'[o] = doc[o]
  BY DEF TypeOK, Step

LEMMA ChangesType ==
    ASSUME TypeOK, NEW c \in Writers, Changes(c)
    PROVE  /\ store' \in Documents /\ doc[c] \cup {c} \in Documents
           /\ outdated' \subseteq Clients
           /\ excused' \subseteq Writers
  <1>1. doc[c] \in Documents
    BY DEF TypeOK, Clients
  <1>2. Loaded(store) \in Documents /\ Loaded(disk) \in Documents
    BY LoadedType DEF TypeOK
  <1> QED
    BY <1>1, <1>2 DEF Changes, TypeOK, Documents, Holding

LEMMA InitType == Init => TypeOK
  BY DEF Init, TypeOK, Documents

LEMMA RestartType ==
    ASSUME TypeOK, NEW p \in serving, Restart(p) PROVE TypeOK'
  <1>1. pc' \in [Clients -> {"idle", "read", "fill", "got", "put", "done", "failed"}]
    BY DEF Restart, TypeOK
  <1>2. doc' \in [Clients -> Documents]
    BY DEF Restart, TypeOK, Documents
  <1>3. hot' \subseteq Processes
    BY DEF Restart, TypeOK
  <1>4. doubt' \in BOOLEAN
    BY DEF Restart, TypeOK
  <1> QED
    BY <1>1, <1>2, <1>3, <1>4 DEF Restart, TypeOK, place

LEMMA ProgressType ==
    ASSUME TypeOK, NEW c \in Clients, Progress(c) PROVE TypeOK'
  <1>1. doc[c] \in Documents /\ {} \in Documents
    BY DEF TypeOK, Documents
  <1>2. CASE GetHit(c)
    <2>1. cache \in Documents
      BY <1>2 DEF GetHit, TypeOK
    <2> QED
      BY <1>2, <2>1, StepType DEF GetHit, TypeOK, place
  <1>3. CASE GetMiss(c)
    BY <1>1, <1>3, StepType DEF GetMiss, TypeOK, place
  <1>4. CASE ReadStore(c)
    <2>1. Loaded(store) \in Documents
      BY LoadedType DEF TypeOK
    <2>2. AfterRead(c) \in {"fill", "got"}
      BY DEF AfterRead
    <2> QED
      BY <1>4, <2>1, <2>2, StepType DEF ReadStore, TypeOK, place
  <1>5. CASE ReadFails(c)
    BY <1>1, <1>5, StepType DEF ReadFails, TypeOK, place
  <1>6. CASE Fill(c)
    BY <1>1, <1>6, StepType DEF Fill, TypeOK, place
  <1>7. CASE FillFails(c)
    BY <1>1, <1>7, StepType DEF FillFails, TypeOK, place
  <1>8. CASE Answer(c)
    BY <1>1, <1>8, StepType DEF Answer, TypeOK, place
  <1>9. CASE SetStore(c)
    <2>1. c \in Writers /\ Changes(c)
      BY <1>9 DEF SetStore
    <2> QED
      BY <1>9, <2>1, ChangesType, StepType DEF SetStore, TypeOK, place
  <1>10. CASE SetFails(c)
    <2>1. c \in Writers
      BY <1>10 DEF SetFails
    <2>2. CASE Changes(c)
      BY <1>1, <1>10, <2>1, <2>2, ChangesType, StepType DEF SetFails, TypeOK, place
    <2>3. CASE UNCHANGED <<store, disk, outdated, excused>>
      BY <1>1, <1>10, <2>3, StepType DEF SetFails, TypeOK, place
    <2> QED
      BY <1>10, <2>2, <2>3 DEF SetFails
  <1>11. CASE Put(c)
    BY <1>1, <1>11, StepType DEF Put, TypeOK, place
  <1>12. CASE PutFails(c)
    BY <1>1, <1>12, StepType DEF PutFails, TypeOK, place
  <1> QED
    BY <1>2, <1>3, <1>4, <1>5, <1>6, <1>7, <1>8, <1>9, <1>10, <1>11, <1>12
    DEF Progress

LEMMA NextType == TypeOK /\ [Next]_vars => TypeOK'
<1> SUFFICES ASSUME TypeOK, [Next]_vars PROVE TypeOK'
  OBVIOUS
<1>1. CASE Expire \/ SaveElsewhere
  BY <1>1 DEF Expire, SaveElsewhere, TypeOK, place
<1>2. CASE UNCHANGED vars
  BY <1>2 DEF vars, TypeOK
<1> QED
  BY <1>1, <1>2, ProgressType, RestartType DEF Next

\* Store, cache and requests keep their types.
THEOREM TypeCorrect == Spec => []TypeOK
  BY InitType, NextType, PTL DEF Spec

-----------------------------------------------------------------------------
Consistent == RequestsCurrent /\ CacheFresh /\ NothingForgotten

LEMMA InitConsistent == Init => Consistent
<1> SUFFICES ASSUME Init PROVE Consistent
  OBVIOUS
<1>1. backend = "file" => \A p, q \in serving : p = q
  BY DEF Init
<1>2. \A c \in Clients : pc[c] = "idle"
  BY DEF Init
<1>3. \A w \in Writers : pc[w] = "idle"
  BY <1>2 DEF Clients
<1> QED
  BY <1>1, <1>2, <1>3
  DEF Init, Consistent, RequestsCurrent, CacheFresh, NothingForgotten

\* A step of a request that leaves the store alone.
LEMMA ReadingConsistent ==
    ASSUME TypeOK, Consistent, NEW c \in Clients, NEW d \in Documents,
           NEW next \in {"idle", "read", "fill", "got"},
           Served(c), pc[c] # "put",
           c \in Writers => pc[c] # "done",
           Step(c, next, d),
           outdated' \subseteq outdated \cup {c},
           outdated \ {c} \subseteq outdated',
           c \notin outdated' => /\ next = "fill" => d = store
                                 /\ next = "got" => d = Loaded(store),
           UNCHANGED <<place, store, disk, cache, hot, doubt, excused>>
    PROVE  Consistent'
  <1>1. /\ pc'[c] = next /\ doc'[c] = d
        /\ \A o \in Clients \ {c} : pc'[o] = pc[o] /\ doc'[o] = doc[o]
    BY StepType
  <1>2. RequestsCurrent'
    BY <1>1 DEF Consistent, RequestsCurrent, Served, place, Loaded
  <1>3. Lagging' = Lagging
    BY <1>1 DEF Lagging
  <1>4. CacheFresh'
    BY <1>3 DEF Consistent, CacheFresh
  <1>5. NothingForgotten'
    BY <1>1 DEF Consistent, NothingForgotten, Clients, Loaded
  <1> QED
    BY <1>2, <1>4, <1>5 DEF Consistent

\* A Fill, Put or Expire: the cache changes, the store does not.
LEMMA CachingConsistent ==
    ASSUME TypeOK, Consistent, NEW c \in Clients, NEW d \in Documents,
           NEW next \in {"got", "done"},
           pc[c] \in {"fill", "put"},
           c \in Writers => (next = "done" <=> pc[c] = "put"),
           Step(c, next, d),
           next = "got" => d = doc[c],
           cache' # Nothing /\ ~doubt' /\ ~Lagging' => cache' = store,
           UNCHANGED <<place, store, disk, hot, outdated, excused>>
    PROVE  Consistent'
  <1>1. /\ pc'[c] = next /\ doc'[c] = d
        /\ \A o \in Clients \ {c} : pc'[o] = pc[o] /\ doc'[o] = doc[o]
    BY StepType
  <1>2. RequestsCurrent'
    <2>1. c \notin outdated /\ next = "got" => d = Loaded(store)
      <3>1. c \notin outdated => doc[c] = store
        BY DEF Consistent, RequestsCurrent
      <3>2. doc[c] # Nothing
        BY NothingIsNoDocument DEF TypeOK
      <3> QED
        BY <3>1, <3>2 DEF Loaded
    <2> QED
      BY <1>1, <2>1 DEF Consistent, RequestsCurrent, Served, place, Loaded
  <1>3. CacheFresh'
    BY DEF CacheFresh
  <1>4. NothingForgotten'
    BY <1>1 DEF Consistent, NothingForgotten, Clients, Loaded
  <1> QED
    BY <1>2, <1>3, <1>4 DEF Consistent

\* The document of a writer becomes the store's.
LEMMA ChangesConsistent ==
    ASSUME TypeOK, Consistent, NEW c \in Writers, pc[c] = "got", Changes(c),
           NEW next \in {"put", "done", "failed"}, NEW d \in Documents,
           Step(c, next, d),
           next = "put" => d = doc[c] \cup {c},
           disk' = store' \/ (next = "failed" /\ disk' = disk /\ backend = "file"),
           next = "put" \/ doubt',
           UNCHANGED <<place, cache, hot>>
    PROVE  Consistent'
  <1>0. c \in Clients
    BY DEF Clients
  <1>1. /\ pc'[c] = next /\ doc'[c] = d
        /\ \A o \in Clients \ {c} : pc'[o] = pc[o] /\ doc'[o] = doc[o]
    BY <1>0, StepType
  <1>2. /\ store' = doc[c] \cup {c}
        /\ outdated' = (outdated \cup Holding) \ {c}
        /\ store' \in Documents
    BY ChangesType DEF Changes
  <1>3. \A o \in Clients \ {c} : o \notin outdated' =>
          pc'[o] \notin {"fill", "got", "put"}
    BY <1>1, <1>2 DEF Holding
  <1>4. RequestsCurrent'
    <2>1. \A o \in Clients \ outdated' :
             /\ pc'[o] \in {"fill", "put"} => doc'[o] = store'
             /\ pc'[o] = "got" => doc'[o] = Loaded(store)'
      BY <1>1, <1>2, <1>3
    <2>2. \A o \in Clients : pc'[o] # "idle" => Served(o)'
      BY <1>0, <1>1 DEF Consistent, RequestsCurrent, Served, place
    <2>3. backend' = "mysql" => store' = disk'
      BY DEF place
    <2> QED
      BY <2>1, <2>2, <2>3 DEF Consistent, RequestsCurrent, place
  <1>5. CacheFresh'
    <2>1. next = "put" => Lagging'
      BY <1>0, <1>1, <1>2 DEF Lagging
    <2> QED
      BY <2>1 DEF CacheFresh
  <1>6. NothingForgotten'
    <2> SUFFICES ASSUME NEW w \in Writers, pc'[w] \in {"put", "done"}
                 PROVE  w \in Loaded(store') \cap Loaded(disk') \/ w \in excused'
      BY DEF NothingForgotten, Loaded
    <2>1. Loaded(store') = store'
      BY <1>2, NothingIsNoDocument DEF Loaded
    <2>2. CASE w = c
      <3>1. disk' = store'
        BY <1>1, <2>2
      <3> QED
        BY <1>2, <2>1, <2>2, <3>1
    <2>3. CASE w # c
      <3>1. w \in Loaded(store) \cap Loaded(disk) \/ w \in excused
        BY <1>1, <2>3 DEF Consistent, NothingForgotten, Clients
      <3>2. w \in store' \/ w \in excused'
        <4>1. CASE c \in outdated
          BY <1>2, <3>1, <4>1 DEF Changes
        <4>2. CASE c \notin outdated
          <5>1. doc[c] = Loaded(store)
            BY <1>0, <4>2 DEF Consistent, RequestsCurrent
          <5> QED
            BY <1>2, <3>1, <4>2, <5>1 DEF Changes
        <4> QED
          BY <4>1, <4>2
      <3>3. excused \subseteq excused'
        BY DEF Changes
      <3> QED
        BY <2>1, <3>1, <3>2, <3>3
    <2> QED
      BY <2>2, <2>3
  <1> QED
    BY <1>4, <1>5, <1>6 DEF Consistent

LEMMA ProgressConsistent ==
    ASSUME TypeOK, Consistent, NEW c \in Clients, Progress(c) PROVE Consistent'
  <1>1. doc[c] \in Documents /\ {} \in Documents
    BY DEF TypeOK, Documents
  <1>2. pc[c] # "idle" => Served(c)
    BY DEF Consistent, RequestsCurrent
  <1>3. CASE GetHit(c)
    <2>1. cache \in Documents /\ Loaded(cache) = cache
      BY <1>3 DEF GetHit, TypeOK, Loaded
    <2>2. c \notin outdated' => cache = store
      BY <1>3 DEF GetHit, Consistent, CacheFresh
    <2> QED
      BY <1>3, <2>1, <2>2, ReadingConsistent DEF GetHit
  <1>4. CASE GetMiss(c)
    BY <1>1, <1>4, ReadingConsistent DEF GetMiss
  <1>5. CASE ReadStore(c)
    <2>1. Loaded(store) \in Documents
      BY LoadedType DEF TypeOK
    <2>2. /\ AfterRead(c) \in {"fill", "got"}
          /\ AfterRead(c) = "fill" => Loaded(store) = store
      BY DEF AfterRead, Loaded
    <2> QED
      BY <1>2, <1>5, <2>1, <2>2, ReadingConsistent DEF ReadStore
  <1>6. CASE ReadFails(c)
    BY <1>1, <1>2, <1>6, ReadingConsistent DEF ReadFails
  <1>7. CASE Fill(c)
    <2>1. c \notin outdated => doc[c] = store
      BY <1>7 DEF Fill, Consistent, RequestsCurrent
    <2> QED
      BY <1>1, <1>7, <2>1, CachingConsistent DEF Fill
  <1>8. CASE FillFails(c)
    <2>1. \A o \in Clients : pc'[o] = "put" <=> pc[o] = "put"
      BY <1>1, <1>8, StepType DEF FillFails
    <2>2. Lagging' = Lagging
      BY <1>8, <2>1 DEF Lagging, FillFails
    <2>3. cache' # Nothing /\ ~doubt' /\ ~Lagging' => cache' = store
      BY <1>8, <2>2 DEF FillFails, Consistent, CacheFresh
    <2> QED
      BY <1>1, <1>8, <2>3, CachingConsistent DEF FillFails
  <1>9. CASE Answer(c)
    BY <1>1, <1>2, <1>9, ReadingConsistent DEF Answer
  <1>10. CASE SetStore(c)
    <2>1. c \in Writers /\ Changes(c)
      BY <1>10 DEF SetStore
    <2>2. doc[c] \cup {c} \in Documents
      BY <2>1, ChangesType
    <2>3. CASE Hot(c)
      <3>1. Step(c, "put", doc[c] \cup {c})
        BY <1>10, <2>3 DEF SetStore, Step
      <3> QED
        BY <1>10, <2>1, <2>2, <3>1, ChangesConsistent DEF SetStore
    <2>4. CASE ~Hot(c)
      <3>1. Step(c, "done", doc[c] \cup {c}) /\ doubt'
        BY <1>10, <2>4 DEF SetStore, Step
      <3> QED
        BY <1>10, <2>1, <2>2, <3>1, ChangesConsistent DEF SetStore
    <2> QED
      BY <2>3, <2>4
  <1>11. CASE SetFails(c)
    <2>1. c \in Writers
      BY <1>11 DEF SetFails
    <2>2. CASE Changes(c)
      <3>1. disk' = store' \/ (disk' = disk /\ backend = "file")
        BY <1>11 DEF SetFails, Consistent, RequestsCurrent
      <3> QED
        BY <1>1, <1>11, <2>1, <2>2, <3>1, ChangesConsistent DEF SetFails
    <2>3. CASE UNCHANGED <<store, disk, outdated, excused>>
      <3>1. /\ pc'[c] = "failed"
            /\ \A o \in Clients \ {c} : pc'[o] = pc[o] /\ doc'[o] = doc[o]
        BY <1>1, <1>11, StepType DEF SetFails
      <3>2. RequestsCurrent'
        BY <1>2, <1>11, <2>3, <3>1
        DEF SetFails, Consistent, RequestsCurrent, Served, place, Loaded
      <3>3. CacheFresh'
        BY <1>11 DEF SetFails, CacheFresh
      <3>4. NothingForgotten'
        BY <2>3, <3>1 DEF Consistent, NothingForgotten, Clients, Loaded
      <3> QED
        BY <3>2, <3>3, <3>4 DEF Consistent
    <2> QED
      BY <1>11, <2>2, <2>3 DEF SetFails
  <1>12. CASE Put(c)
    <2>1. c \notin outdated => doc[c] = store
      BY <1>12 DEF Put, Consistent, RequestsCurrent
    <2> QED
      BY <1>1, <1>12, <2>1, CachingConsistent DEF Put
  <1>13. CASE PutFails(c)
    <2>1. \A o \in Clients \ {c} : pc'[o] = pc[o]
      BY <1>1, <1>13, StepType DEF PutFails
    <2>2. ~doubt' /\ Lagging => Lagging'
      BY <1>13, <2>1 DEF Lagging, PutFails
    <2>3. cache' # Nothing /\ ~doubt' /\ ~Lagging' => cache' = store
      BY <1>13, <2>2 DEF PutFails, Consistent, CacheFresh, TypeOK
    <2> QED
      BY <1>1, <1>13, <2>3, CachingConsistent DEF PutFails
  <1> QED
    BY <1>3, <1>4, <1>5, <1>6, <1>7, <1>8, <1>9, <1>10, <1>11, <1>12, <1>13
    DEF Progress

LEMMA ExpireConsistent ==
    ASSUME Consistent, Expire PROVE Consistent'
  BY DEF Expire, Consistent, RequestsCurrent, CacheFresh, NothingForgotten, Served,
         Loaded, place

LEMMA SaveElsewhereConsistent ==
    ASSUME Consistent, SaveElsewhere PROVE Consistent'
  <1>1. UNCHANGED <<backend, serving, store, cache, hot, pc, doc, outdated, doubt, excused>>
    BY DEF SaveElsewhere, place
  <1>2. disk' = store
    BY DEF SaveElsewhere
  <1>3. RequestsCurrent'
    BY <1>1, <1>2 DEF Consistent, RequestsCurrent, Served, Loaded
  <1>4. CacheFresh'
    BY <1>1 DEF Consistent, CacheFresh, Lagging
  <1>5. NothingForgotten'
    BY <1>1, <1>2 DEF Consistent, NothingForgotten
  <1> QED
    BY <1>3, <1>4, <1>5 DEF Consistent

LEMMA RestartConsistent ==
    ASSUME TypeOK, Consistent, NEW p \in serving, Restart(p) PROVE Consistent'
  <1> DEFINE lost == {c \in Clients : ProcessOf[c] = p}
  <1>1. \A c \in Clients :
           /\ c \notin lost => pc'[c] = pc[c] /\ doc'[c] = doc[c]
           /\ c \in lost => pc'[c] \in {"idle", "done", "failed"}
           /\ pc'[c] = "done" => pc[c] \in {"put", "done"}
           /\ pc'[c] = "idle" \/ pc[c] # "idle" \/ c \in lost
           /\ pc'[c] = "put" => pc[c] = "put"
    BY DEF Restart
  <1>2. store' = disk /\ disk' = disk /\ outdated' = outdated \ lost
    BY DEF Restart
  <1>3. CASE backend = "mysql"
    <2>1. store' = store
      BY <1>2, <1>3 DEF Consistent, RequestsCurrent
    <2> QED
      <3>1. RequestsCurrent'
        BY <1>1, <1>2, <1>3, <2>1
        DEF Restart, Consistent, RequestsCurrent, Served, place, Loaded
      <3>2. ~doubt' /\ Lagging => Lagging'
        BY <1>1, <1>2 DEF Restart, Lagging
      <3>3. CacheFresh'
        BY <2>1, <3>2 DEF Restart, Consistent, CacheFresh, TypeOK
      <3>4. NothingForgotten'
        BY <1>1, <1>2, <2>1
        DEF Restart, Consistent, NothingForgotten, Clients, Loaded
      <3> QED
        BY <3>1, <3>3, <3>4 DEF Consistent
  <1>4. CASE backend = "file"
    <2>1. \A c \in Clients \ lost : pc[c] = "idle"
      BY <1>4 DEF Consistent, RequestsCurrent, Served
    <2> QED
      <3>1. RequestsCurrent'
        BY <1>1, <1>4, <2>1
        DEF Restart, Consistent, RequestsCurrent, Served, place
      <3>2. CacheFresh'
        <4>1. ~doubt' /\ Lagging => Lagging'
          BY <1>1, <1>2 DEF Restart, Lagging
        <4> QED
          BY <1>2, <4>1 DEF Restart, Consistent, CacheFresh, TypeOK
      <3>3. NothingForgotten'
        BY <1>1, <1>2 DEF Restart, Consistent, NothingForgotten, Clients, Loaded
      <3> QED
        BY <3>1, <3>2, <3>3 DEF Consistent
  <1> QED
    BY <1>3, <1>4 DEF TypeOK

LEMMA NextConsistent == TypeOK /\ Consistent /\ [Next]_vars => Consistent'
<1> SUFFICES ASSUME TypeOK, Consistent, [Next]_vars PROVE Consistent'
  OBVIOUS
<1>1. CASE UNCHANGED vars
  BY <1>1 DEF vars, Consistent, RequestsCurrent, CacheFresh, NothingForgotten, Served,
              Loaded, Lagging
<1> QED
  BY <1>1, ProgressConsistent, ExpireConsistent, SaveElsewhereConsistent,
     RestartConsistent DEF Next

\* The cache agrees with the store whenever no Set is between the two and no
\* failed or overtaken request has come between them.
THEOREM CacheFreshCorrect == Spec => []CacheFresh
<1>1. Consistent => CacheFresh
  BY DEF Consistent
<1> QED
  BY <1>1, InitType, InitConsistent, NextType, NextConsistent, PTL DEF Spec

\* What a successful Set has stored is lost only to a request that worked from
\* an outdated document.
THEOREM NothingForgottenCorrect == Spec => []NothingForgotten
<1>1. Consistent => NothingForgotten
  BY DEF Consistent
<1> QED
  BY <1>1, InitType, InitConsistent, NextType, NextConsistent, PTL DEF Spec

-----------------------------------------------------------------------------
(* The register.                                                           *)

\* What may be found besides the document of the store.
Held(c, d) == pc[c] \in {"fill", "put"} /\ doc[c] = d
Kept(d) == d = cache \/ \E c \in Clients : Held(c, d)

Found == {d \in Documents : d = store \/ Kept(d)}
           \cup {d \in {Nothing} : d = store \/ backend = "mysql"}

LEMMA FoundIsAnswerable ==
    (TypeOK => Answerable = Found) /\ (TypeOK' => Answerable' = Found')
<1>1. TypeOK => Answerable = Found
  BY NothingIsNoDocument DEF TypeOK, Answerable, Found, Writing, Kept, Held
<1>2. TypeOK' => Answerable' = Found'
  BY NothingIsNoDocument DEF TypeOK, Answerable, Found, Writing, Kept, Held
<1> QED
  BY <1>1, <1>2

LEMMA InitRegister == Init => Register!RegisterInit
<1> SUFFICES ASSUME Init PROVE Register!RegisterInit
  OBVIOUS
<1>1. \A d \in Documents : ~Kept(d) /\ d # Nothing
  BY NothingIsNoDocument DEF Init, Kept, Held
<1>2. Answerable = {Nothing}
  BY <1>1, InitType, FoundIsAnswerable DEF Init, Found
<1> QED
  BY <1>2 DEF Init, Register!RegisterInit

\* A step that finds nothing for a Get is a write of the register, be it of the
\* value it has, when all that may be found after it could be found before it or
\* is what the store has now.
LEMMA Writes ==
    ASSUME TypeOK, TypeOK', answer' = Unread, backend' = backend,
           \A d \in Documents : Kept(d)' => Kept(d) \/ d = store'
    PROVE  \E v \in {Nothing} \cup Documents : Register!Write("key", v)
<1>1. store' \in {Nothing} \cup Documents
  BY DEF TypeOK
<1>2. Answerable' \subseteq Answerable \cup {store'} /\ store' \in Answerable'
  BY <1>1, FoundIsAnswerable DEF Found
<1> DEFINE S == Answerable' \cap Answerable
<1>3. S \subseteq Answerable /\ Answerable' = S \cup {store'}
  BY <1>2
<1>4. [k \in {"key"} |-> Answerable']
        = [[k \in {"key"} |-> Answerable] EXCEPT !["key"] = S \cup {store'}]
  BY <1>3
<1>5. [k \in {"key"} |-> store'] = [[k \in {"key"} |-> store] EXCEPT !["key"] = store']
  OBVIOUS
<1> HIDE DEF S
<1> QED
  BY <1>1, <1>3, <1>4, <1>5 DEF Register!Write, Register!Keeps

\* What a request still has to write to Redis after a step of it.
LEMMA StepHeld ==
    ASSUME TypeOK, NEW c \in Clients, NEW d \in Documents,
           NEW next \in {"idle", "read", "fill", "got", "put", "done", "failed"},
           Step(c, next, d)
    PROVE  \A o \in Clients, e \in Documents :
             Held(o, e)' = IF o = c THEN next \in {"fill", "put"} /\ d = e
                           ELSE Held(o, e)
BY StepType DEF Held

\* Most steps end what was still to be written.
LEMMA Releases ==
    ASSUME TypeOK, NEW c \in Clients,
           \E n \in {"idle", "read", "got", "done", "failed"}, d \in Documents :
             Step(c, n, d)
    PROVE  \A o \in Clients, e \in Documents : Held(o, e)' => Held(o, e)
<1>1. PICK n \in {"idle", "read", "got", "done", "failed"}, d \in Documents :
             Step(c, n, d)
  OBVIOUS
<1>2. n \notin {"fill", "put"}
  OBVIOUS
<1>3. \A o \in Clients, e \in Documents :
        Held(o, e)' = IF o = c THEN n \in {"fill", "put"} /\ d = e ELSE Held(o, e)
  BY <1>1, StepHeld
<1> QED
  BY <1>2, <1>3

LEMMA ProgressRegister ==
    ASSUME TypeOK, TypeOK', NEW c \in Clients, Progress(c)
    PROVE  \/ Register!Answer("key")
           \/ \E v \in {Nothing} \cup Documents : Register!Write("key", v)
<1>1. doc[c] \in Documents /\ {} \in Documents
  BY DEF TypeOK, Documents
<1>2. ASSUME answer' \in Answerable, UNCHANGED <<backend, store>>,
             \A d \in Documents \ {store} : Kept(d)' = Kept(d)
      PROVE  Register!Answer("key")
  <2>1. Answerable' = Answerable
    BY <1>2, FoundIsAnswerable DEF Found
  <2> QED
    BY <1>2, <2>1 DEF Register!Answer
<1>3. CASE GetHit(c)
  <2>1. cache \in Documents /\ answer' \in Answerable
    BY <1>3, FoundIsAnswerable DEF GetHit, TypeOK, Found, Kept
  <2>2. \A o \in Clients, d \in Documents : Held(o, d)' = Held(o, d)
    BY <1>3, <2>1, StepHeld DEF GetHit, Held
  <2> QED
    BY <1>2, <1>3, <2>1, <2>2 DEF GetHit, place, Kept
<1>4. CASE ReadFails(c)
  <2>1. answer' \in Answerable
    BY <1>4, FoundIsAnswerable DEF ReadFails, Found
  <2>2. \A o \in Clients, d \in Documents : Held(o, d)' = Held(o, d)
    BY <1>1, <1>4, StepHeld DEF ReadFails, Held
  <2> QED
    BY <1>2, <1>4, <2>1, <2>2 DEF ReadFails, place, Kept
<1>5. CASE ReadStore(c)
  <2>1. Loaded(store) \in Documents /\ AfterRead(c) \in {"fill", "got"}
    BY LoadedType DEF TypeOK, AfterRead
  <2>2. AfterRead(c) = "fill" => Loaded(store) = store
    BY DEF AfterRead, Loaded
  <2>3. \A o \in Clients, d \in Documents \ {store} : Held(o, d)' = Held(o, d)
    BY <1>5, <2>1, <2>2, StepHeld DEF ReadStore, Held
  <2>4. answer' \in Answerable
    BY <1>5, FoundIsAnswerable DEF ReadStore, Found, TypeOK
  <2> QED
    BY <1>2, <1>5, <2>3, <2>4 DEF ReadStore, place, Kept
<1>6. CASE GetMiss(c) \/ FillFails(c) \/ Answer(c) \/ PutFails(c)
  <2>1. answer' = Unread /\ UNCHANGED <<backend, store, cache>>
    BY <1>6 DEF GetMiss, FillFails, Answer, PutFails, place
  <2>2. \A o \in Clients, d \in Documents : Held(o, d)' => Held(o, d)
    <3>1. \E n \in {"idle", "read", "got", "done"}, d \in Documents : Step(c, n, d)
      BY <1>1, <1>6 DEF GetMiss, FillFails, Answer, PutFails
    <3> QED
      BY <3>1, Releases
  <2> QED
    BY <2>1, <2>2, Writes DEF Kept
<1>7. CASE Fill(c) \/ Put(c)
  <2>1. answer' = Unread /\ UNCHANGED <<backend, store>>
    BY <1>7 DEF Fill, Put, place
  <2>2. \A o \in Clients, d \in Documents : Held(o, d)' => Held(o, d)
    <3>1. \E n \in {"got", "done"}, d \in Documents : Step(c, n, d)
      BY <1>1, <1>7 DEF Fill, Put
    <3> QED
      BY <3>1, Releases
  <2>3. \A d \in Documents : d = cache' => Held(c, d)
    BY <1>7, NothingIsNoDocument DEF Fill, Put, Held
  <2> QED
    BY <2>1, <2>2, <2>3, Writes DEF Kept
<1>8. CASE SetStore(c) \/ SetFails(c)
  <2>1. answer' = Unread /\ UNCHANGED <<backend, cache>>
    BY <1>8 DEF SetStore, SetFails, place
  <2>2. \A o \in Clients, d \in Documents : Held(o, d)' => Held(o, d) \/ d = store'
    <3>1. CASE SetStore(c)
      <4>1. store' = doc[c] \cup {c} /\ store' \in Documents
        BY <3>1, ChangesType DEF SetStore, Changes
      <4> QED
        <5>1. PICK n \in {"put", "done"} : Step(c, n, store')
          BY <3>1, <4>1 DEF SetStore
        <5>2. \A o \in Clients, e \in Documents :
                Held(o, e)' = IF o = c THEN n \in {"fill", "put"} /\ store' = e
                              ELSE Held(o, e)
          BY <4>1, <5>1, StepHeld
        <5> QED
          BY <5>2
    <3>2. CASE SetFails(c)
      <4>1. Step(c, "failed", {})
        BY <3>2 DEF SetFails
      <4> QED
        BY <1>1, <4>1, Releases
    <3> QED
      BY <1>8, <3>1, <3>2
  <2> QED
    BY <2>1, <2>2, Writes DEF Kept
<1> QED
  BY <1>3, <1>4, <1>5, <1>6, <1>7, <1>8 DEF Progress

LEMMA NextRegister ==
    TypeOK /\ TypeOK' /\ [Next]_vars => [Register!RegisterNext]_(Register!registerVars)
<1> SUFFICES ASSUME TypeOK, TypeOK', [Next]_vars
             PROVE  [Register!RegisterNext]_(Register!registerVars)
  OBVIOUS
<1>1. ASSUME NEW c \in Clients, Progress(c) PROVE Register!RegisterNext
  BY <1>1, ProgressRegister DEF Register!RegisterNext
<1>2. CASE Expire
  <2>1. \A d \in Documents : Kept(d)' => Kept(d)
    BY <1>2, NothingIsNoDocument DEF Expire, Kept, Held
  <2> QED
    BY <1>2, <2>1, Writes DEF Expire, place, Register!RegisterNext
<1>3. ASSUME NEW p \in serving, Restart(p) PROVE Register!RegisterNext
  <2>1. \A d \in Documents : Kept(d)' => Kept(d)
    BY <1>3 DEF Restart, Kept, Held
  <2> QED
    BY <1>3, <2>1, Writes DEF Restart, place, Register!RegisterNext
<1>4. CASE UNCHANGED vars
  <2>1. Answerable' = Answerable
    BY <1>4, FoundIsAnswerable DEF vars, Found, Kept, Held
  <2> QED
    BY <1>4, <2>1 DEF vars, Register!registerVars
<1>5. CASE SaveElsewhere
  <2>1. \A d \in Documents : Kept(d)' => Kept(d)
    BY <1>5 DEF SaveElsewhere, Kept, Held
  <2> QED
    BY <1>5, <2>1, Writes DEF SaveElsewhere, place, Register!RegisterNext
<1> QED
  BY <1>1, <1>2, <1>3, <1>4, <1>5 DEF Next

\* Store and cache implement DocRegister, whatever fails or restarts: a Get finds
\* the store's document or one that Redis or a request has kept ever since it was
\* the store's; a document nobody keeps any more does not come back.
THEOREM KVImplementsRegister == Spec => ImplementsRegister
<1> QED
  BY InitRegister, NextRegister, InitType, NextType, PTL
  DEF Spec, ImplementsRegister, Register!RegisterSpec
=============================================================================
