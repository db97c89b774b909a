------------------------------ MODULE PlatformKV ------------------------------
(***************************************************************************)
(* The platform key-value store as its callers see it: a MySQL table or a  *)
(* JSON file behind a Redis cache that is filled by Get and written after  *)
(* the store by Set.  One key is modelled, and what the callers do with    *)
(* it: they load the JSON document, add their entry and save the document, *)
(* and no lock spans the load and the save.  A document is the set of its  *)
(* entries, and the entry of a writer is the writer itself.                *)
(*                                                                         *)
(* A call on the store is one step, because a mutex spans it.  The Redis   *)
(* client bounds only the dialling of a connection, so a write to the      *)
(* cache may land any time after the step that caused it.                  *)
(***************************************************************************)
EXTENDS FiniteSets, Integers

CONSTANTS
    Writers,    \* requests that add an entry, once each
    Readers,    \* requests that only read, again and again
    Processes,  \* backends that share the store and the cache
    ProcessOf,  \* the backend that serves a request
    MaxCached,  \* a document with more entries is too large for the cache
    Nothing,    \* no document
    Unread      \* no Get has its answer

Clients   == Writers \cup Readers
Documents == SUBSET Writers

ASSUME KVAssumption ==
    /\ IsFiniteSet(Writers)
    /\ ProcessOf \in [Clients -> Processes]
    /\ \A d \in Documents : Nothing # d /\ Unread # d
    /\ Unread # Nothing
    /\ MaxCached \in Nat

VARIABLES
    backend,    \* "mysql" or "file"
    serving,    \* the processes there are; a file serves only one
    store,      \* the document the store answers with, or Nothing
    disk,       \* what the store answers with after a restart
    cache,      \* the document in Redis, or Nothing
    hot,        \* the processes that found Redis when they started
    pc, doc,    \* the progress of each request and the document it holds
    answer,     \* history: what this step found for a Get
    outdated,   \* history: requests whose document may not be the store's
    doubt,      \* history: the cache may not be the store's document
    excused     \* history: entries some outdated request has overwritten

place == <<backend, serving>>

vars == <<backend, serving, store, disk, cache, hot, pc, doc, answer, outdated, doubt,
          excused>>

TypeOK ==
    /\ backend \in {"mysql", "file"}
    /\ serving \subseteq Processes
    /\ store \in {Nothing} \cup Documents
    /\ disk \in {Nothing} \cup Documents
    /\ cache \in {Nothing} \cup Documents
    /\ hot \subseteq Processes
    /\ pc \in [Clients -> {"idle", "read", "fill", "got", "put", "done", "failed"}]
    /\ doc \in [Clients -> Documents]
    /\ answer \in {Nothing, Unread} \cup Documents
    /\ outdated \subseteq Clients
    /\ doubt \in BOOLEAN
    /\ excused \subseteq Writers

Init ==
    /\ backend \in {"mysql", "file"}
    /\ serving \in IF backend = "mysql" THEN {Processes}
                   ELSE {{p} : p \in Processes}
    /\ store = Nothing /\ disk = Nothing /\ cache = Nothing
    /\ hot \in SUBSET Processes
    /\ pc = [c \in Clients |-> "idle"]
    /\ doc = [c \in Clients |-> {}]
    /\ answer = Unread
    /\ outdated = {} /\ doubt = FALSE /\ excused = {}

-----------------------------------------------------------------------------
Served(c) == ProcessOf[c] \in serving

Hot(c) == ProcessOf[c] \in hot

Cacheable(d) == Cardinality(d) =< MaxCached

\* Variant: a loader takes an absent key for a document with an empty entry.
Loaded_BlankEntry(d) == IF d = Nothing THEN {Nothing} ELSE d

\* A loader takes an absent key for an empty document.
Loaded(d) == IF d = Nothing THEN {} ELSE d

\* A Set has changed the store and not yet written the cache.
Lagging == \E c \in Clients : pc[c] = "put" /\ c \notin outdated

Step(c, next, d) ==
    /\ pc'  = [pc EXCEPT ![c] = next]
    /\ doc' = [doc EXCEPT ![c] = d]

\* The cache answers the Get.
GetHit(c) ==
    /\ pc[c] = "idle" /\ Served(c) /\ Hot(c)
    /\ cache # Nothing
    /\ Step(c, "got", cache)
    /\ outdated' = IF doubt \/ Lagging THEN outdated \cup {c} ELSE outdated \ {c}
    /\ answer' = cache
    /\ UNCHANGED <<place, store, disk, cache, hot, doubt, excused>>

\* There is no cached document, no Redis, or Redis failed.
GetMiss(c) ==
    /\ pc[c] = "idle" /\ Served(c)
    /\ Step(c, "read", {})
    /\ answer' = Unread
    /\ UNCHANGED <<place, store, disk, cache, hot, outdated, doubt, excused>>

\* Where a Get goes with the document the store gave it.
AfterRead(c) ==
    IF store # Nothing /\ Hot(c) /\ Cacheable(store) THEN "fill" ELSE "got"

ReadStore(c) ==
    /\ pc[c] = "read"
    /\ Step(c, AfterRead(c), Loaded(store))
    /\ outdated' = outdated \ {c}
    /\ answer' = store
    /\ UNCHANGED <<place, store, disk, cache, hot, doubt, excused>>

\* The MySQL store reports a failed query as an absent key.
ReadFails(c) ==
    /\ pc[c] = "read" /\ backend = "mysql"
    /\ Step(c, "got", {})
    /\ outdated' = outdated \cup {c}
    /\ answer' = Nothing
    /\ UNCHANGED <<place, store, disk, cache, hot, doubt, excused>>

Fill(c) ==
    /\ pc[c] = "fill"
    /\ cache' = doc[c]
    /\ doubt' = (c \in outdated)
    /\ Step(c, "got", doc[c])
    /\ answer' = Unread
    /\ UNCHANGED <<place, store, disk, hot, outdated, excused>>

FillFails(c) ==
    /\ pc[c] = "fill"
    /\ Step(c, "got", doc[c])
    /\ answer' = Unread
    /\ UNCHANGED <<place, store, disk, cache, hot, outdated, doubt, excused>>

\* A reader has its answer.
Answer(c) ==
    /\ c \in Readers /\ pc[c] = "got"
    /\ Step(c, "idle", {})
    /\ outdated' = outdated \ {c}
    /\ answer' = Unread
    /\ UNCHANGED <<place, store, disk, cache, hot, doubt, excused>>

-----------------------------------------------------------------------------
\* Requests that hold a document.
Holding == {c \in Clients : pc[c] \in {"fill", "got", "put"}}

\* The store now answers with the document writer c has put together.
Changes(c) ==
    /\ store' = doc[c] \cup {c}
    /\ outdated' = (outdated \cup Holding) \ {c}
    /\ excused' = IF c \in outdated
                  THEN excused \cup (Loaded(store) \ doc[c])
                            \cup (Loaded(disk) \ doc[c])
                  ELSE excused

\* Variant: goes on to cache the document as it was loaded.
SetStore_CachesLoaded(c) ==
    /\ c \in Writers /\ pc[c] = "got"
    /\ Changes(c)
    /\ disk' = store'
    /\ Step(c, IF Hot(c) THEN "put" ELSE "done", doc[c])
    /\ doubt' = (doubt \/ ~Hot(c))
    /\ answer' = Unread
    /\ UNCHANGED <<place, cache, hot>>

\* Set on the store itself; without Redis that is all of it.
SetStore(c) ==
    /\ c \in Writers /\ pc[c] = "got"
    /\ Changes(c)
    /\ disk' = store'
    /\ Step(c, IF Hot(c) THEN "put" ELSE "done", doc[c] \cup {c})
    /\ doubt' = (doubt \/ ~Hot(c))
    /\ answer' = Unread
    /\ UNCHANGED <<place, cache, hot>>

\* Set returns an error.  The memory of a file store has changed all the
\* same; a MySQL statement may have been executed.
SetFails(c) ==
    /\ c \in Writers /\ pc[c] = "got"
    /\ \/ backend = "file"  /\ Changes(c) /\ UNCHANGED disk
       \/ backend = "mysql" /\ Changes(c) /\ disk' = store'
       \/ backend = "mysql" /\ UNCHANGED <<store, disk, outdated, excused>>
    /\ Step(c, "failed", {})
    /\ doubt' = TRUE
    /\ answer' = Unread
    /\ UNCHANGED <<place, cache, hot>>

\* Variant: Set leaves the cache to its expiry.
Put_StoreOnly(c) ==
    /\ pc[c] = "put"
    /\ Step(c, "done", {})
    /\ answer' = Unread
    /\ UNCHANGED <<place, store, disk, cache, hot, outdated, doubt, excused>>

\* Variant: a document that is too large is not removed from the cache.
Put_KeepsSmall(c) ==
    /\ pc[c] = "put"
    /\ cache' = IF Cacheable(doc[c]) THEN doc[c] ELSE cache
    /\ doubt' = (Cacheable(doc[c]) /\ c \in outdated)
    /\ Step(c, "done", {})
    /\ answer' = Unread
    /\ UNCHANGED <<place, store, disk, hot, outdated, excused>>

\* Set writes the cache, or removes a document that is too large for it.
Put(c) ==
    /\ pc[c] = "put"
    /\ cache' = IF Cacheable(doc[c]) THEN doc[c] ELSE Nothing
    /\ doubt' = (Cacheable(doc[c]) /\ c \in outdated)
    /\ Step(c, "done", {})
    /\ answer' = Unread
    /\ UNCHANGED <<place, store, disk, hot, outdated, excused>>

PutFails(c) ==
    /\ pc[c] = "put"
    /\ doubt' = (doubt \/ c \notin outdated)
    /\ Step(c, "done", {})
    /\ answer' = Unread
    /\ UNCHANGED <<place, store, disk, cache, hot, outdated, excused>>

-----------------------------------------------------------------------------
\* Variant: cached documents do not expire.
Expire_Never == FALSE /\ UNCHANGED vars

\* The time to live is over, or Redis lost the key.
Expire ==
    /\ cache # Nothing
    /\ cache' = Nothing /\ doubt' = FALSE
    /\ answer' = Unread
    /\ UNCHANGED <<place, store, disk, hot, pc, doc, outdated, excused>>

\* A Set of another key writes the whole file again.
SaveElsewhere ==
    /\ store # disk /\ disk' = store
    /\ answer' = Unread
    /\ UNCHANGED <<place, store, cache, hot, pc, doc, outdated, doubt, excused>>

\* A process restarts, with or without Redis; its requests are lost.
Restart(p) ==
    LET lost == {c \in Clients : ProcessOf[c] = p} IN
    /\ \E up \in BOOLEAN : hot' = IF up THEN hot \cup {p} ELSE hot \ {p}
    /\ pc' = [c \in Clients |->
                CASE c \notin lost \/ pc[c] = "done" -> pc[c]
                  [] c \in lost /\ c \in Readers -> "idle"
                  [] c \in lost /\ c \in Writers /\ pc[c] = "put" -> "done"
                  [] OTHER -> "failed"]
    /\ doc' = [c \in Clients |-> IF c \in lost THEN {} ELSE doc[c]]
    /\ store' = disk
    /\ doubt' = (doubt \/ store # disk \/
                   \E c \in lost : pc[c] = "put" /\ c \notin outdated)
    /\ outdated' = outdated \ lost
    /\ answer' = Unread
    /\ UNCHANGED <<place, disk, cache, excused>>

Progress(c) ==
    \/ GetHit(c) \/ GetMiss(c) \/ ReadStore(c) \/ ReadFails(c)
    \/ Fill(c) \/ FillFails(c) \/ Answer(c)
    \/ SetStore(c) \/ SetFails(c) \/ Put(c) \/ PutFails(c)

Next ==
    \/ \E c \in Clients : Progress(c)
    \/ Expire \/ SaveElsewhere
    \/ \E p \in serving : Restart(p)

Spec == Init /\ [][Next]_vars

\* Requests come to an end and cached documents expire.
FairSpec ==
    /\ Spec
    /\ WF_vars(Expire)
    /\ \A c \in Clients : WF_vars(Progress(c))

-----------------------------------------------------------------------------
\* The cache holds the document of the store, unless a Set is between the
\* two, or a failed, overtaken or Redis-less request has come between them
\* (platformKVRedisHot.Get and Set).
CacheFresh ==
    cache # Nothing /\ ~doubt /\ ~Lagging => cache = store

\* An entry whose Set succeeded stays in the store, across restarts too: only
\* a request that worked from an outdated document can have removed it (the
\* load and save pairs of the callers, File.Set, MySQLStore.Set).
NothingForgotten ==
    \A w \in Writers : pc[w] \in {"put", "done"} =>
        w \in Loaded(store) \cap Loaded(disk) \/ w \in excused

\* What the two invariants rest on: a request that nothing has overtaken holds
\* the document of the store, and only the process of a file store has memory
\* of its own (File, MySQLStore).
RequestsCurrent ==
    /\ backend = "mysql" => store = disk
    /\ backend = "file" => \A p, q \in serving : p = q
    /\ \A c \in Clients : pc[c] # "idle" => Served(c)
    /\ \A c \in Clients \ outdated :
         /\ pc[c] \in {"fill", "put"} => doc[c] = store
         /\ pc[c] = "got" => doc[c] = Loaded(store)

\* Once the writers are finished the cache comes to agree with the store,
\* whatever failed before (the expiry that Get and Set give each document).
CacheConverges == <>[](cache = Nothing \/ cache = store)

-----------------------------------------------------------------------------
\* What a Get may find: what the store answers with, what Redis keeps, and what
\* a request is about to write to Redis.  A failed query of MySQL finds nothing.
Writing == {c \in Clients : pc[c] \in {"fill", "put"}}

Answerable ==
    {store} \cup ({cache} \ {Nothing}) \cup {doc[c] : c \in Writing}
        \cup IF backend = "mysql" THEN {Nothing} ELSE {}

Register == INSTANCE DocRegister WITH
    Docs <- {"key"}, Values <- {Nothing} \cup Documents,
    value <- [k \in {"key"} |-> store],
    answerable <- [k \in {"key"} |-> Answerable]

\* Store and cache implement DocRegister: a Get finds a document the store has, or
\* had and Redis or a request has kept ever since (platformKVRedisHot.Get, Set).
ImplementsRegister == Register!RegisterSpec
=============================================================================
