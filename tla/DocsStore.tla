------------------------------ MODULE DocsStore ------------------------------
(***************************************************************************)
(* One document of the library: its row, tags and versions in MySQL, the   *)
(* answer of docsGet that Redis keeps, and the handlers that work on them. *)
(* A handler is a series of statements, each committed by itself; only     *)
(* docsDelete and docsDuplicate use a transaction.  Requests interleave    *)
(* between the statements, and each can end after any of them: a statement *)
(* fails, or the process stops.                                            *)
(*                                                                         *)
(* A row is a text (title and body), the only part versions keep, and a    *)
(* category (what else a save writes).  Left out are the share password,   *)
(* the media, the list and the public page.                                *)
(***************************************************************************)
EXTENDS Integers

CONSTANTS
    Texts, Cats, Tags,
    Requests,       \* requests under way at the same time
    MaxVersion,     \* bound: versions of the document
    None,           \* no row, no cached answer, no text
    Unread          \* no answer yet

Rows == [text : Texts, cat : Cats]
Numbers == 1 .. MaxVersion

ASSUME StoreAssumption ==
    /\ MaxVersion \in Nat \ {0}
    /\ None \notin Texts \cup Rows
    /\ Unread \notin Rows \cup {None}

VARIABLES
    row,        \* the row of easypanel_docs, or None
    tags,       \* easypanel_doc_tag_map
    versions,   \* easypanel_doc_versions: the text of each version_no, or None
    cache,      \* the detail key in Redis
    request,    \* what each request has read and has still to do
    answer,     \* what this step answered a get with
    created,    \* the document has been created: its id is never used again
    unbumped,   \* history: a write was not followed by a bump
    saved       \* history: texts whose save was answered "ok", with a version

vars == <<row, tags, versions, cache, request, answer, created, unbumped, saved>>

\* late (history): what a get has read has changed since, or was read in part.
Cached == [row : Rows, tags : SUBSET Tags, late : BOOLEAN]

Step == {"idle", "tags", "fill",                        \* docsGet
         "compare", "write", "clear", "insert",         \* docsUpdate
         "restore", "next", "version", "bump"}

\* row and tags: what a get has read, or what a write is to write.  text: what
\* goes into the new version.  no: its number, 0 as long as it is not known.
Request == [step : Step, row : Rows \cup {None}, tags : SUBSET Tags,
            late : BOOLEAN, text : Texts \cup {None}, no : Int]

Task(step, w, ts, t, n) ==
    [step |-> step, row |-> w, tags |-> ts, late |-> FALSE, text |-> t, no |-> n]

Idle == Task("idle", None, {}, None, 0)

TypeOK ==
    /\ row \in Rows \cup {None}
    /\ tags \in SUBSET Tags
    /\ versions \in [Numbers -> Texts \cup {None}]
    /\ cache \in Cached \cup {None}
    /\ request \in [Requests -> Request]
    /\ answer \in Rows \cup {None, Unread}
    /\ created \in BOOLEAN
    /\ unbumped \in BOOLEAN
    /\ saved \in SUBSET Texts

Init ==
    /\ row = None /\ tags = {} /\ versions = [n \in Numbers |-> None]
    /\ cache = None
    /\ request = [r \in Requests |-> Idle]
    /\ answer = Unread
    /\ created = FALSE /\ unbumped = FALSE /\ saved = {}

-----------------------------------------------------------------------------
At(r, step) == request[r].step = step

Reading(r) == request[r].step \in {"tags", "fill"}

\* Statements that changed the document are behind this request, the bump is not.
Changing(r) == request[r].step \in {"clear", "insert", "next", "version", "bump"}

\* Request r goes on as q.
Goes(r, q) == request' = [request EXCEPT ![r] = q] /\ answer' = Unread

\* It has changed the document: gets that have read it are too late.
Changes(r, q) ==
    /\ answer' = Unread
    /\ request' = [s \in Requests |->
                        IF s = r THEN q
                        ELSE IF Reading(s) THEN [request[s] EXCEPT !.late = TRUE]
                        ELSE request[s]]

table   == <<row, tags, versions, created>>
history == <<unbumped, saved>>

-----------------------------------------------------------------------------
\* Variant: what Redis has is passed on as it is kept.
GetHit_AsKept(r) ==
    /\ At(r, "idle") /\ cache # None
    /\ answer' = cache
    /\ UNCHANGED <<table, cache, request, history>>

\* docsGet: Redis has it.
GetHit(r) ==
    /\ At(r, "idle") /\ cache # None
    /\ answer' = cache.row
    /\ UNCHANGED <<table, cache, request, history>>

\* Redis has nothing, or does not answer; nor does the table.
GetGone(r) ==
    /\ At(r, "idle") /\ row = None
    /\ answer' = None
    /\ UNCHANGED <<table, cache, request, history>>

GetRow(r) ==
    /\ At(r, "idle") /\ row # None
    /\ Goes(r, Task("tags", row, {}, None, 0))
    /\ UNCHANGED <<table, cache, history>>

\* The tags are read by another query, and an error that ends them early passes
\* for their end.
GetTags(r) ==
    /\ At(r, "tags")
    /\ answer' = request[r].row
    /\ \E part \in SUBSET tags :
        request' = [request EXCEPT ![r].step = "fill", ![r].tags = part,
                                   ![r].late = @ \/ part # tags]
    /\ UNCHANGED <<table, cache, history>>

\* The goroutine that keeps what was answered.
Fill(r) ==
    /\ At(r, "fill")
    /\ cache' = [row |-> request[r].row, tags |-> request[r].tags, late |-> request[r].late]
    /\ Goes(r, Idle)
    /\ UNCHANGED <<table, history>>

\* docsAPICacheTTL is over, or Redis evicts the key.
Expire ==
    /\ cache # None /\ cache' = None
    /\ answer' = Unread
    /\ UNCHANGED <<table, request, history>>

-----------------------------------------------------------------------------
\* Variant: what is to be written is kept in Redis first.
UpdateReads_WriteThrough(r) ==
    /\ At(r, "idle") /\ row # None
    /\ \E w \in Rows, ts \in SUBSET Tags :
        /\ Goes(r, Task("write", w, ts, None, 0))
        /\ cache' = [row |-> w, tags |-> ts, late |-> TRUE]
    /\ UNCHANGED <<table, history>>

\* docsUpdate: the row is read; when it is what the save would write, so are
\* the tags (otherwise they make no difference).
UpdateReads(r) ==
    /\ At(r, "idle") /\ row # None
    /\ \E w \in Rows, ts \in SUBSET Tags, v \in {None} \cup Texts :
        /\ v \in {None, w.text}
        /\ Goes(r, Task(IF w = row THEN "compare" ELSE "write", w, ts, v, 0))
    /\ UNCHANGED <<table, cache, history>>

UpdateCompares(r) ==
    /\ At(r, "compare")
    /\ Goes(r, IF request[r].tags = tags THEN Idle ELSE [request[r] EXCEPT !.step = "write"])
    /\ UNCHANGED <<table, cache, history>>

\* MySQL counts the rows it changed, not the rows it found.
UpdateAffectsNone(r) ==
    /\ At(r, "write") /\ row \in {None, request[r].row}
    /\ Goes(r, Idle)
    /\ UNCHANGED <<table, cache, history>>

UpdateWrites(r) ==
    /\ At(r, "write") /\ row \notin {None, request[r].row}
    /\ row' = request[r].row
    /\ Changes(r, [request[r] EXCEPT !.step = "clear", !.row = None])
    /\ UNCHANGED <<tags, versions, created, cache, history>>

\* docsSyncTags
Synced(q) ==
    [q EXCEPT !.step = IF q.text = None THEN "bump" ELSE IF q.no = 0 THEN "next" ELSE "version",
              !.tags = {}]

ClearTags(r) ==
    /\ At(r, "clear")
    /\ tags' = {}
    /\ Changes(r, IF request[r].tags = {} THEN Synced(request[r])
                  ELSE [request[r] EXCEPT !.step = "insert"])
    /\ UNCHANGED <<row, versions, created, cache, history>>

InsertTag(r) ==
    /\ At(r, "insert")
    /\ \E t \in request[r].tags :
        /\ tags' = tags \cup {t}
        /\ Changes(r, IF request[r].tags = {t} THEN Synced(request[r])
                      ELSE [request[r] EXCEPT !.tags = @ \ {t}])
    /\ UNCHANGED <<row, versions, created, cache, history>>

Newest(n) ==
    /\ n \in Numbers => versions[n] # None
    /\ \A m \in Numbers : versions[m] # None => m =< n

\* docsNextVersionNo: MAX(version_no) + 1
NextVersion(r) ==
    /\ At(r, "next")
    /\ \E n \in 0 .. MaxVersion :
        /\ Newest(n) /\ n < MaxVersion
        /\ Goes(r, [request[r] EXCEPT !.step = "version", !.no = n + 1])
    /\ UNCHANGED <<table, cache, history>>

\* Variant: a version whose number is taken replaces the one that has it.
InsertVersion_Replaces(r) ==
    /\ At(r, "version")
    /\ versions' = [versions EXCEPT ![request[r].no] = request[r].text]
    /\ Goes(r, [request[r] EXCEPT !.step = "bump", !.no = 0])
    /\ UNCHANGED <<row, tags, created, cache, history>>

\* docsInsertVersion; a number that is taken is an error (uq_doc_ver).
InsertVersion(r) ==
    /\ At(r, "version") /\ versions[request[r].no] = None
    /\ versions' = [versions EXCEPT ![request[r].no] = request[r].text]
    /\ Goes(r, [request[r] EXCEPT !.step = "bump", !.no = 0])
    /\ UNCHANGED <<row, tags, created, cache, history>>

-----------------------------------------------------------------------------
\* docsCreate
CreateRow(r) ==
    /\ At(r, "idle") /\ ~created
    /\ \E w \in Rows, ts \in SUBSET Tags :
        /\ row' = w
        /\ Changes(r, Task("clear", None, ts, w.text, 1))
    /\ created' = TRUE
    /\ UNCHANGED <<tags, versions, cache, history>>

\* docsDuplicate makes this document from another one, in a transaction.
Duplicate ==
    /\ ~created
    /\ \E w \in Rows, ts \in SUBSET Tags :
        /\ row' = w /\ tags' = ts
        /\ versions' = [versions EXCEPT ![1] = w.text]
    /\ created' = TRUE /\ answer' = Unread
    /\ UNCHANGED <<cache, request, history>>

\* docsRestoreVersion: the version is read, the row is written whether it is
\* there or not, and a version with the same text is added.
RestoreReads(r) ==
    /\ At(r, "idle")
    /\ \E n \in Numbers :
        /\ versions[n] # None
        /\ Goes(r, Task("restore", None, {}, versions[n], 0))
    /\ UNCHANGED <<table, cache, history>>

RestoreWrites(r) ==
    /\ At(r, "restore")
    /\ row' = IF row = None THEN None ELSE [row EXCEPT !.text = request[r].text]
    /\ Changes(r, [request[r] EXCEPT !.step = "next"])
    /\ UNCHANGED <<tags, versions, created, cache, history>>

\* Variant: only the list is told, as docsDuplicate does.
PatchCategory_KeepsDetail(r) ==
    /\ At(r, "idle") /\ row # None
    /\ \E c \in Cats \ {row.cat} : row' = [row EXCEPT !.cat = c]
    /\ Changes(r, Idle)
    /\ UNCHANGED <<tags, versions, created, cache, history>>

\* docsPatchCategory
PatchCategory(r) ==
    /\ At(r, "idle") /\ row # None
    /\ \E c \in Cats \ {row.cat} : row' = [row EXCEPT !.cat = c]
    /\ Changes(r, Task("bump", None, {}, None, 0))
    /\ UNCHANGED <<tags, versions, created, cache, history>>

\* docsDelete
Delete(r) ==
    /\ At(r, "idle") /\ row # None
    /\ row' = None /\ tags' = {} /\ versions' = [n \in Numbers |-> None]
    /\ Changes(r, Task("bump", None, {}, None, 0))
    /\ UNCHANGED <<created, cache, history>>

-----------------------------------------------------------------------------
\* docsBumpDocsAPICache; the request is then answered "ok".
Ok(r) ==
    /\ Goes(r, Idle)
    /\ saved' = IF request[r].text = None THEN saved ELSE saved \cup {request[r].text}
    /\ UNCHANGED table

Bump(r) ==
    /\ At(r, "bump") /\ Ok(r)
    /\ cache' = None /\ unbumped' = FALSE

\* Errors of Redis are not looked at.
BumpFails(r) ==
    /\ At(r, "bump") /\ Ok(r)
    /\ unbumped' = TRUE
    /\ UNCHANGED cache

\* A statement fails or the process stops: nothing is undone.
Fail(r) ==
    /\ ~At(r, "idle")
    /\ Goes(r, Idle)
    /\ unbumped' = (unbumped \/ Changing(r))
    /\ UNCHANGED <<table, cache, saved>>

Statement(r) ==
    \/ UpdateCompares(r) \/ UpdateAffectsNone(r) \/ UpdateWrites(r)
    \/ ClearTags(r) \/ InsertTag(r) \/ NextVersion(r) \/ InsertVersion(r)
    \/ RestoreWrites(r) \/ GetTags(r) \/ Fill(r)
    \/ Bump(r) \/ BumpFails(r) \/ Fail(r)

Begin(r) ==
    \/ GetHit(r) \/ GetGone(r) \/ GetRow(r) \/ UpdateReads(r) \/ CreateRow(r)
    \/ RestoreReads(r) \/ PatchCategory(r) \/ Delete(r)

Next ==
    \/ \E r \in Requests : Statement(r) \/ Begin(r)
    \/ Duplicate \/ Expire

Spec == Init /\ [][Next]_vars

-----------------------------------------------------------------------------
\* Redis keeps what the document is, row and tags, unless a get was overtaken by
\* a write or by an error, or a write by one: every handler that changes the
\* document deletes the key after its last statement (docsBumpDocsAPICache).
DetailFresh ==
    cache # None /\ ~cache.late /\ ~unbumped /\ (\A r \in Requests : ~Changing(r))
        => cache.row = row /\ cache.tags = tags

\* A text whose save was answered "ok" is among the versions as long as the
\* document is there, whatever saves and restores it met (uq_doc_ver,
\* docsNextVersionNo, docsInsertVersion).
SavedIsKept ==
    row # None => \A t \in saved : \E n \in Numbers : versions[n] = t

-----------------------------------------------------------------------------
\* What readers of the document see of all this.  They may be answered with the
\* row, with what Redis keeps, and soon with what a get under way has read.
Held(r) == IF Reading(r) THEN {request[r].row} ELSE {}

Answerable ==
    {row} \cup (IF cache = None THEN {} ELSE {cache.row}) \cup UNION {Held(r) : r \in Requests}

Register == INSTANCE DocRegister WITH
    Docs <- {"doc"}, Values <- Rows \cup {None},
    value <- [d \in {"doc"} |-> row],
    answerable <- [d \in {"doc"} |-> Answerable]

\* The handlers implement DocRegister: a get is answered with a row the document
\* has, or had and Redis or a get under way still keeps (docsGet).
ImplementsRegister == Register!RegisterSpec
=============================================================================
