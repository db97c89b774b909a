----------------------------- MODULE DocsEditor ------------------------------
(***************************************************************************)
(* The editor page of the document library in one browser tab, with the    *)
(* API behind it as DocRegister promises it.  The page keeps what it edits *)
(* in state of its own, beside the query cache: an effect copies a         *)
(* document into it whenever the data of the current query change, and     *)
(* saves send what is in it to whatever document the page is at.           *)
(*                                                                         *)
(* A canvas keeps a drawing of its own beside that state.  It takes one    *)
(* when it is mounted, which is in the render before the effect when the   *)
(* page was at a canvas already; what is copied later does not reach it,   *)
(* and it hands its drawing to the editor after every change, the first of *)
(* which it reports by itself.                                             *)
(*                                                                         *)
(* A value is a body, Blank the empty one, and a drawing the body it is    *)
(* written as.  Title, published flag, category and tags are left out: no  *)
(* canvas holds them, and the title and the flag go the way of a markdown  *)
(* body.  So are creating and deleting documents, and the wait for the     *)
(* canvas's code when it is shown for the first time.                      *)
(***************************************************************************)
EXTENDS DocRegister, FiniteSets, Naturals

CONSTANTS
    Blank,
    Saves, Shares,  \* the mutations that send the editor: saveMut, shareSaveMut;
                    \* one in both may be either
    Restores,       \* restoreMut
    MaxPending,     \* bound: mutations under way and canvas timers
    Kinds,          \* bound: which documents may be the canvases
    Foreign,        \* bound: the documents other tabs and users write
    Forgets,        \* bound: whether the server may forget what it can answer
    None            \* no document, no data, no request

Senders == Saves \cup Shares
Mutations == Senders \cup Restores

Editor == [text : Values, canvas : BOOLEAN, owner : Docs \cup {None}]
Drawing == [text : Values, owner : Docs \cup {None}]

\* hurried (history): the document's own text was not in the editor, or a canvas
\* had put another document's there.
Job == [doc : Docs, sends : Editor, hurried : BOOLEAN,
        state : {"sent", "ok"}]

ASSUME EditorAssumption ==
    /\ Kinds \subseteq SUBSET Docs /\ Blank \in Values
    /\ None \notin Docs \cup Values \cup {Unread} \cup Job \cup Drawing
    /\ Restores \cap Senders = {}
    /\ MaxPending \in Nat /\ Forgets \in BOOLEAN /\ Foreign \subseteq Docs

VARIABLES
    canvases,   \* the documents that are canvases; the others are markdown
    doc,        \* the document in the address (activeNumericId)
    editor,     \* text, kind and, as history, the document they come from
    data,       \* detailQ.data of each document in the query cache
    invalid,    \* the queries that have been invalidated
    fetch,      \* the request for the current document and its answer
    job,        \* the mutations under way
    scene,      \* the drawing of the canvas that is mounted, and whose it is
    timer,      \* what a canvas hands to the editor when its debounce is over
    typed,      \* history: the user has edited since the last copy
    leaked,     \* history: a canvas handed over another document since then
    stale,      \* history: or one holds, or has handed over, what was not copied
    excused     \* history: documents others changed, or whose copy was old

shown == <<editor, scene, typed, leaked, stale>>
page == <<canvases, doc, data, invalid, fetch, job, timer, excused, shown>>
vars == <<page, registerVars>>

\* The pane is there unless detailQ.isLoading.
Pane == doc # None /\ (data[doc] # None \/ fetch = None)

\* With a canvas in it if the editor says so.
TypeOK ==
    /\ RegisterTypeOK
    /\ canvases \in SUBSET Docs
    /\ doc \in Docs \cup {None}
    /\ editor \in Editor
    /\ data \in [Docs -> Values \cup {None}]
    /\ invalid \in SUBSET Docs
    /\ fetch \in {None, Unread} \cup Values     \* Unread: not answered
    /\ fetch # None => doc # None
    /\ job \in [Mutations -> Job \cup {None}]
    /\ scene \in Drawing \cup {None} /\ timer \in Drawing \cup {None}
    /\ scene # None <=> Pane /\ editor.canvas
    /\ typed \in BOOLEAN /\ leaked \in BOOLEAN /\ stale \in BOOLEAN
    /\ excused \in SUBSET Docs

Empty == [text |-> Blank, canvas |-> FALSE, owner |-> None]

Init ==
    /\ RegisterInit
    /\ canvases \in Kinds
    /\ doc = None /\ editor = Empty
    /\ data = [d \in Docs |-> None] /\ invalid = {} /\ fetch = None
    /\ job = [m \in Mutations |-> None] /\ scene = None /\ timer = None
    /\ typed = FALSE /\ leaked = FALSE /\ stale = FALSE /\ excused = {}

-----------------------------------------------------------------------------
\* The page is rendered with the editor as it was, and again when an effect has
\* changed it.  A canvas takes the body of the render that mounts it; one whose
\* key is the same stays and takes nothing.
Drawn(e) == [text |-> e.text, owner |-> e.owner]

Mounted(e, kept) ==
    IF ~(Pane' /\ e.canvas) THEN None
    ELSE IF kept = None THEN Drawn(e) ELSE kept

Render(sameKey) ==
    LET first == Mounted(editor, IF sameKey THEN scene ELSE None)
    IN  scene' = Mounted(editor', first)

\* As Copy, but the kind is not copied.
Copy_KeepsKind(d, v, sameKey) ==
    /\ editor' = [text |-> v, canvas |-> editor.canvas, owner |-> d]
    /\ Render(sameKey)
    /\ typed' = FALSE /\ leaked' = FALSE
    /\ stale' = (scene' \notin {None, Drawn(editor')})

\* The effect on detailQ.data.
Copy(d, v, sameKey) ==
    /\ editor' = [text |-> v, canvas |-> d \in canvases, owner |-> d]
    /\ Render(sameKey)
    /\ typed' = FALSE /\ leaked' = FALSE
    /\ stale' = (scene' \notin {None, Drawn(editor')})

\* No effect runs; loading may begin or end.
NoCopy == UNCHANGED <<editor, typed, leaked, stale>> /\ Render(TRUE)

\* The address changes: the request for the last document is aborted.  Data in
\* the cache are shown; they are asked for again when they are invalid or older
\* than staleTime.  Without data the editor is left as it is.
Open(d) ==
    /\ doc # d /\ doc' = d
    /\ UNCHANGED data
    /\ \/ fetch' = Unread
       \/ data[d] # None /\ d \notin invalid /\ fetch' = None
    /\ \/ data[d] # None /\ Copy(d, data[d], FALSE)
       \/ data[d] = None /\ NoCopy
    /\ Quiet /\ UNCHANGED <<canvases, invalid, job, timer, excused>>

Clear == /\ editor' = Empty /\ scene' = None
         /\ typed' = FALSE /\ leaked' = FALSE /\ stale' = FALSE

\* As Close, but the request is not aborted.
Close_KeepsFetch ==
    /\ doc # None /\ doc' = None
    /\ Clear
    /\ Quiet /\ UNCHANGED <<canvases, data, invalid, fetch, job, timer, excused>>

\* Back to the list: the effect on activeNumericId.
Close ==
    /\ doc # None /\ doc' = None
    /\ Clear
    /\ fetch' = None
    /\ Quiet /\ UNCHANGED <<canvases, data, invalid, job, timer, excused>>

\* gcTime is over for a document that is not shown.
Collect(d) ==
    /\ d # doc /\ data[d] # None
    /\ data' = [data EXCEPT ![d] = None]
    /\ invalid' = invalid \ {d} /\ excused' = excused \ {d}
    /\ Quiet /\ UNCHANGED <<canvases, doc, fetch, job, timer, shown>>

\* The server answers, with a value it has or had.
FetchAnswered ==
    /\ fetch = Unread
    /\ Answer(doc) /\ fetch' = answer'
    /\ UNCHANGED <<canvases, doc, data, invalid, job, timer, excused, shown>>

\* The answer arrives.  Data equal to the last keep their identity, and the
\* effect does not run; what was written twice may differ in its date.  Two dates
\* in one second are the same key.
Arrive ==
    /\ fetch \in Values /\ fetch' = None
    /\ UNCHANGED doc
    /\ data' = [data EXCEPT ![doc] = fetch]
    /\ \/ \E sameSecond \in BOOLEAN : Copy(doc, fetch, sameSecond)
       \/ fetch = data[doc] /\ NoCopy
    /\ invalid' = invalid \ {doc}
    /\ excused' = IF fetch = value[doc] THEN excused \ {doc} ELSE excused \cup {doc}
    /\ Quiet /\ UNCHANGED <<canvases, job, timer>>

FetchFails ==
    /\ fetch # None /\ fetch' = None
    /\ UNCHANGED <<canvases, doc, data, invalid, job, timer, excused>>
    /\ NoCopy /\ Quiet

\* The browser is online again and the data, if any, are older than staleTime.
AsksAgain ==
    /\ doc # None /\ fetch = None /\ fetch' = Unread
    /\ UNCHANGED <<canvases, doc, data, invalid, job, timer, excused>>
    /\ NoCopy /\ Quiet

-----------------------------------------------------------------------------
Room == Cardinality({m \in Mutations : job[m] # None})
            + (IF timer = None THEN 0 ELSE 1) < MaxPending

\* handleDocChange
Type(v) ==
    /\ Pane /\ ~editor.canvas /\ v # editor.text
    /\ editor' = [editor EXCEPT !.text = v] /\ typed' = TRUE
    /\ Quiet
    /\ UNCHANGED <<canvases, doc, data, invalid, fetch, job, timer, excused>>
    /\ UNCHANGED <<scene, leaked, stale>>

\* The canvas reports a change: what the user draws, or by itself what it holds.
\* It starts a timer, which nothing clears when the pane goes.  (One timer at a
\* time: all take as long, so the next one fires later anyway.)
Draw(v) ==
    /\ scene # None /\ timer = None /\ Room
    /\ scene' = [scene EXCEPT !.text = v]
    /\ timer' = scene'
    /\ typed' = (typed \/ v # scene.text)
    /\ v # scene.text \/ v # editor.text
    /\ Quiet
    /\ UNCHANGED <<canvases, doc, data, invalid, fetch, job, excused>>
    /\ UNCHANGED <<editor, leaked, stale>>

\* It hands over what is not the value the pane had when it was last rendered.
TimerFires ==
    /\ timer # None /\ timer' = None
    /\ \/ /\ timer # scene \/ timer.text # editor.text
          /\ editor' = [editor EXCEPT !.text = timer.text, !.owner = timer.owner]
          /\ leaked' = (leaked \/ timer.owner # doc)
          /\ stale' = (stale \/ timer # scene)
       \/ /\ timer # scene \/ timer.text = editor.text
          /\ UNCHANGED <<editor, leaked, stale>>
    /\ Quiet
    /\ UNCHANGED <<canvases, doc, data, invalid, fetch, job, excused, scene, typed>>

\* saveDoc, the key handler, and the share dialog: nothing waits for the data.
Save(m) ==
    /\ doc # None /\ job[m] = None /\ Room
    /\ job' = [job EXCEPT ![m] =
            [doc |-> doc, sends |-> editor, state |-> "sent",
             hurried |-> data[doc] = None \/ leaked]]
    /\ Quiet
    /\ UNCHANGED <<canvases, doc, data, invalid, fetch, timer, excused, shown>>

-----------------------------------------------------------------------------
\* A server that forgets nothing can answer all that another can.
Remembers == Forgets \/ \A d \in Docs : answerable[d] \subseteq answerable'[d]

Sent(m) == job[m] # None /\ job[m].state = "sent"
Answered(m) == job[m] # None /\ job[m].state = "ok"

\* The answer is on its way; what was sent does not matter any more.
Answers(m) ==
    job' = [job EXCEPT ![m] = [doc |-> job[m].doc, sends |-> Empty,
                               hurried |-> FALSE, state |-> "ok"]]

\* onError, and onSuccess of a save that found nothing to change, do nothing: when
\* they run does not matter.
Ends(m) == job' = [job EXCEPT ![m] = None]

\* The server refuses to change the kind of a document (docsUpdate).
Accepted(m) ==
    \/ m \in Restores
    \/ job[m].sends.canvas = (job[m].doc \in canvases)

\* A version may have any text.
Written(m, v) == m \in Restores \/ v = job[m].sends.text

Writes(m, v) ==
    /\ Sent(m) /\ Accepted(m) /\ Written(m, v)
    /\ Write(job[m].doc, v) /\ Remembers
    /\ \/ Answers(m) /\ UNCHANGED excused
       \/ Ends(m) /\ excused' = excused \cup {job[m].doc}
    /\ UNCHANGED <<canvases, doc, data, invalid, fetch, timer, shown>>

WritesNothing(m) ==
    /\ Sent(m)
    /\ \/ Ends(m)
       \/ /\ m \in Shares /\ Accepted(m)
          /\ job[m].sends.text = value[job[m].doc] /\ Answers(m)
    /\ Quiet
    /\ UNCHANGED <<canvases, doc, data, invalid, fetch, timer, excused, shown>>

\* onSuccess, of the latest render: the query of the document the page is at by
\* now is invalidated and asked for again.  That aborts its request if there are
\* data to show meanwhile; otherwise the request goes on.
Refetch ==
    IF doc = None THEN None
    ELSE IF data[doc] = None /\ fetch # None THEN fetch ELSE Unread

\* As OnSuccess, but only the list is asked for again.
OnSuccess_ListOnly(m) ==
    /\ Answered(m) /\ Ends(m)
    /\ excused' = excused \cup ({job[m].doc} \ {doc})
    /\ Quiet /\ UNCHANGED <<canvases, doc, data, invalid, fetch, timer, shown>>

OnSuccess(m) ==
    /\ Answered(m) /\ Ends(m)
    /\ invalid' = invalid \cup ({doc} \cap Docs) /\ fetch' = Refetch
    /\ excused' = excused \cup ({job[m].doc} \ {doc})
    /\ UNCHANGED <<canvases, doc, data, timer>>
    /\ NoCopy /\ Quiet

Restore(m) ==
    /\ doc # None /\ job[m] = None /\ Room
    /\ job' = [job EXCEPT ![m] =
            [doc |-> doc, sends |-> Empty, state |-> "sent", hurried |-> FALSE]]
    /\ Quiet
    /\ UNCHANGED <<canvases, doc, data, invalid, fetch, timer, excused, shown>>

Expire(d) == Forget(d) /\ Remembers /\ UNCHANGED page

\* Other tabs and users.
Others(d, v) ==
    /\ v # value[d] /\ Write(d, v) /\ Remembers
    /\ excused' = excused \cup {d}
    /\ UNCHANGED <<canvases, doc, data, invalid, fetch, job, timer, shown>>

Next ==
    \/ Close \/ FetchAnswered \/ Arrive \/ FetchFails \/ AsksAgain \/ TimerFires
    \/ \E d \in Docs : Open(d) \/ Collect(d) \/ Expire(d)
    \/ \E v \in Values : Type(v) \/ Draw(v)
    \/ \E d \in Foreign, v \in Values : Others(d, v)
    \/ \E m \in Senders : Save(m)
    \/ \E m \in Restores : Restore(m)
    \/ \E m \in Mutations : WritesNothing(m) \/ OnSuccess(m)
    \/ \E m \in Mutations, v \in Values : Writes(m, v)

Spec == Init /\ [][Next]_vars

-----------------------------------------------------------------------------
\* A save sends to a document what came from that document, and as what it is,
\* unless it is made before the document's own text has come, or after a canvas has
\* handed over another document's drawing: one that was late, or one that had been
\* mounted before the document's own was copied (saveMut, shareSaveMut).
SendsOwnText ==
    \A m \in Senders :
        (Sent(m) /\ ~job[m].hurried) =>
            /\ job[m].sends.owner = job[m].doc
            /\ job[m].sends.canvas = (job[m].doc \in canvases)

\* A document nobody edits is in the editor, and on its canvas, as it is stored, once
\* what was saved or restored has been answered and fetched, unless others changed
\* it, an old answer came, the page was at another document when the answer came
\* (OnSuccess), or a canvas held something else when the document was copied or
\* handed it over later (DocExcalidrawPane).
ShowsStored ==
    (/\ doc # None /\ data[doc] # None
     /\ ~typed /\ ~stale /\ doc \notin invalid \cup excused
     /\ \A m \in Mutations : job[m] = None \/ job[m].doc # doc)
        => /\ editor.text = value[doc]
           /\ scene # None => scene.text = value[doc]
=============================================================================
