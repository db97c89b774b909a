--------------------------- MODULE DocsEditorProofs --------------------------
(***************************************************************************)
(* Theorems about the editor page, for every set of documents, texts and   *)
(* mutations, and any number of them under way.                            *)
(***************************************************************************)
EXTENDS DocsEditor, TLAPS

\* What is in the editor came from the document that is shown, once it has come.
Owned ==
    (doc # None /\ data[doc] # None /\ ~leaked) =>
        editor.owner = doc /\ editor.canvas = (doc \in canvases)

\* And it is that document's text, as is the drawing of its canvas, until someone
\* edits it or a canvas turns out to have held something else.
Shown ==
    (doc # None /\ data[doc] # None /\ ~typed /\ ~stale) =>
        editor.text = data[doc] /\ (scene # None => scene = Drawn(editor))

\* A document's data are what it is, but for what a mutation just wrote.
JustWrote(m, d) == job[m] # None /\ job[m].doc = d /\ job[m].state = "ok"

Settled(d) ==
    /\ data[d] # None /\ d \notin invalid \cup excused
    /\ \A m \in Mutations : ~JustWrote(m, d)

Fresh == \A d \in Docs : Settled(d) => data[d] = value[d]

EditorInv == Owned /\ Shown /\ Fresh /\ SendsOwnText

-----------------------------------------------------------------------------
LEMMA NoneApart ==
    /\ None \notin Docs /\ None \notin Values /\ None # Unread
    /\ None \notin Job /\ None \notin Drawing
  BY EditorAssumption DEF EditorAssumption

LEMMA ForeignDocs == Foreign \subseteq Docs
  BY EditorAssumption DEF EditorAssumption

LEMMA EmptyType == Empty \in Editor
  BY EditorAssumption DEF EditorAssumption, Empty, Editor

\* A canvas is mounted where the page shows one, with a drawing in it.
LEMMA RenderType ==
    ASSUME TypeOK, editor' \in Editor, NEW sameKey \in BOOLEAN, Render(sameKey)
    PROVE  /\ scene' \in Drawing \cup {None}
           /\ scene' # None <=> Pane' /\ editor'.canvas
  <1>1. Drawn(editor) \in Drawing /\ Drawn(editor') \in Drawing
    BY DEF TypeOK, Drawn, Editor, Drawing
  <1>2. Mounted(editor, IF sameKey THEN scene ELSE None) \in Drawing \cup {None}
    BY <1>1 DEF TypeOK, Mounted
  <1> QED
    BY <1>1, <1>2, NoneApart DEF Render, Mounted

LEMMA CopyType ==
    ASSUME TypeOK, NEW d \in Docs, NEW v \in Values, NEW sameKey \in BOOLEAN,
           Copy(d, v, sameKey)
    PROVE  /\ editor' \in Editor
           /\ editor'.text = v /\ editor'.owner = d /\ editor'.canvas = (d \in canvases)
           /\ ~typed' /\ ~leaked'
           /\ typed' \in BOOLEAN /\ leaked' \in BOOLEAN /\ stale' \in BOOLEAN
           /\ scene' \in Drawing \cup {None}
           /\ scene' # None <=> Pane' /\ editor'.canvas
           /\ ~stale' => (scene' # None => scene' = Drawn(editor'))
  <1>1. (d \in canvases) \in BOOLEAN
    OBVIOUS
  <1>2. editor' \in Editor
    BY <1>1 DEF Copy, Editor
  <1>3. /\ editor'.text = v /\ editor'.owner = d /\ editor'.canvas = (d \in canvases)
        /\ typed' = FALSE /\ leaked' = FALSE
        /\ stale' = (scene' \notin {None, Drawn(editor')})
    BY DEF Copy
  <1>4. Render(sameKey)
    BY DEF Copy
  <1> QED
    BY <1>2, <1>3, <1>4, RenderType

\* Without a copy a canvas that stays keeps its drawing.
LEMMA NoCopyType ==
    ASSUME TypeOK, NoCopy
    PROVE  /\ UNCHANGED <<editor, typed, leaked, stale>>
           /\ scene' \in Drawing \cup {None}
           /\ scene' # None <=> Pane' /\ editor'.canvas
           /\ Pane /\ Pane' => scene' = scene
  <1>1. UNCHANGED <<editor, typed, leaked, stale>> /\ Render(TRUE)
    BY DEF NoCopy
  <1>2. editor' \in Editor
    BY <1>1 DEF TypeOK
  <1>3. ASSUME Pane, Pane' PROVE scene' = scene
    <2>1. CASE editor.canvas
      <3>1. scene # None
        BY <1>3, <2>1 DEF TypeOK
      <3> QED
        BY <1>1, <1>3, <2>1, <3>1 DEF Render, Mounted
    <2>2. CASE ~editor.canvas
      <3>1. scene = None
        BY <2>2 DEF TypeOK
      <3> QED
        BY <1>1, <2>2, <3>1 DEF Render, Mounted
    <2> QED
      BY <2>1, <2>2
  <1> QED
    BY <1>1, <1>2, <1>3, RenderType

LEMMA KeepsType ==
    ASSUME RegisterTypeOK, value' \in [Docs -> Values], NEW d \in Docs,
           NEW S \in SUBSET answerable[d], Keeps(d, S)
    PROVE  answerable' \in [Docs -> SUBSET Values]
  <1>1. S \cup {value'[d]} \in SUBSET Values
    BY DEF RegisterTypeOK
  <1> QED
    BY <1>1 DEF RegisterTypeOK, Keeps

LEMMA WriteType ==
    ASSUME RegisterTypeOK, NEW d \in Docs, NEW v \in Values, Write(d, v)
    PROVE  /\ RegisterTypeOK'
           /\ \A e \in Docs \ {d} : value'[e] = value[e]
  <1>1. value' \in [Docs -> Values]
    BY DEF RegisterTypeOK, Write
  <1>2. PICK S \in SUBSET answerable[d] : Keeps(d, S)
    BY DEF Write
  <1>3. answerable' \in [Docs -> SUBSET Values]
    BY <1>1, <1>2, KeepsType
  <1>4. answer' = Unread /\ \A e \in Docs \ {d} : value'[e] = value[e]
    BY DEF RegisterTypeOK, Write
  <1> QED
    BY <1>1, <1>3, <1>4 DEF RegisterTypeOK

LEMMA ForgetType ==
    ASSUME RegisterTypeOK, NEW d \in Docs, Forget(d)
    PROVE  RegisterTypeOK' /\ value' = value
  <1>1. value' \in [Docs -> Values] /\ value' = value /\ answer' = Unread
    BY DEF RegisterTypeOK, Forget
  <1>2. PICK S \in SUBSET answerable[d] : Keeps(d, S)
    BY DEF Forget
  <1>3. answerable' \in [Docs -> SUBSET Values]
    BY <1>1, <1>2, KeepsType
  <1> QED
    BY <1>1, <1>3 DEF RegisterTypeOK

LEMMA QuietType ==
    ASSUME RegisterTypeOK, Quiet
    PROVE  RegisterTypeOK' /\ value' = value
  BY DEF RegisterTypeOK, Quiet

LEMMA AnswersType ==
    ASSUME TypeOK, NEW m \in Mutations, job[m] # None, Answers(m)
    PROVE  /\ job' \in [Mutations -> Job \cup {None}]
           /\ job'[m] # None /\ job'[m].doc = job[m].doc /\ job'[m].state = "ok"
           /\ job[m].doc \in Docs
           /\ \A n \in Mutations \ {m} : job'[n] = job[n]
  <1> DEFINE j == [doc |-> job[m].doc, sends |-> Empty, hurried |-> FALSE, state |-> "ok"]
  <1>1. job[m].doc \in Docs
    BY DEF TypeOK, Job
  <1>2. j \in Job
    BY <1>1, EmptyType DEF Job
  <1>3. job' = [job EXCEPT ![m] = j]
    BY DEF Answers
  <1> HIDE DEF j
  <1>4. job' \in [Mutations -> Job \cup {None}] /\ job'[m] = j
           /\ \A n \in Mutations \ {m} : job'[n] = job[n]
    BY <1>2, <1>3 DEF TypeOK
  <1>5. j.doc = job[m].doc /\ j.state = "ok"
    BY DEF j
  <1> QED
    BY <1>1, <1>2, <1>4, <1>5, NoneApart

LEMMA EndsType ==
    ASSUME TypeOK, NEW m \in Mutations, job[m] # None, Ends(m)
    PROVE  /\ job' \in [Mutations -> Job \cup {None}]
           /\ job[m].doc \in Docs
           /\ job'[m] = None
           /\ \A n \in Mutations \ {m} : job'[n] = job[n]
  BY DEF TypeOK, Ends, Job

LEMMA StartType ==
    ASSUME TypeOK, NEW m \in Mutations, Save(m) \/ Restore(m)
    PROVE  /\ job' \in [Mutations -> Job \cup {None}]
           /\ job'[m] # None /\ job'[m].state = "sent"
           /\ \A n \in Mutations \ {m} : job'[n] = job[n]
  <1>1. doc \in Docs /\ leaked \in BOOLEAN /\ editor \in Editor /\ Empty \in Editor
    BY EmptyType DEF TypeOK, Save, Restore
  <1>2. CASE Save(m)
    <2> DEFINE j == [doc |-> doc, sends |-> editor, state |-> "sent",
                     hurried |-> data[doc] = None \/ leaked]
    <2>0. (data[doc] = None \/ leaked) \in BOOLEAN
      BY <1>1
    <2>1. j \in Job
      BY <1>1, <2>0 DEF Job
    <2>2. job' = [job EXCEPT ![m] = j]
      BY <1>2 DEF Save
    <2>3. j.state = "sent"
      OBVIOUS
    <2> HIDE DEF j
    <2> QED
      BY <2>1, <2>2, <2>3, NoneApart DEF TypeOK
  <1>3. CASE Restore(m)
    <2> DEFINE j == [doc |-> doc, sends |-> Empty, state |-> "sent", hurried |-> FALSE]
    <2>1. j \in Job
      BY <1>1 DEF Job
    <2>2. job' = [job EXCEPT ![m] = j]
      BY <1>3 DEF Restore
    <2>3. j.state = "sent"
      OBVIOUS
    <2> HIDE DEF j
    <2> QED
      BY <2>1, <2>2, <2>3, NoneApart DEF TypeOK
  <1> QED
    BY <1>2, <1>3

-----------------------------------------------------------------------------
LEMMA InitType == Init => TypeOK
<1> SUFFICES ASSUME Init PROVE TypeOK
  OBVIOUS
<1>1. RegisterTypeOK
  <2>1. \A d \in Docs : {value[d]} \in SUBSET Values
    BY DEF Init, RegisterInit
  <2> QED
    BY <2>1 DEF Init, RegisterInit, RegisterTypeOK
<1>2. canvases \in SUBSET Docs
  BY EditorAssumption DEF EditorAssumption, Init
<1>3. ~Pane
  BY DEF Init, Pane
<1> QED
  BY <1>1, <1>2, <1>3, EmptyType DEF Init, TypeOK

LEMMA NextType == TypeOK /\ [Next]_vars => TypeOK'
<1> SUFFICES ASSUME TypeOK, [Next]_vars PROVE TypeOK'
  OBVIOUS
<1> USE NoneApart
<1>0. RegisterTypeOK
  BY DEF TypeOK
<1>1. ASSUME NEW d \in Docs, Open(d) PROVE TypeOK'
  <2>1. RegisterTypeOK'
    BY <1>0, <1>1, QuietType DEF Open
  <2>2. /\ editor' \in Editor /\ typed' \in BOOLEAN /\ leaked' \in BOOLEAN
        /\ stale' \in BOOLEAN /\ scene' \in Drawing \cup {None}
        /\ scene' # None <=> Pane' /\ editor'.canvas
    <3>1. CASE data[d] = None
      <4>1. NoCopy
        BY <1>1, <3>1 DEF Open
      <4> QED
        BY <4>1, NoCopyType DEF TypeOK
    <3>2. CASE data[d] # None
      <4>1. data[d] \in Values /\ Copy(d, data[d], FALSE)
        BY <1>1, <3>2 DEF TypeOK, Open
      <4> QED
        BY <4>1, CopyType
    <3> QED
      BY <3>1, <3>2
  <2>3. doc' = d /\ fetch' \in {None, Unread}
    BY <1>1 DEF Open
  <2> QED
    BY <1>1, <2>1, <2>2, <2>3 DEF TypeOK, Open
<1>2. CASE Close
  <2>1. RegisterTypeOK'
    BY <1>0, <1>2, QuietType DEF Close
  <2> QED
    BY <1>2, <2>1, EmptyType DEF TypeOK, Close, Clear, Pane
<1>3. ASSUME NEW d \in Docs, Collect(d) PROVE TypeOK'
  <2>1. RegisterTypeOK'
    BY <1>0, <1>3, QuietType DEF Collect
  <2>2. data' \in [Docs -> Values \cup {None}]
    BY <1>3 DEF TypeOK, Collect
  <2>3. Pane' = Pane
    BY <1>3 DEF TypeOK, Pane, Collect
  <2> QED
    BY <1>3, <2>1, <2>2, <2>3 DEF TypeOK, Collect, shown
<1>4. CASE FetchAnswered
  <2>1. doc \in Docs
    BY <1>4 DEF TypeOK, FetchAnswered
  <2>2. answer' \in Values /\ UNCHANGED <<value, answerable>>
    BY <1>0, <1>4, <2>1 DEF RegisterTypeOK, FetchAnswered, Answer
  <2>3. RegisterTypeOK'
    BY <1>0, <2>2 DEF RegisterTypeOK
  <2>4. Pane' = Pane /\ UNCHANGED shown
    BY <1>4, <2>2 DEF Pane, FetchAnswered
  <2> QED
    BY <1>4, <2>1, <2>2, <2>3, <2>4 DEF TypeOK, FetchAnswered, shown
<1>5. CASE Arrive
  <2>1. doc \in Docs /\ fetch \in Values
    BY <1>5 DEF TypeOK, Arrive
  <2>2. RegisterTypeOK'
    BY <1>0, <1>5, QuietType DEF Arrive
  <2>3. /\ editor' \in Editor /\ typed' \in BOOLEAN /\ leaked' \in BOOLEAN
        /\ stale' \in BOOLEAN /\ scene' \in Drawing \cup {None}
        /\ scene' # None <=> Pane' /\ editor'.canvas
    <3>1. ASSUME NEW sameSecond \in BOOLEAN, Copy(doc, fetch, sameSecond) PROVE
                 /\ editor' \in Editor /\ typed' \in BOOLEAN /\ leaked' \in BOOLEAN
                 /\ stale' \in BOOLEAN /\ scene' \in Drawing \cup {None}
                 /\ scene' # None <=> Pane' /\ editor'.canvas
      BY <2>1, <3>1, CopyType
    <3>2. ASSUME NoCopy PROVE
                 /\ editor' \in Editor /\ typed' \in BOOLEAN /\ leaked' \in BOOLEAN
                 /\ stale' \in BOOLEAN /\ scene' \in Drawing \cup {None}
                 /\ scene' # None <=> Pane' /\ editor'.canvas
      BY <3>2, NoCopyType DEF TypeOK
    <3> QED
      BY <1>5, <3>1, <3>2 DEF Arrive
  <2>4. data' \in [Docs -> Values \cup {None}]
    BY <1>5, <2>1 DEF TypeOK, Arrive
  <2>5. invalid' \in SUBSET Docs /\ excused' \in SUBSET Docs
    BY <1>5, <2>1 DEF TypeOK, Arrive
  <2> QED
    BY <1>5, <2>2, <2>3, <2>4, <2>5 DEF TypeOK, Arrive
<1>6. CASE FetchFails \/ AsksAgain
  <2>1. RegisterTypeOK'
    BY <1>0, <1>6, QuietType DEF FetchFails, AsksAgain
  <2>2. /\ UNCHANGED <<editor, typed, leaked, stale>> /\ scene' \in Drawing \cup {None}
        /\ scene' # None <=> Pane' /\ editor'.canvas
    BY <1>6, NoCopyType DEF FetchFails, AsksAgain
  <2> QED
    BY <1>6, <2>1, <2>2 DEF TypeOK, FetchFails, AsksAgain
<1>7. ASSUME NEW v \in Values, Type(v) PROVE TypeOK'
  <2>1. RegisterTypeOK'
    BY <1>0, <1>7, QuietType DEF Type
  <2>2. editor' \in Editor /\ editor'.canvas = editor.canvas
    BY <1>7 DEF TypeOK, Type, Editor
  <2>3. Pane' = Pane
    BY <1>7 DEF Pane, Type
  <2> QED
    BY <1>7, <2>1, <2>2, <2>3 DEF TypeOK, Type
<1>8. ASSUME NEW v \in Values, Draw(v) PROVE TypeOK'
  <2>1. RegisterTypeOK'
    BY <1>0, <1>8, QuietType DEF Draw
  <2>2. scene' \in Drawing /\ timer' = scene' /\ scene # None
    BY <1>8 DEF TypeOK, Draw, Drawing
  <2>3. typed' \in BOOLEAN
    BY <1>8 DEF TypeOK, Draw
  <2>4. Pane' = Pane
    BY <1>8 DEF Pane, Draw
  <2> QED
    BY <1>8, <2>1, <2>2, <2>3, <2>4 DEF TypeOK, Draw
<1>9. CASE TimerFires
  <2>1. RegisterTypeOK'
    BY <1>0, <1>9, QuietType DEF TimerFires
  <2>2. timer \in Drawing /\ timer' = None
    BY <1>9 DEF TypeOK, TimerFires
  <2>3. editor' \in Editor /\ editor'.canvas = editor.canvas
    BY <1>9, <2>2 DEF TypeOK, TimerFires, Editor, Drawing
  <2>4. leaked' \in BOOLEAN /\ stale' \in BOOLEAN
    BY <1>9, <2>2 DEF TypeOK, TimerFires
  <2>5. Pane' = Pane
    BY <1>9 DEF Pane, TimerFires
  <2> QED
    BY <1>9, <2>1, <2>2, <2>3, <2>4, <2>5 DEF TypeOK, TimerFires
<1>10. ASSUME NEW m \in Mutations, Save(m) \/ Restore(m) PROVE TypeOK'
  <2>1. RegisterTypeOK'
    BY <1>0, <1>10, QuietType DEF Save, Restore
  <2>2. job' \in [Mutations -> Job \cup {None}]
    BY <1>10, StartType
  <2>3. Pane' = Pane
    BY <1>10 DEF Pane, Save, Restore
  <2> QED
    BY <1>10, <2>1, <2>2, <2>3 DEF TypeOK, Save, Restore, shown
<1>11. ASSUME NEW m \in Mutations, NEW v \in Values, Writes(m, v) PROVE TypeOK'
  <2>1. job[m] # None /\ (Answers(m) \/ Ends(m))
            /\ excused' \in {excused, excused \cup {job[m].doc}}
    BY <1>11 DEF Writes, Sent
  <2>2. job' \in [Mutations -> Job \cup {None}] /\ job[m].doc \in Docs
    BY <2>1, AnswersType, EndsType
  <2>3. RegisterTypeOK'
    BY <1>0, <1>11, <2>2, WriteType DEF Writes
  <2>4. excused' \in SUBSET Docs
    BY <2>1, <2>2 DEF TypeOK
  <2>5. Pane' = Pane
    BY <1>11 DEF Pane, Writes
  <2> QED
    BY <1>11, <2>2, <2>3, <2>4, <2>5 DEF TypeOK, Writes, shown
<1>12. ASSUME NEW m \in Mutations, WritesNothing(m) PROVE TypeOK'
  <2>1. RegisterTypeOK'
    BY <1>0, <1>12, QuietType DEF WritesNothing
  <2>2. job[m] # None /\ (Answers(m) \/ Ends(m))
    BY <1>12 DEF WritesNothing, Sent
  <2>3. job' \in [Mutations -> Job \cup {None}]
    BY <2>2, AnswersType, EndsType
  <2>4. Pane' = Pane
    BY <1>12 DEF Pane, WritesNothing
  <2> QED
    BY <1>12, <2>1, <2>3, <2>4 DEF TypeOK, WritesNothing, shown
<1>13. ASSUME NEW m \in Mutations, OnSuccess(m) PROVE TypeOK'
  <2>1. RegisterTypeOK'
    BY <1>0, <1>13, QuietType DEF OnSuccess
  <2>2. job' \in [Mutations -> Job \cup {None}] /\ job[m].doc \in Docs
    BY <1>13, EndsType DEF OnSuccess, Answered
  <2>3. fetch' \in {None, Unread} \cup Values /\ (fetch' # None => doc # None)
    BY <1>13 DEF TypeOK, OnSuccess, Refetch
  <2>4. invalid' \in SUBSET Docs /\ excused' \in SUBSET Docs
    BY <1>13, <2>2 DEF TypeOK, OnSuccess
  <2>5. /\ UNCHANGED <<editor, typed, leaked, stale>> /\ scene' \in Drawing \cup {None}
        /\ scene' # None <=> Pane' /\ editor'.canvas
    BY <1>13, NoCopyType DEF OnSuccess
  <2> QED
    BY <1>13, <2>1, <2>2, <2>3, <2>4, <2>5 DEF TypeOK, OnSuccess
<1>14. ASSUME NEW d \in Docs, Expire(d) PROVE TypeOK'
  <2>1. RegisterTypeOK'
    BY <1>0, <1>14, ForgetType DEF Expire
  <2> QED
    BY <1>14, <2>1 DEF TypeOK, Expire, page, shown, Pane
<1>15. ASSUME NEW d \in Docs, NEW v \in Values, Others(d, v) PROVE TypeOK'
  <2>1. RegisterTypeOK'
    BY <1>0, <1>15, WriteType DEF Others
  <2>2. excused' \in SUBSET Docs
    BY <1>15 DEF TypeOK, Others
  <2> QED
    BY <1>15, <2>1, <2>2 DEF TypeOK, Others, shown, Pane
<1>16. CASE UNCHANGED vars
  BY <1>16 DEF TypeOK, RegisterTypeOK, vars, page, shown, registerVars, Pane
<1> QED
  BY <1>1, <1>2, <1>3, <1>4, <1>5, <1>6, <1>7, <1>8, <1>9, <1>10, <1>11, <1>12,
     <1>13, <1>14, <1>15, <1>16, ForeignDocs DEF Next, Mutations

\* The page, its queries, its mutations and the canvas keep their shape, no request
\* is under way when no document is open, and a canvas holds a drawing exactly while
\* one is shown.
THEOREM EditorTypeCorrect == Spec => []TypeOK
  BY InitType, NextType, PTL DEF Spec

-----------------------------------------------------------------------------
LEMMA InitInv == Init => EditorInv
<1> SUFFICES ASSUME Init PROVE EditorInv
  OBVIOUS
<1>1. \A m \in Senders : job[m] = None
  BY DEF Init, Mutations
<1> QED
  BY <1>1 DEF Init, EditorInv, Owned, Shown, Fresh, Settled, SendsOwnText, Sent

\* What the editor shows, by what can change it.
LEMMA NextShown ==
    TypeOK /\ Owned /\ Shown /\ [Next]_vars => Owned' /\ Shown'
<1> SUFFICES ASSUME TypeOK, Owned, Shown, [Next]_vars PROVE Owned' /\ Shown'
  OBVIOUS
<1> USE NoneApart DEF Owned, Shown
<1>0. ASSUME UNCHANGED <<canvases, doc, data, editor, scene, typed, leaked, stale>>
      PROVE  Owned' /\ Shown'
  BY <1>0 DEF Drawn
<1>1. ASSUME NEW d \in Docs, Open(d) PROVE Owned' /\ Shown'
  <2>1. CASE data[d] = None
    BY <1>1, <2>1 DEF Open
  <2>2. CASE data[d] # None
    <3>1. data[d] \in Values /\ Copy(d, data[d], FALSE)
      BY <1>1, <2>2 DEF TypeOK, Open
    <3>2. doc' = d /\ data' = data /\ canvases' = canvases
      BY <1>1 DEF Open
    <3> QED
      BY <3>1, <3>2, CopyType DEF Drawn
  <2> QED
    BY <2>1, <2>2
<1>2. CASE Close
  BY <1>2 DEF Close
<1>3. ASSUME NEW d \in Docs, Collect(d) PROVE Owned' /\ Shown'
  <2>1. doc # None => data'[doc] = data[doc]
    BY <1>3 DEF TypeOK, Collect
  <2> QED
    BY <1>3, <2>1 DEF Collect, shown, Drawn
<1>4. ASSUME doc # None, doc' = doc, data[doc] # None, data'[doc] = data[doc],
             canvases' = canvases, NoCopy
      PROVE  Owned' /\ Shown'
  <2>1. Pane /\ Pane'
    BY <1>4 DEF Pane
  <2>2. UNCHANGED <<editor, typed, leaked, stale, scene>>
    BY <1>4, <2>1, NoCopyType
  <2> QED
    BY <1>4, <2>2 DEF Drawn
<1>5. CASE Arrive
  <2>1. doc \in Docs /\ fetch \in Values /\ data'[doc] = fetch /\ doc' = doc
            /\ canvases' = canvases
    BY <1>5 DEF TypeOK, Arrive
  <2>2. ASSUME NEW sameSecond \in BOOLEAN, Copy(doc, fetch, sameSecond)
        PROVE  Owned' /\ Shown'
    BY <2>1, <2>2, CopyType DEF Drawn
  <2>3. CASE fetch = data[doc] /\ NoCopy
    BY <1>4, <2>1, <2>3
  <2> QED
    BY <1>5, <2>2, <2>3 DEF Arrive
<1>6. CASE FetchFails \/ AsksAgain \/ \E m \in Mutations : OnSuccess(m)
  <2>1. NoCopy /\ UNCHANGED <<canvases, doc, data>>
    BY <1>6 DEF FetchFails, AsksAgain, OnSuccess
  <2>2. CASE doc = None \/ data[doc] = None
    BY <2>1, <2>2
  <2>3. CASE doc # None /\ data[doc] # None
    BY <1>4, <2>1, <2>3
  <2> QED
    BY <2>2, <2>3
<1>7. ASSUME NEW v \in Values, Type(v) PROVE Owned' /\ Shown'
  BY <1>7 DEF TypeOK, Type, Editor
<1>8. ASSUME NEW v \in Values, Draw(v) PROVE Owned' /\ Shown'
  <2>1. UNCHANGED <<canvases, doc, data, editor, leaked, stale>>
    BY <1>8 DEF Draw
  <2>2. CASE v # scene.text
    <3>1. typed'
      BY <1>8, <2>2 DEF Draw
    <3> QED
      BY <2>1, <3>1
  <2>3. CASE v = scene.text
    <3>1. scene' = scene
      BY <1>8, <2>3 DEF TypeOK, Draw, Drawing
    <3>2. typed' = typed
      BY <1>8, <2>3 DEF TypeOK, Draw
    <3> QED
      BY <1>0, <2>1, <3>1, <3>2
  <2> QED
    BY <2>2, <2>3
<1>9. CASE TimerFires
  <2>0. timer # None /\ timer \in Drawing /\ UNCHANGED <<canvases, doc, data, scene, typed>>
    BY <1>9 DEF TypeOK, TimerFires
  <2>1. CASE UNCHANGED <<editor, leaked, stale>>
    BY <1>0, <2>0, <2>1
  <2>2. CASE /\ timer # scene \/ timer.text # editor.text
             /\ editor' = [editor EXCEPT !.text = timer.text, !.owner = timer.owner]
             /\ leaked' = (leaked \/ timer.owner # doc)
             /\ stale' = (stale \/ timer # scene)
    <3>1. editor'.owner = timer.owner /\ editor'.canvas = editor.canvas
      BY <2>2 DEF TypeOK, Editor
    <3>2. Owned'
      BY <2>0, <2>2, <3>1
    <3>3. ASSUME doc # None, data[doc] # None, ~typed, ~stale' PROVE FALSE
      <4>1. ~stale /\ timer = scene /\ timer.text # editor.text
        BY <2>2, <3>3
      <4>2. scene = Drawn(editor)
        BY <2>0, <3>3, <4>1
      <4> QED
        BY <4>1, <4>2 DEF Drawn
    <3> QED
      BY <2>0, <3>2, <3>3
  <2> QED
    BY <1>9, <2>1, <2>2 DEF TimerFires
<1>10. FetchAnswered
        \/ (\E m \in Mutations : Save(m) \/ Restore(m) \/ WritesNothing(m)
                \/ \E v \in Values : Writes(m, v))
        \/ (\E d \in Docs : Expire(d) \/ \E v \in Values : Others(d, v))
        \/ UNCHANGED vars
      => UNCHANGED <<canvases, doc, data, editor, scene, typed, leaked, stale>>
  BY DEF FetchAnswered, Save, Restore, WritesNothing, Writes, Expire, Others, shown, page, vars
<1> QED
  BY <1>0, <1>1, <1>2, <1>3, <1>5, <1>6, <1>7, <1>8, <1>9, <1>10, ForeignDocs
     DEF Next, Mutations

\* A save that is sent off sends what Owned says is in the editor.
LEMMA NextSends ==
    TypeOK /\ Owned /\ SendsOwnText /\ [Next]_vars => SendsOwnText'
<1> SUFFICES ASSUME TypeOK, Owned, SendsOwnText, [Next]_vars,
                    NEW n \in Senders, Sent(n)', ~job'[n].hurried
             PROVE  job'[n].sends.owner = job'[n].doc
                    /\ job'[n].sends.canvas = (job'[n].doc \in canvases')
  BY DEF SendsOwnText
<1> USE NoneApart
<1>0. n \in Mutations
  BY DEF Mutations
<1>k. canvases' = canvases
  BY ForeignDocs
     DEF Next, Mutations, Open, Collect, Expire, Others, Close, FetchAnswered, Arrive,
         FetchFails, AsksAgain, TimerFires, Type, Draw, Save, Restore, WritesNothing,
         Writes, OnSuccess, page, vars
<1>1. CASE job'[n] = job[n]
  BY <1>1, <1>k DEF SendsOwnText, Sent
<1>2. CASE UNCHANGED job
  BY <1>1, <1>2
<1>3. ASSUME NEW m \in Restores, Restore(m) PROVE job'[n] = job[n]
  <2>1. m # n /\ m \in Mutations
    BY EditorAssumption DEF EditorAssumption, Mutations
  <2> QED
    BY <1>0, <1>3, <2>1, StartType
<1>4. ASSUME NEW m \in Senders, Save(m)
      PROVE  job'[n].sends.owner = job'[n].doc
             /\ job'[n].sends.canvas = (job'[n].doc \in canvases')
  <2>0. m \in Mutations
    BY DEF Mutations
  <2>1. CASE m # n
    BY <1>0, <1>1, <1>4, <2>0, <2>1, StartType
  <2>2. CASE m = n
    <3>1. job'[n] = [doc |-> doc, sends |-> editor, state |-> "sent",
                     hurried |-> data[doc] = None \/ leaked]
      BY <1>0, <1>4, <2>2 DEF TypeOK, Save
    <3>2. job'[n].hurried = (data[doc] = None \/ leaked) /\ doc # None
      BY <1>4, <3>1 DEF Save
    <3>3. data[doc] # None /\ ~leaked
      BY <3>2
    <3> QED
      BY <1>k, <3>1, <3>2, <3>3 DEF Owned
  <2> QED
    BY <2>1, <2>2
<1>5. ASSUME NEW m \in Mutations, job[m] # None, Answers(m) \/ Ends(m)
      PROVE  job'[n] = job[n]
  BY <1>0, <1>5, AnswersType, EndsType DEF Sent
<1>6. ASSUME NEW m \in Mutations,
             WritesNothing(m) \/ OnSuccess(m) \/ \E v \in Values : Writes(m, v)
      PROVE  job'[n] = job[n]
  BY <1>5, <1>6 DEF WritesNothing, Writes, OnSuccess, Sent, Answered
<1>7. (\E d \in Docs : Open(d) \/ Collect(d) \/ Expire(d) \/ \E v \in Values : Others(d, v))
        \/ Close \/ FetchAnswered \/ Arrive \/ FetchFails \/ AsksAgain \/ TimerFires
        \/ (\E v \in Values : Type(v) \/ Draw(v)) \/ UNCHANGED vars
      => UNCHANGED job
  BY DEF Open, Collect, Expire, Others, Close, FetchAnswered, Arrive, FetchFails, AsksAgain,
         TimerFires, Type, Draw, page, vars
<1> QED
  BY <1>1, <1>2, <1>3, <1>4, <1>6, <1>7, ForeignDocs DEF Next, Mutations

\* Data stay what a document is until one of them changes unnoticed.
LEMMA StaysFresh ==
    ASSUME Fresh, NEW d \in Docs, Settled(d)', data'[d] = data[d], value'[d] = value[d],
           d \in invalid \cup excused => d \in invalid' \cup excused',
           \A m \in Mutations : JustWrote(m, d) => JustWrote(m, d)'
    PROVE  data'[d] = value'[d]
  <1>1. Settled(d)
    BY DEF Settled
  <1> QED
    BY <1>1 DEF Fresh

LEMMA NextFresh == TypeOK /\ Fresh /\ [Next]_vars => Fresh'
<1> SUFFICES ASSUME TypeOK, Fresh, [Next]_vars, NEW d \in Docs, Settled(d)'
             PROVE  data'[d] = value'[d]
  BY DEF Fresh
<1> USE NoneApart
<1>0. RegisterTypeOK /\ data'[d] # None /\ d \notin invalid' \cup excused'
        /\ \A m \in Mutations : ~JustWrote(m, d)'
  BY DEF TypeOK, Settled
<1>1. CASE UNCHANGED <<data, value, invalid, excused, job>>
  BY <1>1, StaysFresh DEF JustWrote
<1>2. ASSUME NEW e \in Docs, Collect(e) PROVE data'[d] = value'[d]
  <2>1. value' = value /\ UNCHANGED job
    BY <1>0, <1>2, QuietType DEF Collect
  <2>2. e # d /\ data'[d] = data[d]
    BY <1>0, <1>2 DEF TypeOK, Collect
  <2>3. d \in invalid \cup excused => d \in invalid' \cup excused'
    BY <1>2, <2>2 DEF Collect
  <2> QED
    BY <2>1, <2>2, <2>3, StaysFresh DEF JustWrote
<1>3. CASE Arrive
  <2>1. value' = value /\ UNCHANGED job
    BY <1>0, <1>3, QuietType DEF Arrive
  <2>2. CASE d = doc
    BY <1>0, <1>3, <2>1, <2>2 DEF TypeOK, Arrive
  <2>3. CASE d # doc
    <3>1. data'[d] = data[d]
      BY <1>3, <2>3 DEF TypeOK, Arrive
    <3>2. d \in invalid \cup excused => d \in invalid' \cup excused'
      BY <1>3, <2>3 DEF Arrive
    <3> QED
      BY <2>1, <3>1, <3>2, StaysFresh DEF JustWrote
  <2> QED
    BY <2>2, <2>3
<1>4. ASSUME NEW m \in Mutations, Save(m) \/ Restore(m) PROVE data'[d] = value'[d]
  <2>1. value' = value /\ UNCHANGED <<data, invalid, excused>>
    BY <1>0, <1>4, QuietType DEF Save, Restore
  <2>2. ASSUME NEW n \in Mutations, JustWrote(n, d) PROVE JustWrote(n, d)'
    <3>1. n # m
      BY <1>4, <2>2 DEF JustWrote, Save, Restore
    <3> QED
      BY <1>4, <2>2, <3>1, StartType DEF JustWrote
  <2> QED
    BY <2>1, <2>2, StaysFresh
<1>5. ASSUME NEW m \in Mutations, NEW v \in Values, Writes(m, v) PROVE data'[d] = value'[d]
  <2>1. /\ job[m] # None /\ job[m].state = "sent"
        /\ \/ Answers(m) /\ excused' = excused
           \/ Ends(m) /\ excused' = excused \cup {job[m].doc}
    BY <1>5 DEF Writes, Sent
  <2>2. job[m].doc \in Docs /\ \A n \in Mutations \ {m} : job'[n] = job[n]
    BY <2>1, AnswersType, EndsType
  <2>3. job[m].doc # d
    <3>1. CASE Answers(m)
      BY <1>0, <2>1, <3>1, AnswersType DEF JustWrote
    <3>2. CASE excused' = excused \cup {job[m].doc}
      BY <1>0, <3>2
    <3> QED
      BY <2>1, <3>1, <3>2
  <2>4. value'[d] = value[d] /\ UNCHANGED <<data, invalid>>
    BY <1>0, <1>5, <2>2, <2>3, WriteType DEF Writes
  <2>5. ASSUME NEW n \in Mutations, JustWrote(n, d) PROVE JustWrote(n, d)'
    BY <2>2, <2>3, <2>5 DEF JustWrote
  <2>6. d \in invalid \cup excused => d \in invalid' \cup excused'
    BY <2>1, <2>4
  <2> QED
    BY <2>4, <2>5, <2>6, StaysFresh
<1>6. ASSUME NEW m \in Mutations, WritesNothing(m) PROVE data'[d] = value'[d]
  <2>1. value' = value /\ UNCHANGED <<data, invalid, excused>>
    BY <1>0, <1>6, QuietType DEF WritesNothing
  <2>2. job[m] # None /\ job[m].state = "sent" /\ (Answers(m) \/ Ends(m))
    BY <1>6 DEF WritesNothing, Sent
  <2>3. \A n \in Mutations \ {m} : job'[n] = job[n]
    BY <2>2, AnswersType, EndsType
  <2>4. ASSUME NEW n \in Mutations, JustWrote(n, d) PROVE JustWrote(n, d)'
    BY <2>2, <2>3, <2>4 DEF JustWrote
  <2> QED
    BY <2>1, <2>4, StaysFresh
<1>7. ASSUME NEW m \in Mutations, OnSuccess(m) PROVE data'[d] = value'[d]
  <2>1. value' = value /\ UNCHANGED data
    BY <1>0, <1>7, QuietType DEF OnSuccess
  <2>2. job[m].doc \in Docs /\ \A n \in Mutations \ {m} : job'[n] = job[n]
    BY <1>7, EndsType DEF OnSuccess, Answered
  <2>3. job[m].doc # d /\ (d \in invalid \cup excused => d \in invalid' \cup excused')
    BY <1>0, <1>7, <2>2 DEF OnSuccess
  <2>4. ASSUME NEW n \in Mutations, JustWrote(n, d) PROVE JustWrote(n, d)'
    BY <2>2, <2>3, <2>4 DEF JustWrote
  <2> QED
    BY <2>1, <2>3, <2>4, StaysFresh
<1>8. ASSUME NEW e \in Docs, NEW v \in Values, Others(e, v) PROVE data'[d] = value'[d]
  <2>1. e # d
    BY <1>0, <1>8 DEF Others
  <2>2. value'[d] = value[d] /\ UNCHANGED <<data, invalid, job>>
    BY <1>0, <1>8, <2>1, WriteType DEF Others
  <2>3. d \in invalid \cup excused => d \in invalid' \cup excused'
    BY <1>8 DEF Others
  <2> QED
    BY <2>2, <2>3, StaysFresh DEF JustWrote
<1>9. ASSUME NEW e \in Docs, Expire(e) PROVE data'[d] = value'[d]
  <2>1. value' = value
    BY <1>0, <1>9, ForgetType DEF Expire
  <2> QED
    BY <1>1, <1>9, <2>1 DEF Expire, page
<1>10. CASE FetchAnswered
  BY <1>1, <1>10 DEF FetchAnswered, Answer
<1>11. (\E e \in Docs : Open(e)) \/ Close \/ FetchFails \/ AsksAgain \/ TimerFires
        \/ (\E v \in Values : Type(v) \/ Draw(v))
      => Quiet /\ UNCHANGED <<data, invalid, excused, job>>
  BY DEF Open, Close, FetchFails, AsksAgain, TimerFires, Type, Draw
<1>12. Quiet \/ UNCHANGED vars => value' = value
  BY DEF Quiet, vars, registerVars
<1>13. UNCHANGED vars => UNCHANGED <<data, invalid, excused, job>>
  BY DEF vars, page
<1> QED
  BY <1>1, <1>2, <1>3, <1>4, <1>5, <1>6, <1>7, <1>8, <1>9, <1>10, <1>11, <1>12,
     <1>13, ForeignDocs DEF Next, Mutations

LEMMA NextInv == TypeOK /\ EditorInv /\ [Next]_vars => EditorInv'
  BY NextShown, NextSends, NextFresh DEF EditorInv

LEMMA SpecInv == Spec => []EditorInv
  BY InitType, NextType, InitInv, NextInv, PTL DEF Spec

\* Saving and sharing send to a document what came from it, as the kind it is, once
\* its own text has come and no canvas has handed over another document's drawing,
\* be it late or because it was mounted with one.
THEOREM EditorSendsOwnText == Spec => []SendsOwnText
<1>1. EditorInv => SendsOwnText
  BY DEF EditorInv
<1> QED
  BY <1>1, SpecInv, PTL

\* What the editor, and the canvas if there is one, show of a document nobody edits is
\* what is stored, once the page's own saves and restores of it are over and fetched,
\* unless a canvas was mounted with something else or handed over something else.
THEOREM EditorShowsStored == Spec => []ShowsStored
<1>1. TypeOK /\ EditorInv => ShowsStored
  <2> SUFFICES ASSUME TypeOK, EditorInv, doc # None, data[doc] # None, ~typed, ~stale,
                      doc \notin invalid \cup excused,
                      \A m \in Mutations : job[m] = None \/ job[m].doc # doc
               PROVE  editor.text = value[doc]
                      /\ (scene # None => scene.text = value[doc])
    BY DEF ShowsStored
  <2>1. doc \in Docs /\ Settled(doc)
    BY DEF TypeOK, Settled, JustWrote
  <2> QED
    BY <2>1 DEF EditorInv, Shown, Fresh, Drawn
<1> QED
  BY <1>1, EditorTypeCorrect, SpecInv, PTL

-----------------------------------------------------------------------------
\* The page leaves the server to DocRegister: every step of the two together is one
\* of the register, or leaves it alone.
THEOREM EditorUsesRegister == Spec => RegisterSpec
<1>1. Init => RegisterInit
  BY DEF Init
<1>2. TypeOK /\ [Next]_vars => [RegisterNext]_registerVars
  <2> SUFFICES ASSUME TypeOK, [Next]_vars PROVE [RegisterNext]_registerVars
    OBVIOUS
  <2>1. (\E d \in Docs : Open(d) \/ Collect(d))
            \/ Close \/ Arrive \/ FetchFails \/ AsksAgain \/ TimerFires
            \/ (\E v \in Values : Type(v) \/ Draw(v))
            \/ (\E m \in Mutations : Save(m) \/ Restore(m) \/ WritesNothing(m)
                    \/ OnSuccess(m))
          => Quiet
    BY DEF Open, Collect, Close, Arrive, FetchFails, AsksAgain, TimerFires, Type, Draw,
           Save, Restore, WritesNothing, OnSuccess
  <2>2. FetchAnswered => \E d \in Docs : Answer(d)
    BY NoneApart DEF TypeOK, FetchAnswered
  <2>3. ASSUME NEW m \in Mutations, NEW v \in Values, Writes(m, v)
        PROVE  \E d \in Docs : Write(d, v)
    BY <2>3 DEF TypeOK, Job, Writes, Sent
  <2>4. \A d \in Docs : (Expire(d) => Forget(d)) /\ \A v \in Values : Others(d, v) => Write(d, v)
    BY DEF Expire, Others
  <2>5. UNCHANGED vars => UNCHANGED registerVars
    BY DEF vars
  <2> QED
    BY <2>1, <2>2, <2>3, <2>4, <2>5, ForeignDocs DEF Next, RegisterNext, Mutations
<1> QED
  BY <1>1, <1>2, InitType, NextType, PTL DEF Spec, RegisterSpec
=============================================================================
