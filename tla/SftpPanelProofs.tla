-------------------------- MODULE SftpPanelProofs ---------------------------
(***************************************************************************)
(* Theorems about the SFTP panel, for every set of hosts, folders, files   *)
(* and sockets, and any number of requests and answers under way.          *)
(***************************************************************************)
EXTENDS SftpPanel, SequenceTheorems, TLAPS

\* Only the panel's socket has answers to deliver, and only an open one, or one
\* the panel has closed, has requests to work off.
SocketsAgree ==
    /\ socket[ws].state \in {"connecting", "open", "ended"}
    /\ \A s \in Sockets :
        /\ s # ws => socket[s].state \in {"closed", "refused"} /\ socket[s].down = <<>>
        /\ socket[s].state \in {"connecting", "refused"} =>
              socket[s].up = <<>> /\ socket[s].down = <<>>
        /\ socket[s].state = "ended" => socket[s].up = <<>>

Here == shown = <<Host(ws), path>>

\* Before the socket is open there is nothing the user could have gone to.
Opening ==
    socket[ws].state = "connecting" => path = Root /\ asked = Root /\ entries = {}

PickedHere == upload # None => upload.moved \/ upload.place[1] = Host(ws)

\* Up and down are the requests and the answers of the panel's socket, T is the
\* tree of its host.  The last listing that is on its way down, or else the one
\* shown, is what the host holds ...
Tells(down, shownEntries, shownPath, T) ==
    \/ /\ shownEntries = T[shownPath]
       /\ \A i \in DOMAIN down : down[i].type # "listed"
    \/ \E i \in DOMAIN down :
        /\ down[i].type = "listed" /\ down[i].entries = T[down[i].dir]
        /\ \A j \in DOMAIN down : j > i => down[j].type # "listed"

\* ... unless another one is sure to come.
Covers(up, down, shownEntries, shownPath, T) ==
    \/ \E i \in DOMAIN up : up[i].op = "list"
    \/ \E i \in DOMAIN down : down[i].type \in {"written", "ok"}
    \/ Tells(down, shownEntries, shownPath, T)

Current ==
    socket[ws].state = "open" /\ ~excused =>
        Covers(socket[ws].up, socket[ws].down, entries, path, tree[Host(ws)])

\* From one place on, be it the listing shown, one on its way down or one still
\* requested, everything leads to the directory a; and nothing before that
\* place makes the panel list a directory again.
OnlyAsks(up, i, a) == \A j \in DOMAIN up : j > i /\ up[j].op = "list" => up[j].dir = a
OnlyTells(down, i, a) == \A j \in DOMAIN down : j > i /\ down[j].type = "listed" => down[j].dir = a
NoChangeAsked(up, i) == \A j \in DOMAIN up : j < i => up[j].op \notin {"writeFile", "remove"}
NoChangeTold(down, i) == \A j \in DOMAIN down : j < i => down[j].type \notin {"written", "ok"}

ShownLeads(up, down, shownPath, a) ==
    shownPath = a /\ OnlyTells(down, 0, a) /\ OnlyAsks(up, 0, a)

AnswerLeads(up, down, i, a) ==
    /\ down[i].type = "listed" /\ down[i].dir = a
    /\ NoChangeTold(down, i) /\ OnlyTells(down, i, a) /\ OnlyAsks(up, 0, a)

RequestLeads(up, down, i, a) ==
    /\ up[i].op = "list" /\ up[i].dir = a
    /\ NoChangeTold(down, Len(down) + 1) /\ NoChangeAsked(up, i) /\ OnlyAsks(up, i, a)

Leads(up, down, shownPath, a) ==
    \/ ShownLeads(up, down, shownPath, a)
    \/ \E i \in DOMAIN down : AnswerLeads(up, down, i, a)
    \/ \E i \in DOMAIN up : RequestLeads(up, down, i, a)

Navigated ==
    socket[ws].state = "open" /\ ~excused /\ ~crossed =>
        Leads(socket[ws].up, socket[ws].down, path, asked)

-----------------------------------------------------------------------------
(* Sequences, requests and answers.                                        *)

LEMMA HeadAndTail ==
    ASSUME NEW S, NEW q \in Seq(S), q # <<>>
    PROVE  /\ Head(q) \in S /\ Head(q) = q[1] /\ 1 \in DOMAIN q
           /\ Tail(q) \in Seq(S)
           /\ DOMAIN q = 1 .. Len(q) /\ Len(q) \in Nat
           /\ DOMAIN Tail(q) = 1 .. (Len(q) - 1)
           /\ \A i \in DOMAIN Tail(q) : Tail(q)[i] = q[i + 1] /\ i + 1 \in DOMAIN q
           /\ \A i \in DOMAIN q : i # 1 => i - 1 \in DOMAIN Tail(q) /\ Tail(q)[i - 1] = q[i]
  OBVIOUS

LEMMA AtTheEnd ==
    ASSUME NEW S, NEW q \in Seq(S), NEW e \in S
    PROVE  /\ Append(q, e) \in Seq(S) /\ Append(q, e) # <<>>
           /\ DOMAIN q = 1 .. Len(q) /\ Len(q) \in Nat
           /\ DOMAIN Append(q, e) = DOMAIN q \cup {Len(q) + 1}
           /\ Len(q) + 1 \in DOMAIN Append(q, e) /\ Len(q) + 1 \notin DOMAIN q
           /\ Append(q, e)[Len(q) + 1] = e
           /\ \A i \in DOMAIN q : Append(q, e)[i] = q[i] /\ i < Len(q) + 1
  OBVIOUS

LEMMA RequestFields ==
    ASSUME NEW m \in Request
    PROVE  /\ m.op \in {"list", "readFile", "remove", "writeFile"}
           /\ m.dir \in Directories
           /\ m.op # "list" => m.name \in Names
           /\ m.op = "writeFile" => m.picked \in Upload
  BY DEF Request, Names

LEMMA ReplyFields ==
    ASSUME NEW r \in Reply
    PROVE  /\ r.type \in {"error", "file", "written", "ok", "listed"}
           /\ r.type = "listed" => r.dir \in Directories /\ r.entries \in SUBSET Names
  BY DEF Reply

LEMMA Replies ==
    /\ \A t \in {"error", "file", "written", "ok"} : [type |-> t] \in Reply
    /\ \A d \in Directories, E \in SUBSET Names :
          [type |-> "listed", dir |-> d, entries |-> E] \in Reply
  BY DEF Reply

LEMMA Requests ==
    /\ \A d \in Directories : ListRequest(d) \in Request
    /\ \A d \in Directories, n \in Files :
          [op |-> "readFile", dir |-> d, name |-> n] \in Request
    /\ \A d \in Directories, n \in Names :
          [op |-> "remove", dir |-> d, name |-> n] \in Request
    /\ \A d \in Directories : upload \in Upload => WriteRequest(d) \in Request
  BY DEF Request, ListRequest, WriteRequest, Upload

LEMMA NothingQueued == <<>> \in Seq(Request) /\ <<>> \in Seq(Reply)
  OBVIOUS

LEMMA FreshType ==
    ASSUME NEW h \in Hosts
    PROVE  /\ Fresh(h) \in Session
           /\ [Fresh(h) EXCEPT !.state = "closed"] \in Session
  BY NothingQueued DEF Fresh, Session, SocketState

LEMMA DirectoryNames ==
    Root \in Directories /\ Folders \subseteq Directories
        /\ Files \subseteq Names /\ Folders \subseteq Names
  BY DEF Directories, Names

-----------------------------------------------------------------------------
(* What the steps do to the sockets.                                       *)

LEMMA SessionFields ==
    ASSUME TypeOK, NEW s \in Sockets
    PROVE  /\ socket[s] \in Session /\ socket[s].host \in Hosts
           /\ socket[s].up \in Seq(Request) /\ socket[s].down \in Seq(Reply)
           /\ socket[s].state \in SocketState
  BY DEF TypeOK, Session

\* A session works off the request at the head of its queue.
LEMMA AnswerStep ==
    ASSUME TypeOK, NEW s \in Sockets, socket[s].up # <<>>,
           NEW r \in Reply, Answer(s, r)
    PROVE  /\ socket' \in [Sockets -> Session]
           /\ \A t \in Sockets \ {s} : socket'[t] = socket[t]
           /\ socket'[s].host = socket[s].host /\ socket'[s].state = socket[s].state
           /\ socket'[s].up = Tail(socket[s].up)
           /\ socket'[s].down = IF socket[s].state = "open"
                                THEN Append(socket[s].down, r) ELSE socket[s].down
  <1> DEFINE down == IF socket[s].state = "open"
                     THEN Append(socket[s].down, r) ELSE socket[s].down
  <1>1. Tail(socket[s].up) \in Seq(Request)
    BY SessionFields, HeadAndTail
  <1>2. down \in Seq(Reply)
    BY SessionFields, AtTheEnd
  <1>3. socket' = [socket EXCEPT ![s].up = Tail(socket[s].up), ![s].down = down]
    BY DEF Answer
  <1>4. socket \in [Sockets -> Session]
    BY DEF TypeOK, Session
  <1> HIDE DEF down
  <1>5. /\ socket' \in [Sockets -> Session]
        /\ \A t \in Sockets \ {s} : socket'[t] = socket[t]
        /\ socket'[s].host = socket[s].host /\ socket'[s].state = socket[s].state
        /\ socket'[s].up = Tail(socket[s].up) /\ socket'[s].down = down
    BY <1>1, <1>2, <1>3, <1>4 DEF Session
  <1> QED
    BY <1>5 DEF down

\* What the answer says of the request, and of the tree of the host.
Fits(s, r) ==
    LET m == Head(socket[s].up) IN
    /\ r.type = "listed" =>
          /\ m.op = "list" /\ r.dir = m.dir /\ r.entries = tree[Host(s)][m.dir]
          /\ tree' = tree
    /\ r.type \in {"written", "ok"} => m.op \in {"writeFile", "remove"}
    /\ m.op = "list" /\ r.type # "listed" /\ s = ws => excused'
    /\ \A h \in Hosts \ {Host(s)} : tree'[h] = tree[h]
    /\ tree' # tree => excused' \/ (s = ws /\ r.type \in {"written", "ok"})
                          \/ Host(s) # Host(ws)

Serves(s, r) ==
    /\ r \in Reply /\ socket[s].up # <<>> /\ socket[s].state \in {"open", "closed"}
    /\ Answer(s, r) /\ Fits(s, r)
    /\ tree' \in [Hosts -> [Directories -> SUBSET Names]]
    /\ excused' \in BOOLEAN /\ (excused => excused')
    /\ UNCHANGED panel

LEMMA ServeStep ==
    ASSUME TypeOK, NEW s \in Sockets, Serve(s)
    PROVE  \E r \in Reply : Serves(s, r)
  <1> DEFINE m == Head(socket[s].up)
             file == [type |-> "file"]
             written == [type |-> "written"]
             ok == [type |-> "ok"]
             error == [type |-> "error"]
  <1>1. /\ socket[s].up # <<>> /\ socket[s].state \in {"open", "closed"}
        /\ m.op \in {"list", "readFile", "writeFile", "remove"}
    BY DEF Serve, ServeList, ServeRead, ServeWrite, ServeRemove, ServeFails, Asks
  <1>2. m \in Request /\ Host(s) \in Hosts /\ m.dir \in Directories
    BY <1>1, SessionFields, HeadAndTail, RequestFields DEF Host
  <1>3. file \in Reply /\ written \in Reply /\ ok \in Reply /\ error \in Reply
    BY Replies
  <1>4. tree \in [Hosts -> [Directories -> SUBSET Names]] /\ excused \in BOOLEAN
    BY DEF TypeOK
  <1>5. CASE ServeList(s)
    <2> DEFINE r == [type |-> "listed", dir |-> m.dir, entries |-> tree[Host(s)][m.dir]]
    <2>1. r \in Reply /\ Answer(s, r) /\ m.op = "list" /\ tree' = tree
            /\ excused' = excused /\ UNCHANGED panel
      BY <1>2, <1>4, <1>5, Replies DEF ServeList, Asks
    <2>2. Fits(s, r)
      BY <2>1 DEF Fits
    <2> QED
      BY <1>1, <1>4, <2>1, <2>2 DEF Serves
  <1>6. CASE ServeRead(s)
    <2>1. Answer(s, file) /\ m.op = "readFile" /\ tree' = tree
            /\ excused' = excused /\ UNCHANGED panel
      BY <1>6 DEF ServeRead, Asks
    <2>2. Fits(s, file)
      BY <2>1 DEF Fits
    <2> QED
      BY <1>1, <1>3, <1>4, <2>1, <2>2 DEF Serves
  <1>7. CASE ServeWrite(s)
    <2>1. m.op = "writeFile" /\ m.name \in Names /\ UNCHANGED panel
      BY <1>2, <1>7, RequestFields DEF ServeWrite, Asks
    <2>2. tree' = [tree EXCEPT ![Host(s)][m.dir] = @ \cup {m.name}]
      BY <1>7 DEF ServeWrite
    <2>3. /\ tree' \in [Hosts -> [Directories -> SUBSET Names]]
          /\ \A h \in Hosts \ {Host(s)} : tree'[h] = tree[h]
      BY <1>2, <1>4, <2>1, <2>2
    <2>4. CASE Answer(s, written) /\ excused' = (excused \/ Unseen(s))
      <3>1. Fits(s, written) /\ excused' \in BOOLEAN /\ (excused => excused')
        BY <1>4, <2>1, <2>3, <2>4 DEF Fits, Unseen
      <3> QED
        BY <1>1, <1>3, <2>1, <2>3, <2>4, <3>1 DEF Serves
    <2>5. CASE Answer(s, error) /\ excused' = (excused \/ s = ws \/ Unseen(s))
      <3>1. Fits(s, error) /\ excused' \in BOOLEAN /\ (excused => excused')
        BY <1>4, <2>1, <2>3, <2>5 DEF Fits, Unseen
      <3> QED
        BY <1>1, <1>3, <2>1, <2>3, <2>5, <3>1 DEF Serves
    <2> QED
      BY <1>7, <2>4, <2>5 DEF ServeWrite
  <1>8. CASE ServeRemove(s)
    <2>1. /\ m.op = "remove" /\ Answer(s, ok) /\ UNCHANGED panel
          /\ excused' = (excused \/ Unseen(s))
          /\ tree' = [tree EXCEPT ![Host(s)][m.dir] = @ \ {m.name}]
      BY <1>8 DEF ServeRemove, Asks
    <2>2. /\ tree' \in [Hosts -> [Directories -> SUBSET Names]]
          /\ \A h \in Hosts \ {Host(s)} : tree'[h] = tree[h]
      BY <1>2, <1>4, <2>1
    <2>3. Fits(s, ok) /\ excused' \in BOOLEAN /\ (excused => excused')
      BY <1>4, <2>1, <2>2 DEF Fits, Unseen
    <2> QED
      BY <1>1, <1>3, <2>1, <2>2, <2>3 DEF Serves
  <1>9. CASE ServeFails(s)
    <2>1. /\ Answer(s, error) /\ tree' = tree /\ UNCHANGED panel
          /\ excused' = (excused \/ (s = ws /\ Asks(s, "list")))
      BY <1>9 DEF ServeFails
    <2>2. Fits(s, error) /\ excused' \in BOOLEAN /\ (excused => excused')
      BY <1>1, <1>4, <2>1 DEF Fits, Asks
    <2> QED
      BY <1>1, <1>3, <1>4, <2>1, <2>2 DEF Serves
  <1> QED
    BY <1>5, <1>6, <1>7, <1>8, <1>9 DEF Serve

\* The panel sends a request, which an open socket takes.
LEMMA SendStep ==
    ASSUME TypeOK, NEW m \in Request, NEW sock \in [Sockets -> Session],
           socket' = With(sock, m)
    PROVE  /\ socket' \in [Sockets -> Session]
           /\ \A t \in Sockets \ {ws} : socket'[t] = sock[t]
           /\ socket'[ws].host = sock[ws].host /\ socket'[ws].state = sock[ws].state
           /\ socket'[ws].down = sock[ws].down
           /\ socket'[ws].up = IF sock[ws].state = "open"
                               THEN Append(sock[ws].up, m) ELSE sock[ws].up
  <1>1. ws \in Sockets /\ sock[ws].up \in Seq(Request)
    BY DEF TypeOK, Session
  <1>2. Append(sock[ws].up, m) \in Seq(Request)
    BY <1>1, AtTheEnd
  <1>3. CASE sock[ws].state = "open"
    <2>1. socket' = [sock EXCEPT ![ws].up = Append(sock[ws].up, m)]
      BY <1>3 DEF With
    <2> QED
      BY <1>1, <1>2, <1>3, <2>1 DEF Session
  <1>4. CASE sock[ws].state # "open"
    BY <1>4 DEF With
  <1> QED
    BY <1>3, <1>4

\* ws.onmessage takes the first answer.
LEMMA TakenStep ==
    ASSUME TypeOK, socket[ws].down # <<>>
    PROVE  /\ Taken \in [Sockets -> Session]
           /\ \A t \in Sockets \ {ws} : Taken[t] = socket[t]
           /\ Taken[ws].host = socket[ws].host /\ Taken[ws].state = socket[ws].state
           /\ Taken[ws].up = socket[ws].up
           /\ Taken[ws].down = Tail(socket[ws].down)
  <1>1. ws \in Sockets /\ socket \in [Sockets -> Session]
    BY DEF TypeOK, Session
  <1>2. Tail(socket[ws].down) \in Seq(Reply)
    BY <1>1, SessionFields, HeadAndTail
  <1> QED
    BY <1>1, <1>2 DEF Taken, Session

\* The panel is given another socket.
Switches(s, h) ==
    /\ socket[s].state = "closed" /\ socket[s].up = <<>> /\ ws' = s
    /\ socket' \in [Sockets -> Session]
    /\ socket'[s] = Fresh(h)
    /\ socket'[ws].host = socket[ws].host /\ socket'[ws].up = socket[ws].up
    /\ socket'[ws].state = IF socket[ws].state = "connecting" THEN "refused" ELSE "closed"
    /\ socket'[ws].down = <<>>
    /\ \A t \in Sockets \ {s, ws} : socket'[t] = socket[t]

LEMMA ReconnectStep ==
    ASSUME TypeOK, NEW h \in Hosts, Reconnect(h)
    PROVE  \E s \in Sockets \ {ws} : Switches(s, h)
  <1>1. PICK s \in Sockets \ {ws} :
            /\ socket[s].state = "closed" /\ socket[s].up = <<>> /\ ws' = s
            /\ socket' = [socket EXCEPT
                   ![s] = Fresh(h),
                   ![ws].state = IF @ = "connecting" THEN "refused" ELSE "closed",
                   ![ws].down = <<>>]
    BY DEF Reconnect
  <1> DEFINE fresh == Fresh(h)
             left == [socket[ws] EXCEPT
                        !.state = IF @ = "connecting" THEN "refused" ELSE "closed",
                        !.down = <<>>]
  <1>2. fresh \in Session /\ ws \in Sockets /\ socket \in [Sockets -> Session]
    BY FreshType DEF TypeOK
  <1>3. left \in Session
    BY <1>2, NothingQueued DEF Session, SocketState
  <1>4. /\ left.host = socket[ws].host /\ left.up = socket[ws].up /\ left.down = <<>>
        /\ left.state = IF socket[ws].state = "connecting" THEN "refused" ELSE "closed"
    BY <1>2 DEF Session
  <1>5. socket' = [socket EXCEPT ![s] = fresh, ![ws] = left]
    BY <1>1, <1>2
  <1> HIDE DEF fresh, left
  <1>6. /\ socket' \in [Sockets -> Session] /\ socket'[s] = fresh /\ socket'[ws] = left
        /\ \A t \in Sockets \ {s, ws} : socket'[t] = socket[t]
    BY <1>2, <1>3, <1>5
  <1> QED
    BY <1>1, <1>4, <1>6 DEF Switches, fresh

\* A switch resets what is shown; an upload that is being read survives it,
\* unless the panel is mounted anew.
Moves(h) ==
    /\ Reconnect(h) /\ Cleared(h) /\ tree' = tree
    /\ \/ upload' = Moved(h) /\ busy' = busy
       \/ upload' = None /\ busy' = FALSE

\* The user goes to the directory shown, or to another one.
Goes(d) == Go(d) /\ (d = path \/ entries # {} \/ path # Root)

Acts(m) == Act(m) /\ m.op \in {"readFile", "remove"}

LEMMA NextCases ==
    ASSUME TypeOK, Next
    PROVE  \/ \E s \in Sockets : \/ \E r \in Reply : Serves(s, r)
                                \/ SessionEnds(s) \/ LeftIsLost(s) \/ RefusedError(s)
           \/ OnOpen \/ OnError \/ OnListed \/ OnFileOrError \/ OnDone \/ SendUpload
           \/ \E h \in Hosts : Moves(h)
           \/ \E d \in Directories : Goes(d)
           \/ \E m \in Request : Acts(m)
           \/ \E n \in Files : PickUpload(n)
  <1>1. path \in Directories
    BY DEF TypeOK
  <1>2. ASSUME NEW s \in Sockets, Serve(s)
        PROVE  \E r \in Reply : Serves(s, r)
    BY <1>2, ServeStep
  <1>3. ASSUME NEW h \in Hosts, Retarget(h) \/ Remount(h)
        PROVE  Moves(h)
    BY <1>3 DEF Retarget, Remount, Moves
  <1>4. CASE Refresh
    BY <1>1, <1>4 DEF Refresh, Goes
  <1>5. CASE GoUp
    BY <1>5, DirectoryNames DEF GoUp, Goes
  <1>6. ASSUME NEW f \in Folders, Cd(f)
        PROVE  \E d \in Directories : Goes(d)
    BY <1>6, DirectoryNames DEF Cd, Goes
  <1>7. ASSUME NEW n \in Files, DownloadFile(n)
        PROVE  \E m \in Request : Acts(m)
    <2> DEFINE m == [op |-> "readFile", dir |-> path, name |-> n]
    <2>1. m \in Request /\ m.op = "readFile" /\ Act(m)
      BY <1>1, <1>7, Requests DEF DownloadFile
    <2> QED
      BY <2>1 DEF Acts
  <1>8. ASSUME NEW n \in Names, RemoveEntry(n)
        PROVE  \E m \in Request : Acts(m)
    <2> DEFINE m == [op |-> "remove", dir |-> path, name |-> n]
    <2>1. m \in Request /\ m.op = "remove" /\ Act(m)
      BY <1>1, <1>8, Requests DEF RemoveEntry
    <2> QED
      BY <2>1 DEF Acts
  <1> QED
    BY <1>2, <1>3, <1>4, <1>5, <1>6, <1>7, <1>8 DEF Next, User, OnMessage

-----------------------------------------------------------------------------
LEMMA InitType == Init => TypeOK
<1> SUFFICES ASSUME Init PROVE TypeOK
  OBVIOUS
<1>1. PICK h \in Hosts : /\ socket = [s \in Sockets |->
                              IF s = ws THEN Fresh(h) ELSE [Fresh(h) EXCEPT !.state = "closed"]]
                         /\ shown = <<h, Root>>
  BY DEF Init
<1>2. Fresh(h) \in Session /\ [Fresh(h) EXCEPT !.state = "closed"] \in Session
  BY FreshType
<1>3. socket \in [Sockets -> Session]
  BY <1>1, <1>2
<1>4. tree \in [Hosts -> [Directories -> SUBSET Names]]
  BY DEF Init
<1> QED
  BY <1>1, <1>3, <1>4, DirectoryNames DEF Init, TypeOK, Place

\* An answer that a message carries is one, and the socket is left one shorter.
LEMMA DeliversType ==
    ASSUME TypeOK, NEW t, Delivers(t)
    PROVE  /\ socket[ws].down # <<>> /\ Head(socket[ws].down) \in Reply
           /\ Head(socket[ws].down).type = t
           /\ Taken \in [Sockets -> Session]
  <1>1. ws \in Sockets
    BY DEF TypeOK
  <1> QED
    BY <1>1, SessionFields, HeadAndTail, TakenStep DEF Delivers

LEMMA NextType == TypeOK /\ [Next]_vars => TypeOK'
<1> SUFFICES ASSUME TypeOK, [Next]_vars PROVE TypeOK'
  OBVIOUS
<1> USE DEF TypeOK
<1>1. ASSUME NEW s \in Sockets, NEW r \in Reply, Serves(s, r)
      PROVE  TypeOK'
  <2>1. socket' \in [Sockets -> Session]
    BY <1>1, AnswerStep DEF Serves
  <2> QED
    BY <1>1, <2>1 DEF Serves, panel
<1>2. ASSUME NEW s \in Sockets, SessionEnds(s)
      PROVE  TypeOK'
  <2>1. PICK last \in {<<>>, <<[type |-> "error"]>>} :
            socket' = [socket EXCEPT ![s].state = "ended", ![s].up = <<>>,
                                     ![s].down = @ \o last]
    BY <1>2 DEF SessionEnds
  <2>2. last \in Seq(Reply)
    <3>1. <<[type |-> "error"]>> \in Seq(Reply)
      BY Replies
    <3> QED
      BY <3>1, NothingQueued
  <2>3. socket[s].down \o last \in Seq(Reply)
    BY <2>2, SessionFields
  <2>4. socket' \in [Sockets -> Session]
    BY <2>1, <2>3, NothingQueued DEF Session, SocketState
  <2> QED
    BY <1>2, <2>4 DEF SessionEnds, panel
<1>3. ASSUME NEW s \in Sockets, LeftIsLost(s)
      PROVE  TypeOK'
  <2>1. socket' \in [Sockets -> Session]
    BY <1>3, NothingQueued DEF LeftIsLost, Session
  <2> QED
    BY <1>3, <2>1 DEF LeftIsLost, panel
<1>4. ASSUME NEW s \in Sockets, RefusedError(s)
      PROVE  TypeOK'
  BY <1>4 DEF RefusedError, Session, SocketState
<1>5. CASE OnOpen
  <2>1. <<[op |-> "list", dir |-> Root]>> \in Seq(Request)
    BY Requests, DirectoryNames DEF ListRequest
  <2>2. socket' \in [Sockets -> Session]
    BY <1>5, <2>1 DEF OnOpen, Session, SocketState
  <2> QED
    BY <1>5, <2>2 DEF OnOpen, panel
<1>6. CASE OnError
  BY <1>6 DEF OnError, Session, SocketState
<1>7. CASE OnListed
  <2> DEFINE m == Head(socket[ws].down)
  <2>1. m \in Reply /\ m.type = "listed" /\ Taken \in [Sockets -> Session]
    BY <1>7, DeliversType DEF OnListed, Receive
  <2>2. m.dir \in Directories /\ m.entries \in SUBSET Names
    BY <2>1, ReplyFields
  <2>3. /\ path' = m.dir /\ entries' = m.entries /\ shown' = <<Host(ws), m.dir>>
        /\ socket' = Taken /\ busy' = FALSE
        /\ UNCHANGED <<tree, ws, upload, asked, crossed, excused>>
    BY <1>7 DEF OnListed, Receive
  <2>4. shown' \in Place
    BY <2>2, <2>3, SessionFields DEF Host, Place
  <2> HIDE DEF m
  <2> QED
    BY <2>1, <2>2, <2>3, <2>4
<1>8. CASE OnFileOrError
  <2>1. Taken \in [Sockets -> Session]
    BY <1>8, DeliversType DEF OnFileOrError, Receive
  <2> QED
    BY <1>8, <2>1 DEF OnFileOrError, Receive
<1>9. CASE OnDone
  <2>1. Taken \in [Sockets -> Session]
    BY <1>9, DeliversType DEF OnDone, Receive
  <2>2. socket' \in [Sockets -> Session]
    BY <1>9, <2>1, SendStep, Requests DEF OnDone
  <2> QED
    BY <1>9, <2>2 DEF OnDone, Receive
<1>10. CASE SendUpload
  <2>1. upload \in Upload /\ upload.place[2] \in Directories
    BY <1>10 DEF SendUpload, Upload, Place
  <2>2. WriteRequest(upload.place[2]) \in Request
    BY <2>1, Requests
  <2>3. socket' \in [Sockets -> Session]
    BY <1>10, <2>2, SendStep DEF SendUpload, Send
  <2> QED
    BY <1>10, <2>3 DEF SendUpload, Send
<1>11. ASSUME NEW h \in Hosts, Moves(h)
       PROVE  TypeOK'
  <2>1. socket' \in [Sockets -> Session] /\ ws' \in Sockets
    BY <1>11, ReconnectStep DEF Moves, Switches
  <2>2. upload' \in {None} \cup Upload
    BY <1>11 DEF Moves, Moved, Upload, Place
  <2>3. /\ path' \in Directories /\ entries' \in SUBSET Names /\ shown' \in Place
        /\ asked' \in Directories /\ crossed' \in BOOLEAN /\ excused' \in BOOLEAN
    BY <1>11, DirectoryNames DEF Moves, Cleared, Place
  <2> QED
    BY <1>11, <2>1, <2>2, <2>3 DEF Moves
<1>12. ASSUME NEW d \in Directories, Goes(d)
       PROVE  TypeOK'
  <2>1. socket' \in [Sockets -> Session]
    BY <1>12, SendStep, Requests DEF Goes, Go, Send
  <2>2. crossed' \in BOOLEAN /\ excused' \in BOOLEAN
    BY <1>12 DEF Goes, Go
  <2> QED
    BY <1>12, <2>1, <2>2 DEF Goes, Go, Send
<1>13. ASSUME NEW m \in Request, Acts(m)
       PROVE  TypeOK'
  <2>1. socket' \in [Sockets -> Session]
    BY <1>13, SendStep DEF Acts, Act, Send
  <2> QED
    BY <1>13, <2>1 DEF Acts, Act, Send
<1>14. ASSUME NEW n \in Files, PickUpload(n)
       PROVE  TypeOK'
  <2>1. <<Host(ws), path>> \in Place
    BY SessionFields DEF Host, Place
  <2>2. upload' \in Upload
    BY <1>14, <2>1 DEF PickUpload, Upload
  <2> QED
    BY <1>14, <2>2 DEF PickUpload
<1>15. CASE UNCHANGED vars
  BY <1>15 DEF vars
<1> QED
  BY <1>1, <1>2, <1>3, <1>4, <1>5, <1>6, <1>7, <1>8, <1>9, <1>10, <1>11, <1>12,
     <1>13, <1>14, <1>15, NextCases

\* Whatever messages are under way when the target changes, every request and
\* answer is a well-formed one, and an upload keeps the place it was picked for.
THEOREM PanelTypeCorrect == Spec => []TypeOK
<1> QED
  BY InitType, NextType, PTL DEF Spec

-----------------------------------------------------------------------------
(* The sockets, and what goes with the panel's own.                        *)

LEMMA InitAgrees ==
    Init => SocketsAgree /\ Here /\ Opening /\ PickedHere
<1> SUFFICES ASSUME Init PROVE SocketsAgree /\ Here /\ Opening /\ PickedHere
  OBVIOUS
<1>1. PICK h \in Hosts : /\ socket = [s \in Sockets |->
                              IF s = ws THEN Fresh(h) ELSE [Fresh(h) EXCEPT !.state = "closed"]]
                         /\ shown = <<h, Root>>
  BY DEF Init
<1>2. ws \in Sockets /\ path = Root /\ asked = Root /\ entries = {} /\ upload = None
  BY DEF Init
<1>3. socket[ws] = Fresh(h)
  BY <1>1, <1>2
<1>4. \A s \in Sockets \ {ws} : socket[s] = [Fresh(h) EXCEPT !.state = "closed"]
  BY <1>1
<1>5. SocketsAgree
  BY <1>2, <1>3, <1>4 DEF SocketsAgree, Fresh
<1> QED
  BY <1>1, <1>2, <1>3, <1>5 DEF Here, Opening, PickedHere, Host, Fresh

LEMMA NextAgrees == TypeOK /\ SocketsAgree /\ [Next]_vars => SocketsAgree'
<1> SUFFICES ASSUME TypeOK, SocketsAgree, [Next]_vars PROVE SocketsAgree'
  OBVIOUS
<1> USE DEF SocketsAgree
<1>0. ws \in Sockets /\ socket \in [Sockets -> Session]
  BY DEF TypeOK
<1>1. ASSUME NEW s \in Sockets, NEW r \in Reply, Serves(s, r)
      PROVE  SocketsAgree'
  <2>1. /\ \A t \in Sockets \ {s} : socket'[t] = socket[t]
        /\ socket'[s].state = socket[s].state
        /\ socket[s].state # "open" => socket'[s].down = socket[s].down
    BY <1>1, AnswerStep DEF Serves
  <2>2. ws' = ws /\ socket[s].state \in {"open", "closed"}
    BY <1>1 DEF Serves, panel
  <2> QED
    BY <1>0, <2>1, <2>2
<1>2. ASSUME NEW s \in Sockets, SessionEnds(s)
      PROVE  SocketsAgree'
  <2>1. s = ws /\ ws' = ws
    BY <1>2 DEF SessionEnds, panel
  <2>2. /\ \A t \in Sockets \ {s} : socket'[t] = socket[t]
        /\ socket'[s].state = "ended" /\ socket'[s].up = <<>>
    BY <1>0, <1>2 DEF SessionEnds, Session
  <2> QED
    BY <1>0, <2>1, <2>2
<1>3. ASSUME NEW s \in Sockets, LeftIsLost(s)
      PROVE  SocketsAgree'
  <2>1. s # ws /\ ws' = ws
    BY <1>3 DEF LeftIsLost, panel
  <2>2. /\ \A t \in Sockets \ {s} : socket'[t] = socket[t]
        /\ socket'[s].state = "closed" /\ socket'[s].down = socket[s].down
    BY <1>0, <1>3 DEF LeftIsLost, Session
  <2> QED
    BY <1>0, <2>1, <2>2
<1>4. ASSUME NEW s \in Sockets, RefusedError(s)
      PROVE  SocketsAgree'
  <2>1. s # ws /\ ws' = ws
    BY <1>4 DEF RefusedError
  <2>2. /\ \A t \in Sockets \ {s} : socket'[t] = socket[t]
        /\ socket'[s].state = "closed" /\ socket'[s].down = socket[s].down
    BY <1>0, <1>4 DEF RefusedError, Session
  <2> QED
    BY <1>0, <2>1, <2>2
<1>5. CASE OnOpen
  <2>1. /\ \A t \in Sockets \ {ws} : socket'[t] = socket[t]
        /\ socket'[ws].state = "open" /\ ws' = ws
    BY <1>0, <1>5 DEF OnOpen, panel, Session
  <2> QED
    BY <1>0, <2>1
<1>6. CASE OnError
  <2>1. /\ \A t \in Sockets \ {ws} : socket'[t] = socket[t]
        /\ socket'[ws].state = "ended" /\ ws' = ws
        /\ socket'[ws].up = socket[ws].up /\ socket[ws].state = "connecting"
    BY <1>0, <1>6 DEF OnError, Session
  <2> QED
    BY <1>0, <2>1
<1>7. ASSUME socket[ws].down # <<>>, socket' = Taken, ws' = ws,
             socket[ws].state \in {"open", "ended"}
      PROVE  SocketsAgree'
  BY <1>0, <1>7, TakenStep
<1>8. CASE OnDone
  <2>1. /\ socket[ws].down # <<>> /\ ws' = ws /\ socket' = With(Taken, ListRequest(path))
        /\ socket[ws].state \in {"open", "ended"}
    BY <1>8 DEF OnDone, Receive, Delivers
  <2>2. ListRequest(path) \in Request
    BY Requests DEF TypeOK
  <2> QED
    BY <1>0, <2>1, <2>2, TakenStep, SendStep
<1>9. ASSUME NEW m \in Request, Send(m), ws' = ws
      PROVE  SocketsAgree'
  <2>1. socket' = With(socket, m)
    BY <1>9 DEF Send
  <2> QED
    BY <1>0, <1>9, <2>1, SendStep
<1>10. CASE SendUpload
  <2>1. upload \in Upload /\ upload.place[2] \in Directories
    BY <1>10 DEF SendUpload, Upload, Place, TypeOK
  <2> QED
    BY <1>9, <1>10, <2>1, Requests DEF SendUpload
<1>11. ASSUME NEW h \in Hosts, Moves(h)
       PROVE  SocketsAgree'
  <2>1. PICK s \in Sockets \ {ws} : Switches(s, h)
    BY <1>11, ReconnectStep DEF Moves
  <2> QED
    BY <1>0, <2>1 DEF Switches, Fresh
<1>12. ASSUME NEW d \in Directories, Goes(d)
       PROVE  SocketsAgree'
  BY <1>9, <1>12, Requests DEF Goes, Go
<1>13. ASSUME NEW m \in Request, Acts(m)
       PROVE  SocketsAgree'
  BY <1>9, <1>13 DEF Acts, Act
<1>14. ASSUME UNCHANGED <<socket, ws>>
       PROVE  SocketsAgree'
  BY <1>14
<1> QED
  BY <1>1, <1>2, <1>3, <1>4, <1>5, <1>6, <1>7, <1>8, <1>10, <1>11, <1>12, <1>13,
     <1>14, NextCases
     DEF OnListed, OnFileOrError, Receive, Delivers, PickUpload, vars

\* A socket keeps its host until the panel takes it for a new one.
LEMMA NextHosts ==
    ASSUME TypeOK, [Next]_vars, ~ \E h \in Hosts : Moves(h)
    PROVE  ws' = ws /\ \A s \in Sockets : socket'[s].host = socket[s].host
<1>0. ws \in Sockets /\ socket \in [Sockets -> Session] /\ path \in Directories
  BY DEF TypeOK
<1>1. ASSUME NEW m \in Request, socket' = With(socket, m)
      PROVE  \A s \in Sockets : socket'[s].host = socket[s].host
  BY <1>0, <1>1, SendStep
<1>2. CASE SendUpload
  <2>1. upload \in Upload /\ upload.place[2] \in Directories
    BY <1>2 DEF SendUpload, Upload, Place, TypeOK
  <2> QED
    BY <1>1, <1>2, <2>1, Requests DEF SendUpload, Send
<1>3. ASSUME NEW d \in Directories, Goes(d)
      PROVE  ws' = ws /\ \A s \in Sockets : socket'[s].host = socket[s].host
  BY <1>1, <1>3, Requests DEF Goes, Go, Send
<1>4. ASSUME NEW m \in Request, Acts(m)
      PROVE  ws' = ws /\ \A s \in Sockets : socket'[s].host = socket[s].host
  BY <1>1, <1>4 DEF Acts, Act, Send
<1>5. ASSUME socket[ws].down # <<>>
      PROVE  \A s \in Sockets : /\ Taken[s].host = socket[s].host
                                /\ With(Taken, ListRequest(path))[s].host = socket[s].host
  BY <1>0, <1>5, TakenStep DEF With, Session
<1>6. CASE OnListed \/ OnFileOrError \/ OnDone
  BY <1>5, <1>6 DEF OnListed, OnFileOrError, OnDone, Receive, Delivers
<1>7. ASSUME NEW s \in Sockets, NEW r \in Reply, Serves(s, r)
      PROVE  ws' = ws /\ \A t \in Sockets : socket'[t].host = socket[t].host
  BY <1>7, AnswerStep DEF Serves, panel
<1>8. ASSUME NEW s \in Sockets, SessionEnds(s) \/ LeftIsLost(s) \/ RefusedError(s)
      PROVE  ws' = ws /\ \A t \in Sockets : socket'[t].host = socket[t].host
  <2>1. CASE SessionEnds(s)
    BY <1>0, <2>1 DEF SessionEnds, panel, Session
  <2>2. CASE LeftIsLost(s)
    BY <1>0, <2>2 DEF LeftIsLost, panel, Session
  <2>3. CASE RefusedError(s)
    BY <1>0, <2>3 DEF RefusedError, Session
  <2> QED
    BY <1>8, <2>1, <2>2, <2>3
<1>9. CASE OnOpen \/ OnError
  <2>1. CASE OnOpen
    BY <1>0, <2>1 DEF OnOpen, panel, Session
  <2>2. CASE OnError
    BY <1>0, <2>2 DEF OnError, Session
  <2> QED
    BY <1>9, <2>1, <2>2
<1> QED
  BY <1>2, <1>3, <1>4, <1>6, <1>7, <1>8, <1>9, NextCases DEF PickUpload, vars

\* What is shown goes with the panel's socket, and so does a picked upload.
LEMMA NextHere == TypeOK /\ Here /\ PickedHere /\ [Next]_vars => Here' /\ PickedHere'
<1> SUFFICES ASSUME TypeOK, Here, PickedHere, [Next]_vars
             PROVE  Here' /\ PickedHere'
  OBVIOUS
<1>0. ws \in Sockets /\ upload \in {None} \cup Upload
  BY DEF TypeOK
<1>1. ASSUME NEW h \in Hosts, Moves(h)
      PROVE  Here' /\ PickedHere'
  <2>1. PICK s \in Sockets \ {ws} : Switches(s, h)
    BY <1>1, ReconnectStep DEF Moves
  <2>2. Host(ws)' = h
    BY <2>1 DEF Switches, Fresh, Host
  <2>3. shown' = <<h, Root>> /\ path' = Root
    BY <1>1 DEF Moves, Cleared
  <2>4. upload' = None \/ (upload \in Upload /\ upload' = [upload EXCEPT !.moved = @ \/ h # upload.place[1]])
    BY <1>0, <1>1 DEF Moves, Moved
  <2>5. PickedHere'
    BY <2>2, <2>4 DEF PickedHere, Upload
  <2> QED
    BY <2>2, <2>3, <2>5 DEF Here
<1>2. CASE ~ \E h \in Hosts : Moves(h)
  <2>1. Host(ws)' = Host(ws)
    BY <1>0, <1>2, NextHosts DEF Host
  <2> USE DEF Here, PickedHere
  <2>2. ASSUME NEW s \in Sockets, NEW r \in Reply, Serves(s, r)
        PROVE  Here' /\ PickedHere'
    BY <2>1, <2>2 DEF Serves, panel
  <2>3. ASSUME NEW s \in Sockets, SessionEnds(s) \/ LeftIsLost(s) \/ RefusedError(s)
        PROVE  Here' /\ PickedHere'
    BY <2>1, <2>3 DEF SessionEnds, LeftIsLost, RefusedError, panel
  <2>4. CASE OnOpen \/ OnError \/ OnFileOrError \/ OnDone \/ OnListed
    BY <2>1, <2>4 DEF OnOpen, OnError, OnFileOrError, OnDone, OnListed, panel
  <2>5. CASE SendUpload
    BY <2>1, <2>5 DEF SendUpload
  <2>6. ASSUME NEW d \in Directories, Goes(d)
        PROVE  Here' /\ PickedHere'
    BY <2>1, <2>6 DEF Goes, Go
  <2>7. ASSUME NEW m \in Request, Acts(m)
        PROVE  Here' /\ PickedHere'
    BY <2>1, <2>7 DEF Acts, Act
  <2>8. ASSUME NEW n \in Files, PickUpload(n)
        PROVE  Here' /\ PickedHere'
    BY <2>1, <2>8 DEF PickUpload
  <2>9. CASE UNCHANGED vars
    BY <2>9 DEF vars, Host
  <2> QED
    BY <1>2, <2>2, <2>3, <2>4, <2>5, <2>6, <2>7, <2>8, <2>9, NextCases
<1> QED
  BY <1>1, <1>2

\* Until the socket is open the panel shows the root, and nothing in it.
LEMMA NextOpening ==
    TypeOK /\ SocketsAgree /\ Opening /\ [Next]_vars => Opening'
<1> SUFFICES ASSUME TypeOK, SocketsAgree, Opening, [Next]_vars,
                    socket'[ws'].state = "connecting"
             PROVE  path' = Root /\ asked' = Root /\ entries' = {}
  BY DEF Opening
<1>0. ws \in Sockets /\ socket \in [Sockets -> Session] /\ path \in Directories
  BY DEF TypeOK
<1>1. ASSUME NEW h \in Hosts, Moves(h)
      PROVE  path' = Root /\ asked' = Root /\ entries' = {}
  BY <1>1 DEF Moves, Cleared
<1>2. ASSUME NEW s \in Sockets, NEW r \in Reply, Serves(s, r)
      PROVE  path' = Root /\ asked' = Root /\ entries' = {}
  <2>1. socket'[ws].state = socket[ws].state /\ ws' = ws
    BY <1>0, <1>2, AnswerStep DEF Serves, panel
  <2> QED
    BY <1>2, <2>1 DEF Serves, panel, Opening
<1>3. ASSUME NEW s \in Sockets, SessionEnds(s) \/ LeftIsLost(s) \/ RefusedError(s)
      PROVE  path' = Root /\ asked' = Root /\ entries' = {}
  <2>1. CASE SessionEnds(s)
    BY <1>0, <2>1 DEF SessionEnds, panel, Session, Opening
  <2>2. CASE LeftIsLost(s)
    BY <1>0, <2>2 DEF LeftIsLost, panel, Session, Opening
  <2>3. CASE RefusedError(s)
    BY <1>0, <2>3 DEF RefusedError, Session, Opening
  <2> QED
    BY <1>3, <2>1, <2>2, <2>3
<1>4. CASE OnOpen
  BY <1>0, <1>4 DEF OnOpen, panel, Session
<1>5. CASE OnError
  BY <1>0, <1>5 DEF OnError, Session
<1>6. ASSUME socket[ws].down # <<>>, ws' = ws, socket[ws].state # "connecting",
             socket' = Taken \/ socket' = With(Taken, ListRequest(path))
      PROVE  FALSE
  BY <1>0, <1>6, TakenStep DEF With, Session
<1>7. CASE OnListed \/ OnFileOrError \/ OnDone
  BY <1>6, <1>7 DEF OnListed, OnFileOrError, OnDone, Receive, Delivers
<1>8. ASSUME NEW m \in Request, Send(m), ws' = ws
      PROVE  socket[ws].state = "connecting"
  BY <1>0, <1>8, SendStep DEF Send
<1>9. CASE SendUpload
  <2>1. upload \in Upload /\ upload.place[2] \in Directories
    BY <1>9 DEF SendUpload, Upload, Place, TypeOK
  <2> QED
    BY <1>8, <1>9, <2>1, Requests DEF SendUpload, Opening
<1>10. ASSUME NEW d \in Directories, Goes(d)
       PROVE  path' = Root /\ asked' = Root /\ entries' = {}
  BY <1>8, <1>10, Requests DEF Goes, Go, Opening
<1>11. ASSUME NEW m \in Request, Acts(m)
       PROVE  path' = Root /\ asked' = Root /\ entries' = {}
  BY <1>8, <1>11 DEF Acts, Act, Opening
<1>12. ASSUME NEW n \in Files, PickUpload(n)
       PROVE  path' = Root /\ asked' = Root /\ entries' = {}
  BY <1>12 DEF PickUpload, Opening
<1>13. CASE UNCHANGED vars
  BY <1>13 DEF vars, Opening
<1> QED
  BY <1>1, <1>2, <1>3, <1>4, <1>5, <1>7, <1>9, <1>10, <1>11, <1>12, <1>13, NextCases

PanelAgrees == SocketsAgree /\ Here /\ Opening /\ PickedHere

LEMMA SpecAgrees == Spec => [](TypeOK /\ PanelAgrees)
<1>1. Init => PanelAgrees
  BY InitAgrees DEF PanelAgrees
<1>2. TypeOK /\ PanelAgrees /\ [Next]_vars => PanelAgrees'
  BY NextAgrees, NextHere, NextOpening DEF PanelAgrees
<1> QED
  BY <1>1, <1>2, InitType, NextType, PTL DEF Spec

\* No target switch, however late the old host's answers are, leaves the panel
\* showing entries of another host or directory than the one it acts on.
THEOREM PanelShownIsHere == Spec => []ShownIsHere
<1>1. PanelAgrees => ShownIsHere
  BY DEF PanelAgrees, Here, ShownIsHere
<1> QED
  BY <1>1, SpecAgrees, PTL

-----------------------------------------------------------------------------
(* Uploads.                                                                *)

\* An upload that is asked of a host goes where it was picked.
Lands(m, h) ==
    m.op = "writeFile" => m.picked.moved \/ m.picked.place = <<h, m.dir>>

AllLand(q, h) == \A i \in DOMAIN q : Lands(q[i], h)

LEMMA UploadsAre == UploadsLand <=> \A s \in Sockets : AllLand(socket[s].up, socket[s].host)
  BY DEF UploadsLand, AllLand, Lands, Host

LEMMA UploadsWillBe ==
    UploadsLand' <=> \A s \in Sockets : AllLand(socket'[s].up, socket'[s].host)
  BY DEF UploadsLand, AllLand, Lands, Host

LEMMA NoneLand == \A h : AllLand(<<>>, h)
  BY DEF AllLand

LEMMA TailLands ==
    ASSUME NEW q \in Seq(Request), NEW h, q # <<>>, AllLand(q, h)
    PROVE  AllLand(Tail(q), h)
  BY HeadAndTail DEF AllLand

LEMMA OneMoreLands ==
    ASSUME NEW q \in Seq(Request), NEW h, AllLand(q, h),
           NEW m \in Request, Lands(m, h)
    PROVE  AllLand(Append(q, m), h)
  BY AtTheEnd DEF AllLand

LEMMA InitLands == Init => UploadsLand
<1> SUFFICES ASSUME Init, NEW s \in Sockets PROVE AllLand(socket[s].up, socket[s].host)
  BY UploadsAre
<1>1. socket[s].up = <<>>
  BY DEF Init, Fresh
<1> QED
  BY <1>1, NoneLand

LEMMA SendLands ==
    ASSUME TypeOK, UploadsLand, NEW m \in Request, Lands(m, Host(ws)),
           NEW sock \in [Sockets -> Session], socket' = With(sock, m),
           \A s \in Sockets : sock[s].up = socket[s].up /\ sock[s].host = socket[s].host
    PROVE  UploadsLand'
  <1>1. ws \in Sockets /\ \A s \in Sockets : AllLand(socket[s].up, socket[s].host)
    BY UploadsAre DEF TypeOK
  <1>2. AllLand(Append(sock[ws].up, m), sock[ws].host)
    BY <1>1, SessionFields, OneMoreLands DEF Host
  <1>3. \A s \in Sockets : AllLand(socket'[s].up, socket'[s].host)
    BY <1>1, <1>2, SendStep
  <1> QED
    BY <1>3, UploadsWillBe

LEMMA NextLands ==
    TypeOK /\ PickedHere /\ UploadsLand /\ [Next]_vars => UploadsLand'
<1> SUFFICES ASSUME TypeOK, PickedHere, UploadsLand, [Next]_vars
             PROVE  UploadsLand'
  OBVIOUS
<1>0. /\ ws \in Sockets /\ socket \in [Sockets -> Session] /\ path \in Directories
      /\ \A s \in Sockets : AllLand(socket[s].up, socket[s].host)
  BY UploadsAre DEF TypeOK
<1>1. ASSUME NEW s \in Sockets, NEW r \in Reply, Serves(s, r)
      PROVE  UploadsLand'
  <2>1. AllLand(Tail(socket[s].up), socket[s].host)
    BY <1>0, <1>1, SessionFields, TailLands DEF Serves
  <2>2. \A t \in Sockets : AllLand(socket'[t].up, socket'[t].host)
    BY <1>0, <1>1, <2>1, AnswerStep DEF Serves
  <2> QED
    BY <2>2, UploadsWillBe
<1>2. ASSUME NEW s \in Sockets, socket'[s].up = socket[s].up \/ socket'[s].up = <<>>,
             socket'[s].host = socket[s].host,
             \A t \in Sockets \ {s} : socket'[t] = socket[t]
      PROVE  UploadsLand'
  <2>1. \A t \in Sockets : AllLand(socket'[t].up, socket'[t].host)
    BY <1>0, <1>2, NoneLand
  <2> QED
    BY <2>1, UploadsWillBe
<1>3. ASSUME NEW s \in Sockets, SessionEnds(s)
      PROVE  UploadsLand'
  <2>1. socket'[s].up = <<>> /\ socket'[s].host = socket[s].host
          /\ \A t \in Sockets \ {s} : socket'[t] = socket[t]
    BY <1>0, <1>3 DEF SessionEnds, Session
  <2> QED
    BY <1>2, <2>1
<1>4. ASSUME NEW s \in Sockets, LeftIsLost(s)
      PROVE  UploadsLand'
  <2>1. socket'[s].up = <<>> /\ socket'[s].host = socket[s].host
          /\ \A t \in Sockets \ {s} : socket'[t] = socket[t]
    BY <1>0, <1>4 DEF LeftIsLost, Session
  <2> QED
    BY <1>2, <2>1
<1>5. ASSUME NEW s \in Sockets, RefusedError(s)
      PROVE  UploadsLand'
  <2>1. socket'[s].up = socket[s].up /\ socket'[s].host = socket[s].host
          /\ \A t \in Sockets \ {s} : socket'[t] = socket[t]
    BY <1>0, <1>5 DEF RefusedError, Session
  <2> QED
    BY <1>2, <2>1
<1>6. CASE OnOpen
  <2> DEFINE m == [op |-> "list", dir |-> Root]
  <2>1. /\ socket'[ws].up = <<m>> /\ socket'[ws].host = socket[ws].host
        /\ \A t \in Sockets \ {ws} : socket'[t] = socket[t]
    BY <1>0, <1>6 DEF OnOpen, Session
  <2>2. AllLand(<<m>>, socket[ws].host)
    BY DEF AllLand, Lands
  <2>3. \A t \in Sockets : AllLand(socket'[t].up, socket'[t].host)
    BY <1>0, <2>1, <2>2
  <2> QED
    BY <2>3, UploadsWillBe
<1>7. CASE OnError
  <2>1. socket'[ws].up = socket[ws].up /\ socket'[ws].host = socket[ws].host
          /\ \A t \in Sockets \ {ws} : socket'[t] = socket[t]
    BY <1>0, <1>7 DEF OnError, Session
  <2> QED
    BY <1>0, <1>2, <2>1
<1>8. ASSUME socket[ws].down # <<>>, socket' = Taken
      PROVE  UploadsLand'
  BY <1>0, <1>2, <1>8, TakenStep
<1>9. CASE OnDone
  <2>1. ListRequest(path) \in Request /\ Lands(ListRequest(path), Host(ws))
    BY <1>0, Requests DEF ListRequest, Lands
  <2>2. socket[ws].down # <<>> /\ socket' = With(Taken, ListRequest(path))
    BY <1>9 DEF OnDone, Receive, Delivers
  <2>3. /\ Taken \in [Sockets -> Session]
        /\ \A s \in Sockets : Taken[s].up = socket[s].up /\ Taken[s].host = socket[s].host
    BY <2>2, TakenStep
  <2> QED
    BY <2>1, <2>2, <2>3, SendLands
<1>10. CASE SendUpload
  <2>1. upload \in Upload /\ upload.place[2] \in Directories
          /\ upload.place = <<upload.place[1], upload.place[2]>>
    BY <1>10 DEF SendUpload, Upload, Place, TypeOK
  <2> DEFINE m == WriteRequest(upload.place[2])
  <2>2. m \in Request /\ m.picked = upload /\ m.dir = upload.place[2]
    BY <2>1, Requests DEF WriteRequest
  <2>3. Lands(m, Host(ws))
    BY <1>10, <2>1, <2>2 DEF Lands, PickedHere, SendUpload
  <2>4. socket' = With(socket, m)
    BY <1>10 DEF SendUpload, Send
  <2> HIDE DEF m
  <2> QED
    BY <1>0, <2>2, <2>3, <2>4, SendLands
<1>11. ASSUME NEW h \in Hosts, Moves(h)
       PROVE  UploadsLand'
  <2>1. PICK s \in Sockets \ {ws} : Switches(s, h)
    BY <1>11, ReconnectStep DEF Moves
  <2>2. \A t \in Sockets : AllLand(socket'[t].up, socket'[t].host)
    BY <1>0, <2>1, NoneLand DEF Switches, Fresh
  <2> QED
    BY <2>2, UploadsWillBe
<1>12. ASSUME NEW d \in Directories, Goes(d)
       PROVE  UploadsLand'
  <2>1. ListRequest(d) \in Request /\ Lands(ListRequest(d), Host(ws))
    BY Requests DEF ListRequest, Lands
  <2> QED
    BY <1>0, <1>12, <2>1, SendLands DEF Goes, Go, Send
<1>13. ASSUME NEW m \in Request, Acts(m)
       PROVE  UploadsLand'
  <2>1. Lands(m, Host(ws))
    BY <1>13 DEF Acts, Lands
  <2> QED
    BY <1>0, <1>13, <2>1, SendLands DEF Acts, Act, Send
<1>14. ASSUME socket' = socket
       PROVE  UploadsLand'
  BY <1>0, <1>14, UploadsWillBe
<1> QED
  BY <1>1, <1>3, <1>4, <1>5, <1>6, <1>7, <1>8, <1>9, <1>10, <1>11, <1>12, <1>13,
     <1>14, NextCases
     DEF OnListed, OnFileOrError, Receive, Delivers, PickUpload, vars

\* However long the browser reads a file, and wherever the user goes meanwhile,
\* the upload is written where it was picked; only another host given to the
\* panel in between takes it elsewhere.
THEOREM PanelUploadsLand == Spec => []UploadsLand
<1>1. TypeOK /\ PanelAgrees /\ UploadsLand /\ [Next]_vars => UploadsLand'
  BY NextLands DEF PanelAgrees
<1> QED
  BY <1>1, InitLands, SpecAgrees, PTL DEF Spec

-----------------------------------------------------------------------------
(* Busy.                                                                   *)

LEMMA NextBusy ==
    TypeOK /\ SocketsAgree /\ BusyMeansWaiting /\ [Next]_vars => BusyMeansWaiting'
<1> SUFFICES ASSUME TypeOK, SocketsAgree, BusyMeansWaiting, [Next]_vars,
                    busy', socket'[ws'].state = "open"
             PROVE  socket'[ws'].up # <<>> \/ socket'[ws'].down # <<>>
  BY DEF BusyMeansWaiting
<1>0. ws \in Sockets /\ socket \in [Sockets -> Session] /\ path \in Directories
  BY DEF TypeOK
<1>1. ASSUME NEW s \in Sockets, NEW r \in Reply, Serves(s, r)
      PROVE  socket'[ws'].up # <<>> \/ socket'[ws'].down # <<>>
  <2>1. CASE s = ws
    <3>1. socket'[ws].down = Append(socket[ws].down, r) /\ ws' = ws
      BY <1>0, <1>1, <2>1, AnswerStep DEF Serves, panel
    <3> QED
      BY <1>0, <3>1, SessionFields, AtTheEnd
  <2>2. CASE s # ws
    BY <1>0, <1>1, <2>2, AnswerStep DEF Serves, panel, BusyMeansWaiting
  <2> QED
    BY <2>1, <2>2
<1>2. ASSUME NEW s \in Sockets, SessionEnds(s)
      PROVE  FALSE
  BY <1>0, <1>2 DEF SessionEnds, panel, SocketsAgree, Session
<1>3. ASSUME NEW s \in Sockets, LeftIsLost(s)
      PROVE  socket'[ws'].up # <<>> \/ socket'[ws'].down # <<>>
  BY <1>0, <1>3 DEF LeftIsLost, panel, SocketsAgree, BusyMeansWaiting
<1>4. CASE OnOpen
  BY <1>0, <1>4 DEF OnOpen, panel, Session
<1>5. ASSUME NEW m \in Request, Send(m), ws' = ws
      PROVE  socket'[ws'].up # <<>>
  <2>1. socket'[ws].up = Append(socket[ws].up, m)
    BY <1>0, <1>5, SendStep DEF Send
  <2>2. Append(socket[ws].up, m) # <<>>
    BY <1>0, SessionFields, AtTheEnd
  <2> QED
    BY <1>5, <2>1, <2>2
<1>6. CASE SendUpload
  <2>1. upload \in Upload /\ upload.place[2] \in Directories
    BY <1>6 DEF SendUpload, Upload, Place, TypeOK
  <2> QED
    BY <1>5, <1>6, <2>1, Requests DEF SendUpload
<1>7. ASSUME NEW h \in Hosts, Moves(h)
      PROVE  FALSE
  <2>1. PICK s \in Sockets \ {ws} : Switches(s, h)
    BY <1>7, ReconnectStep DEF Moves
  <2> QED
    BY <2>1 DEF Switches, Fresh
<1>8. ASSUME NEW d \in Directories, Goes(d)
      PROVE  socket'[ws'].up # <<>>
  BY <1>5, <1>8, Requests DEF Goes, Go
<1>9. ASSUME NEW m \in Request, Acts(m)
      PROVE  socket'[ws'].up # <<>>
  BY <1>5, <1>9 DEF Acts, Act
<1>10. CASE UNCHANGED <<socket, ws, busy>>
  BY <1>10 DEF BusyMeansWaiting
<1> QED
  BY <1>1, <1>2, <1>3, <1>4, <1>6, <1>7, <1>8, <1>9, <1>10, NextCases
     DEF RefusedError, OnError, OnListed, OnFileOrError, OnDone, Receive, PickUpload, vars

\* The refresh button, which minds busy, is not blocked by a panel that waits for
\* nothing; a session that has ended is excepted.
THEOREM PanelBusyMeansWaiting == Spec => []BusyMeansWaiting
<1>1. Init => BusyMeansWaiting
  BY DEF Init, BusyMeansWaiting
<1>2. TypeOK /\ PanelAgrees /\ BusyMeansWaiting /\ [Next]_vars => BusyMeansWaiting'
  BY NextBusy DEF PanelAgrees
<1> QED
  BY <1>1, <1>2, SpecAgrees, PTL DEF Spec

-----------------------------------------------------------------------------
(* What a step of a session or of the panel does to the two queues.        *)

LEMMA AnsweredCovers ==
    ASSUME NEW up \in Seq(Request), NEW down \in Seq(Reply), up # <<>>, NEW r \in Reply,
           NEW E, NEW p, NEW T, NEW U, Covers(up, down, E, p, T),
           r.type = "listed" => r.entries = U[r.dir],
           Head(up).op = "list" => r.type = "listed",
           U # T => r.type \in {"written", "ok"}
    PROVE  Covers(Tail(up), Append(down, r), E, p, U)
  <1> DEFINE longer == Append(down, r)
             last == Len(down) + 1
  <1>1. /\ last \in DOMAIN longer /\ longer[last] = r /\ last \notin DOMAIN down
        /\ DOMAIN longer = DOMAIN down \cup {last}
        /\ \A i \in DOMAIN down : longer[i] = down[i] /\ i < last /\ i \in Nat /\ i \in DOMAIN longer
    BY AtTheEnd
  <1> HIDE DEF longer, last
  <1>2. CASE r.type = "listed"
    <2>1. \A j \in DOMAIN longer : ~ j > last
      BY <1>1 DEF last
    <2> QED
      BY <1>1, <1>2, <2>1 DEF Covers, Tells, longer
  <1>3. CASE r.type \in {"written", "ok"}
    BY <1>1, <1>3 DEF Covers, longer
  <1>4. CASE r.type \notin {"listed", "written", "ok"}
    <2>1. U = T /\ Head(up).op # "list"
      BY <1>4
    <2>2. ASSUME NEW i \in DOMAIN up, up[i].op = "list"
          PROVE  \E j \in DOMAIN Tail(up) : Tail(up)[j].op = "list"
      <3>1. i # 1
        BY <2>1, <2>2, HeadAndTail
      <3>2. i - 1 \in DOMAIN Tail(up) /\ Tail(up)[i - 1] = up[i]
        BY <3>1, HeadAndTail
      <3> QED
        BY <2>2, <3>2
    <2>3. ASSUME NEW i \in DOMAIN down, down[i].type \in {"written", "ok"}
          PROVE  \E j \in DOMAIN longer : longer[j].type \in {"written", "ok"}
      BY <1>1, <2>3
    <2>4. ASSUME Tells(down, E, p, T)
          PROVE  Tells(longer, E, p, U)
      <3>1. \A j \in DOMAIN longer : longer[j].type = "listed" => j \in DOMAIN down
        BY <1>1, <1>4
      <3> QED
        BY <1>1, <2>1, <2>4, <3>1 DEF Tells
    <2> QED
      BY <2>2, <2>3, <2>4 DEF Covers, longer
  <1> QED
    BY <1>2, <1>3, <1>4

LEMMA TakenCovers ==
    ASSUME NEW up \in Seq(Request), NEW down \in Seq(Reply), down # <<>>,
           NEW E, NEW p, NEW T, Covers(up, down, E, p, T)
    PROVE  LET r == Head(down) IN
           /\ r.type = "listed" => Covers(up, Tail(down), r.entries, r.dir, T)
           /\ r.type \in {"file", "error"} => Covers(up, Tail(down), E, p, T)
  <1> DEFINE r == Head(down)
             rest == Tail(down)
  <1>1. /\ r = down[1] /\ DOMAIN rest = 1 .. (Len(down) - 1)
        /\ DOMAIN down = 1 .. Len(down) /\ Len(down) \in Nat
        /\ \A i \in DOMAIN rest : rest[i] = down[i + 1] /\ i + 1 \in DOMAIN down
        /\ \A i \in DOMAIN down : i # 1 => i - 1 \in DOMAIN rest /\ rest[i - 1] = down[i]
    BY HeadAndTail
  <1> HIDE DEF r, rest
  <1> SUFFICES ASSUME r.type \in {"listed", "file", "error"}
               PROVE  /\ r.type = "listed" => Covers(up, rest, r.entries, r.dir, T)
                      /\ r.type \in {"file", "error"} => Covers(up, rest, E, p, T)
    BY DEF r, rest
  <1>2. CASE \E i \in DOMAIN up : up[i].op = "list"
    BY <1>2 DEF Covers
  <1>3. ASSUME NEW i \in DOMAIN down, down[i].type \in {"written", "ok"}
        PROVE  \E j \in DOMAIN rest : rest[j].type \in {"written", "ok"}
    BY <1>1, <1>3
  <1>4. ASSUME NEW i \in DOMAIN down, i # 1,
               down[i].type = "listed", down[i].entries = T[down[i].dir],
               \A j \in DOMAIN down : j > i => down[j].type # "listed"
        PROVE  \A e, q : Tells(rest, e, q, T)
    <2>1. i - 1 \in DOMAIN rest /\ rest[i - 1] = down[i]
      BY <1>1, <1>4
    <2>2. \A j \in DOMAIN rest : j > i - 1 => rest[j].type # "listed"
      BY <1>1, <1>4
    <2> QED
      BY <1>4, <2>1, <2>2 DEF Tells
  <1>5. ASSUME \A j \in DOMAIN down : j > 1 => down[j].type # "listed"
        PROVE  \A j \in DOMAIN rest : rest[j].type # "listed"
    BY <1>1, <1>5
  <1>6. ASSUME r.type = "listed", r.entries = T[r.dir],
               \A j \in DOMAIN down : j > 1 => down[j].type # "listed"
        PROVE  Tells(rest, r.entries, r.dir, T)
    BY <1>5, <1>6 DEF Tells
  <1>7. ASSUME E = T[p], \A j \in DOMAIN down : down[j].type # "listed"
        PROVE  r.type # "listed" /\ Tells(rest, E, p, T)
    <2>1. 1 \in DOMAIN down
      BY HeadAndTail
    <2> QED
      BY <1>1, <1>5, <1>7, <2>1 DEF Tells
  <1>8. CASE Tells(down, E, p, T)
    <2>1. CASE E = T[p] /\ \A j \in DOMAIN down : down[j].type # "listed"
      BY <1>7, <2>1 DEF Covers
    <2>2. CASE \E i \in DOMAIN down :
                  /\ down[i].type = "listed" /\ down[i].entries = T[down[i].dir]
                  /\ \A j \in DOMAIN down : j > i => down[j].type # "listed"
      <3>1. PICK i \in DOMAIN down :
                  /\ down[i].type = "listed" /\ down[i].entries = T[down[i].dir]
                  /\ \A j \in DOMAIN down : j > i => down[j].type # "listed"
        BY <2>2
      <3>2. CASE i = 1
        BY <1>1, <1>6, <3>1, <3>2 DEF Covers
      <3>3. CASE i # 1
        BY <1>4, <3>1, <3>3 DEF Covers
      <3> QED
        BY <3>2, <3>3
    <2> QED
      BY <1>8, <2>1, <2>2 DEF Tells
  <1> QED
    BY <1>2, <1>3, <1>8 DEF Covers

LEMMA SentCovers ==
    ASSUME NEW up \in Seq(Request), NEW down \in Seq(Reply), NEW m \in Request,
           NEW E, NEW p, NEW T, Covers(up, down, E, p, T) \/ m.op = "list"
    PROVE  Covers(Append(up, m), down, E, p, T)
  BY AtTheEnd DEF Covers

LEMMA AnsweredLeads ==
    ASSUME NEW up \in Seq(Request), NEW down \in Seq(Reply), up # <<>>, NEW r \in Reply,
           NEW p, NEW a, Leads(up, down, p, a),
           Head(up).op = "list" <=> r.type = "listed",
           r.type = "listed" => r.dir = Head(up).dir,
           r.type \in {"written", "ok"} => Head(up).op \in {"writeFile", "remove"}
    PROVE  Leads(Tail(up), Append(down, r), p, a)
  <1> DEFINE longer == Append(down, r)
             rest == Tail(up)
             last == Len(down) + 1
  <1>1. /\ last \in DOMAIN longer /\ longer[last] = r /\ Len(down) \in Nat
        /\ DOMAIN down = 1 .. Len(down) /\ DOMAIN longer = DOMAIN down \cup {last}
        /\ \A i \in DOMAIN down : longer[i] = down[i] /\ i < last /\ i \in Nat
        /\ Len(longer) = last
    BY AtTheEnd
  <1>2. /\ Head(up) = up[1] /\ 1 \in DOMAIN up
        /\ DOMAIN up = 1 .. Len(up) /\ Len(up) \in Nat
        /\ DOMAIN rest = 1 .. (Len(up) - 1)
        /\ \A i \in DOMAIN rest : rest[i] = up[i + 1] /\ i + 1 \in DOMAIN up
        /\ \A i \in DOMAIN up : i # 1 => i - 1 \in DOMAIN rest /\ rest[i - 1] = up[i]
    BY HeadAndTail
  <1> HIDE DEF longer, rest
  <1>3. ASSUME OnlyAsks(up, 0, a)
        PROVE  OnlyAsks(rest, 0, a) /\ (r.type = "listed" => r.dir = a)
    BY <1>2, <1>3 DEF OnlyAsks
  <1>4. ASSUME NEW i \in Nat, OnlyTells(down, i, a), r.type = "listed" => r.dir = a
        PROVE  OnlyTells(longer, i, a)
    BY <1>1, <1>4 DEF OnlyTells
  <1>5. CASE ShownLeads(up, down, p, a)
    BY <1>3, <1>4, <1>5 DEF ShownLeads, Leads, longer, rest
  <1>6. ASSUME NEW i \in DOMAIN down, AnswerLeads(up, down, i, a)
        PROVE  Leads(rest, longer, p, a)
    <2>1. OnlyAsks(rest, 0, a) /\ OnlyTells(longer, i, a)
      BY <1>1, <1>3, <1>4, <1>6 DEF AnswerLeads
    <2>2. NoChangeTold(longer, i)
      BY <1>1, <1>6 DEF AnswerLeads, NoChangeTold
    <2>3. i \in DOMAIN longer /\ longer[i] = down[i]
      BY <1>1
    <2>4. AnswerLeads(rest, longer, i, a)
      BY <1>6, <2>1, <2>2, <2>3 DEF AnswerLeads
    <2> QED
      BY <2>3, <2>4 DEF Leads
  <1>7. CASE RequestLeads(up, down, 1, a)
    <2>1. r.type = "listed" /\ r.dir = a
      BY <1>2, <1>7 DEF RequestLeads
    <2>2. NoChangeTold(longer, last)
      BY <1>1, <1>7 DEF RequestLeads, NoChangeTold
    <2>3. OnlyTells(longer, last, a)
      BY <1>1 DEF OnlyTells
    <2>4. OnlyAsks(rest, 0, a)
      BY <1>2, <1>7 DEF RequestLeads, OnlyAsks
    <2>5. AnswerLeads(rest, longer, last, a)
      BY <1>1, <2>1, <2>2, <2>3, <2>4 DEF AnswerLeads
    <2>6. last \in DOMAIN longer
      BY <1>1
    <2> QED
      BY <2>5, <2>6 DEF Leads, longer, rest
  <1>8. ASSUME NEW i \in DOMAIN up, i # 1, RequestLeads(up, down, i, a)
        PROVE  Leads(rest, longer, p, a)
    <2>1. i - 1 \in DOMAIN rest /\ rest[i - 1] = up[i]
      BY <1>2, <1>8
    <2>2. Head(up).op \notin {"writeFile", "remove"}
      BY <1>2, <1>8 DEF RequestLeads, NoChangeAsked
    <2>3. NoChangeTold(longer, Len(longer) + 1)
      BY <1>1, <1>8, <2>2 DEF RequestLeads, NoChangeTold
    <2>4. NoChangeAsked(rest, i - 1) /\ OnlyAsks(rest, i - 1, a)
      BY <1>2, <1>8 DEF RequestLeads, NoChangeAsked, OnlyAsks
    <2>5. RequestLeads(rest, longer, i - 1, a)
      BY <1>8, <2>1, <2>3, <2>4 DEF RequestLeads
    <2> QED
      BY <2>1, <2>5 DEF Leads
  <1> QED
    BY <1>5, <1>6, <1>7, <1>8 DEF Leads, longer, rest

LEMMA TakenLeads ==
    ASSUME NEW up \in Seq(Request), NEW down \in Seq(Reply), down # <<>>,
           NEW p, NEW a, Leads(up, down, p, a)
    PROVE  LET r == Head(down) IN
           /\ r.type = "listed" => Leads(up, Tail(down), r.dir, a)
           /\ r.type \in {"file", "error"} => Leads(up, Tail(down), p, a)
           /\ r.type \in {"written", "ok"} => ShownLeads(up, Tail(down), p, a)
  <1> DEFINE r == Head(down)
             rest == Tail(down)
  <1>1. /\ r = down[1] /\ 1 \in DOMAIN down
        /\ DOMAIN down = 1 .. Len(down) /\ Len(down) \in Nat
        /\ DOMAIN rest = 1 .. (Len(down) - 1) /\ Len(rest) = Len(down) - 1
        /\ \A i \in DOMAIN rest : rest[i] = down[i + 1] /\ i + 1 \in DOMAIN down
        /\ \A i \in DOMAIN down : i # 1 => i - 1 \in DOMAIN rest /\ rest[i - 1] = down[i]
    BY HeadAndTail
  <1> HIDE DEF r, rest
  <1>2. CASE ShownLeads(up, down, p, a)
    <2>1. OnlyTells(rest, 0, a) /\ (r.type = "listed" => r.dir = a)
      BY <1>1, <1>2 DEF ShownLeads, OnlyTells
    <2> QED
      BY <1>2, <2>1 DEF ShownLeads, Leads, r, rest
  <1>3. CASE AnswerLeads(up, down, 1, a)
    <2>1. r.type = "listed" /\ r.dir = a /\ OnlyTells(rest, 0, a) /\ OnlyAsks(up, 0, a)
      BY <1>1, <1>3 DEF AnswerLeads, OnlyTells
    <2> QED
      BY <2>1 DEF ShownLeads, Leads, r, rest
  <1>4. ASSUME NEW i \in DOMAIN down, i # 1, AnswerLeads(up, down, i, a)
        PROVE  r.type \notin {"written", "ok"} /\ \A q : Leads(up, rest, q, a)
    <2>1. i - 1 \in DOMAIN rest /\ rest[i - 1] = down[i]
      BY <1>1, <1>4
    <2>2. r.type \notin {"written", "ok"}
      BY <1>1, <1>4 DEF AnswerLeads, NoChangeTold
    <2>3. NoChangeTold(rest, i - 1) /\ OnlyTells(rest, i - 1, a)
      BY <1>1, <1>4 DEF AnswerLeads, NoChangeTold, OnlyTells
    <2>4. AnswerLeads(up, rest, i - 1, a)
      BY <1>4, <2>1, <2>3 DEF AnswerLeads
    <2> QED
      BY <2>1, <2>2, <2>4 DEF Leads
  <1>5. ASSUME NEW i \in DOMAIN up, RequestLeads(up, down, i, a)
        PROVE  r.type \notin {"written", "ok"} /\ \A q : Leads(up, rest, q, a)
    <2>1. r.type \notin {"written", "ok"}
      BY <1>1, <1>5 DEF RequestLeads, NoChangeTold
    <2>2. NoChangeTold(rest, Len(rest) + 1)
      BY <1>1, <1>5 DEF RequestLeads, NoChangeTold
    <2>3. RequestLeads(up, rest, i, a)
      BY <1>5, <2>2 DEF RequestLeads
    <2> QED
      BY <2>1, <2>3 DEF Leads
  <1> QED
    BY <1>2, <1>3, <1>4, <1>5 DEF Leads, r, rest

LEMMA SentLeads ==
    ASSUME NEW up \in Seq(Request), NEW down \in Seq(Reply), NEW m \in Request,
           NEW p, NEW a, Leads(up, down, p, a), m.op = "list" => m.dir = a
    PROVE  Leads(Append(up, m), down, p, a)
  <1> DEFINE longer == Append(up, m)
             last == Len(up) + 1
  <1>1. /\ longer[last] = m /\ DOMAIN longer = DOMAIN up \cup {last}
        /\ DOMAIN up = 1 .. Len(up) /\ Len(up) \in Nat
        /\ \A i \in DOMAIN up : longer[i] = up[i] /\ i < last /\ i \in Nat
    BY AtTheEnd
  <1> HIDE DEF longer
  <1>2. ASSUME NEW i \in Nat, OnlyAsks(up, i, a)
        PROVE  OnlyAsks(longer, i, a)
    BY <1>1, <1>2 DEF OnlyAsks
  <1>3. ASSUME NEW i \in DOMAIN up, NoChangeAsked(up, i)
        PROVE  NoChangeAsked(longer, i)
    BY <1>1, <1>3 DEF NoChangeAsked
  <1>4. ASSUME NEW i \in DOMAIN up, RequestLeads(up, down, i, a)
        PROVE  i \in DOMAIN longer /\ RequestLeads(longer, down, i, a)
    BY <1>1, <1>2, <1>3, <1>4 DEF RequestLeads
  <1> QED
    BY <1>2, <1>4 DEF Leads, ShownLeads, AnswerLeads, longer

\* A directory that is asked for while no change is unanswered is where it leads.
LEMMA AskedLeads ==
    ASSUME NEW up \in Seq(Request), NEW down \in Seq(Reply), NEW d \in Directories, NEW p,
           \A i \in DOMAIN up : up[i].op \notin {"writeFile", "remove"},
           \A i \in DOMAIN down : down[i].type \notin {"written", "ok"}
    PROVE  Leads(Append(up, ListRequest(d)), down, p, d)
  <1> DEFINE m == ListRequest(d)
             longer == Append(up, m)
             last == Len(up) + 1
  <1>1. m \in Request /\ m.op = "list" /\ m.dir = d
    BY Requests DEF ListRequest
  <1>2. /\ last \in DOMAIN longer /\ longer[last] = m /\ DOMAIN longer = DOMAIN up \cup {last}
        /\ \A i \in DOMAIN up : longer[i] = up[i] /\ i < last /\ i \in Nat
    BY <1>1, AtTheEnd
  <1> HIDE DEF longer, m
  <1>3. NoChangeAsked(longer, last) /\ OnlyAsks(longer, last, d)
    <2>1. \A j \in DOMAIN longer : ~ j > last
      BY <1>2 DEF last
    <2> QED
      BY <1>2, <2>1 DEF NoChangeAsked, OnlyAsks
  <1>4. RequestLeads(longer, down, last, d)
    BY <1>1, <1>2, <1>3 DEF RequestLeads, NoChangeTold
  <1> QED
    BY <1>2, <1>4 DEF Leads, longer, m

-----------------------------------------------------------------------------
(* The listing and the directory.                                          *)

\* The panel's open socket keeps its queues and its host, and the panel what it
\* shows; the host's tree may change only unseen.
Quiet ==
    /\ ws' = ws /\ socket'[ws] = socket[ws]
    /\ UNCHANGED <<path, entries, asked, crossed>>
    /\ excused => excused'
    /\ tree'[Host(ws)] = tree[Host(ws)] \/ excused'

\* A request is sent by an open socket.
Sends(m) ==
    /\ ws' = ws /\ tree' = tree /\ UNCHANGED <<path, entries>>
    /\ socket'[ws].host = socket[ws].host /\ socket'[ws].state = socket[ws].state
    /\ socket'[ws].down = socket[ws].down
    /\ socket'[ws].up = Append(socket[ws].up, m)

\* The first answer is taken by the panel.
Takes ==
    /\ ws' = ws /\ tree' = tree /\ UNCHANGED <<asked, crossed, excused>>
    /\ socket'[ws].host = socket[ws].host /\ socket'[ws].state = socket[ws].state
    /\ socket[ws].down # <<>> /\ socket'[ws].down = Tail(socket[ws].down)

Lists ==
    LET r == Head(socket[ws].down) IN
    /\ Takes /\ r.type = "listed" /\ path' = r.dir /\ entries' = r.entries
    /\ socket'[ws].up = socket[ws].up

Passes ==
    /\ Takes /\ Head(socket[ws].down).type \in {"file", "error"}
    /\ UNCHANGED <<path, entries>>
    /\ socket'[ws].up = socket[ws].up

ListsAgain ==
    /\ Takes /\ Head(socket[ws].down).type \in {"written", "ok"}
    /\ UNCHANGED <<path, entries>>
    /\ socket'[ws].up = Append(socket[ws].up, ListRequest(path))

Opens ==
    /\ socket[ws].state = "connecting" /\ ws' = ws
    /\ UNCHANGED <<path, entries, asked, crossed, excused>>
    /\ socket'[ws].up = <<ListRequest(Root)>> /\ socket'[ws].down = socket[ws].down

\* The steps that leave the panel with an open socket.
LEMMA OpenCases ==
    ASSUME TypeOK, SocketsAgree, [Next]_vars, socket'[ws'].state = "open"
    PROVE  \/ Quiet \/ Opens
           \/ \E r \in Reply : Serves(ws, r)
           \/ Lists \/ Passes \/ ListsAgain
           \/ \E d \in Directories : Go(d) /\ Sends(ListRequest(d))
           \/ \E m \in Request : /\ m.op # "list" /\ Sends(m)
                                 /\ UNCHANGED <<asked, crossed, excused>>
<1>0. ws \in Sockets /\ socket \in [Sockets -> Session] /\ path \in Directories
  BY DEF TypeOK
<1>1. ASSUME NEW s \in Sockets, NEW r \in Reply, Serves(s, r), s # ws
      PROVE  Quiet
  <2>1. ws' = ws /\ socket'[ws] = socket[ws] /\ UNCHANGED <<path, entries, asked, crossed>>
    BY <1>0, <1>1, AnswerStep DEF Serves, panel
  <2>2. tree'[Host(ws)] = tree[Host(ws)] \/ excused'
    BY <1>0, <1>1, SessionFields DEF Serves, Fits, Host
  <2> QED
    BY <1>1, <2>1, <2>2 DEF Quiet, Serves
<1>2. ASSUME NEW s \in Sockets, SessionEnds(s)
      PROVE  FALSE
  BY <1>0, <1>2 DEF SessionEnds, panel, SocketsAgree, Session
<1>3. ASSUME NEW s \in Sockets, LeftIsLost(s) \/ RefusedError(s)
      PROVE  Quiet
  <2>1. s # ws
    BY <1>3 DEF LeftIsLost, RefusedError, SocketsAgree
  <2>2. socket'[ws] = socket[ws]
    BY <1>0, <1>3, <2>1 DEF LeftIsLost, RefusedError
  <2> QED
    BY <1>3, <2>2 DEF LeftIsLost, RefusedError, panel, Quiet
<1>4. CASE OnOpen
  BY <1>0, <1>4 DEF OnOpen, panel, Session, Opens, ListRequest
<1>5. CASE OnError
  BY <1>0, <1>5 DEF OnError, Session
<1>6. ASSUME socket[ws].down # <<>>, socket' = Taken, ws' = ws
      PROVE  /\ socket'[ws].host = socket[ws].host /\ socket'[ws].state = socket[ws].state
             /\ socket'[ws].down = Tail(socket[ws].down)
             /\ socket'[ws].up = socket[ws].up
  BY <1>0, <1>6, TakenStep
<1>7. CASE OnListed
  BY <1>6, <1>7 DEF OnListed, Receive, Delivers, Lists, Takes
<1>8. CASE OnFileOrError
  BY <1>6, <1>8 DEF OnFileOrError, Receive, Delivers, Passes, Takes
<1>9. CASE OnDone
  <2>1. ListRequest(path) \in Request
    BY <1>0, Requests
  <2>2. /\ socket[ws].down # <<>> /\ Head(socket[ws].down).type \in {"written", "ok"}
        /\ socket' = With(Taken, ListRequest(path))
        /\ UNCHANGED <<tree, ws, path, entries, asked, crossed, excused>>
    BY <1>9 DEF OnDone, Receive, Delivers
  <2>3. /\ socket'[ws].host = socket[ws].host /\ socket'[ws].state = socket[ws].state
        /\ socket'[ws].down = Tail(socket[ws].down)
        /\ socket'[ws].up = Append(socket[ws].up, ListRequest(path))
    BY <1>0, <2>1, <2>2, TakenStep, SendStep
  <2> QED
    BY <2>2, <2>3 DEF ListsAgain, Takes
<1>10. ASSUME NEW m \in Request, Send(m), UNCHANGED <<ws, tree, path, entries>>
       PROVE  Sends(m)
  <2>1. /\ socket'[ws].host = socket[ws].host /\ socket'[ws].state = socket[ws].state
        /\ socket'[ws].down = socket[ws].down
        /\ socket[ws].state = "open" => socket'[ws].up = Append(socket[ws].up, m)
    BY <1>0, <1>10, SendStep DEF Send
  <2> QED
    BY <1>10, <2>1 DEF Sends
<1>11. CASE SendUpload
  <2>1. upload \in Upload /\ upload.place[2] \in Directories
    BY <1>11 DEF SendUpload, Upload, Place, TypeOK
  <2> DEFINE m == WriteRequest(upload.place[2])
  <2>2. m \in Request /\ m.op # "list"
    BY <2>1, Requests DEF WriteRequest
  <2>3. Send(m) /\ UNCHANGED <<ws, tree, path, entries, asked, crossed, excused>>
    BY <1>11 DEF SendUpload
  <2> HIDE DEF m
  <2> QED
    BY <1>10, <2>2, <2>3
<1>12. ASSUME NEW h \in Hosts, Moves(h)
       PROVE  FALSE
  <2>1. PICK s \in Sockets \ {ws} : Switches(s, h)
    BY <1>12, ReconnectStep DEF Moves
  <2> QED
    BY <2>1 DEF Switches, Fresh
<1>13. ASSUME NEW d \in Directories, Goes(d)
       PROVE  Go(d) /\ Sends(ListRequest(d))
  BY <1>10, <1>13, Requests DEF Goes, Go
<1>14. ASSUME NEW m \in Request, Acts(m)
       PROVE  m.op # "list" /\ Sends(m) /\ UNCHANGED <<asked, crossed, excused>>
  BY <1>10, <1>14 DEF Acts, Act
<1>15. ASSUME NEW n \in Files, PickUpload(n)
       PROVE  Quiet
  BY <1>15 DEF PickUpload, Quiet
<1>16. CASE UNCHANGED vars
  BY <1>16 DEF vars, Quiet
<1> QED
  BY <1>1, <1>2, <1>3, <1>4, <1>5, <1>7, <1>8, <1>9, <1>11, <1>12, <1>13, <1>14,
     <1>15, <1>16, NextCases

\* The answer of the panel's own session to the request at its head.
LEMMA ServedQueues ==
    ASSUME TypeOK, NEW r \in Reply, Serves(ws, r), socket'[ws'].state = "open"
    PROVE  /\ ws' = ws /\ socket[ws].state = "open" /\ Host(ws)' = Host(ws)
           /\ UNCHANGED <<path, entries, asked, crossed>>
           /\ socket'[ws].up = Tail(socket[ws].up) /\ socket[ws].up # <<>>
           /\ socket'[ws].down = Append(socket[ws].down, r)
  BY AnswerStep DEF Serves, panel, Host, TypeOK

LEMMA NextCurrent == TypeOK /\ SocketsAgree /\ Current /\ [Next]_vars => Current'
<1> DEFINE up == socket[ws].up
           down == socket[ws].down
           T == tree[Host(ws)]
<1> SUFFICES ASSUME TypeOK, SocketsAgree, Current, [Next]_vars,
                    socket'[ws'].state = "open", ~excused'
             PROVE  Covers(socket'[ws'].up, socket'[ws'].down, entries', path', tree'[Host(ws)'])
  BY DEF Current
<1>0. ws \in Sockets /\ up \in Seq(Request) /\ down \in Seq(Reply)
  BY SessionFields DEF TypeOK
<1>1. CASE Quiet
  <2>1. /\ socket[ws].state = "open" /\ ~excused /\ tree'[Host(ws)] = T
        /\ Host(ws)' = Host(ws)
    BY <1>1 DEF Quiet, Host
  <2> QED
    BY <1>1, <2>1 DEF Quiet, Current
<1>2. CASE Opens
  <2>1. <<ListRequest(Root)>>[1].op = "list" /\ 1 \in DOMAIN <<ListRequest(Root)>>
    BY DEF ListRequest
  <2> QED
    BY <1>2, <2>1 DEF Opens, Covers
<1>3. ASSUME NEW r \in Reply, Serves(ws, r)
      PROVE  Covers(socket'[ws'].up, socket'[ws'].down, entries', path', tree'[Host(ws)'])
  <2>1. /\ ws' = ws /\ socket[ws].state = "open" /\ Host(ws)' = Host(ws)
        /\ UNCHANGED <<path, entries>> /\ up # <<>>
        /\ socket'[ws].up = Tail(up) /\ socket'[ws].down = Append(down, r)
    BY <1>3, ServedQueues
  <2>2. ~excused /\ Fits(ws, r)
    BY <1>3 DEF Serves
  <2>3. Covers(up, down, entries, path, T)
    BY <2>1, <2>2 DEF Current
  <2> DEFINE U == tree'[Host(ws)]
  <2>4. /\ r.type = "listed" => r.entries = U[r.dir]
        /\ Head(up).op = "list" => r.type = "listed"
        /\ U # T => r.type \in {"written", "ok"}
    BY <2>2 DEF Fits
  <2> HIDE DEF U, T, up, down
  <2>5. Covers(Tail(up), Append(down, r), entries, path, U)
    BY <1>0, <2>1, <2>3, <2>4, AnsweredCovers
  <2> QED
    BY <2>1, <2>5 DEF U
<1>4. ASSUME Takes
      PROVE  /\ ws' = ws /\ down # <<>> /\ Host(ws)' = Host(ws) /\ tree'[Host(ws)] = T
             /\ Covers(up, down, entries, path, T)
  BY <1>4 DEF Takes, Host, Current
<1>5. CASE Lists
  <2>1. /\ Takes /\ socket'[ws].up = up /\ socket'[ws].down = Tail(down)
        /\ Head(down).type = "listed" /\ path' = Head(down).dir /\ entries' = Head(down).entries
    BY <1>5 DEF Lists, Takes
  <2> HIDE DEF up, down, T
  <2>2. Covers(up, Tail(down), Head(down).entries, Head(down).dir, T)
    BY <1>0, <1>4, <2>1, TakenCovers
  <2> QED
    BY <1>4, <2>1, <2>2
<1>6. CASE Passes
  <2>1. /\ Takes /\ socket'[ws].up = up /\ socket'[ws].down = Tail(down)
        /\ Head(down).type \in {"file", "error"} /\ UNCHANGED <<path, entries>>
    BY <1>6 DEF Passes, Takes
  <2> HIDE DEF up, down, T
  <2>2. Covers(up, Tail(down), entries, path, T)
    BY <1>0, <1>4, <2>1, TakenCovers
  <2> QED
    BY <1>4, <2>1, <2>2
<1>7. ASSUME NEW d \in Directories, socket'[ws'].up = Append(up, ListRequest(d))
      PROVE  Covers(socket'[ws'].up, socket'[ws'].down, entries', path', tree'[Host(ws)'])
  <2>1. ListRequest(d) \in Request /\ ListRequest(d).op = "list"
    BY Requests DEF ListRequest
  <2>2. /\ Len(up) + 1 \in DOMAIN Append(up, ListRequest(d))
        /\ Append(up, ListRequest(d))[Len(up) + 1] = ListRequest(d)
    BY <1>0, <2>1, AtTheEnd
  <2> QED
    BY <1>7, <2>1, <2>2 DEF Covers
<1>8. CASE ListsAgain
  BY <1>7, <1>8 DEF ListsAgain, Takes, TypeOK
<1>9. ASSUME NEW d \in Directories, Sends(ListRequest(d))
      PROVE  Covers(socket'[ws'].up, socket'[ws'].down, entries', path', tree'[Host(ws)'])
  BY <1>7, <1>9 DEF Sends
<1>10. ASSUME NEW m \in Request, Sends(m), UNCHANGED excused
       PROVE  Covers(socket'[ws'].up, socket'[ws'].down, entries', path', tree'[Host(ws)'])
  <2>1. /\ ws' = ws /\ Host(ws)' = Host(ws) /\ tree' = tree /\ UNCHANGED <<path, entries>>
        /\ socket[ws].state = "open" /\ socket'[ws].up = Append(up, m) /\ socket'[ws].down = down
    BY <1>10 DEF Sends, Host
  <2>2. Covers(up, down, entries, path, T)
    BY <1>10, <2>1 DEF Current
  <2> HIDE DEF up, down, T
  <2>3. Covers(Append(up, m), down, entries, path, T)
    BY <1>0, <2>2, SentCovers
  <2> QED
    BY <2>1, <2>3 DEF T
<1> QED
  BY <1>1, <1>2, <1>3, <1>5, <1>6, <1>8, <1>9, <1>10, OpenCases

LEMMA InitLeads == Init => Current /\ Navigated
  BY DEF Init, Fresh, Current, Navigated

\* Once everything is answered, what is shown is what the host holds, in whatever
\* order requests, answers and switches of the target came; a failed request and
\* a change by an old session of the same host are excepted.
THEOREM PanelListingCurrent == Spec => []ListingCurrent
<1>1. TypeOK /\ PanelAgrees /\ Current /\ [Next]_vars => Current'
  BY NextCurrent DEF PanelAgrees
<1>2. TypeOK /\ Current => ListingCurrent
  <2> SUFFICES ASSUME TypeOK, Current, Idle, ~excused
               PROVE  entries = tree[Host(ws)][path]
    BY DEF ListingCurrent
  <2>1. socket[ws].state = "open" /\ socket[ws].down = <<>> /\ socket[ws].up = <<>>
    BY DEF Idle, TypeOK
  <2>2. Covers(<<>>, <<>>, entries, path, tree[Host(ws)])
    BY <2>1 DEF Current
  <2> QED
    BY <2>2 DEF Covers, Tells
<1> QED
  BY <1>1, <1>2, InitLeads, SpecAgrees, PTL DEF Spec

LEMMA NextNavigated ==
    TypeOK /\ SocketsAgree /\ Opening /\ Navigated /\ [Next]_vars => Navigated'
<1> DEFINE up == socket[ws].up
           down == socket[ws].down
<1> SUFFICES ASSUME TypeOK, SocketsAgree, Opening, Navigated, [Next]_vars,
                    socket'[ws'].state = "open", ~excused', ~crossed'
             PROVE  Leads(socket'[ws'].up, socket'[ws'].down, path', asked')
  BY DEF Navigated
<1>0. /\ ws \in Sockets /\ up \in Seq(Request) /\ down \in Seq(Reply)
      /\ path \in Directories /\ asked \in Directories
  BY SessionFields DEF TypeOK
<1>1. CASE Quiet
  BY <1>1 DEF Quiet, Navigated
<1>2. CASE Opens
  <2>1. path = Root /\ asked = Root
    BY <1>2 DEF Opens, Opening
  <2>2. down = <<>>
    BY <1>0, <1>2 DEF Opens, SocketsAgree
  <2>3. ShownLeads(<<ListRequest(Root)>>, <<>>, Root, Root)
    BY DEF ShownLeads, OnlyAsks, OnlyTells, ListRequest
  <2> QED
    BY <1>2, <2>1, <2>2, <2>3 DEF Opens, Leads
<1>3. ASSUME NEW r \in Reply, Serves(ws, r)
      PROVE  Leads(socket'[ws'].up, socket'[ws'].down, path', asked')
  <2>1. /\ ws' = ws /\ socket[ws].state = "open"
        /\ UNCHANGED <<path, asked, crossed>> /\ up # <<>>
        /\ socket'[ws].up = Tail(up) /\ socket'[ws].down = Append(down, r)
    BY <1>3, ServedQueues
  <2>2. ~excused /\ Fits(ws, r)
    BY <1>3 DEF Serves
  <2>3. Leads(up, down, path, asked)
    BY <2>1, <2>2 DEF Navigated
  <2>4. /\ Head(up).op = "list" <=> r.type = "listed"
        /\ r.type = "listed" => r.dir = Head(up).dir
        /\ r.type \in {"written", "ok"} => Head(up).op \in {"writeFile", "remove"}
    BY <2>2 DEF Fits
  <2> HIDE DEF up, down
  <2>5. Leads(Tail(up), Append(down, r), path, asked)
    BY <1>0, <2>1, <2>3, <2>4, AnsweredLeads
  <2> QED
    BY <2>1, <2>5
<1>4. ASSUME Takes
      PROVE  ws' = ws /\ down # <<>> /\ asked' = asked /\ Leads(up, down, path, asked)
  BY <1>4 DEF Takes, Navigated
<1>5. CASE Lists
  <2>1. /\ Takes /\ socket'[ws].up = up /\ socket'[ws].down = Tail(down)
        /\ Head(down).type = "listed" /\ path' = Head(down).dir
    BY <1>5 DEF Lists, Takes
  <2> HIDE DEF up, down
  <2>2. Leads(up, Tail(down), Head(down).dir, asked)
    BY <1>0, <1>4, <2>1, TakenLeads
  <2> QED
    BY <1>4, <2>1, <2>2
<1>6. CASE Passes
  <2>1. /\ Takes /\ socket'[ws].up = up /\ socket'[ws].down = Tail(down)
        /\ Head(down).type \in {"file", "error"} /\ UNCHANGED path
    BY <1>6 DEF Passes, Takes
  <2> HIDE DEF up, down
  <2>2. Leads(up, Tail(down), path, asked)
    BY <1>0, <1>4, <2>1, TakenLeads
  <2> QED
    BY <1>4, <2>1, <2>2
<1>7. CASE ListsAgain
  <2>1. /\ Takes /\ socket'[ws].up = Append(up, ListRequest(path))
        /\ socket'[ws].down = Tail(down)
        /\ Head(down).type \in {"written", "ok"} /\ UNCHANGED path
    BY <1>7 DEF ListsAgain, Takes
  <2>2. Tail(down) \in Seq(Reply)
    BY <1>0, <1>4, <2>1, HeadAndTail
  <2>3. /\ ListRequest(path) \in Request
        /\ ListRequest(path).op = "list" /\ ListRequest(path).dir = path
    BY <1>0, Requests DEF ListRequest
  <2> HIDE DEF up, down
  <2>4. ShownLeads(up, Tail(down), path, asked)
    BY <1>0, <1>4, <2>1, TakenLeads
  <2>5. path = asked /\ Leads(up, Tail(down), path, asked)
    BY <2>4 DEF ShownLeads, Leads
  <2>6. Leads(Append(up, ListRequest(path)), Tail(down), path, asked)
    BY <1>0, <2>2, <2>3, <2>5, SentLeads
  <2> QED
    BY <1>4, <2>1, <2>6
<1>8. ASSUME NEW d \in Directories, Go(d), Sends(ListRequest(d))
      PROVE  Leads(socket'[ws'].up, socket'[ws'].down, path', asked')
  <2>1. /\ ws' = ws /\ path' = path /\ asked' = d /\ socket'[ws].down = down
        /\ socket'[ws].up = Append(up, ListRequest(d))
    BY <1>8 DEF Go, Sends
  <2>2. Idle \/ ~Unanswered
    BY <1>8 DEF Go
  <2>3. /\ \A i \in DOMAIN up : up[i].op \notin {"writeFile", "remove"}
        /\ \A i \in DOMAIN down : down[i].type \notin {"written", "ok"}
    <3>1. CASE Idle
      <4>1. up = <<>> /\ down = <<>>
        BY <1>0, <3>1 DEF Idle
      <4> QED
        BY <4>1
    <3>2. CASE ~Unanswered
      BY <3>2 DEF Unanswered
    <3> QED
      BY <2>2, <3>1, <3>2
  <2> HIDE DEF up, down
  <2>4. Leads(Append(up, ListRequest(d)), down, path, d)
    BY <1>0, <2>3, AskedLeads
  <2> QED
    BY <2>1, <2>4
<1>9. ASSUME NEW m \in Request, m.op # "list", Sends(m), UNCHANGED <<asked, crossed, excused>>
      PROVE  Leads(socket'[ws'].up, socket'[ws'].down, path', asked')
  <2>1. /\ ws' = ws /\ UNCHANGED <<path, asked>> /\ socket[ws].state = "open"
        /\ socket'[ws].up = Append(up, m) /\ socket'[ws].down = down
    BY <1>9 DEF Sends
  <2>2. Leads(up, down, path, asked)
    BY <1>9, <2>1 DEF Navigated
  <2> HIDE DEF up, down
  <2>3. Leads(Append(up, m), down, path, asked)
    BY <1>0, <1>9, <2>2, SentLeads
  <2> QED
    BY <2>1, <2>3
<1> QED
  BY <1>1, <1>2, <1>3, <1>5, <1>6, <1>7, <1>8, <1>9, OpenCases

\* ... and it is the directory the user asked for last: the listings that follow
\* an upload or a removal do not lead him back, unless he went on before they
\* were answered.
THEOREM PanelNavigationKept == Spec => []NavigationKept
<1>1. TypeOK /\ PanelAgrees /\ Navigated /\ [Next]_vars => Navigated'
  BY NextNavigated DEF PanelAgrees
<1>2. TypeOK /\ Navigated => NavigationKept
  <2> SUFFICES ASSUME TypeOK, Navigated, Idle, ~excused, ~crossed
               PROVE  path = asked
    BY DEF NavigationKept
  <2>1. socket[ws].state = "open" /\ socket[ws].down = <<>> /\ socket[ws].up = <<>>
    BY DEF Idle, TypeOK
  <2>2. Leads(<<>>, <<>>, path, asked)
    BY <2>1 DEF Navigated
  <2> QED
    BY <2>2 DEF Leads, ShownLeads
<1> QED
  BY <1>1, <1>2, InitLeads, SpecAgrees, PTL DEF Spec
=============================================================================
