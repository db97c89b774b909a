------------------------------ MODULE SftpPanel ------------------------------
(***************************************************************************)
(* The SFTP panel of the bastion page and of a PVE guest, and the sessions *)
(* that serve it.  The panel talks to a host through one WebSocket at a    *)
(* time: it sends requests without waiting for the answers, and a session  *)
(* works them off in order.  When the page gives the panel another target, *)
(* or the same one as a new object, the socket is closed and another one   *)
(* opened; the old session still works off what it was sent.               *)
(*                                                                         *)
(* A host has a root and folders in it.  The content of files is left out, *)
(* and so is what others do on a host meanwhile.                           *)
(***************************************************************************)
EXTENDS Sequences, Naturals

CONSTANTS
    Hosts,      \* what the panel can be pointed at
    Root,       \* the directory "/"
    Folders,    \* the names of folders in it
    Files,      \* the names of files
    Sockets,    \* the current socket, and old ones whose sessions go on
    MaxQueue,   \* bound: requests, answers and an upload under way
    MaxLeft,    \* bound: requests under way on a socket that is closed
    None        \* no upload

Directories == {Root} \cup Folders
Names       == Folders \cup Files
Place       == Hosts \X Directories

\* moved: history, the panel was given another host while the file was read.
Upload == [place : Place, name : Files, moved : BOOLEAN]

ASSUME SftpAssumption ==
    /\ Root \notin Names /\ Folders \cap Files = {}
    /\ MaxQueue \in Nat \ {0} /\ MaxLeft \in Nat
    /\ None \notin Upload

VARIABLES
    tree,       \* the names in each directory of each host
    socket,     \* host, state and the two directions of each socket
    ws,         \* the socket the panel uses (wsRef)
    path,       \* the directory shown (path, pathRef)
    entries,    \* the names shown
    busy,
    upload,     \* where a picked file goes while the browser reads it, or None
    shown,      \* history: the place whose listing is shown
    asked,      \* history: the directory the user asked for last
    crossed,    \* history: and did while an upload or removal was unanswered
    excused     \* history: something failed, or an old session changed a host

vars == <<tree, socket, ws, path, entries, busy, upload, shown, asked, crossed, excused>>

Request ==
    [op : {"list"}, dir : Directories]
        \cup [op : {"readFile"}, dir : Directories, name : Files]
        \cup [op : {"remove"}, dir : Directories, name : Names]
        \cup [op : {"writeFile"}, dir : Directories, name : Files, picked : Upload]

Reply ==
    [type : {"error", "file", "written", "ok"}]
        \cup [type : {"listed"}, dir : Directories, entries : SUBSET Names]

\* "open": the server reads requests.  "ended": the session is over, and the
\* panel does not know.  "closed": the panel has closed it.  "refused": it was
\* closed before it was open, and its error event has not yet come.
SocketState == {"connecting", "open", "ended", "closed", "refused"}

Session == [host : Hosts, state : SocketState, up : Seq(Request), down : Seq(Reply)]

TypeOK ==
    /\ tree \in [Hosts -> [Directories -> SUBSET Names]]
    /\ socket \in [Sockets -> Session]
    /\ ws \in Sockets
    /\ path \in Directories
    /\ entries \in SUBSET Names
    /\ busy \in BOOLEAN
    /\ upload \in {None} \cup Upload
    /\ shown \in Place
    /\ asked \in Directories
    /\ crossed \in BOOLEAN
    /\ excused \in BOOLEAN

Fresh(h) == [host |-> h, state |-> "connecting", up |-> <<>>, down |-> <<>>]

Init ==
    /\ tree \in [Hosts -> {[d \in Directories |-> IF d = Root THEN Names ELSE {}]}]
    /\ ws \in Sockets
    /\ \E h \in Hosts :
        /\ socket = [s \in Sockets |->
                        IF s = ws THEN Fresh(h) ELSE [Fresh(h) EXCEPT !.state = "closed"]]
        /\ shown = <<h, Root>>
    /\ path = Root /\ entries = {} /\ busy = FALSE /\ upload = None
    /\ asked = Root /\ crossed = FALSE /\ excused = FALSE

-----------------------------------------------------------------------------
\* What the session of a socket does with the request at the head of its queue
\* (runBastionSFTPSession).
Host(s) == socket[s].host
Asks(s, op) ==
    /\ socket[s].state \in {"open", "closed"}
    /\ socket[s].up # <<>> /\ Head(socket[s].up).op = op

Exists(h, d) == d = Root \/ d \in tree[h][Root]

\* The answer goes nowhere when the panel has closed the socket.
Answer(s, reply) ==
    socket' = [socket EXCEPT ![s].up = Tail(@),
                             ![s].down = IF socket[s].state = "open"
                                         THEN Append(@, reply) ELSE @]

\* The panel is not told of what an old session does to the host it shows.
Unseen(s) == s # ws /\ Host(s) = Host(ws)

panel == <<ws, path, entries, busy, upload, shown, asked, crossed>>

\* Variant: the listing has the directory itself among its entries.
ServeList_Self(s) ==
    /\ Asks(s, "list")
    /\ LET d == Head(socket[s].up).dir IN
        /\ Exists(Host(s), d)
        /\ Answer(s, [type |-> "listed", dir |-> d, entries |-> tree[Host(s)][d] \cup {d}])
    /\ UNCHANGED <<tree, panel, excused>>

ServeList(s) ==
    /\ Asks(s, "list")
    /\ LET d == Head(socket[s].up).dir IN
        /\ Exists(Host(s), d)
        /\ Answer(s, [type |-> "listed", dir |-> d, entries |-> tree[Host(s)][d]])
    /\ UNCHANGED <<tree, panel, excused>>

ServeRead(s) ==
    /\ Asks(s, "readFile")
    /\ LET m == Head(socket[s].up) IN m.name \in tree[Host(s)][m.dir]
    /\ Answer(s, [type |-> "file"])
    /\ UNCHANGED <<tree, panel, excused>>

\* Create, then Write: when only the first succeeds an empty file is left, and
\* the answer is an error.
ServeWrite(s) ==
    /\ Asks(s, "writeFile")
    /\ LET m == Head(socket[s].up) IN
        /\ Exists(Host(s), m.dir)
        /\ tree' = [tree EXCEPT ![Host(s)][m.dir] = @ \cup {m.name}]
    /\ \/ Answer(s, [type |-> "written"]) /\ excused' = (excused \/ Unseen(s))
       \/ Answer(s, [type |-> "error"]) /\ excused' = (excused \/ s = ws \/ Unseen(s))
    /\ UNCHANGED panel

\* A folder is removed only when it is empty.
ServeRemove(s) ==
    /\ Asks(s, "remove")
    /\ LET m == Head(socket[s].up) IN
        /\ m.name \in tree[Host(s)][m.dir]
        /\ m.name \in Folders => tree[Host(s)][m.name] = {}
        /\ tree' = [tree EXCEPT ![Host(s)][m.dir] = @ \ {m.name}]
    /\ Answer(s, [type |-> "ok"])
    /\ excused' = (excused \/ Unseen(s))
    /\ UNCHANGED panel

\* The path is not there, or the host refuses.
ServeFails(s) ==
    /\ \E op \in {"list", "readFile", "writeFile", "remove"} : Asks(s, op)
    /\ Answer(s, [type |-> "error"])
    /\ excused' = (excused \/ (s = ws /\ Asks(s, "list")))
    /\ UNCHANGED <<tree, panel>>

Serve(s) ==
    ServeList(s) \/ ServeRead(s) \/ ServeWrite(s) \/ ServeRemove(s) \/ ServeFails(s)

\* A session ends: the host is gone, the backend restarts, or, before its first
\* answer and saying so, its SFTP client cannot be made.  The panel has no
\* onclose handler.
SessionEnds(s) ==
    /\ socket[s].state = "open"
    /\ \E last \in {<<>>, <<[type |-> "error"]>>} :
        /\ last # <<>> => socket[s].down = <<>> /\ entries = {}
        /\ socket' = [socket EXCEPT ![s].state = "ended", ![s].up = <<>>,
                                    ![s].down = @ \o last]
    /\ UNCHANGED <<tree, panel, excused>>

\* What is left to an old session may not reach it.
LeftIsLost(s) ==
    /\ socket[s].state = "closed" /\ socket[s].up # <<>>
    /\ socket' = [socket EXCEPT ![s].up = <<>>]
    /\ UNCHANGED <<tree, panel, excused>>

-----------------------------------------------------------------------------
\* The effect on target and targetKey.
Idle == /\ socket[ws].state = "open"
        /\ \A s \in Sockets : socket[s].down = <<>> /\
                (Host(s) = Host(ws) => socket[s].up = <<>>)

Cleared(h) ==
    /\ path' = Root /\ entries' = {} /\ shown' = <<h, Root>>
    /\ asked' = Root /\ crossed' = FALSE /\ excused' = FALSE

\* Cleanup and effect: the old socket is closed and a new one opened.
Reconnect(h) ==
    \E s \in Sockets \ {ws} :
        /\ socket[s].state = "closed" /\ socket[s].up = <<>>
        /\ Len(socket[ws].up) =< MaxLeft
        /\ ws' = s
        /\ socket' = [socket EXCEPT
                ![s] = Fresh(h),
                ![ws].state = IF @ = "connecting" THEN "refused" ELSE "closed",
                ![ws].down = <<>>]

Moved(h) ==
    IF upload = None THEN None
    ELSE [upload EXCEPT !.moved = @ \/ h # upload.place[1]]

\* Variant: the entries stay until the new listing comes.
Retarget_KeepsEntries(h) ==
    /\ Reconnect(h)
    /\ path' = Root /\ asked' = Root /\ crossed' = FALSE /\ excused' = FALSE
    /\ upload' = Moved(h)
    /\ UNCHANGED <<tree, entries, shown, busy>>

\* The page gives the panel another target, or a new object for the same one.
Retarget(h) ==
    /\ Reconnect(h) /\ Cleared(h)
    /\ upload' = Moved(h)
    /\ UNCHANGED <<tree, busy>>

\* The panel is closed and shown again, or shown under another key.  What it
\* was reading for an upload finds no socket any more.
Remount(h) ==
    /\ Reconnect(h) /\ Cleared(h)
    /\ busy' = FALSE /\ upload' = None
    /\ UNCHANGED tree

\* The error event of a socket that was closed while it was being opened.
RefusedError(s) ==
    /\ socket[s].state = "refused"
    /\ socket' = [socket EXCEPT ![s].state = "closed"]
    /\ busy' = FALSE
    /\ UNCHANGED <<tree, ws, path, entries, upload, shown, asked, crossed, excused>>

OnOpen ==
    /\ socket[ws].state = "connecting"
    /\ socket' = [socket EXCEPT ![ws].state = "open",
                                ![ws].up = <<[op |-> "list", dir |-> Root]>>]
    /\ UNCHANGED <<tree, panel, excused>>

OnError ==
    /\ socket[ws].state = "connecting"
    /\ socket' = [socket EXCEPT ![ws].state = "ended"]
    /\ busy' = FALSE
    /\ UNCHANGED <<tree, ws, path, entries, upload, shown, asked, crossed, excused>>

-----------------------------------------------------------------------------
\* ws.onmessage
Delivers(type) ==
    /\ socket[ws].state \in {"open", "ended"}
    /\ socket[ws].down # <<>> /\ Head(socket[ws].down).type = type

Receive(type) == Delivers(type) /\ busy' = FALSE

Taken == [socket EXCEPT ![ws].down = Tail(@)]

ListRequest(d) == [op |-> "list", dir |-> d]

\* What the socket does with a request: unless it is open, nothing.
With(sock, m) ==
    IF sock[ws].state = "open" THEN [sock EXCEPT ![ws].up = Append(@, m)] ELSE sock

OnListed ==
    /\ Receive("listed")
    /\ LET m == Head(socket[ws].down) IN
        /\ path' = m.dir /\ entries' = m.entries
        /\ shown' = <<Host(ws), m.dir>>
    /\ socket' = Taken
    /\ UNCHANGED <<tree, ws, upload, asked, crossed, excused>>

\* Variant: an error leaves busy on.
OnFileOrError_Busy ==
    /\ Receive("file") \/ (Delivers("error") /\ UNCHANGED busy)
    /\ socket' = Taken
    /\ UNCHANGED <<tree, ws, path, entries, upload, shown, asked, crossed, excused>>

OnFileOrError ==
    /\ Receive("file") \/ Receive("error")
    /\ socket' = Taken
    /\ UNCHANGED <<tree, ws, path, entries, upload, shown, asked, crossed, excused>>

\* Variant: nothing is listed again after an upload or a removal.
OnDone_NoList ==
    /\ Receive("written") \/ Receive("ok")
    /\ socket' = Taken
    /\ UNCHANGED <<tree, ws, path, entries, upload, shown, asked, crossed, excused>>

\* Variant: the root is listed, as it is when a socket opens.
OnDone_ListsRoot ==
    /\ Receive("written") \/ Receive("ok")
    /\ socket' = With(Taken, ListRequest(Root))
    /\ UNCHANGED <<tree, ws, path, entries, upload, shown, asked, crossed, excused>>

\* After an upload or a removal the directory shown is listed again.
OnDone ==
    /\ Receive("written") \/ Receive("ok")
    /\ socket' = With(Taken, ListRequest(path))
    /\ UNCHANGED <<tree, ws, path, entries, upload, shown, asked, crossed, excused>>

OnMessage == OnListed \/ OnFileOrError \/ OnDone

-----------------------------------------------------------------------------
\* What the user does.  Only the refresh button minds busy.
Room ==
    \A s \in Sockets \ {ws} :
        Len(socket[s].up) + Len(socket[ws].up) + Len(socket[ws].down)
            + (IF upload = None THEN 0 ELSE 1) < MaxQueue

Send(m) ==
    /\ busy' = TRUE
    /\ socket' = With(socket, m)

Unanswered ==
    \/ \E i \in DOMAIN socket[ws].up : socket[ws].up[i].op \in {"remove", "writeFile"}
    \/ \E i \in DOMAIN socket[ws].down : socket[ws].down[i].type \in {"written", "ok"}

Go(d) ==
    /\ Room /\ Send(ListRequest(d))
    /\ asked' = d
    /\ crossed' = (~Idle /\ (crossed \/ Unanswered))
    /\ excused' = (~Idle /\ excused)
    /\ UNCHANGED <<tree, ws, path, entries, upload, shown>>

Refresh == ~busy /\ Go(path)

Cd(f) == path = Root /\ f \in entries \cap Folders /\ Go(f)

GoUp == path # Root /\ Go(Root)

Act(m) ==
    /\ Room /\ Send(m)
    /\ UNCHANGED <<tree, ws, path, entries, upload, shown, asked, crossed, excused>>

DownloadFile(n) ==
    n \in entries \cap Files /\ Act([op |-> "readFile", dir |-> path, name |-> n])

RemoveEntry(n) ==
    n \in entries /\ Act([op |-> "remove", dir |-> path, name |-> n])

\* A file is picked; its path is put together before the browser reads it.
PickUpload(n) ==
    /\ upload = None /\ Room
    /\ upload' = [place |-> <<Host(ws), path>>, name |-> n, moved |-> FALSE]
    /\ UNCHANGED <<tree, socket, ws, path, entries, busy, shown, asked, crossed, excused>>

WriteRequest(d) ==
    [op |-> "writeFile", dir |-> d, name |-> upload.name, picked |-> upload]

\* Variant: the path is put together when the file has been read.
SendUpload_ShownPath ==
    /\ upload # None /\ upload' = None
    /\ Send(WriteRequest(path))
    /\ UNCHANGED <<tree, ws, path, entries, shown, asked, crossed, excused>>

\* The browser has read the file; the request goes to whatever host the panel
\* is connected to by now.
SendUpload ==
    /\ upload # None /\ upload' = None
    /\ Send(WriteRequest(upload.place[2]))
    /\ UNCHANGED <<tree, ws, path, entries, shown, asked, crossed, excused>>

User ==
    \/ Refresh \/ GoUp \/ SendUpload
    \/ \E f \in Folders : Cd(f)
    \/ \E n \in Files : DownloadFile(n) \/ PickUpload(n)
    \/ \E n \in Names : RemoveEntry(n)

Next ==
    \/ User \/ OnOpen \/ OnError \/ OnMessage
    \/ \E h \in Hosts : Retarget(h) \/ Remount(h)
    \/ \E s \in Sockets : Serve(s) \/ SessionEnds(s) \/ LeftIsLost(s) \/ RefusedError(s)

Spec == Init /\ [][Next]_vars

-----------------------------------------------------------------------------
\* What is shown is what a listing of this host and this directory said: a
\* removal or a download can not name an entry of another host or directory
\* (the effect on target, ws.onmessage).
ShownIsHere == entries # {} => shown = <<Host(ws), path>>

\* An upload is written where it was picked, wherever the user has gone while
\* the browser read the file; only a panel that is given another host in the
\* meantime writes it there (onPickUpload).
UploadsLand ==
    \A s \in Sockets : \A i \in DOMAIN socket[s].up :
        LET m == socket[s].up[i] IN
        m.op = "writeFile" =>
            m.picked.moved \/ m.picked.place = <<Host(s), m.dir>>

\* When everything is answered, the entries are what the directory holds: what
\* an upload or a removal changed has been listed again (OnDone, the answers of
\* runBastionSFTPSession).
ListingCurrent ==
    Idle /\ ~excused => entries = tree[Host(ws)][path]

\* ... and the directory is the one the user asked for last, unless he did so
\* before an upload or a removal was answered, whose listing leads back.
NavigationKept ==
    Idle /\ ~excused /\ ~crossed => path = asked

\* The refresh button waits for an answer only while one is under way.
BusyMeansWaiting ==
    busy /\ socket[ws].state = "open" =>
        socket[ws].up # <<>> \/ socket[ws].down # <<>>
=============================================================================
