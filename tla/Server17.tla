------------------------------ MODULE Server17 ------------------------------
(***************************************************************************)
(* The processes of 17/chat_server.c: a parent that serves its children's  *)
(* pipes and the listening socket in one loop, a child per connection, and *)
(* the SIGCHLD handler that frees a child's slot between any two steps of  *)
(* the parent.  Descriptors are numbers, handed out lowest first, because  *)
(* remove_client closes by number ends that are closed already.            *)
(*                                                                         *)
(* signal() installs handlers that restart accept and read, so SIGUSR1,    *)
(* SIGINT and SIGTERM do not end a wait.  A child is named by its          *)
(* connection.  A child has a line to read, or finds the end of its input, *)
(* whenever its user likes: what waits in sockets is seen by no other      *)
(* process.  Lines are counted: what they say matters to the layout of     *)
(* answers only.  The parent's answers and notices go to pipes that no     *)
(* child empties, unless it takes its pipe for its client: a pipe that is  *)
(* full holds up the parent, or its handler, until the child is gone.      *)
(*                                                                         *)
(* Some definitions are preceded by a faulty variant (a bug the code might *)
(* have had) that the model checker must reject.                           *)
(***************************************************************************)
EXTENDS Integers, FiniteSets, Sequences

CONSTANTS
    MaxClients,   \* MAX_CLIENTS, the number of slots
    MaxConn,      \* bound: connections made in one behaviour
    MaxSend,      \* bound: lines the children read from users, altogether
    PipeCap,      \* messages a pipe has room for
    MayFail       \* pipe and fork may fail

ASSUME Server17Assumption ==
    /\ MaxClients \in Nat \ {0} /\ MaxConn \in Nat
    /\ MaxSend \in Nat /\ PipeCap \in Nat \ {0}
    /\ MayFail \in BOOLEAN

VARIABLES
    \* the parent
    pc,        \* what it does next
    i,         \* the slot its loop is at
    cur,       \* the connection being set up, 0 for none
    s,         \* client_idx, the slot chosen for it
    conn,      \* conn_sock, its descriptor
    fds,       \* what each descriptor number of the parent refers to
    slot,      \* the array clients
    named,     \* the slots whose room_idx is 0: those given a nickname
    sends,     \* the slots that send_to_client is still called for
    at,        \* the slot that broadcast_message is at
    terminate, \* set by SIGINT and SIGTERM
    backlog,   \* connections waiting in the listening socket
    accepted,  \* connections accepted so far
    \* the SIGCHLD handler
    leaving,   \* the slot it is about to free
    notice,    \* the slot that its broadcast_message is at
    \* the children
    status,    \* of each child
    first,     \* what each child reads its client's nickname from
    source,    \* what each child reads everything else from
    held,      \* the ends of its own two pipes that each child has open
    sent,      \* lines the children have read from users
    lines,     \* lines in the pipe from each child
    unread,    \* messages in the pipe to each child
    heard      \* changes whenever the parent reads the pipe from a child

setup == <<cur, s, conn>>
telling == <<named, sends, at>>
handler == <<leaving, notice>>
parent == <<pc, i, setup, fds, slot, telling, terminate, backlog, accepted, handler>>
pipes == <<lines, unread, heard>>
children == <<status, first, source, held, sent, pipes>>
vars == <<parent, children>>

Conn == 1..MaxConn
Slots == 0..MaxClients - 1

\* Where a loop over the slots ends.
NoSlot == MaxClients

\* Terminal, listening socket, conn_sock, and four pipe ends per connection, of
\* which a failed setup frees none.
Fd == 0..4 * MaxConn + 2

End(kind, c) == [kind |-> kind, conn |-> c]
Free == End("free", 0)

Unused == [pid |-> 0, sock |-> 0, toR |-> 0, toW |-> 0, fromR |-> 0, fromW |-> 0,
           active |-> FALSE]

\* Descriptor 0 is the terminal, 1 stands for the other standard descriptors
\* and the listening socket.  room_idx is 0 in every slot that is new.
Init ==
    /\ pc = "loop" /\ i = 0 /\ cur = 0 /\ s = 0 /\ conn = 0
    /\ fds = [f \in Fd |-> CASE f = 0 -> End("terminal", 0)
                             [] f = 1 -> End("listen", 0)
                             [] OTHER -> Free]
    /\ slot = [h \in Slots |-> Unused]
    /\ named = Slots /\ sends = <<>> /\ at = NoSlot
    /\ terminate = FALSE /\ backlog = 0 /\ accepted = 0
    /\ leaving = NoSlot /\ notice = NoSlot
    /\ status = [c \in Conn |-> "none"]
    /\ first = [c \in Conn |-> "none"]
    /\ source = [c \in Conn |-> "none"]
    /\ held = [c \in Conn |-> {}]
    /\ sent = 0
    /\ lines = [c \in Conn |-> 0]
    /\ unread = [c \in Conn |-> 0]
    /\ heard = [c \in Conn |-> FALSE]

-----------------------------------------------------------------------------
(* Descriptors and slots.                                                  *)

LowestFree(table) ==
    CHOOSE f \in Fd : table[f] = Free /\ \A g \in 0..f - 1 : table[g] # Free

Opened(table, end) == [table EXCEPT ![LowestFree(table)] = end]

\* close of each of these numbers; closing one that is not open does nothing.
ClosedAll(numbers) == [f \in Fd |-> IF f \in numbers THEN Free ELSE fds[f]]

Active == {h \in Slots : slot[h].active}

EndsOf(h) == {slot[h].toR, slot[h].toW, slot[h].fromR, slot[h].fromW}

KeepsReadEnd(h) == {slot[h].sock} \cup (EndsOf(h) \ {slot[h].fromR})

\* The numbers remove_client closes: all five of the slot, although the parent
\* closed three of them when it recorded the client.
ClosedByRemove(h) == {slot[h].sock} \cup EndsOf(h)

FirstActive(c) == {h \in Active : \A g \in Active : h <= g}

\* The slot of child c, if it is recorded.
SlotOf(c) == {h \in Active : slot[h].pid = c}

-----------------------------------------------------------------------------
(* Pipes.                                                                  *)

HasReadEnd(kind, c) == \E f \in Fd : fds[f] = End(kind, c)

\* Without a reader a write fails; SIGPIPE is ignored.
ChildCanRead(c) == "toR" \in held[c] \/ HasReadEnd("toR", c)

\* The pipe that a message to slot h goes to is full: write waits.
Full(h) ==
    LET end == fds[slot[h].toW]
    IN  /\ h \in Active
        /\ \/ end.kind = "toW" /\ ChildCanRead(end.conn) /\ unread[end.conn] = PipeCap
           \/ end.kind = "fromW" /\ HasReadEnd("fromR", end.conn) /\ lines[end.conn] = PipeCap

\* send_to_client.  The number in the slot may be another connection's by now.
Send(h) ==
    LET end == fds[slot[h].toW]
    IN  /\ ~Full(h)
        /\ unread' = IF h \in Active /\ end.kind = "toW" /\ ChildCanRead(end.conn)
                     THEN [unread EXCEPT ![end.conn] = @ + 1] ELSE unread
        /\ lines' = IF h \in Active /\ end.kind = "fromW" /\ HasReadEnd("fromR", end.conn)
                    THEN [lines EXCEPT ![end.conn] = @ + 1] ELSE lines
        /\ UNCHANGED heard

\* One slot in the loop of broadcast_message.
SendIfNamed(h) == IF h \in named THEN Send(h) ELSE UNCHANGED pipes

-----------------------------------------------------------------------------
(* The parent: the loop and the messages.                                  *)

\* The parent does its next step unless the handler has interrupted it.
At(step) == pc = step /\ leaving = NoSlot

TerminateNotTested ==
    /\ At("loop")
    /\ pc' = "scan"
    /\ i' = 0
    /\ UNCHANGED <<setup, fds, slot, telling, terminate, backlog, accepted, handler, children>>

\* while (!terminate)
Loop ==
    /\ At("loop")
    /\ pc' = IF terminate THEN "shutdown" ELSE "scan"
    /\ i' = 0
    /\ UNCHANGED <<setup, fds, slot, telling, terminate, backlog, accepted, handler, children>>

\* process_client_message: the first line of a client is its nickname; it is
\* welcomed and the room is told.  A later line is nothing, is answered, is a
\* whisper to somebody and confirmed, or goes to the room.
Process(h) ==
    \/ /\ h \notin named
       /\ named' = named \cup {h} /\ sends' = <<h>> /\ at' = 0
    \/ /\ h \in named
       /\ sends' \in {<<>>, <<h>>} \cup {<<target, h>> : target \in Active}
       /\ UNCHANGED <<named, at>>
    \/ /\ h \in named
       /\ at' = 0
       /\ UNCHANGED <<named, sends>>

\* The parent has no message to pass on.
Quiet == sends = <<>> /\ at = NoSlot

\* One turn of the loop over the slots.  A read takes 1024 bytes: at least one
\* line, of which the first is handled and the others are lost.  (That the
\* handler runs before the read is no different from its running before the
\* turn.)
Scan ==
    LET end == fds[slot[i].fromR]
    IN  /\ At("scan") /\ Quiet
        /\ i < MaxClients
        /\ i' = i + 1
        /\ IF i \in Active /\ end.kind = "fromR" /\ lines[end.conn] > 0
           THEN /\ \E rest \in 0..lines[end.conn] - 1 : lines' = [lines EXCEPT ![end.conn] = rest]
                /\ heard' = [heard EXCEPT ![end.conn] = ~@]
                /\ Process(i)
           ELSE UNCHANGED <<lines, heard, telling>>
        /\ UNCHANGED <<pc, setup, fds, slot, terminate, backlog, accepted, handler,
                       status, first, source, held, sent, unread>>

\* A call of send_to_client, and a turn of the loop in broadcast_message.
Answer ==
    /\ At("scan")
    /\ sends # <<>>
    /\ Send(Head(sends))
    /\ sends' = Tail(sends)
    /\ UNCHANGED <<pc, i, setup, fds, slot, named, at, terminate, backlog, accepted, handler,
                   status, first, source, held, sent>>

Broadcast ==
    /\ At("scan")
    /\ sends = <<>> /\ at # NoSlot
    /\ SendIfNamed(at)
    /\ at' = at + 1
    /\ UNCHANGED <<pc, i, setup, fds, slot, named, sends, terminate, backlog, accepted, handler,
                   status, first, source, held, sent>>

ScanStopsEarly ==
    /\ At("scan") /\ Quiet
    /\ i >= MaxClients - 1
    /\ i' = 0
    /\ pc' = "accept"
    /\ UNCHANGED <<setup, fds, slot, telling, terminate, backlog, accepted, handler, children>>

ScanDone ==
    /\ At("scan") /\ Quiet
    /\ i = MaxClients
    /\ i' = 0
    /\ pc' = "accept"
    /\ UNCHANGED <<setup, fds, slot, telling, terminate, backlog, accepted, handler, children>>

-----------------------------------------------------------------------------
(* The parent: a new connection.                                           *)

\* accept waits for a connection, whatever signals arrive.
Accept ==
    /\ At("accept")
    /\ backlog > 0
    /\ backlog' = backlog - 1
    /\ accepted' = accepted + 1
    /\ cur' = accepted + 1
    /\ conn' = LowestFree(fds)
    /\ fds' = Opened(fds, End("sock", accepted + 1))
    /\ pc' = "choose"
    /\ UNCHANGED <<i, s, slot, telling, terminate, handler, children>>

FirstSlotWhenFull ==
    /\ At("choose")
    /\ s' = IF Active = Slots THEN 0
            ELSE CHOOSE h \in Slots \ Active : \A g \in Slots \ Active : h <= g
    /\ pc' = "pipe"
    /\ UNCHANGED <<i, cur, conn, fds, slot, telling, terminate, backlog, accepted, handler, children>>

\* The first free slot is taken; without one the connection is turned away.
ChooseSlot ==
    /\ At("choose")
    /\ IF Active = Slots
       THEN /\ fds' = ClosedAll({conn})
            /\ cur' = 0 /\ s' = 0 /\ conn' = 0
            /\ pc' = "loop"
       ELSE /\ s' = CHOOSE h \in Slots \ Active : \A g \in Slots \ Active : h <= g
            /\ pc' = "pipe"
            /\ UNCHANGED <<cur, conn, fds>>
    /\ UNCHANGED <<i, slot, telling, terminate, backlog, accepted, handler, children>>

\* pipe opens a read end and then a write end.
OpenPipe(step, read, write, next) ==
    LET opened == Opened(fds, End(read, cur))
    IN  /\ At(step)
        /\ slot' = [slot EXCEPT ![s][read] = LowestFree(fds),
                                ![s][write] = LowestFree(opened)]
        /\ fds' = Opened(opened, End(write, cur))
        /\ pc' = next
        /\ UNCHANGED <<i, setup, telling, terminate, backlog, accepted, handler, children>>

PipeToChild == OpenPipe("pipe", "toR", "toW", "pipe2")
PipeFromChild == OpenPipe("pipe2", "fromR", "fromW", "fork")

\* A child closes, by number, the ends it leaves to its parent.
InChild(f) == IF f \in {slot[s].toW, slot[s].fromR} THEN Free ELSE fds[f]

\* What a child finds at a descriptor number, which is 0 or the one number that
\* every conn_sock gets.
InputAt(f) ==
    CASE InChild(f) = End("sock", cur) -> "own"
      [] InChild(f) = End("toR", cur) -> "pipe"
      [] InChild(f).kind = "terminal" -> "terminal"
      [] OTHER -> "none"

\* The child inherits the descriptors and the array as they are.  sock_fd of the
\* slot has not been set yet: it is what the last client of the slot left
\* there, or 0.  The handler may have closed conn_sock, which has the number of
\* an earlier client's socket, and a pipe have taken the number.
Fork ==
    /\ At("fork")
    /\ status' = [status EXCEPT ![cur] = "nick"]
    /\ first' = [first EXCEPT ![cur] = InputAt(conn)]
    /\ source' = [source EXCEPT ![cur] = InputAt(slot[s].sock)]
    /\ held' = [held EXCEPT ![cur] =
                  {end \in {"toR", "fromW"} : InChild(slot[s][end]) = End(end, cur)}]
    /\ pc' = "close"
    /\ UNCHANGED <<i, setup, fds, slot, telling, terminate, backlog, accepted, handler,
                   sent, pipes>>

\* pipe or fork fails.  The pipes there are stay open: remove_client does
\* nothing for a slot that is not active.
SetupFails ==
    /\ MayFail
    /\ At("pipe") \/ At("pipe2") \/ At("fork")
    /\ fds' = ClosedAll({conn})
    /\ cur' = 0 /\ s' = 0 /\ conn' = 0
    /\ pc' = "loop"
    /\ UNCHANGED <<i, slot, telling, terminate, backlog, accepted, handler, children>>

\* The parent closes what the child uses...
CloseChildEnds ==
    /\ At("close")
    /\ fds' = ClosedAll({conn, slot[s].toR, slot[s].fromW})
    /\ pc' = "record"
    /\ UNCHANGED <<i, setup, slot, telling, terminate, backlog, accepted, handler, children>>

\* ... and fills in the slot, which becomes active before room_idx is set.
Record ==
    /\ At("record")
    /\ slot' = [slot EXCEPT ![s].pid = cur, ![s].sock = conn,
                            ![s].active = TRUE]
    /\ cur' = 0 /\ conn' = 0
    /\ pc' = "unname"
    /\ UNCHANGED <<i, s, fds, telling, terminate, backlog, accepted, handler, children>>

Unname ==
    /\ At("unname")
    /\ named' = named \ {s}
    /\ s' = 0
    /\ pc' = "loop"
    /\ UNCHANGED <<i, cur, conn, fds, slot, sends, at, terminate, backlog, accepted, handler, children>>

-----------------------------------------------------------------------------
(* The parent: the end, and signals.                                       *)

\* remove_client of a slot that is active.
RemoveClient(h) ==
    /\ fds' = ClosedAll(ClosedByRemove(h))
    /\ slot' = [slot EXCEPT ![h].active = FALSE, ![h].pid = 0]

\* Every slot is removed, by number again.  The SIGTERM sent to the children
\* runs the handler they have inherited, which sets their copy of terminate
\* and lets their read go on.
Shutdown ==
    /\ At("shutdown")
    /\ i < MaxClients
    /\ i' = i + 1
    /\ IF i \in Active THEN RemoveClient(i) ELSE UNCHANGED <<fds, slot>>
    /\ UNCHANGED <<pc, setup, telling, terminate, backlog, accepted, handler, children>>

Ended ==
    /\ At("shutdown")
    /\ i = MaxClients
    /\ fds' = ClosedAll({1})
    /\ pc' = "ended"
    /\ UNCHANGED <<i, setup, slot, telling, terminate, backlog, accepted, handler, children>>

Parent ==
    \/ Loop \/ Scan \/ Answer \/ Broadcast \/ ScanDone
    \/ Accept \/ ChooseSlot \/ PipeToChild \/ PipeFromChild
    \/ Fork \/ CloseChildEnds \/ Record \/ Unname
    \/ Shutdown \/ Ended

\* SIGINT or SIGTERM
Terminate ==
    /\ ~terminate
    /\ terminate' = TRUE
    /\ UNCHANGED <<pc, i, setup, fds, slot, telling, backlog, accepted, handler, children>>

\* One turn of the SIGCHLD handler's loop: the slot of the child it reaps...
Reap(c) ==
    /\ pc # "ended" /\ leaving = NoSlot
    /\ status[c] = "zombie"
    /\ status' = [status EXCEPT ![c] = "reaped"]
    /\ IF SlotOf(c) = {}
       THEN UNCHANGED handler
       ELSE /\ leaving' \in SlotOf(c)
            /\ notice' = IF leaving' \in named THEN 0 ELSE NoSlot
    /\ UNCHANGED <<pc, i, setup, fds, slot, telling, terminate, backlog, accepted,
                   first, source, held, sent, pipes>>

\* ... the room is told, if the user was in it...
TellLeft ==
    /\ leaving # NoSlot
    /\ notice # NoSlot
    /\ SendIfNamed(notice)
    /\ notice' = notice + 1
    /\ UNCHANGED <<pc, i, setup, fds, slot, telling, terminate, backlog, accepted, leaving,
                   status, first, source, held, sent>>

\* ... and the slot is freed.
Remove ==
    /\ leaving # NoSlot
    /\ notice = NoSlot
    /\ RemoveClient(leaving)
    /\ leaving' = NoSlot
    /\ UNCHANGED <<pc, i, setup, telling, terminate, backlog, accepted, notice, children>>

Handler == TellLeft \/ Remove \/ \E c \in Conn : Reap(c)

-----------------------------------------------------------------------------
(* The children.                                                           *)

\* write waits for room in the pipe.  What is written to a pipe that the parent
\* does not read any more is lost.
PassOn(c) ==
    /\ IF "fromW" \in held[c] /\ HasReadEnd("fromR", c)
       THEN lines[c] < PipeCap /\ lines' = [lines EXCEPT ![c] = @ + 1]
       ELSE UNCHANGED lines
    /\ UNCHANGED heard

\* The nickname is read from conn_sock, everything else, in handle_client, from
\* clients[client_idx].sock_fd.
Reads(c, input) ==
    \/ status[c] = "nick" /\ first[c] = input
    \/ status[c] = "serve" /\ source[c] = input

\* The child reads from its client, or the terminal, and passes a line on...
Read(c) ==
    /\ Reads(c, "own") \/ Reads(c, "terminal")
    /\ sent < MaxSend
    /\ sent' = sent + 1
    /\ PassOn(c)
    /\ status' = [status EXCEPT ![c] = "serve"]
    /\ UNCHANGED <<parent, first, source, held, unread>>

\* ... or it finds the end of its input, or no input at all, and ends.
Exit(c) ==
    /\ ~Reads(c, "pipe") /\ status[c] \in {"nick", "serve"}
    /\ status' = [status EXCEPT ![c] = "zombie"]
    /\ held' = [held EXCEPT ![c] = {}]
    /\ UNCHANGED <<parent, first, source, sent, pipes>>

\* A child that takes the pipe from the parent for its client passes on what it
\* is sent itself...
ReadPipe(c) ==
    /\ Reads(c, "pipe")
    /\ \E rest \in 0..unread[c] - 1 : unread' = [unread EXCEPT ![c] = rest]
    /\ PassOn(c)
    /\ status' = [status EXCEPT ![c] = "serve"]
    /\ UNCHANGED <<parent, first, source, held, sent>>

\* ... and waits until nobody has the other end; its siblings may keep copies.
PipeEnds(c) ==
    /\ Reads(c, "pipe")
    /\ unread[c] = 0
    /\ \A f \in Fd : fds[f] # End("toW", c)
    /\ status' = [status EXCEPT ![c] = "zombie"]
    /\ held' = [held EXCEPT ![c] = {}]
    /\ UNCHANGED <<parent, first, source, sent, pipes>>

Child(c) == Read(c) \/ Exit(c) \/ ReadPipe(c) \/ PipeEnds(c)

-----------------------------------------------------------------------------
(* Users connect.                                                          *)

Connect ==
    /\ pc # "ended"
    /\ accepted + backlog < MaxConn
    /\ backlog' = backlog + 1
    /\ UNCHANGED <<pc, i, setup, fds, slot, telling, terminate, accepted, handler, children>>

Next ==
    \/ Parent
    \/ Handler
    \/ SetupFails
    \/ Terminate
    \/ Connect
    \/ \E c \in Conn : Child(c)

Spec == Init /\ [][Next]_vars

\* The parent is scheduled when it can run, and SIGCHLD is delivered.  Users,
\* and so the children, and operators do what they like.
FairSpec == Spec /\ WF_vars(Parent) /\ WF_vars(Handler)

-----------------------------------------------------------------------------
(* Properties.                                                             *)

TypeOK ==
    /\ pc \in {"loop", "scan", "accept", "choose", "pipe", "pipe2", "fork",
               "close", "record", "unname", "shutdown", "ended"}
    /\ i \in 0..MaxClients /\ s \in Slots /\ cur \in 0..MaxConn /\ conn \in Fd
    /\ \A f \in Fd : fds[f].conn \in 0..MaxConn
    /\ slot \in [Slots -> [pid : 0..MaxConn, sock : Fd, toR : Fd, toW : Fd,
                           fromR : Fd, fromW : Fd, active : BOOLEAN]]
    /\ named \subseteq Slots /\ at \in 0..MaxClients
    /\ leaving \in 0..MaxClients /\ notice \in 0..MaxClients
    /\ accepted + backlog \in 0..MaxConn
    /\ status \in [Conn -> {"none", "nick", "serve", "zombie", "reaped"}]
    /\ first \in [Conn -> {"none", "own", "pipe"}]
    /\ source \in [Conn -> {"none", "own", "pipe", "terminal"}]
    /\ sent \in 0..MaxSend

\* Every pipe end the parent has open to or from a child is named by an active
\* slot or by the connection being set up: whatever numbers are closed twice or
\* reused, only the ends of a failed setup are lost.
EndsAreNamed ==
    \A f \in Fd :
        fds[f].kind \in {"toR", "toW", "fromR", "fromW"} /\ status[fds[f].conn] # "none" =>
            \/ \E h \in Active : f \in EndsOf(h)
            \/ cur # 0 /\ f \in EndsOf(s)

Ending == pc \in {"shutdown", "ended"}

Live(c) == status[c] \in {"nick", "serve", "zombie"}

\* Until the server shuts down every child that is not being set up has the
\* slot that was chosen for it, although slots are freed by the handler at any
\* moment...
LiveChildHasSlot ==
    \A c \in Conn : Live(c) /\ c # cur /\ ~Ending => SlotOf(c) # {}

\* ... and there are never more children than slots.
ChildrenWithinLimit ==
    ~Ending => Cardinality({c \in Conn : Live(c)}) <= MaxClients

\* The parent has the read end of c's pipe in an active slot.
Heard(c) == \E h \in Active : fds[slot[h].fromR] = End("fromR", c)

\* The parent, or the handler within it, waits in a write to a full pipe.
WaitsForRoom ==
    \/ leaving # NoSlot /\ notice \in named /\ Full(notice)
    \/ At("scan") /\ sends # <<>> /\ Full(Head(sends))
    \/ At("scan") /\ sends = <<>> /\ at \in named /\ Full(at)

\* Once another connection is waiting, some of what a child has passed on is
\* read (the rest waits for the connection after that), unless its pipe is
\* closed under the parent, the server ends, or the parent waits for ever to
\* write to a child that does not read.
ServedByNextConnection ==
    \A c \in Conn : \A before \in BOOLEAN :
        lines[c] > 0 /\ backlog > 0 /\ heard[c] = before ~>
            heard[c] # before \/ ~Heard(c) \/ pc = "ended" \/ []WaitsForRoom

\* Once another connection is waiting, a request to terminate is noticed, with
\* the same exception.
TerminatesByNextConnection ==
    terminate /\ backlog > 0 ~> pc = "ended" \/ []WaitsForRoom
=============================================================================
