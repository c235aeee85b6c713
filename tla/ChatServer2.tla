----------------------------- MODULE ChatServer2 -----------------------------
(***************************************************************************)
(* The processes of chat2/chat_server2.c: the parent with its select loop  *)
(* and its client array, one forked child per connection, the two pipes    *)
(* between them, and the SIGCHLD handler that runs in the parent between   *)
(* any two of its steps.                                                   *)
(*                                                                         *)
(* Abstractions.  A child is named by its pid, handed out in increasing    *)
(* order, and a pair of pipes by the child that uses it (the reuse of file *)
(* descriptor numbers is left out).  All clients are in one room; what the *)
(* commands do to rooms and nicknames is in RoomRegistry.  A message is    *)
(* "reply", answered to its sender, or "room", sent to everybody.  A pipe  *)
(* holds up to PipeCap messages.                                           *)
(*                                                                         *)
(* The steps of the parent are the accesses it makes to what the handler   *)
(* changes: every test of client_count, every use of an element of the     *)
(* array and every system call is a step of its own, and the handler may   *)
(* come before each.  Two things stay one step: the search of the array    *)
(* for a pid or a descriptor, and the fields of a new record, which all go *)
(* to the slot the first one went to.  A turn of the handler's loop is one *)
(* step as well.                                                           *)
(*                                                                         *)
(* Some definitions are preceded by a faulty variant (a bug the code might *)
(* have had) that the model checker must reject.                           *)
(***************************************************************************)
EXTENDS Integers, Sequences, FiniteSets

CONSTANTS
    MaxClients,  \* MAX_CLIENTS, the length of the client array
    MaxPid,      \* bound: connections made in one behaviour
    MaxSend,     \* bound: messages the clients send
    PipeCap,     \* messages that fit in a pipe
    Quitters     \* the clients that may disconnect

ASSUME ServerAssumption ==
    /\ MaxClients \in Nat \ {0} /\ MaxPid \in Nat \ {0}
    /\ MaxSend \in Nat /\ PipeCap \in Nat \ {0}
    /\ Quitters \subseteq 1..MaxPid

VARIABLES
    \* the parent
    pc,       \* what it does next
    fdset,    \* children whose pipe FD_ISSET reports after select
    i,        \* index of the loop over the array (select loop, broadcast to all)
    k,        \* index of the loop in broadcast_message_in_room
    reg,      \* client_count as loaded by client_count++
    buf,      \* the message the last read returned
    origin,   \* whose pipe is read; history once buf is read from it
    sender,   \* the record process_message_from_child found
    whom,     \* the pid or descriptor looked for, the descriptor written to
    at,       \* where the search of the array found it
    loop,     \* the point a write returns to
    told,     \* history: the children the current broadcast has reached
    steady,   \* history: no record was removed since the broadcast began
    slot, n,  \* clients[].pid and client_count
    ends,     \* children whose pipes the parent still has open
    forked,   \* children forked so far
    backlog,  \* connections waiting in the listening socket
    \* the children and their clients
    status,   \* of each child process
    closed,   \* the client has closed its connection
    sock,     \* messages in the socket, client to child
    sent,     \* messages the clients have sent
    c2p, p2c  \* child to parent messages, parent to child message count

parent == <<pc, fdset, i, k, reg, buf, origin, sender, whom, at, loop, told, steady>>
table == <<slot, n, ends, forked, backlog>>
children == <<status, closed, sock, sent, c2p, p2c>>
vars == <<parent, table, children>>

Pid == 1..MaxPid
Slots == 0..MaxClients - 1
Message == {"reply", "room"}

Init ==
    /\ pc = "select" /\ fdset = {} /\ i = 0 /\ k = 0 /\ reg = 0
    /\ buf = "none" /\ origin = 0 /\ sender = 0 /\ whom = 0 /\ at = 0
    /\ loop = "scan" /\ told = {} /\ steady = FALSE
    /\ slot = [j \in Slots |-> 0] /\ n = 0
    /\ ends = {} /\ forked = 0 /\ backlog = 0
    /\ status = [p \in Pid |-> "unborn"]
    /\ closed = [p \in Pid |-> FALSE]
    /\ sock = [p \in Pid |-> <<>>]
    /\ sent = 0
    /\ c2p = [p \in Pid |-> <<>>]
    /\ p2c = [p \in Pid |-> 0]

-----------------------------------------------------------------------------
(* The array and the pipes.                                                *)

Recorded == {slot[j] : j \in 0..n - 1}

\* The child has closed its pipe ends: reading its pipe gives end of file,
\* writing to it raises SIGPIPE.
Gone(p) == status[p] \in {"closing", "zombie", "reaped"}

Readable(p) == c2p[p] # <<>> \/ Gone(p)

\* remove_client_from_list: the records behind the first one of p move down
\* and the last slot keeps its content.
FirstOf(p) == CHOOSE j \in 0..n - 1 :
                  slot[j] = p /\ \A h \in 0..j - 1 : slot[h] # p

LastNotMoved(p) ==
    [j \in Slots |-> IF j >= FirstOf(p) /\ j < n - 2 THEN slot[j + 1] ELSE slot[j]]

ShiftedDown(p) ==
    [j \in Slots |-> IF j >= FirstOf(p) /\ j < n - 1 THEN slot[j + 1] ELSE slot[j]]

-----------------------------------------------------------------------------
(* The parent: select and accept.                                          *)

LastNeverReady == {p \in {slot[j] : j \in 0..n - 2} : Readable(p)}

Ready == {p \in Recorded : Readable(p)}

\* select returns: a connection is waiting or a pipe is readable.  It fails
\* at once, for ever, when the array names a descriptor that is closed.
Select ==
    /\ pc = "select"
    /\ Recorded \subseteq ends
    /\ backlog > 0 \/ Ready # {}
    /\ fdset' = Ready
    /\ pc' = IF backlog > 0 THEN "accept" ELSE "scan"
    /\ UNCHANGED <<i, k, reg, buf, origin, sender, whom, at, loop, told, steady,
                   table, children>>

\* accept, which waits for a connection, and fork.
Accept ==
    /\ pc = "accept"
    /\ backlog > 0
    /\ backlog' = backlog - 1
    /\ forked' = forked + 1
    /\ status' = [status EXCEPT ![forked + 1] = "running"]
    /\ ends' = ends \cup {forked + 1}
    /\ pc' = "add"
    /\ UNCHANGED <<fdset, i, k, reg, buf, origin, sender, whom, at, loop, told, steady,
                   slot, n, closed, sock, sent, c2p, p2c>>

OneRecordTooMany ==
    /\ pc = "add"
    /\ IF n > MaxClients
       THEN pc' = "welcome" /\ UNCHANGED slot
       ELSE pc' = "load" /\ slot' = [slot EXCEPT ![n] = forked]
    /\ UNCHANGED <<fdset, i, k, reg, buf, origin, sender, whom, at, loop, told, steady,
                   n, ends, forked, backlog, children>>

\* add_client_to_list: the capacity test and the fields of the new record...
Add ==
    /\ pc = "add"
    /\ IF n >= MaxClients
       THEN pc' = "welcome" /\ UNCHANGED slot
       ELSE pc' = "load" /\ slot' = [slot EXCEPT ![n] = forked]
    /\ UNCHANGED <<fdset, i, k, reg, buf, origin, sender, whom, at, loop, told, steady,
                   n, ends, forked, backlog, children>>

\* ... and client_count++, a load and a store the handler may come between.
Load ==
    /\ pc = "load"
    /\ reg' = n
    /\ pc' = "store"
    /\ UNCHANGED <<fdset, i, k, buf, origin, sender, whom, at, loop, told, steady,
                   table, children>>

Store ==
    /\ pc = "store"
    /\ n' = reg + 1
    /\ reg' = 0
    /\ pc' = "welcome"
    /\ UNCHANGED <<fdset, i, k, buf, origin, sender, whom, at, loop, told, steady,
                   slot, ends, forked, backlog, children>>

\* The welcome message, by pid...
Welcome ==
    /\ pc = "welcome"
    /\ whom' = forked
    /\ loop' = "greet"
    /\ pc' = "find"
    /\ UNCHANGED <<fdset, i, k, reg, buf, origin, sender, at, told, steady, table, children>>

\* ... and broadcast_message_to_all_clients, with a loop of its own.
Greet ==
    /\ pc = "greet"
    /\ i' = 0
    /\ loop' = "announce"
    /\ steady' = TRUE
    /\ pc' = "announce"
    /\ UNCHANGED <<fdset, k, reg, buf, origin, sender, whom, at, told, table, children>>

Announce ==
    /\ pc = "announce"
    /\ i < n
    /\ at' = i
    /\ i' = i + 1
    /\ pc' = "aim"
    /\ UNCHANGED <<fdset, k, reg, buf, origin, sender, whom, loop, told, steady,
                   table, children>>

\* A loop of writes has ended.
LoopOver == i' = 0 /\ k' = 0 /\ loop' = "scan" /\ told' = {} /\ steady' = FALSE

AnnounceStopsEarly ==
    /\ pc = "announce"
    /\ i >= n - 1
    /\ LoopOver
    /\ pc' = "scan"
    /\ UNCHANGED <<fdset, reg, buf, origin, sender, whom, at, table, children>>

AnnounceDone ==
    /\ pc = "announce"
    /\ i >= n
    /\ LoopOver
    /\ pc' = "scan"
    /\ UNCHANGED <<fdset, reg, buf, origin, sender, whom, at, table, children>>

-----------------------------------------------------------------------------
(* The parent: one message to one child.                                   *)

\* send_message_to_client_by_pid: nothing is sent when there is no record.
Find ==
    /\ pc = "find"
    /\ IF whom \in Recorded
       THEN at' = FirstOf(whom) /\ pc' = "aim"
       ELSE at' = at /\ pc' = loop
    /\ whom' = 0
    /\ UNCHANGED <<fdset, i, k, reg, buf, origin, sender, loop, told, steady, table, children>>

\* The descriptor that is in the slot by now is passed to write.
Aim ==
    /\ pc = "aim"
    /\ whom' = slot[at]
    /\ at' = 0
    /\ pc' = "write"
    /\ UNCHANGED <<fdset, i, k, reg, buf, origin, sender, loop, told, steady, table, children>>

Wrote ==
    /\ whom' = 0
    /\ UNCHANGED <<fdset, i, k, reg, buf, origin, sender, at, loop, steady, table,
                   status, closed, sock, sent, c2p>>

\* The write does nothing on a descriptor that the handler has closed...
WriteClosed ==
    /\ pc = "write"
    /\ whom \notin ends
    /\ pc' = loop
    /\ Wrote
    /\ UNCHANGED <<told, p2c>>

\* ... kills the parent when the child is gone...
WriteBroken ==
    /\ pc = "write"
    /\ whom \in ends /\ Gone(whom)
    /\ pc' = "dead"
    /\ Wrote
    /\ UNCHANGED <<told, p2c>>

\* ... and waits while the pipe is full.
Write ==
    /\ pc = "write"
    /\ whom \in ends /\ ~Gone(whom)
    /\ p2c[whom] < PipeCap
    /\ p2c' = [p2c EXCEPT ![whom] = @ + 1]
    /\ told' = IF loop \in {"announce", "send"} THEN told \cup {whom} ELSE told
    /\ pc' = loop
    /\ Wrote

WriteStep == Find \/ Aim \/ WriteClosed \/ WriteBroken \/ Write

-----------------------------------------------------------------------------
(* The parent: messages.                                                   *)

Scan ==
    /\ pc = "scan"
    /\ i < n
    /\ pc' = "isset"
    /\ UNCHANGED <<fdset, i, k, reg, buf, origin, sender, whom, at, loop, told, steady,
                   table, children>>

ScanDone ==
    /\ pc = "scan"
    /\ i >= n
    /\ fdset' = {}
    /\ i' = 0
    /\ pc' = "select"
    /\ UNCHANGED <<k, reg, buf, origin, sender, whom, at, loop, told, steady, table, children>>

\* FD_ISSET(clients[i].pipe_read_fd).
IsSet ==
    /\ pc = "isset"
    /\ IF slot[i] \in fdset
       THEN pc' = "fetch" /\ i' = i
       ELSE pc' = "scan" /\ i' = i + 1
    /\ UNCHANGED <<fdset, k, reg, buf, origin, sender, whom, at, loop, told, steady,
                   table, children>>

\* read(clients[i].pipe_read_fd), by now perhaps the next client's: its
\* descriptor is looked up, and the read made on it.
Fetch ==
    /\ pc = "fetch"
    /\ origin' = slot[i]
    /\ pc' = "read"
    /\ UNCHANGED <<fdset, i, k, reg, buf, sender, whom, at, loop, told, steady,
                   table, children>>

\* The read returns what is in the pipe, as much of it as the buffer takes, and
\* all of that is handled as one message, the first.  It waits while the pipe
\* is empty and the child has it open.
Read ==
    /\ pc = "read"
    /\ origin \in ends /\ c2p[origin] # <<>>
    /\ buf' = Head(c2p[origin])
    /\ \E h \in 1..Len(c2p[origin]) :
           c2p' = [c2p EXCEPT ![origin] = SubSeq(@, h + 1, Len(@))]
    /\ pc' = "got"
    /\ UNCHANGED <<fdset, i, k, reg, origin, sender, whom, at, loop, told, steady, table,
                   status, closed, sock, sent, p2c>>

EndRetried ==
    /\ pc = "read"
    /\ origin \in ends => c2p[origin] = <<>> /\ Gone(origin)
    /\ origin' = 0
    /\ pc' = "scan"
    /\ UNCHANGED <<fdset, i, k, reg, buf, sender, whom, at, loop, told, steady,
                   table, children>>

\* End of file, or a descriptor that is closed.
ReadNothing ==
    /\ pc = "read"
    /\ origin \in ends => c2p[origin] = <<>> /\ Gone(origin)
    /\ origin' = 0
    /\ i' = i + 1
    /\ pc' = "scan"
    /\ UNCHANGED <<fdset, k, reg, buf, sender, whom, at, loop, told, steady,
                   table, children>>

\* process_message_from_child is given the descriptor that is in clients[i] by
\* now.
Got ==
    /\ pc = "got"
    /\ whom' = slot[i]
    /\ pc' = "lookup"
    /\ UNCHANGED <<fdset, i, k, reg, buf, origin, sender, at, loop, told, steady,
                   table, children>>

\* The locals of a handled message are done with.
Handled ==
    /\ i' = i + 1 /\ k' = 0 /\ loop' = "scan" /\ told' = {} /\ steady' = FALSE
    /\ buf' = "none" /\ origin' = 0 /\ sender' = 0

\* The sender is looked up by that descriptor; without a record the message is
\* dropped.
Lookup ==
    /\ pc = "lookup"
    /\ whom' = 0
    /\ IF whom \in Recorded
       THEN /\ sender' = whom
            /\ loop' = IF buf = "room" THEN "send" ELSE "scan"
            /\ steady' = (buf = "room")
            /\ k' = 0
            /\ pc' = "send"
            /\ UNCHANGED <<i, buf, origin, told>>
       ELSE pc' = "scan" /\ Handled
    /\ UNCHANGED <<fdset, reg, at, table, children>>

\* The answer to a command: one message to the sender.
Answer ==
    /\ pc = "send"
    /\ loop = "scan"
    /\ whom' = sender
    /\ pc' = "find"
    /\ Handled
    /\ UNCHANGED <<fdset, reg, at, table, children>>

\* broadcast_message_in_room, one message by pid for every record.
Broadcast ==
    /\ pc = "send"
    /\ loop = "send"
    /\ k < n
    /\ pc' = "pick"
    /\ UNCHANGED <<fdset, i, k, reg, buf, origin, sender, whom, at, loop, told, steady,
                   table, children>>

Pick ==
    /\ pc = "pick"
    /\ whom' = slot[k]
    /\ k' = k + 1
    /\ pc' = "find"
    /\ UNCHANGED <<fdset, i, reg, buf, origin, sender, at, loop, told, steady,
                   table, children>>

BroadcastDone ==
    /\ pc = "send"
    /\ loop = "send" /\ buf # "none"
    /\ k >= n
    /\ Handled
    /\ pc' = "scan"
    /\ UNCHANGED <<fdset, reg, whom, at, table, children>>

Connection ==
    \/ Select \/ Accept \/ Add \/ Load \/ Store
    \/ Welcome \/ Greet \/ Announce \/ AnnounceDone

Handling == Got \/ Lookup \/ Answer \/ Broadcast \/ Pick \/ BroadcastDone

Reading == Scan \/ ScanDone \/ IsSet \/ Fetch \/ Read \/ ReadNothing

Parent == Connection \/ WriteStep \/ Reading \/ Handling

-----------------------------------------------------------------------------
(* The SIGCHLD handler, in the parent between any two of its steps.        *)

\* One turn of the handler's loop: a child is reaped, its record removed and
\* its pipes closed.
Removal(p) ==
    IF p \in Recorded
    THEN /\ slot' = ShiftedDown(p)
         /\ n' = n - 1
         /\ ends' = ends \ {p}
         /\ steady' = FALSE
    ELSE UNCHANGED <<slot, n, ends, steady>>

Reap(p) ==
    /\ pc # "dead"
    /\ status[p] = "zombie"
    /\ status' = [status EXCEPT ![p] = "reaped"]
    /\ Removal(p)
    /\ UNCHANGED <<pc, fdset, i, k, reg, buf, origin, sender, whom, at, loop, told,
                   forked, backlog, closed, sock, sent, c2p, p2c>>

\* The signal arrives while select waits.  select fails with EINTR and leaves
\* the sets as they were passed in, so every FD_ISSET that follows is true.
\* (A recorded child closes its pipe before it exits, which ends the wait
\* first: this takes a child without a record.)
ReapInSelect(p) ==
    /\ pc = "select"
    /\ backlog = 0 /\ Ready = {} /\ Recorded \subseteq ends
    /\ status[p] = "zombie"
    /\ status' = [status EXCEPT ![p] = "reaped"]
    /\ Removal(p)
    /\ fdset' = Recorded
    /\ pc' = "accept"
    /\ UNCHANGED <<i, k, reg, buf, origin, sender, whom, at, loop, told, forked, backlog,
                   closed, sock, sent, c2p, p2c>>

-----------------------------------------------------------------------------
(* A child (handle_client_child_process) and its client.                   *)

\* A message is read from the client...
ChildRead(p) ==
    /\ status[p] = "running"
    /\ sock[p] # <<>>
    /\ status' = [status EXCEPT ![p] = "writing"]
    /\ UNCHANGED <<parent, table, closed, sock, sent, c2p, p2c>>

\* ... and written to the parent, as soon as the pipe has room.
ChildWrite(p) ==
    /\ status[p] = "writing"
    /\ Len(c2p[p]) < PipeCap
    /\ c2p' = [c2p EXCEPT ![p] = Append(@, Head(sock[p]))]
    /\ sock' = [sock EXCEPT ![p] = Tail(@)]
    /\ status' = [status EXCEPT ![p] = "running"]
    /\ UNCHANGED <<parent, table, closed, sent, p2c>>

WaitsForQuietClient(p) ==
    /\ status[p] = "running"
    /\ p2c[p] > 0
    /\ sock[p] # <<>> \/ closed[p]
    /\ \E rest \in 0..p2c[p] - 1 : p2c' = [p2c EXCEPT ![p] = rest]
    /\ UNCHANGED <<parent, table, status, closed, sock, sent, c2p>>

\* What the parent wrote, as much of it as the buffer takes, is read and
\* passed to the client.
ChildDrain(p) ==
    /\ status[p] = "running"
    /\ p2c[p] > 0
    /\ \E rest \in 0..p2c[p] - 1 : p2c' = [p2c EXCEPT ![p] = rest]
    /\ UNCHANGED <<parent, table, status, closed, sock, sent, c2p>>

\* The client is gone: the child closes its descriptors...
ChildClose(p) ==
    /\ status[p] = "running"
    /\ closed[p] /\ sock[p] = <<>>
    /\ status' = [status EXCEPT ![p] = "closing"]
    /\ UNCHANGED <<parent, table, closed, sock, sent, c2p, p2c>>

\* ... and exits.
ChildExit(p) ==
    /\ status[p] = "closing"
    /\ status' = [status EXCEPT ![p] = "zombie"]
    /\ UNCHANGED <<parent, table, closed, sock, sent, c2p, p2c>>

Connect ==
    /\ forked + backlog < MaxPid
    /\ backlog' = backlog + 1
    /\ UNCHANGED <<parent, slot, n, ends, forked, children>>

ClientSend(p, m) ==
    /\ p <= forked
    /\ ~closed[p] /\ sent < MaxSend
    /\ sent' = sent + 1
    /\ sock' = [sock EXCEPT ![p] = Append(@, m)]
    /\ UNCHANGED <<parent, table, status, closed, c2p, p2c>>

ClientClose(p) ==
    /\ p <= forked /\ p \in Quitters
    /\ ~closed[p]
    /\ closed' = [closed EXCEPT ![p] = TRUE]
    /\ UNCHANGED <<parent, table, status, sock, sent, c2p, p2c>>

Child(p) ==
    \/ ChildRead(p) \/ ChildWrite(p) \/ ChildDrain(p)
    \/ ChildClose(p) \/ ChildExit(p)

Client(p) ==
    \/ \E m \in Message : ClientSend(p, m)
    \/ ClientClose(p)

Next ==
    \/ Parent
    \/ Connect
    \/ \E p \in Pid : Reap(p) \/ ReapInSelect(p) \/ Child(p) \/ Client(p)

Spec == Init /\ [][Next]_vars

\* Every process that can run is scheduled, and signals are delivered.  What
\* the users do (connect, send, quit) is never forced.
Fairness ==
    /\ WF_vars(Parent)
    /\ \A p \in Pid : WF_vars(Reap(p)) /\ WF_vars(Child(p))

FairSpec == Spec /\ Fairness

-----------------------------------------------------------------------------
(* Properties.                                                             *)

TypeOK ==
    /\ pc \in {"select", "accept", "add", "load", "store", "welcome", "greet", "announce",
               "scan", "isset", "fetch", "read", "got", "lookup", "send", "pick",
               "find", "aim", "write", "dead"}
    /\ fdset \subseteq Pid
    /\ i \in 0..MaxClients /\ k \in 0..MaxClients /\ reg \in Slots /\ at \in Slots
    /\ buf \in Message \cup {"none"}
    /\ origin \in 0..MaxPid /\ sender \in 0..MaxPid /\ whom \in 0..MaxPid
    /\ loop \in {"scan", "greet", "announce", "send"}
    /\ told \subseteq Pid /\ steady \in BOOLEAN
    /\ slot \in [Slots -> 0..MaxPid] /\ n \in 0..MaxClients
    /\ ends \subseteq Pid /\ forked \in 0..MaxPid /\ backlog \in 0..MaxPid
    /\ status \in [Pid -> {"unborn", "running", "writing",
                           "closing", "zombie", "reaped"}]
    /\ closed \in [Pid -> BOOLEAN] /\ sent \in 0..MaxSend
    /\ sock \in [Pid -> Seq(Message)] /\ c2p \in [Pid -> Seq(Message)]
    /\ p2c \in [Pid -> 0..PipeCap]

\* A record goes away only when its child is reaped: wherever the handler comes,
\* inside client_count++ included, its shift and the counter that is overwritten
\* lose no record that was counted.
RecordsStay ==
    [][\A p \in Pid : p \in Recorded /\ p \notin Recorded' => status'[p] = "reaped"]_vars

\* When a broadcast ends and no record was removed since it began, it has been
\* written to every client with a record, to each although its descriptor is
\* looked up anew.  (A record removed in the middle moves the next one out of
\* the loop's reach.)
BroadcastReachesAll ==
    [][(AnnounceDone \/ BroadcastDone) /\ steady => Recorded \cap ends \subseteq told]_vars

\* A message is handled as the message of the client that sent it.
AttributedToSender == pc = "send" => sender = origin

\* Where the parent may wait for ever: the read of a pipe that FD_ISSET was not
\* asked about, or that nothing had been written to when EINTR left every set
\* full; the write to a full pipe; the accept that EINTR led to; the select
\* that fails on a closed descriptor.
ReadWaits == pc = "read" /\ origin \in ends /\ c2p[origin] = <<>> /\ ~Gone(origin)
WriteWaits == pc = "write" /\ whom \in ends /\ ~Gone(whom) /\ p2c[whom] = PipeCap
AcceptWaits == pc = "accept" /\ backlog = 0
SelectFails == pc = "select" /\ ~(Recorded \subseteq ends)

Held == ReadWaits \/ WriteWaits \/ AcceptWaits \/ SelectFails

\* What a recorded client sends is read by the parent, or its child is reaped,
\* unless the parent dies of SIGPIPE or waits for ever at one of those points:
\* whatever records the handler removes from under the parent's loops, nothing
\* else leaves a message behind.
MessagesRead ==
    \A p \in Pid :
        p \in Recorded /\ (sock[p] # <<>> \/ c2p[p] # <<>>) ~>
            \/ sock[p] = <<>> /\ c2p[p] = <<>>
            \/ status[p] = "reaped"
            \/ pc = "dead"
            \/ []Held

\* What the parent writes to a child is read by it, or the child ends, unless the
\* parent dies or the child waits for ever to write while the parent is held up.
NoticesDrained ==
    \A p \in Pid :
        p2c[p] > 0 ~>
            \/ p2c[p] = 0 \/ Gone(p) \/ pc = "dead"
            \/ [](status[p] = "writing" /\ Held)

\* Every connection is accepted, unless the parent dies or waits for ever.
ConnectionsAccepted == backlog > 0 ~> backlog = 0 \/ pc = "dead" \/ []Held
=============================================================================
