---------------------------- MODULE SignalServer ----------------------------
(***************************************************************************)
(* chat/chat_server.c: chat rooms, one child per client, a pipe each way,  *)
(* and SIGUSR1 from a child to tell the parent of a message.  The parent   *)
(* only accepts; messages are read, handled and answered in the SIGUSR1    *)
(* handler, which reads the pipe of every client in turn and waits at each *)
(* that has nothing to read.  The SIGCHLD handler may run at any point of  *)
(* the loop and of the other handler.                                      *)
(*                                                                         *)
(* Abstractions.  A child and its pipes are named by its pid, as in        *)
(* ChatServer2.  What a message is (talk or which command) is chosen when  *)
(* it is handled.  A pipe is a number of messages; a read of the parent    *)
(* takes one or as many as its buffer holds, and what it leaves of one     *)
(* counts as a message (not so the last byte of a first message that fills *)
(* the child's buffer, which is one byte longer: that is left out).  A     *)
(* command is one step, and so are the reaping of a child and the setting  *)
(* of a record's fields: a SIGCHLD between two of them, which spreads them *)
(* over two slots, is left out.  So is the nickname, which the client      *)
(* sends first (the parent tries to read it from the socket it has closed, *)
(* so nobody ever gets one).                                               *)
(***************************************************************************)
EXTENDS Integers, FiniteSets

CONSTANTS
    MaxClients,  \* MAX_CLIENTS
    MaxConn,     \* bound: connections made in one behaviour
    MaxSend,     \* bound: messages each client sends
    Talkers,     \* the clients that send messages
    Quitters,    \* the clients that may disconnect
    MaxEntries,  \* bound: entries of a client in a room (MAX_USERS_PER_ROOM is not tested)
    Room,        \* the names of rooms (MAX_ROOMS is not tested)
    NoRoom       \* the empty current_room

ASSUME SignalAssumption ==
    /\ MaxClients \in Nat \ {0} /\ MaxConn \in Nat \ {0}
    /\ Talkers \subseteq 1..MaxConn /\ Quitters \subseteq 1..MaxConn
    /\ MaxSend \in Nat /\ MaxEntries \in Nat
    /\ NoRoom \notin Room

VARIABLES
    \* the parent
    pc,       \* what its loop does next
    reg,      \* client_count as loaded by client_count++
    usr1,     \* SIGUSR1 is pending
    hpc,      \* what the SIGUSR1 handler does next
    i, j,     \* its loops over the array
    slot, n,  \* clients[].pid and client_count
    ends,     \* children whose pipes the parent has open
    forked,   \* children forked so far
    backlog,  \* connections waiting in the listening socket
    \* the rooms
    open,     \* rooms[].name
    users,    \* how often a pid is in rooms[].users
    home,     \* clients[].current_room
    \* the children and their clients
    status,   \* of each child process
    closed,   \* the client has closed its connection
    sock,     \* messages in the socket, client to child
    sent,     \* messages the client has sent
    c2p, p2c, \* messages in the pipes, child to parent and back
    \* history
    early,    \* children that signalled before they had a record
    mute,     \* children whose last message was handled without an answer
    heard,    \* whose messages have been read since that of a child was
    left      \* messages the last read of a child's pipe had no room for

main == <<pc, reg, slot, n, ends, forked, backlog>>
handler == <<usr1, hpc, i, j>>
tables == <<open, users, home>>
children == <<status, closed, sock, sent, c2p, p2c>>
history == <<early, mute, heard, left>>
vars == <<main, handler, tables, children, history>>

Pid == 1..MaxConn
Slots == 0..MaxClients - 1

Init ==
    /\ pc = "accept" /\ reg = 0
    /\ slot = [g \in Slots |-> 0] /\ n = 0
    /\ ends = {} /\ forked = 0 /\ backlog = 0
    /\ usr1 = FALSE /\ hpc = "idle" /\ i = 0 /\ j = 0
    /\ open = {}
    /\ users = [r \in Room |-> [p \in Pid |-> 0]]
    /\ home = [p \in Pid |-> NoRoom]
    /\ status = [p \in Pid |-> "unborn"]
    /\ closed = [p \in Pid |-> FALSE]
    /\ sock = [p \in Pid |-> 0] /\ sent = [p \in Pid |-> 0]
    /\ c2p = [p \in Pid |-> 0] /\ p2c = [p \in Pid |-> 0]
    /\ early = {} /\ mute = {} /\ heard = [p \in Pid |-> {}]
    /\ left = [p \in Pid |-> 0]

Recorded == {slot[g] : g \in 0..n - 1}
Gone(p) == status[p] \in {"zombie", "reaped"}
UserCount(r) == {p \in Pid : users[r][p] > 0}

-----------------------------------------------------------------------------
(* The parent's loop, which waits while the handler runs.                  *)

InLoop(at) == pc = at /\ hpc = "idle"

Turned ==
    /\ InLoop("accept")
    /\ backlog > 0
    /\ backlog' = backlog - 1

\* accept and fork.
Accept ==
    /\ n < MaxClients
    /\ Turned
    /\ forked' = forked + 1
    /\ status' = [status EXCEPT ![forked + 1] = "reading"]
    /\ ends' = ends \cup {forked + 1}
    /\ pc' = "record"
    /\ UNCHANGED <<reg, slot, n, handler, tables, closed, sock, sent, c2p, p2c, history>>

\* The array is full: the connection is closed.
Refuse ==
    /\ n >= MaxClients
    /\ Turned
    /\ UNCHANGED <<pc, reg, slot, n, ends, forked, handler, tables, children, history>>

\* The new record, in no room...
Record ==
    /\ InLoop("record")
    /\ slot' = [slot EXCEPT ![n] = forked]
    /\ home' = [home EXCEPT ![forked] = NoRoom]
    /\ pc' = "load"
    /\ UNCHANGED <<reg, n, ends, forked, backlog, handler, open, users, children, history>>

\* ... and client_count++, a load and a store.
Load ==
    /\ InLoop("load")
    /\ reg' = n
    /\ pc' = "store"
    /\ UNCHANGED <<slot, n, ends, forked, backlog, handler, tables, children, history>>

Store ==
    /\ InLoop("store")
    /\ n' = reg + 1
    /\ reg' = 0
    /\ pc' = "accept"
    /\ UNCHANGED <<slot, ends, forked, backlog, handler, tables, children, history>>

Main == Accept \/ Refuse \/ Record \/ Load \/ Store

-----------------------------------------------------------------------------
(* The SIGUSR1 handler.                                                    *)

InHandler(at) == pc # "dead" /\ hpc = at

\* The pending signal is delivered.
Enter ==
    /\ InHandler("idle")
    /\ usr1
    /\ usr1' = FALSE
    /\ hpc' = "read"
    /\ i' = 0
    /\ UNCHANGED <<main, j, tables, children, history>>

\* The read on the pipe of clients[i] returns what there is and fits...
Read ==
    /\ InHandler("read")
    /\ i < n
    /\ slot[i] \in ends
    /\ \E rest \in 0..c2p[slot[i]] - 1 :
           /\ c2p' = [c2p EXCEPT ![slot[i]] = rest]
           /\ left' = [left EXCEPT ![slot[i]] = rest]
    /\ hpc' = "serve"
    /\ heard' = [p \in Pid |-> CASE p = slot[i] -> {}
                                 [] p # slot[i] /\ p \in Recorded -> heard[p] \cup {slot[i]}
                                 [] OTHER -> heard[p]]
    /\ UNCHANGED <<main, usr1, i, j, tables, status, closed, sock, sent, p2c, early, mute>>

SilentPassedOver ==
    /\ InHandler("read")
    /\ i < n
    /\ slot[i] \in ends => c2p[slot[i]] = 0
    /\ i' = i + 1
    /\ UNCHANGED <<main, usr1, hpc, j, tables, children, history>>

\* ... or end of file, or fails; otherwise it waits for the child to write.
Skip ==
    /\ InHandler("read")
    /\ i < n
    /\ slot[i] \in ends => Gone(slot[i]) /\ c2p[slot[i]] = 0
    /\ i' = i + 1
    /\ UNCHANGED <<main, usr1, hpc, j, tables, children, history>>

Return ==
    /\ InHandler("read")
    /\ i >= n
    /\ hpc' = "idle"
    /\ i' = 0
    /\ UNCHANGED <<main, usr1, j, tables, children, history>>

\* The parent writes to p's pipe.  A child that is gone means SIGPIPE.
WriteTo(p) ==
    \/ p \notin ends /\ UNCHANGED <<pc, p2c>>
    \/ p \in ends /\ Gone(p) /\ pc' = "dead" /\ UNCHANGED p2c
    \/ p \in ends /\ ~Gone(p) /\ p2c' = [p2c EXCEPT ![p] = @ + 1] /\ UNCHANGED pc

\* A command of clients[i] is done with, answered through its record...
Answered ==
    /\ IF slot[i] \in Recorded THEN WriteTo(slot[i]) ELSE UNCHANGED <<pc, p2c>>
    /\ hpc' = "read"
    /\ i' = i + 1
    /\ UNCHANGED <<reg, slot, n, ends, forked, backlog, usr1, j,
                   status, closed, sock, sent, c2p, history>>

\* ... or without a word to the child, which goes on waiting for one.
Unanswered ==
    /\ hpc' = "read"
    /\ i' = i + 1
    /\ mute' = mute \cup {slot[i]}
    /\ UNCHANGED <<main, usr1, j, children, early, heard, left>>

AddRoom(r) ==
    /\ InHandler("serve")
    /\ r \notin open
    /\ open' = open \cup {r}
    /\ users' = [users EXCEPT ![r] = [p \in Pid |-> 0]]
    /\ Answered
    /\ UNCHANGED home

\* The room is entered and the one the client was in keeps its entry.
JoinRoom(r) ==
    /\ InHandler("serve")
    /\ r \in open /\ slot[i] \in Recorded
    /\ users[r][slot[i]] < MaxEntries
    /\ users' = [users EXCEPT ![r][slot[i]] = @ + 1]
    /\ home' = [home EXCEPT ![slot[i]] = r]
    /\ Answered
    /\ UNCHANGED open

\* One entry in the room the client is in goes.
LeaveRoom ==
    /\ InHandler("serve")
    /\ slot[i] \in Recorded /\ home[slot[i]] \in open
    /\ users' = [users EXCEPT ![home[slot[i]]][slot[i]] = IF @ > 0 THEN @ - 1 ELSE 0]
    /\ home' = [home EXCEPT ![slot[i]] = NoRoom]
    /\ Answered
    /\ UNCHANGED open

UsersNotCounted(r) ==
    /\ InHandler("serve")
    /\ r \in open
    /\ open' = open \ {r}
    /\ Answered
    /\ UNCHANGED <<users, home>>

\* The users that are gone or have moved to another room count as well.
RemoveRoom(r) ==
    /\ InHandler("serve")
    /\ r \in open
    /\ UserCount(r) = {}
    /\ open' = open \ {r}
    /\ Answered
    /\ UNCHANGED <<users, home>>

\* /list and /users, a room that does not exist, one that is still in use.
Reply ==
    /\ InHandler("serve")
    /\ Answered
    /\ UNCHANGED tables

\* /leave outside a room, /add of a room there is, a name missing, or no command.
NoReply ==
    /\ InHandler("serve")
    /\ Unanswered
    /\ UNCHANGED tables

Talk ==
    /\ InHandler("serve")
    /\ hpc' = "tell"
    /\ j' = 0
    /\ UNCHANGED <<main, usr1, i, tables, children, history>>

ToldToOthers ==
    /\ InHandler("tell")
    /\ j < n
    /\ IF j # i /\ home[slot[j]] = home[slot[i]]
       THEN WriteTo(slot[j])
       ELSE UNCHANGED <<pc, p2c>>
    /\ j' = j + 1
    /\ UNCHANGED <<reg, slot, n, ends, forked, backlog, usr1, hpc, i, tables,
                   status, closed, sock, sent, c2p, history>>

\* What clients[i] said goes to the room it is in, itself included.
Tell ==
    /\ InHandler("tell")
    /\ j < n
    /\ IF home[slot[j]] = home[slot[i]]
       THEN WriteTo(slot[j])
       ELSE UNCHANGED <<pc, p2c>>
    /\ j' = j + 1
    /\ UNCHANGED <<reg, slot, n, ends, forked, backlog, usr1, hpc, i, tables,
                   status, closed, sock, sent, c2p, history>>

Told ==
    /\ InHandler("tell")
    /\ j >= n
    /\ hpc' = "read"
    /\ i' = i + 1
    /\ j' = 0
    /\ UNCHANGED <<main, usr1, tables, children, history>>

Handler ==
    \/ Enter \/ Read \/ Skip \/ Return
    \/ \E r \in Room : AddRoom(r) \/ JoinRoom(r) \/ RemoveRoom(r)
    \/ LeaveRoom \/ Reply \/ NoReply \/ Talk \/ Tell \/ Told

-----------------------------------------------------------------------------
(* The SIGCHLD handler.                                                    *)

FirstOf(p) == CHOOSE g \in 0..n - 1 :
                  slot[g] = p /\ \A h \in 0..g - 1 : slot[h] # p

\* The record goes and the last one takes its place.  The rooms keep the pid.
Reap(p) ==
    /\ pc # "dead"
    /\ status[p] = "zombie"
    /\ status' = [status EXCEPT ![p] = "reaped"]
    /\ IF p \in Recorded
       THEN /\ slot' = [slot EXCEPT ![FirstOf(p)] = slot[n - 1]]
            /\ n' = n - 1
            /\ ends' = ends \ {p}
       ELSE UNCHANGED <<slot, n, ends>>
    /\ UNCHANGED <<pc, reg, forked, backlog, handler, tables,
                   closed, sock, sent, c2p, p2c, history>>

-----------------------------------------------------------------------------
(* A child and its client.                                                 *)

\* A message is read from the client and written to the parent.
ChildPass(p) ==
    /\ status[p] = "reading"
    /\ sock[p] > 0
    /\ sock' = [sock EXCEPT ![p] = @ - 1]
    /\ c2p' = [c2p EXCEPT ![p] = @ + 1]
    /\ status' = [status EXCEPT ![p] = "written"]
    /\ UNCHANGED <<main, handler, tables, closed, sent, p2c, history>>

LostWhileBusy(p) ==
    /\ status[p] = "written"
    /\ usr1' = (usr1 \/ hpc = "idle")
    /\ status' = [status EXCEPT ![p] = "waiting"]
    /\ early' = IF p \in Recorded THEN early ELSE early \cup {p}
    /\ UNCHANGED <<main, hpc, i, j, tables, closed, sock, sent, c2p, p2c, mute, heard, left>>

\* kill(getppid(), SIGUSR1): one pending signal stands for any number.
ChildSignal(p) ==
    /\ status[p] = "written"
    /\ usr1' = (usr1 \/ pc # "dead")
    /\ status' = [status EXCEPT ![p] = "waiting"]
    /\ early' = IF p \in Recorded THEN early ELSE early \cup {p}
    /\ UNCHANGED <<main, hpc, i, j, tables, closed, sock, sent, c2p, p2c, mute, heard, left>>

\* Whatever is in the pipe is passed to the client, and only then is the
\* client listened to again.  Writing to a client that is gone may be fatal.
ChildAnswer(p) ==
    /\ status[p] = "waiting"
    /\ p2c[p] > 0
    /\ p2c' = [p2c EXCEPT ![p] = 0]
    /\ mute' = mute \ {p}
    /\ \/ status' = [status EXCEPT ![p] = "reading"]
       \/ closed[p] /\ status' = [status EXCEPT ![p] = "zombie"]
    /\ UNCHANGED <<main, handler, tables, closed, sock, sent, c2p, early, heard, left>>

ChildExit(p) ==
    /\ status[p] = "reading"
    /\ closed[p] /\ sock[p] = 0
    /\ status' = [status EXCEPT ![p] = "zombie"]
    /\ UNCHANGED <<main, handler, tables, closed, sock, sent, c2p, p2c, history>>

Child(p) ==
    \/ ChildPass(p) \/ ChildSignal(p)
    \/ ChildAnswer(p) \/ ChildExit(p)

\* Bound: when the parent is dead the users do nothing any more.
Connect ==
    /\ pc # "dead"
    /\ forked + backlog < MaxConn
    /\ backlog' = backlog + 1
    /\ UNCHANGED <<pc, reg, slot, n, ends, forked, handler, tables, children, history>>

ClientSend(p) ==
    /\ pc # "dead"
    /\ p <= forked /\ p \in Talkers
    /\ ~closed[p] /\ sent[p] < MaxSend
    /\ sent' = [sent EXCEPT ![p] = @ + 1]
    /\ sock' = [sock EXCEPT ![p] = @ + 1]
    /\ UNCHANGED <<main, handler, tables, status, closed, c2p, p2c, history>>

ClientClose(p) ==
    /\ pc # "dead"
    /\ p <= forked /\ p \in Quitters
    /\ ~closed[p]
    /\ closed' = [closed EXCEPT ![p] = TRUE]
    /\ UNCHANGED <<main, handler, tables, status, sock, sent, c2p, p2c, history>>

Next ==
    \/ Main \/ Handler \/ Connect
    \/ \E p \in Pid : Reap(p) \/ Child(p) \/ ClientSend(p) \/ ClientClose(p)

Spec == Init /\ [][Next]_vars

\* Every process that can run is scheduled, and signals are delivered.  What
\* the users do is never forced.
Fairness ==
    /\ WF_vars(Main) /\ WF_vars(Handler)
    /\ \A p \in Pid : WF_vars(Reap(p)) /\ WF_vars(Child(p))

FairSpec == Spec /\ Fairness

-----------------------------------------------------------------------------
(* Properties.                                                             *)

TypeOK ==
    /\ pc \in {"accept", "record", "load", "store", "dead"}
    /\ reg \in 0..MaxClients - 1 /\ usr1 \in BOOLEAN
    /\ hpc \in {"idle", "read", "serve", "tell"}
    /\ i \in 0..MaxClients /\ j \in 0..MaxClients
    /\ slot \in [Slots -> 0..MaxConn] /\ n \in 0..MaxClients
    /\ ends \subseteq Pid /\ forked \in 0..MaxConn /\ backlog \in 0..MaxConn
    /\ open \subseteq Room
    /\ users \in [Room -> [Pid -> 0..MaxEntries]]
    /\ home \in [Pid -> Room \cup {NoRoom}]
    /\ status \in [Pid -> {"unborn", "reading", "written",
                           "waiting", "zombie", "reaped"}]
    /\ closed \in [Pid -> BOOLEAN]
    /\ sock \in [Pid -> 0..MaxSend] /\ sent \in [Pid -> 0..MaxSend]
    /\ c2p \in [Pid -> 0..MaxSend] /\ p2c \in [Pid -> Nat]
    /\ early \subseteq Pid /\ mute \subseteq Pid /\ heard \in [Pid -> SUBSET Pid]
    /\ left \in [Pid -> 0..MaxSend]

\* A room is never removed while somebody is in it: the room a client is in
\* exists and lists the client, although a room is entered without leaving the
\* one before and the entries of clients that are gone stay.
MemberListed ==
    \A p \in Recorded :
        home[p] # NoRoom => home[p] \in open /\ users[home[p]][p] > 0

NobodyReaped == \A p \in Pid : status[p] # "reaped"

\* Signals merge, yet while no child has been reaped no message is forgotten:
\* one that has been announced by a client with a record since its pipe was last
\* read is in front of the handler or has a signal pending.  (What that read had
\* no room for has no signal of its own.)
AnnouncedIsAhead ==
    NobodyReaped /\ pc # "dead" =>
        \A g \in 0..n - 1 :
            LET p == slot[g] IN
            c2p[p] > left[p] /\ status[p] # "written" /\ p \notin early =>
                \/ usr1
                \/ hpc = "read" /\ g >= i
                \/ hpc \in {"serve", "tell"} /\ g > i

\* The handler waits for a child to write, and a child that has written waits
\* for an answer.  While no child has been reaped they wait for each other only
\* when the child's message was one of those that are not answered.
StuckOnlyWhenMute ==
    NobodyReaped /\ hpc = "read" /\ i < n =>
        LET p == slot[i] IN
        status[p] = "waiting" /\ p \notin mute => c2p[p] > 0 \/ p2c[p] > 0

\* One client that says nothing silences everybody: while no child has been
\* reaped no client is read from twice before every other client that has a
\* record, and is still there, has been read from once.
TakingTurns ==
    [][Read /\ NobodyReaped =>
           \A p \in Recorded : ~Gone(p) => slot[i] \notin heard[p]]_vars

\* The handler does not wait for ever for a client that has something to say or
\* has quit, unless the child waits for an answer that will not come.
RoundGoesOn ==
    \A p \in Pid :
        /\ hpc = "read" /\ i < n
        /\ slot[i] = p
        /\ sock[p] > 0 \/ closed[p]
        ~>
        \/ hpc # "read" \/ i >= n
        \/ slot[i] # p
        \/ p \in mute
        \/ ~NobodyReaped
        \/ pc = "dead"
=============================================================================
