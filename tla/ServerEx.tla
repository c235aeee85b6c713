------------------------------ MODULE ServerEx ------------------------------
(***************************************************************************)
(* The processes of chat_ex/chat_server.c: a daemon that opens two pipes   *)
(* and forks a child per connection, and children that greet their client  *)
(* and then wait, in the handler of a signal they send to themselves, for  *)
(* a message from the daemon.  The daemon writes none, so the wait lasts   *)
(* until the last copy of the other end of the pipe is closed, and no      *)
(* child reads its client's commands (handle_client_message).              *)
(*                                                                         *)
(* The daemon's copy of the client table is never marked in use: every     *)
(* connection gets slot 0, none is refused for lack of slots, and          *)
(* client_deinit never runs in the daemon, so that it keeps two            *)
(* descriptors of every connection.  A child is named by its connection.   *)
(*                                                                         *)
(* Some definitions are preceded by a faulty variant (a bug the code might *)
(* have had) that the model checker must reject.                           *)
(***************************************************************************)
EXTENDS Integers, FiniteSets

CONSTANTS
    MaxConn,   \* bound: connections made in one behaviour
    FdLimit,   \* descriptors the daemon may have open
    MayFail    \* fork may fail

\* The daemon has its listening socket and may open one more descriptor.
ASSUME ServerExAssumption ==
    /\ MaxConn \in Nat
    /\ FdLimit \in Nat /\ FdLimit > 1
    /\ MayFail \in BOOLEAN

VARIABLES
    pc,        \* what the daemon does next
    used,      \* descriptors it has open
    ends,      \* children whose pipe it can write to
    lost,      \* history: pipes it has open and no variable names
    backlog,   \* connections waiting in the listening socket
    accepted,  \* connections accepted so far
    status,    \* of the child of each connection
    holds,     \* the pipes each child has a write end of
    reset      \* connections reset by the client

daemon == <<pc, used, ends, lost, backlog, accepted>>
children == <<status, holds, reset>>
vars == <<daemon, children>>

Conn == 1..MaxConn

\* The standard descriptors are closed; the listening socket is open.
Init ==
    /\ pc = "accept" /\ used = 1 /\ ends = {} /\ lost = 0
    /\ backlog = 0 /\ accepted = 0
    /\ status = [c \in Conn |-> "none"]
    /\ holds = [c \in Conn |-> {}]
    /\ reset = {}

-----------------------------------------------------------------------------
(* The daemon.                                                             *)

\* accept fails, and is tried again, while no descriptor is free.
Accept ==
    /\ pc = "accept"
    /\ backlog > 0 /\ used < FdLimit
    /\ backlog' = backlog - 1
    /\ accepted' = accepted + 1
    /\ used' = used + 1
    /\ pc' = "pipes"
    /\ UNCHANGED <<ends, lost, children>>

\* The two pipes are open.
PipesOpen ==
    /\ used' = used + 4
    /\ ends' = ends \cup {accepted}
    /\ pc' = "fork"
    /\ UNCHANGED <<lost, backlog, accepted, children>>

\* The connection is closed; kept descriptors of it stay open.
TurnAway(kept) ==
    /\ used' = used - 1 + kept
    /\ lost' = IF kept = 0 THEN lost ELSE lost + 1
    /\ status' = [status EXCEPT ![accepted] = "refused"]
    /\ pc' = "accept"
    /\ UNCHANGED <<ends, backlog, accepted, holds, reset>>

SocketKept ==
    /\ pc = "pipes"
    /\ \/ used + 4 <= FdLimit /\ PipesOpen
       \/ used + 4 > FdLimit /\ used + 2 <= FdLimit /\ TurnAway(2)
       \/ used + 2 > FdLimit /\ TurnAway(1)

\* When the second pipe cannot be opened the first stays open.
OpenPipes ==
    /\ pc = "pipes"
    /\ \/ used + 4 <= FdLimit /\ PipesOpen
       \/ used + 4 > FdLimit /\ used + 2 <= FdLimit /\ TurnAway(2)
       \/ used + 2 > FdLimit /\ TurnAway(0)

\* The child inherits a write end of every pipe the daemon has open.
Fork ==
    /\ pc = "fork"
    /\ status' = [status EXCEPT ![accepted] = "setup"]
    /\ holds' = [holds EXCEPT ![accepted] = ends]
    /\ pc' = "close"
    /\ UNCHANGED <<used, ends, lost, backlog, accepted, reset>>

ForkFails ==
    /\ MayFail
    /\ pc = "fork"
    /\ used' = used - 5
    /\ ends' = ends \ {accepted}
    /\ status' = [status EXCEPT ![accepted] = "refused"]
    /\ pc' = "accept"
    /\ UNCHANGED <<lost, backlog, accepted, holds, reset>>

\* The socket and one end of each pipe are closed.
Close ==
    /\ pc = "close"
    /\ used' = used - 3
    /\ pc' = "accept"
    /\ UNCHANGED <<ends, lost, backlog, accepted, children>>

Daemon == Accept \/ OpenPipes \/ Fork \/ Close

\* sigchld_handler finds no record of any child and closes nothing.  The
\* children of a daemon that has been killed are reaped by init.
Reap(c) ==
    /\ status[c] = "zombie"
    /\ status' = [status EXCEPT ![c] = "reaped"]
    /\ UNCHANGED <<daemon, holds, reset>>

\* The daemon handles no signal that stops it: it can only be killed.
Killed ==
    /\ pc # "dead"
    /\ pc' = "dead"
    /\ used' = 0 /\ ends' = {} /\ backlog' = 0
    /\ UNCHANGED <<lost, accepted, children>>

-----------------------------------------------------------------------------
(* A child.                                                                *)

Alive(c) == status[c] \in {"setup", "greet", "wait"}

OwnEndKept(c) ==
    /\ status[c] = "setup"
    /\ status' = [status EXCEPT ![c] = "greet"]
    /\ UNCHANGED <<daemon, holds, reset>>

\* client_init, and its own write end closed; those of the others stay open.
Setup(c) ==
    /\ status[c] = "setup"
    /\ holds' = [holds EXCEPT ![c] = @ \ {c}]
    /\ status' = [status EXCEPT ![c] = "greet"]
    /\ UNCHANGED <<daemon, reset>>

\* The welcome, which may end the child if its client has reset the connection,
\* and the signal to itself.
Greet(c) ==
    /\ status[c] = "greet"
    /\ \/ /\ status' = [status EXCEPT ![c] = "wait"]
          /\ UNCHANGED holds
       \/ /\ c \in reset
          /\ status' = [status EXCEPT ![c] = "zombie"]
          /\ holds' = [holds EXCEPT ![c] = {}]
    /\ UNCHANGED <<daemon, reset>>

HasWriter(c) == c \in ends \/ \E d \in Conn : c \in holds[d]

EndsWithDaemon(c) ==
    /\ status[c] = "wait"
    /\ c \notin ends
    /\ status' = [status EXCEPT ![c] = "zombie"]
    /\ holds' = [holds EXCEPT ![c] = {}]
    /\ UNCHANGED <<daemon, reset>>

\* sigHandler_server_child reads the end of file, which clears in_use; the loop
\* over the client's messages is not entered and the child exits.
EndOfPipe(c) ==
    /\ status[c] = "wait"
    /\ ~HasWriter(c)
    /\ status' = [status EXCEPT ![c] = "zombie"]
    /\ holds' = [holds EXCEPT ![c] = {}]
    /\ UNCHANGED <<daemon, reset>>

Child(c) == Setup(c) \/ Greet(c) \/ EndOfPipe(c)

-----------------------------------------------------------------------------
(* The users.                                                              *)

Connect ==
    /\ pc # "dead"
    /\ accepted + backlog < MaxConn
    /\ backlog' = backlog + 1
    /\ UNCHANGED <<pc, used, ends, lost, accepted, children>>

\* After the welcome nobody notices.
ClientReset(c) ==
    /\ c <= accepted /\ c \notin reset
    /\ status[c] \in {"none", "setup", "greet"}
    /\ reset' = reset \cup {c}
    /\ UNCHANGED <<daemon, status, holds>>

Next ==
    \/ Daemon \/ ForkFails \/ Killed
    \/ Connect
    \/ \E c \in Conn : Reap(c) \/ Child(c) \/ ClientReset(c)

Spec == Init /\ [][Next]_vars

\* Processes that can run are scheduled.  Nobody has to kill the daemon.
Fairness ==
    /\ WF_vars(Daemon)
    /\ \A c \in Conn : WF_vars(Child(c))

FairSpec == Spec /\ Fairness

-----------------------------------------------------------------------------
(* Properties.                                                             *)

TypeOK ==
    /\ pc \in {"accept", "pipes", "fork", "close", "dead"}
    /\ used \in 0..FdLimit /\ lost \in Nat
    /\ ends \subseteq 1..accepted
    /\ backlog \in Nat /\ accepted \in Nat /\ accepted + backlog <= MaxConn
    /\ pc \notin {"accept", "dead"} => accepted \in Conn
    /\ status \in [Conn -> {"none", "refused", "setup", "greet", "wait",
                            "zombie", "reaped"}]
    /\ holds \in [Conn -> SUBSET Conn]
    /\ reset \subseteq Conn

Forked == {c \in Conn : status[c] \notin {"none", "refused"}}

\* However many descriptors are lost, one is left to accept the next
\* connection with, if only to close it at once.
RoomToRefuse == pc = "accept" => used < FdLimit

\* The children that outlive their welcome end in the reverse order of their
\* connections, after the daemon: each keeps its elders' pipes open.
EndsInReverse ==
    \A c, d \in Conn :
        c < d /\ c \notin reset /\ status[c] \in {"zombie", "reaped"} =>
            pc = "dead" /\ ~Alive(d)

\* When the daemon has been killed all its children end.
ChildrenEndAfterDaemon ==
    pc = "dead" ~> \A c \in Conn : ~Alive(c)

\* Every connection is accepted, whatever could not be opened before.
ConnectionsAnswered == backlog > 0 ~> backlog = 0 \/ pc = "dead"
=============================================================================
