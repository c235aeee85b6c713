----------------------------- MODULE SharedPipe -----------------------------
(***************************************************************************)
(* The processes of chat3/chat_server.c: a daemon that forks a child per   *)
(* connection, one pipe meant to be shared by all children, and SIGUSR1,   *)
(* by which a child tells the daemon to read it.                           *)
(*                                                                         *)
(* daemonize closes descriptors 0, 1 and 2, so the listening socket is 0   *)
(* and the pipe is 1 and 2.  The daemon closes 2 after its first fork, and *)
(* the next accept returns 2: the children of later connections inherit    *)
(* their own socket under the number they take for the pipe.  Standard     *)
(* output is 1 in the daemon, the read end, to which writes fail, and      *)
(* standard error is 2.                                                    *)
(*                                                                         *)
(* signal() restarts the waits it interrupts and blocks a signal in its    *)
(* own handler.  g_client_count is never increased: no connection is       *)
(* refused, broadcast_message sends nothing and a shutdown signals nobody. *)
(* The byte before a buffer that is overwritten when read fails is not     *)
(* part of the state.                                                      *)
(*                                                                         *)
(* Some definitions are preceded by a faulty variant (a bug the code might *)
(* have had) that the model checker must reject.                           *)
(***************************************************************************)
EXTENDS Integers

CONSTANTS
    MaxConn,   \* bound: connections made in one behaviour
    MaxSend,   \* bound: messages each client sends
    PipeCap,   \* messages the pipe takes before a writer has to wait
    MayFail    \* fork may fail

ASSUME SharedPipeAssumption ==
    /\ MaxConn \in Nat /\ MaxSend \in Nat /\ PipeCap \in Nat \ {0}
    /\ MayFail \in BOOLEAN

VARIABLES
    \* the daemon
    pc,        \* what main does next
    two,       \* what its descriptor 2 is: the write end, a socket, nothing
    signal,    \* SIGUSR1 is pending
    reading,   \* sig_usr1 is in its read, or was when sig_int_term began
    stopping,  \* sig_int_term has not begun, waits, has ended the daemon
    backlog,   \* connections waiting in the listening socket
    accepted,  \* connections accepted so far
    pipe,      \* messages in the pipe
    wrote,     \* history: who has written to the pipe, 0 for the daemon
    left,      \* history: how many of these the last read had no room for, or
               \* the daemon wrote itself since
    \* the children and their clients
    status,    \* of each child
    out,       \* what its descriptor child_to_parent_pipe[1] is
    inbox,     \* messages in its socket
    sent,      \* messages its client has sent
    conn       \* its connection: open, closed by the client, reset

daemon == <<pc, two, signal, reading, stopping, backlog, accepted>>
channel == <<pipe, wrote, left>>
children == <<status, out, inbox, sent, conn>>
vars == <<daemon, channel, children>>

Conn == 1..MaxConn

\* After daemonize, socket, listen and pipe.
Init ==
    /\ pc = "accept" /\ two = "pipe"
    /\ signal = FALSE /\ reading = "no" /\ stopping = "no"
    /\ backlog = 0 /\ accepted = 0
    /\ pipe = 0 /\ wrote = {} /\ left = 0
    /\ status = [c \in Conn |-> "none"]
    /\ out = [c \in Conn |-> "none"]
    /\ inbox = [c \in Conn |-> 0]
    /\ sent = [c \in Conn |-> 0]
    /\ conn = [c \in Conn |-> "open"]

-----------------------------------------------------------------------------
(* The daemon: main.                                                       *)

\* main runs: no handler does.
InMain == reading = "no" /\ stopping = "no"

\* accept returns the lowest free number, 2 once the write end is closed.
Accept ==
    /\ InMain /\ pc = "accept"
    /\ backlog > 0
    /\ backlog' = backlog - 1
    /\ accepted' = accepted + 1
    /\ two' = IF two = "free" THEN "socket" ELSE two
    /\ pc' = "fork"
    /\ UNCHANGED <<signal, reading, stopping, channel, children>>

\* The child takes descriptor 2 for the pipe, whatever it is.
Fork ==
    /\ InMain /\ pc = "fork"
    /\ status' = [status EXCEPT ![accepted] = "serve"]
    /\ out' = [out EXCEPT ![accepted] = two]
    /\ pc' = "close"
    /\ UNCHANGED <<two, signal, reading, stopping, backlog, accepted, channel,
                   inbox, sent, conn>>

ForkFails ==
    /\ MayFail
    /\ InMain /\ pc = "fork"
    /\ pc' = "report"
    /\ UNCHANGED <<two, signal, reading, stopping, backlog, accepted, channel,
                   children>>

\* perror writes to descriptor 2: the pipe, where it waits for room like any
\* writer, or the client, which is closed then.
Report ==
    /\ InMain /\ pc = "report"
    /\ \/ /\ two = "pipe" /\ pipe < PipeCap
          /\ pipe' = pipe + 1 /\ left' = left + 1 /\ wrote' = wrote \cup {0}
          /\ two' = two
       \/ two = "socket" /\ two' = "free" /\ UNCHANGED channel
    /\ pc' = "accept"
    /\ UNCHANGED <<signal, reading, stopping, backlog, accepted, children>>

\* Writing to a client that has reset its connection may raise SIGPIPE, which
\* the daemon does not handle.
ReportKills ==
    /\ InMain /\ pc = "report"
    /\ two = "socket" /\ conn[accepted] = "reset"
    /\ stopping' = "ended"
    /\ UNCHANGED <<pc, two, signal, reading, backlog, accepted, channel, children>>

WriteEndKept ==
    /\ InMain /\ pc = "close"
    /\ two' = IF two = "socket" THEN "free" ELSE two
    /\ pc' = "accept"
    /\ UNCHANGED <<signal, reading, stopping, backlog, accepted, channel, children>>

\* The socket and the write end are closed: the same number but for the first
\* child.
Close ==
    /\ InMain /\ pc = "close"
    /\ two' = "free"
    /\ pc' = "accept"
    /\ UNCHANGED <<signal, reading, stopping, backlog, accepted, channel, children>>

Main == Accept \/ Fork \/ Report \/ Close

-----------------------------------------------------------------------------
(* The daemon: signals.                                                    *)

Live(c) == status[c] \in {"serve", "write", "signal"}

HasWriter == two = "pipe" \/ \E c \in Conn : Live(c) /\ out[c] = "pipe"

EnterUsr1 ==
    /\ signal
    /\ reading = "no" /\ stopping # "ended"
    /\ signal' = FALSE
    /\ reading' = "yes"
    /\ UNCHANGED <<pc, two, stopping, backlog, accepted, channel, children>>

\* sig_usr1 waits for a message, or until nobody can write one, and takes as
\* much as its buffer holds: part of a message and all that follows may stay.
Usr1 ==
    /\ reading = "yes" /\ stopping # "ended"
    /\ \/ /\ pipe > 0
          /\ \E rest \in 0..pipe : pipe' = rest /\ left' = rest
       \/ pipe = 0 /\ ~HasWriter /\ UNCHANGED <<pipe, left>>
    /\ reading' = "no"
    /\ UNCHANGED <<pc, two, signal, stopping, backlog, accepted, wrote, children>>

\* sig_chld, or wait in sig_int_term.
Reap(c) ==
    /\ stopping # "ended"
    /\ status[c] = "zombie"
    /\ status' = [status EXCEPT ![c] = "reaped"]
    /\ UNCHANGED <<daemon, channel, out, inbox, sent, conn>>

\* SIGINT or SIGTERM: whatever runs is left where it is.
Stop ==
    /\ stopping = "no"
    /\ stopping' = "waiting"
    /\ reading' = IF reading = "yes" THEN "suspended" ELSE reading
    /\ UNCHANGED <<pc, two, signal, backlog, accepted, channel, children>>

\* while (wait(NULL) > 0), and exit.
End ==
    /\ stopping = "waiting"
    /\ reading # "yes"
    /\ \A c \in Conn : ~Live(c) /\ status[c] # "zombie"
    /\ stopping' = "ended"
    /\ UNCHANGED <<pc, two, signal, reading, backlog, accepted, channel, children>>

Handlers == EnterUsr1 \/ Usr1 \/ End

-----------------------------------------------------------------------------
(* A child (handle_client).                                                *)

ChildRead(c) ==
    /\ status[c] = "serve"
    /\ \E taken \in 1..inbox[c] : inbox' = [inbox EXCEPT ![c] = @ - taken]
    /\ status' = [status EXCEPT ![c] = "write"]
    /\ UNCHANGED <<daemon, channel, out, sent, conn>>

\* read fails once when the connection was reset; nothing is written.
ChildReset(c) ==
    /\ status[c] = "serve"
    /\ inbox[c] = 0 /\ conn[c] = "reset"
    /\ conn' = [conn EXCEPT ![c] = "closed"]
    /\ status' = [status EXCEPT ![c] = "signal"]
    /\ UNCHANGED <<daemon, channel, out, inbox, sent>>

ChildForgetsSignal(c) ==
    /\ status[c] = "write"
    /\ \/ out[c] = "socket" /\ UNCHANGED <<pipe, wrote>>
       \/ /\ out[c] = "pipe" /\ pipe < PipeCap /\ stopping # "ended"
          /\ pipe' = pipe + 1 /\ wrote' = wrote \cup {c}
    /\ status' = [status EXCEPT ![c] = "serve"]
    /\ UNCHANGED <<daemon, left, out, inbox, sent, conn>>

\* The message goes back to the client, or into the pipe, once there is room.
ChildWrite(c) ==
    /\ status[c] = "write"
    /\ \/ out[c] = "socket" /\ UNCHANGED <<pipe, wrote>>
       \/ /\ out[c] = "pipe" /\ pipe < PipeCap /\ stopping # "ended"
          /\ pipe' = pipe + 1 /\ wrote' = wrote \cup {c}
    /\ status' = [status EXCEPT ![c] = "signal"]
    /\ UNCHANGED <<daemon, left, out, inbox, sent, conn>>

\* Writing to a pipe without a reader raises SIGPIPE and ends the child.
ChildBroken(c) ==
    /\ status[c] = "write"
    /\ out[c] = "pipe" /\ stopping = "ended"
    /\ status' = [status EXCEPT ![c] = "zombie"]
    /\ UNCHANGED <<daemon, channel, out, inbox, sent, conn>>

\* Writing to a client that has gone may do so.
ChildKilled(c) ==
    /\ status[c] = "write"
    /\ out[c] = "socket" /\ conn[c] # "open"
    /\ status' = [status EXCEPT ![c] = "zombie"]
    /\ UNCHANGED <<daemon, channel, out, inbox, sent, conn>>

\* kill(getppid(), SIGUSR1): a signal that is pending is not counted twice.
ChildSignal(c) ==
    /\ status[c] = "signal"
    /\ signal' = TRUE
    /\ status' = [status EXCEPT ![c] = "serve"]
    /\ UNCHANGED <<pc, two, reading, stopping, backlog, accepted, channel,
                   out, inbox, sent, conn>>

\* End of file: the descriptors are closed and the child exits.
ChildExit(c) ==
    /\ status[c] = "serve"
    /\ inbox[c] = 0 /\ conn[c] = "closed"
    /\ status' = [status EXCEPT ![c] = "zombie"]
    /\ UNCHANGED <<daemon, channel, out, inbox, sent, conn>>

Child(c) ==
    \/ ChildRead(c) \/ ChildReset(c) \/ ChildWrite(c)
    \/ ChildBroken(c) \/ ChildSignal(c) \/ ChildExit(c)

-----------------------------------------------------------------------------
(* The users.                                                              *)

Connect ==
    /\ stopping # "ended"
    /\ accepted + backlog < MaxConn
    /\ backlog' = backlog + 1
    /\ UNCHANGED <<pc, two, signal, reading, stopping, accepted, channel, children>>

ClientSend(c) ==
    /\ c <= accepted /\ conn[c] = "open" /\ sent[c] < MaxSend
    /\ sent' = [sent EXCEPT ![c] = @ + 1]
    /\ inbox' = [inbox EXCEPT ![c] = @ + 1]
    /\ UNCHANGED <<daemon, channel, status, out, conn>>

ClientLeave(c) ==
    /\ c <= accepted /\ conn[c] = "open"
    /\ \E how \in {"closed", "reset"} : conn' = [conn EXCEPT ![c] = how]
    /\ UNCHANGED <<daemon, channel, status, out, inbox, sent>>

Next ==
    \/ Main \/ ForkFails \/ ReportKills
    \/ Handlers
    \/ Stop
    \/ Connect
    \/ \E c \in Conn :
           Reap(c) \/ Child(c) \/ ChildKilled(c) \/ ClientSend(c) \/ ClientLeave(c)

Spec == Init /\ [][Next]_vars

\* Processes that can run are scheduled and pending signals are delivered.
\* Users and operators do what they like.
Fairness ==
    /\ WF_vars(Main) /\ WF_vars(Handlers)
    /\ \A c \in Conn : WF_vars(Reap(c)) /\ WF_vars(Child(c))

FairSpec == Spec /\ Fairness

-----------------------------------------------------------------------------
(* Properties.                                                             *)

TypeOK ==
    /\ pc \in {"accept", "fork", "report", "close"}
    /\ two \in {"pipe", "socket", "free"}
    /\ signal \in BOOLEAN
    /\ reading \in {"no", "yes", "suspended"}
    /\ stopping \in {"no", "waiting", "ended"}
    /\ backlog \in Nat /\ accepted \in Nat /\ accepted + backlog <= MaxConn
    /\ pipe \in 0..PipeCap /\ left \in 0..pipe /\ wrote \subseteq 0..MaxConn
    /\ status \in [Conn -> {"none", "serve", "write", "signal", "zombie", "reaped"}]
    /\ out \in [Conn -> {"none", "pipe", "socket"}]
    /\ inbox \in [Conn -> Nat] /\ sent \in [Conn -> Nat]
    /\ conn \in [Conn -> {"open", "closed", "reset"}]
    /\ pc # "accept" => accepted \in Conn
    /\ pc \in {"fork", "report"} => two # "free"

\* Every child is given the pipe (chat_server.c, 129, 155, 236).  It is not:
\* descriptor 2 is closed after the first fork and then reused for sockets.
AllShareThePipe == \A c \in Conn : Live(c) => out[c] = "pipe"

\* The pipe all children are meant to share is written to by one child only,
\* besides the error messages of the daemon.
OneWriter == \A c, d \in wrote \ {0} : c = d

\* Signals merge and may come for nothing, but what a child has written since
\* the last read is announced: the signal is pending or about to be sent, or
\* the read is under way.  Nothing announces what a read left, nor what the
\* daemon wrote, and a read interrupted by sig_int_term is never resumed.
MessageAnnounced ==
    pipe > left /\ reading # "suspended" =>
        \/ signal
        \/ reading = "yes"
        \/ \E c \in Conn : status[c] = "signal" /\ out[c] = "pipe"

\* The read waits for a writer that is the daemon itself: SIGUSR1 came between
\* fork and close once too often.
WaitsForItself == reading = "yes" /\ pc = "close" /\ two = "pipe"

\* A child waits for room in the pipe.
WaitsForRoom ==
    pipe = PipeCap /\ \E c \in Conn : status[c] = "write" /\ out[c] = "pipe"

WriterLeft == \E c \in Conn : out[c] = "pipe" /\ conn[c] # "open"

\* While the handler waits for the first child, nobody is accepted; but once
\* that child's client has gone, every connection is.
AcceptedOnceWriterLeft ==
    backlog > 0 /\ WriterLeft ~>
        backlog = 0 \/ stopping # "no" \/ []WaitsForItself

\* A request to stop ends the daemon when the last client has gone, unless its
\* read waits for itself for ever, or the first child for a read of the full
\* pipe that nothing makes happen, a suspended one for instance.
StopsWithLastClient ==
    stopping = "waiting" /\ (\A c \in Conn : Live(c) => conn[c] # "open") ~>
        stopping = "ended" \/ []WaitsForItself \/ []WaitsForRoom
=============================================================================
