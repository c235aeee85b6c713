-------------------------- MODULE LockstepServers --------------------------
(***************************************************************************)
(* Two servers with one skeleton, chat/server.c ("log") and                *)
(* chat_ex/multi_chat_server.c ("multi"): each turn of the parent waits    *)
(* for a connection, forks a child for it and then looks once at every     *)
(* child's pipe; a child passes on one message of its client and then      *)
(* waits for one from the parent.  "log" asks for a nickname, announces    *)
(* every connection and reads pipes without waiting; "multi" selects the   *)
(* pipes to read.  The table of clients only grows.                        *)
(*                                                                         *)
(* signal() restarts accept.  Pipes and sockets are counted in pieces no   *)
(* longer than the buffers: a read takes one or more, as many as fit, and  *)
(* passes them on as one; with the nickname in front ("log") that may be   *)
(* just too long for one read.  What children do once the parent has ended *)
(* is left out.  SIGINT is sent to the parent alone.                       *)
(*                                                                         *)
(* Some definitions are preceded by a faulty variant (a bug the code might *)
(* have had) that the model checker must reject.                           *)
(***************************************************************************)
EXTENDS Integers, FiniteSets

CONSTANTS
    MaxClients,  \* MAX_CLIENTS, MAX_CHILD
    MaxConn,     \* bound: connections made in one behaviour
    MaxSend,     \* bound: messages each client sends, the nickname included
    PipeCap,     \* pieces in a pipe from the parent that make its writer wait
    MayFail      \* fork may fail

ASSUME LockstepAssumption ==
    /\ MaxClients \in Nat \ {0} /\ MaxConn \in Nat /\ MaxSend \in Nat
    /\ PipeCap \in Nat \ {0} /\ MayFail \in BOOLEAN

VARIABLES
    program,   \* which of the two servers this is
    \* the parent
    pc,        \* what it does next
    i, j,      \* indexes of its loop over the pipes and of broadcast
    ready,     \* the children select reported
    slot, n,   \* the table of clients and client_count or child_count
    backlog,   \* connections waiting in the listening socket
    accepted,  \* connections accepted so far
    chld,      \* SIGCHLD is pending
    \* the children and their clients
    status,    \* of each child
    closed,    \* the client has closed its connection
    inbox,     \* messages in the socket
    sent,      \* messages the client has sent
    c2p, p2c,  \* pieces in the pipes to and from the parent
    \* history: whether the reads of each of these pipes are odd in number
    heard,     \* those the parent makes in its scans
    told       \* those the child makes

parent == <<pc, i, j, ready, slot, n, backlog, accepted>>
children == <<status, closed, inbox, sent, c2p, p2c, heard, told>>
vars == <<program, parent, chld, children>>

Conn == 1..MaxConn
Slots == 0..MaxClients - 1

Init ==
    /\ program \in {"log", "multi"}
    /\ pc = "accept" /\ i = 0 /\ j = 0 /\ ready = {}
    /\ slot = [h \in Slots |-> 0] /\ n = 0
    /\ backlog = 0 /\ accepted = 0 /\ chld = FALSE
    /\ status = [c \in Conn |-> "none"]
    /\ closed = [c \in Conn |-> FALSE]
    /\ inbox = [c \in Conn |-> 0]
    /\ sent = [c \in Conn |-> 0]
    /\ c2p = [c \in Conn |-> 0]
    /\ p2c = [c \in Conn |-> 0]
    /\ heard = [c \in Conn |-> FALSE]
    /\ told = [c \in Conn |-> FALSE]

Serving == pc \notin {"dead", "ended"}

Recorded == {slot[h] : h \in 0..n - 1}

\* No process has the child's ends of its pipes.
Gone(c) == status[c] \in {"failed", "zombie", "reaped"}

\* A write to c's pipe waits while the pipe is full, and SIGPIPE kills the
\* parent when nobody can read it.
WriteTo(c, pieces, next) ==
    \/ Gone(c) /\ pc' = "dead" /\ UNCHANGED p2c
    \/ /\ ~Gone(c) /\ p2c[c] < PipeCap
       /\ \E k \in pieces : p2c' = [p2c EXCEPT ![c] = @ + k]
       /\ pc' = next

-----------------------------------------------------------------------------
(* The parent: a connection.                                               *)

RefusedThenScanned ==
    /\ pc = "accept"
    /\ backlog > 0
    /\ backlog' = backlog - 1
    /\ accepted' = accepted + 1
    /\ IF n >= MaxClients
       THEN pc' = "scan" /\ status' = [status EXCEPT ![accepted + 1] = "refused"]
       ELSE pc' = "fork" /\ UNCHANGED status
    /\ UNCHANGED <<program, i, j, ready, slot, n, chld, closed, inbox, sent, c2p, p2c, heard, told>>

\* Without room in the table the connection is closed and the next one waited
\* for.
Accept ==
    /\ pc = "accept"
    /\ backlog > 0
    /\ backlog' = backlog - 1
    /\ accepted' = accepted + 1
    /\ IF n >= MaxClients
       THEN UNCHANGED pc /\ status' = [status EXCEPT ![accepted + 1] = "refused"]
       ELSE pc' = "fork" /\ UNCHANGED status
    /\ UNCHANGED <<program, i, j, ready, slot, n, chld, closed, inbox, sent, c2p, p2c, heard, told>>

\* A fork that fails is taken for the parent's side of one that did not.
Fork ==
    /\ pc = "fork"
    /\ \E st \in {IF program = "log" THEN "nick" ELSE "talk"}
                 \cup (IF MayFail THEN {"failed"} ELSE {}) :
           status' = [status EXCEPT ![accepted] = st]
    /\ pc' = "record"
    /\ UNCHANGED <<program, i, j, ready, slot, n, backlog, accepted, chld,
                   closed, inbox, sent, c2p, p2c, heard, told>>

\* chat/server.c: the nickname, or the first NAME_LEN bytes of what is there
\* already, is read without waiting, and the fields of the record are set.
RecordLog ==
    /\ pc = "record" /\ program = "log"
    /\ \E rest \in 0..c2p[accepted] : c2p' = [c2p EXCEPT ![accepted] = rest]
    /\ slot' = [slot EXCEPT ![n] = accepted]
    /\ i' = 0
    /\ pc' = "join"
    /\ UNCHANGED <<program, j, ready, n, backlog, accepted, chld,
                   status, closed, inbox, sent, p2c, heard, told>>

\* The others are told (broadcast)...
Join ==
    /\ pc = "join"
    /\ i < n
    /\ WriteTo(slot[i], {1}, "join")
    /\ i' = i + 1
    /\ UNCHANGED <<program, j, ready, slot, n, backlog, accepted, chld,
                   status, closed, inbox, sent, c2p, heard, told>>

ScanFromOne ==
    /\ pc = "join"
    /\ i >= n
    /\ n' = n + 1
    /\ i' = 1
    /\ pc' = "scan"
    /\ UNCHANGED <<program, j, ready, slot, backlog, accepted, chld, children>>

\* ... and the client is counted.
JoinDone ==
    /\ pc = "join"
    /\ i >= n
    /\ n' = n + 1
    /\ i' = 0
    /\ pc' = "scan"
    /\ UNCHANGED <<program, j, ready, slot, backlog, accepted, chld, children>>

RecordMulti ==
    /\ pc = "record" /\ program = "multi"
    /\ slot' = [slot EXCEPT ![n] = accepted]
    /\ n' = n + 1
    /\ i' = 0
    /\ pc' = "select"
    /\ UNCHANGED <<program, j, ready, backlog, accepted, chld, children>>

-----------------------------------------------------------------------------
(* The parent: the messages.                                               *)

Readable == {c \in Recorded : c2p[c] > 0 \/ Gone(c)}

\* select returns the pipes that can be read, or none after half a second or
\* when SIGCHLD is handled; then the loop over the pipes is left out.
Select ==
    /\ pc = "select"
    /\ ready' = Readable
    /\ pc' = IF Readable = {} THEN "accept" ELSE "scan"
    /\ UNCHANGED <<program, i, j, slot, n, backlog, accepted, chld, children>>

\* A pipe with messages is read...
ScanRead ==
    /\ pc = "scan"
    /\ i < n
    /\ program = "multi" => slot[i] \in ready
    /\ \E rest \in 0..c2p[slot[i]] - 1 : c2p' = [c2p EXCEPT ![slot[i]] = rest]
    /\ heard' = [heard EXCEPT ![slot[i]] = ~@]
    /\ j' = 0
    /\ pc' = "relay"
    /\ UNCHANGED <<program, i, ready, slot, n, backlog, accepted, chld,
                   status, closed, inbox, sent, p2c, told>>

\* ... any other is left as it is.
ScanSkip ==
    /\ pc = "scan"
    /\ i < n
    /\ c2p[slot[i]] > 0 => program = "multi" /\ slot[i] \notin ready
    /\ i' = i + 1
    /\ UNCHANGED <<program, pc, j, ready, slot, n, backlog, accepted, chld, children>>

ScanDone ==
    /\ pc = "scan"
    /\ i >= n
    /\ i' = 0 /\ ready' = {}
    /\ pc' = "accept"
    /\ UNCHANGED <<program, j, slot, n, backlog, accepted, chld, children>>

\* The message is written to every child but the sender's.
Relay ==
    /\ pc = "relay"
    /\ j < n
    /\ IF j = i THEN UNCHANGED <<pc, p2c>>
       ELSE WriteTo(slot[j], IF program = "log" THEN {1, 2} ELSE {1}, "relay")
    /\ j' = j + 1
    /\ UNCHANGED <<program, i, ready, slot, n, backlog, accepted, chld,
                   status, closed, inbox, sent, c2p, heard, told>>

RelayDone ==
    /\ pc = "relay"
    /\ j >= n
    /\ i' = i + 1 /\ j' = 0
    /\ pc' = "scan"
    /\ UNCHANGED <<program, ready, slot, n, backlog, accepted, chld, children>>

Parent ==
    \/ Accept \/ Fork \/ RecordLog \/ Join \/ JoinDone \/ RecordMulti
    \/ Select \/ ScanRead \/ ScanSkip \/ ScanDone \/ Relay \/ RelayDone

-----------------------------------------------------------------------------
(* The parent: signals.                                                    *)

\* sigchld_handler: one signal may stand for several children.
Sigchld ==
    /\ chld /\ Serving
    /\ chld' = FALSE
    /\ status' = [c \in Conn |-> IF status[c] = "zombie" THEN "reaped" ELSE status[c]]
    /\ UNCHANGED <<program, parent, closed, inbox, sent, c2p, p2c, heard, told>>

LastSpared ==
    /\ program = "multi" /\ Serving
    /\ pc' = "ended"
    /\ status' = [c \in Conn |->
                     IF c \in {slot[h] : h \in 0..n - 2} /\ status[c] \in {"talk", "listen"}
                     THEN "killed" ELSE status[c]]
    /\ UNCHANGED <<program, i, j, ready, slot, n, backlog, accepted, chld,
                   closed, inbox, sent, c2p, p2c, heard, told>>

\* sigint_handler of multi_chat_server.c sends SIGTERM to every pid in the table.
\* The record of a failed fork has pid -1, which stands for every process there
\* is, the user's others as well.
Sigint ==
    /\ program = "multi" /\ Serving
    /\ pc' = "ended"
    /\ LET reached == IF \E c \in Recorded : status[c] = "failed"
                      THEN Conn ELSE Recorded
       IN  status' = [c \in Conn |->
                         IF c \in reached /\ status[c] \in {"talk", "listen"}
                         THEN "killed" ELSE status[c]]
    /\ UNCHANGED <<program, i, j, ready, slot, n, backlog, accepted, chld,
                   closed, inbox, sent, c2p, p2c, heard, told>>

-----------------------------------------------------------------------------
(* A child and its client.                                                 *)

\* handle_client of chat/server.c: the nickname.  An empty line, or the end of
\* the connection, may still leave something in the buffer to be written.
Nick(c) ==
    /\ Serving /\ status[c] = "nick"
    /\ \/ inbox[c] > 0 /\ inbox' = [inbox EXCEPT ![c] = @ - 1]
       \/ inbox[c] = 0 /\ closed[c] /\ UNCHANGED inbox
    /\ \E w \in {0, 1} : c2p' = [c2p EXCEPT ![c] = w]
    /\ status' = [status EXCEPT ![c] = "talk"]
    /\ UNCHANGED <<program, parent, chld, closed, sent, p2c, heard, told>>

TalkOn(c) ==
    /\ Serving /\ status[c] = "talk"
    /\ \E rest \in 0..inbox[c] - 1 : inbox' = [inbox EXCEPT ![c] = rest]
    /\ c2p' = [c2p EXCEPT ![c] = @ + 1]
    /\ UNCHANGED <<program, parent, chld, status, closed, sent, p2c, heard, told>>

\* What the client has sent goes to the parent...
Talk(c) ==
    /\ Serving /\ status[c] = "talk"
    /\ \E rest \in 0..inbox[c] - 1 : inbox' = [inbox EXCEPT ![c] = rest]
    /\ c2p' = [c2p EXCEPT ![c] = @ + 1]
    /\ status' = [status EXCEPT ![c] = "listen"]
    /\ UNCHANGED <<program, parent, chld, closed, sent, p2c, heard, told>>

\* ... and then something from the parent to the client.  SIGPIPE may end the
\* child when the client has gone.
Listen(c) ==
    /\ Serving /\ status[c] = "listen"
    /\ \E rest \in 0..p2c[c] - 1 : p2c' = [p2c EXCEPT ![c] = rest]
    /\ told' = [told EXCEPT ![c] = ~@]
    /\ \/ status' = [status EXCEPT ![c] = "talk"] /\ UNCHANGED chld
       \/ closed[c] /\ status' = [status EXCEPT ![c] = "zombie"] /\ chld' = TRUE
    /\ UNCHANGED <<program, parent, closed, inbox, sent, c2p, heard>>

\* The client has closed its connection.
Leave(c) ==
    /\ Serving /\ status[c] = "talk"
    /\ inbox[c] = 0 /\ closed[c]
    /\ status' = [status EXCEPT ![c] = "zombie"]
    /\ chld' = TRUE
    /\ UNCHANGED <<program, parent, closed, inbox, sent, c2p, p2c, heard, told>>

Child(c) == Nick(c) \/ Talk(c) \/ Listen(c) \/ Leave(c)

Connect ==
    /\ Serving
    /\ accepted + backlog < MaxConn
    /\ backlog' = backlog + 1
    /\ UNCHANGED <<program, pc, i, j, ready, slot, n, accepted, chld, children>>

ClientSend(c) ==
    /\ Serving /\ c <= accepted
    /\ ~closed[c] /\ sent[c] < MaxSend
    /\ sent' = [sent EXCEPT ![c] = @ + 1]
    /\ inbox' = [inbox EXCEPT ![c] = @ + 1]
    /\ UNCHANGED <<program, parent, chld, status, closed, c2p, p2c, heard, told>>

ClientClose(c) ==
    /\ Serving /\ c <= accepted
    /\ ~closed[c]
    /\ closed' = [closed EXCEPT ![c] = TRUE]
    /\ UNCHANGED <<program, parent, chld, status, inbox, sent, c2p, p2c, heard, told>>

Next ==
    \/ Parent \/ Sigchld \/ Sigint
    \/ Connect
    \/ \E c \in Conn : Child(c) \/ ClientSend(c) \/ ClientClose(c)

Spec == Init /\ [][Next]_vars

\* Processes that can run are scheduled and SIGCHLD is delivered.  What the
\* users do is never forced.
Fairness ==
    /\ WF_vars(Parent) /\ WF_vars(Sigchld)
    /\ \A c \in Conn : WF_vars(Child(c))

FairSpec == Spec /\ Fairness

-----------------------------------------------------------------------------
(* Properties.                                                             *)

TypeOK ==
    /\ pc \in {"accept", "fork", "record", "join", "select", "scan", "relay",
               "dead", "ended"}
    /\ i \in 0..MaxClients /\ j \in 0..MaxClients /\ ready \subseteq Conn
    /\ slot \in [Slots -> 0..MaxConn] /\ n \in 0..MaxClients
    /\ backlog \in Nat /\ accepted \in Nat /\ accepted + backlog <= MaxConn
    /\ status \in [Conn -> {"none", "refused", "failed", "nick", "talk", "listen",
                            "zombie", "reaped", "killed"}]
    /\ p2c \in [Conn -> 0..PipeCap + 1]

\* After MaxClients connections no pipe is read any more, however many clients
\* have left: their records stay, and a turn that refuses a connection leaves
\* out the pipes.
NothingReadOnceFull ==
    [][\A c \in Conn : c2p'[c] < c2p[c] => accepted <= MaxClients]_vars

\* The table will have room for the next connection.
Room == n < MaxClients - (IF pc \in {"fork", "record", "join"} THEN 1 ELSE 0)

\* The parent may wait for ever at the pipe of a child whose client is silent.
PipeFull == \E c \in Conn : p2c[c] >= PipeCap

\* Until the table is full the next connection makes the parent read what its
\* children have written; what one read has no room for waits for another.
ReadAtNextConnection ==
    \A h \in Slots, odd \in BOOLEAN :
        h < n /\ c2p[slot[h]] > 0 /\ heard[slot[h]] = odd /\ backlog > 0 /\ Room ~>
            (h < n /\ heard[slot[h]] # odd) \/ PipeFull \/ ~Serving

\* Whenever a client says something (other than its nickname) while something
\* waits for it, it is sent some of it; the rest waits until it says more.
DeliveredToTalkers ==
    \A h \in Slots, odd \in BOOLEAN :
        /\ h < n /\ p2c[slot[h]] > 0 /\ told[slot[h]] = odd
        /\ inbox[slot[h]] > 0 /\ status[slot[h]] # "nick"
        ~> (h < n /\ (told[slot[h]] # odd \/ Gone(slot[h]))) \/ ~Serving

\* SIGINT ends every child of multi_chat_server.c but one that has just been
\* forked and is not in the table.
OnlyNewestSurvives ==
    pc = "ended" =>
        \A c \in 1..accepted :
            status[c] \in {"talk", "listen"} => c = accepted /\ c \notin Recorded
=============================================================================
