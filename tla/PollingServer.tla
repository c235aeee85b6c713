---------------------------- MODULE PollingServer ----------------------------
(***************************************************************************)
(* The first version of the chat2 server, chat2/chat_server.c.  It has the *)
(* tables, the children, the pipes and the SIGCHLD handler of ChatServer2; *)
(* what differs is the parent's loop.  It waits for no client to say       *)
(* something: it tries accept, then a read on every pipe, and sleeps a     *)
(* millisecond.  Only its writes wait, for room in a pipe.  A connection   *)
(* is refused before the fork when the array is full, and an arrival is    *)
(* announced in the room general, by pid like every broadcast there.       *)
(*                                                                         *)
(* The variables are those of ChatServer2, with fdset unused: pc is        *)
(* "select" at the top of the loop.                                        *)
(***************************************************************************)
EXTENDS ChatServer2

TestedAfterFork ==
    /\ pc = "select"
    /\ backlog > 0
    /\ backlog' = backlog - 1
    /\ forked' = forked + 1
    /\ status' = [status EXCEPT ![forked + 1] = "running"]
    /\ ends' = ends \cup {forked + 1}
    /\ pc' = IF n < MaxClients THEN "add" ELSE "scan"
    /\ UNCHANGED <<fdset, i, k, reg, buf, origin, sender, whom, at, loop, told, steady,
                   slot, n, closed, sock, sent, c2p, p2c>>

\* accept finds a connection and the array has room: pipes and a child.
PollAccept ==
    /\ pc = "select"
    /\ backlog > 0
    /\ n < MaxClients
    /\ backlog' = backlog - 1
    /\ forked' = forked + 1
    /\ status' = [status EXCEPT ![forked + 1] = "running"]
    /\ ends' = ends \cup {forked + 1}
    /\ pc' = "add"
    /\ UNCHANGED <<fdset, i, k, reg, buf, origin, sender, whom, at, loop, told, steady,
                   slot, n, closed, sock, sent, c2p, p2c>>

\* The connection is closed at once, and the turn ends without reading pipes.
Dropped ==
    /\ pc = "select"
    /\ backlog > 0
    /\ backlog' = backlog - 1
    /\ UNCHANGED <<parent, slot, n, ends, forked, children>>

PollRefuse == n >= MaxClients /\ Dropped

\* pipe or fork fails.
PollSetupFails == n < MaxClients /\ Dropped

\* accept finds no connection.
PollEmpty ==
    /\ pc = "select"
    /\ backlog = 0
    /\ pc' = "scan"
    /\ UNCHANGED <<fdset, i, k, reg, buf, origin, sender, whom, at, loop, told, steady,
                   table, children>>

\* add_client_to_list, with its client_count++.
PollRecord == Add \/ Load \/ Store

\* The welcome message, then the arrival announced in general to everybody
\* there, newcomer included.
PollGreet ==
    /\ pc = "greet"
    /\ k' = 0
    /\ loop' = "send"
    /\ steady' = TRUE
    /\ pc' = "send"
    /\ UNCHANGED <<fdset, i, reg, buf, origin, sender, whom, at, told, table, children>>

PollAnnounceDone ==
    /\ pc = "send"
    /\ loop = "send" /\ buf = "none"
    /\ k >= n
    /\ LoopOver
    /\ pc' = "scan"
    /\ UNCHANGED <<fdset, reg, buf, origin, sender, whom, at, table, children>>

PollArrival == Welcome \/ PollGreet \/ PollAnnounceDone

\* The pipe of every record in turn is read...
PollScan ==
    /\ pc = "scan"
    /\ i < n
    /\ pc' = "fetch"
    /\ UNCHANGED <<fdset, i, k, reg, buf, origin, sender, whom, at, loop, told, steady,
                   table, children>>

PipeLeftBlocking ==
    /\ pc = "read"
    /\ origin \in ends => c2p[origin] = <<>> /\ Gone(origin)
    /\ origin' = 0
    /\ i' = i + 1
    /\ pc' = "scan"
    /\ UNCHANGED <<fdset, k, reg, buf, sender, whom, at, loop, told, steady,
                   table, children>>

\* ... by a read that does not wait: there may be nothing to read yet.
PollSkip ==
    /\ pc = "read"
    /\ origin \in ends => c2p[origin] = <<>>
    /\ origin' = 0
    /\ i' = i + 1
    /\ pc' = "scan"
    /\ UNCHANGED <<fdset, k, reg, buf, sender, whom, at, loop, told, steady,
                   table, children>>

\* After the last one the parent sleeps and starts again.
PollRead == PollScan \/ Fetch \/ Read \/ PollSkip \/ ScanDone

\* process_message_from_child, and the messages it sends.
PollHandle == Handling
PollWrite == WriteStep

PollParent ==
    \/ PollAccept \/ PollRefuse \/ PollSetupFails \/ PollEmpty
    \/ PollRecord \/ PollArrival \/ PollRead \/ PollHandle \/ PollWrite

\* The handler, and the children.
PollReap(p) == Reap(p)
PollChild(p) == Child(p)

PollNext ==
    \/ PollParent
    \/ Connect
    \/ \E p \in Pid : PollReap(p) \/ PollChild(p) \/ Client(p)

PollSpec == Init /\ [][PollNext]_vars

\* Every process that can run is scheduled, and signals are delivered.  What
\* the users do (connect, send, quit) is never forced.
PollFairness ==
    /\ WF_vars(PollParent)
    /\ \A p \in Pid : WF_vars(PollReap(p)) /\ WF_vars(PollChild(p))

PollFairSpec == PollSpec /\ PollFairness

-----------------------------------------------------------------------------
(* Properties.                                                             *)

\* The children that run or wait to be reaped.
Unreaped == {p \in Pid : status[p] \notin {"unborn", "reaped"}}

\* There are never more children than the array has slots: however the handler
\* interferes with client_count++ (a record lost, a record left for a child
\* that is gone), the counter errs on the high side.
ChildrenWithinArray == Cardinality(Unreaped) <= MaxClients

\* The parent never waits for a client to speak: whatever the users and the
\* handler do, it is at the top of its loop again and again, unless it dies of
\* SIGPIPE or waits for ever to write to a pipe that is full.  That its child
\* no longer empties it, because it waits itself to write to the parent, is the
\* only way to the latter.
TurnsForever ==
    \/ []<>(pc \in {"select", "dead"})
    \/ <>[](WriteWaits /\ status[whom] = "writing")

\* A turn that drops a connection reads no pipe.  Unless in the end every turn
\* drops one, what a child has written is read while the child has a record and
\* the parent lives and does not wait for ever to write, whatever records the
\* handler removes from under the scan.
RecordedRead ==
    []<>(pc \in {"scan", "fetch", "read"}) =>
        \A p \in Pid :
            p \in Recorded \cap ends /\ c2p[p] # <<>> ~>
                \/ c2p[p] = <<>>
                \/ p \notin Recorded \cap ends
                \/ pc = "dead"

\* When a broadcast ends, the announcement of an arrival or a message, and no
\* record was removed since it began, it has been written to every record.
PollBroadcastReachesAll ==
    [][(PollAnnounceDone \/ BroadcastDone) /\ steady => Recorded \cap ends \subseteq told]_vars
=============================================================================
