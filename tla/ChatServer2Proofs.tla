-------------------------- MODULE ChatServer2Proofs --------------------------
(***************************************************************************)
(* Both chat2 servers, for every size of the array and of the pipes, any   *)
(* number of connections and messages.  PollingServer has the variables    *)
(* and most of the actions of ChatServer2, so lemmas about those actions   *)
(* serve both.                                                             *)
(*                                                                         *)
(*   RangeInv   types, and that every index and slot the parent is about   *)
(*              to use is good although the handler moves the records.     *)
(*   ToldInv    while no record is removed, the slots before the loop's    *)
(*              index have been written to, but for the one that a write   *)
(*              is under way to; that one is the target of the write.      *)
(*   CountInv   (polling server) the counter against the children: outside *)
(*              add_client_to_list client_count is at least the number of  *)
(*              children not reaped; inside it may lag behind by the child *)
(*              just forked, and between the load and the store of         *)
(*              client_count++ it is the loaded value that has to be large *)
(*              enough, since the handler may have lowered the counter     *)
(*              that is overwritten.                                       *)
(***************************************************************************)
EXTENDS PollingServer, FiniteSetTheorems, WellFoundedInduction, TLAPS

States == {"unborn", "running", "writing", "closing", "zombie", "reaped"}

Points == {"select", "accept", "add", "load", "store", "welcome", "greet", "announce",
           "scan", "isset", "fetch", "read", "got", "lookup", "send", "pick",
           "find", "aim", "write", "dead"}

\* Inside add_client_to_list.
InAdd == {"add", "load", "store"}

\* The points at which a message has been read and is not handled yet.
BufOK ==
    /\ pc \in {"got", "lookup"} => buf # "none"
    /\ pc = "send" /\ loop = "scan" => buf # "none"
    /\ buf # "none" => /\ i < MaxClients
                       /\ pc \in {"got", "lookup", "send", "pick", "find", "aim", "write", "dead"}
                       /\ pc \in {"pick", "find", "aim", "write"} => loop = "send"

\* The parent: pc, the indexes of its loops and what it has read.
ParentOK ==
    /\ pc \in Points /\ fdset \subseteq Pid /\ told \subseteq Pid /\ steady \in BOOLEAN
    /\ i \in 0..MaxClients /\ k \in 0..MaxClients /\ reg \in Slots /\ at \in Slots
    /\ buf \in Message \cup {"none"}
    /\ origin \in 0..MaxPid /\ sender \in 0..MaxPid /\ whom \in 0..MaxPid
    /\ loop \in {"scan", "greet", "announce", "send"}
    /\ pc \in {"isset", "fetch", "read"} => i < MaxClients
    /\ pc = "pick" => k < MaxClients
    /\ BufOK

\* The array: the slots in use, or about to be, have a pid.
TableOK ==
    /\ slot \in [Slots -> 0..MaxPid] /\ n \in 0..MaxClients /\ ends \subseteq Pid
    /\ forked \in 0..MaxPid /\ backlog \in 0..MaxPid /\ forked + backlog <= MaxPid
    /\ pc = "add" => forked > 0
    /\ \A j \in 0..n - 1 : slot[j] \in Pid
    /\ pc = "load" => n < MaxClients /\ slot[n] \in Pid
    /\ pc = "store" => n <= reg /\ \A j \in 0..reg : slot[j] \in Pid

\* The children: a child that is writing has a message to write.
ChildrenOK ==
    /\ status \in [Pid -> States]
    /\ closed \in [Pid -> BOOLEAN] /\ sent \in 0..MaxSend
    /\ sock \in [Pid -> Seq(Message)] /\ c2p \in [Pid -> Seq(Message)]
    /\ p2c \in [Pid -> 0..PipeCap]
    /\ \A p \in Pid : status[p] = "writing" => sock[p] # <<>>

\* Values in range at every point of the parent, for both loops.
RangeInv == ParentOK /\ TableOK /\ ChildrenOK

-----------------------------------------------------------------------------
(* The array.                                                              *)

LEMMA LeastNumber ==
    ASSUME NEW T \in SUBSET Nat, T # {}
    PROVE  \E x \in T : \A y \in T : x <= y
<1>1. PICK x \in T : \A y \in T : ~(<<y, x>> \in OpToRel(<, Nat))
  BY NatLessThanWellFounded, WFMin
<1>2. \A y \in T : ~(y < x)
  BY <1>1 DEF OpToRel
<1> QED BY <1>2

\* The search of the array finds a record of the pid it looks for.
LEMMA FirstIsRecord ==
    ASSUME TableOK, NEW p \in Recorded
    PROVE  /\ FirstOf(p) \in 0..n - 1 /\ slot[FirstOf(p)] = p
           /\ n \in 1..MaxClients /\ p \in Pid
<1> DEFINE T == {j \in 0..n - 1 : slot[j] = p}
<1>1. T \in SUBSET Nat /\ T # {}
  BY DEF Recorded, TableOK
<1>2. PICK j \in T : \A y \in T : j <= y
  BY <1>1, LeastNumber
<1>3. j \in 0..n - 1 /\ slot[j] = p /\ \A h \in 0..j - 1 : slot[h] # p
  <2>1. \A h \in 0..j - 1 : h \in 0..n - 1 /\ ~(j <= h)
    BY <1>2 DEF TableOK
  <2> QED BY <1>2, <2>1
<1>4. n \in 1..MaxClients /\ p \in Pid
  BY <1>3, ServerAssumption DEF TableOK
<1> QED BY <1>3, <1>4 DEF FirstOf

LEMMA Prefix ==
    ASSUME NEW a \in Nat, NEW b \in 0..a
    PROVE  0..b - 1 \subseteq 0..a - 1
OBVIOUS

\* A slot that is recorded, or about to be, holds its own record or that of
\* the slot behind it, and no record but that of p is lost.
LEMMA RemovalSlots ==
    ASSUME TableOK, NEW p \in Pid, Removal(p)
    PROVE  /\ slot' \in [Slots -> 0..MaxPid] /\ n' \in 0..n /\ ends' \subseteq Pid
           /\ steady' \in {steady, FALSE}
           /\ \A j \in Slots :
                  \/ slot'[j] = slot[j]
                  \/ j + 1 \in 0..n - 1 /\ slot'[j] = slot[j + 1]
           /\ \A q \in Recorded : q # p => q \in Recorded'
<1> USE ServerAssumption DEF TableOK, Slots
<1>1. CASE p \in Recorded
  <2>1. n > 0
    BY <1>1 DEF Recorded
  <2>2. slot' = ShiftedDown(p) /\ n' = n - 1 /\ ends' = ends \ {p} /\ steady' = FALSE
    BY <1>1 DEF Removal
  <2>3. /\ slot' \in [Slots -> 0..MaxPid]
        /\ \A j \in Slots :
              \/ slot'[j] = slot[j]
              \/ j + 1 \in 0..n - 1 /\ slot'[j] = slot[j + 1]
    BY <2>2 DEF ShiftedDown
  <2> DEFINE f == FirstOf(p)
  <2>4. f \in 0..n - 1 /\ slot[f] = p
    BY <1>1, FirstIsRecord
  <2>5. \A j \in Slots : slot'[j] = IF j >= f /\ j < n - 1 THEN slot[j + 1] ELSE slot[j]
    BY <2>2 DEF ShiftedDown
  <2> HIDE DEF f
  <2>6. ASSUME NEW q \in Recorded, q # p
        PROVE  q \in Recorded'
    <3>1. PICK h \in 0..n - 1 : slot[h] = q
      BY DEF Recorded
    <3>2. CASE h < f
      <4>1. h \in 0..n - 2 /\ h \in Slots /\ slot'[h] = q
        BY <2>4, <2>5, <3>1, <3>2
      <4> QED BY <2>2, <4>1 DEF Recorded
    <3>3. CASE h > f
      <4>1. h - 1 \in 0..n - 2 /\ h - 1 \in Slots /\ slot'[h - 1] = q
        BY <2>4, <2>5, <3>1, <3>3
      <4> QED BY <2>2, <4>1 DEF Recorded
    <3> QED BY <2>4, <2>6, <3>1, <3>2, <3>3
  <2>7. n' \in 0..n /\ ends' \subseteq Pid
    BY <2>1, <2>2
  <2> QED BY <2>2, <2>3, <2>6, <2>7
<1>2. CASE p \notin Recorded
  BY <1>2 DEF Removal, Recorded
<1> QED BY <1>1, <1>2

-----------------------------------------------------------------------------
(* Types and indexes.                                                      *)

LEMMA RangeInit == Init => RangeInv
<1> SUFFICES ASSUME Init PROVE RangeInv
  OBVIOUS
<1> USE ServerAssumption DEF Init, Pid, Slots
<1>1. ParentOK
  <2>1. 0 \in Slots /\ 0 \in 0..MaxClients /\ 0 \in 0..MaxPid
    OBVIOUS
  <2>2. BufOK
    BY DEF BufOK
  <2> QED BY <2>1, <2>2 DEF ParentOK, Points
<1>2. TableOK
  BY DEF TableOK
<1>3. ChildrenOK
  BY DEF ChildrenOK, States
<1> QED BY <1>1, <1>2, <1>3 DEF RangeInv

LEMMA RangeTypes == RangeInv => TypeOK
BY DEF RangeInv, ParentOK, TableOK, ChildrenOK, TypeOK, Points, States

\* A step that leaves the array, or the children, as they are.
LEMMA TableFrame ==
    ASSUME TableOK, UNCHANGED <<table, reg>>, pc' = pc \/ pc' \notin InAdd
    PROVE  TableOK'
BY DEF TableOK, table, InAdd

LEMMA ChildrenFrame ==
    ASSUME ChildrenOK, UNCHANGED children
    PROVE  ChildrenOK'
BY DEF ChildrenOK, children

LEMMA ParentFrame ==
    ASSUME ParentOK, UNCHANGED parent
    PROVE  ParentOK'
BY DEF ParentOK, BufOK, parent

LEMMA AcceptRange ==
    ASSUME RangeInv, backlog > 0, pc' = "add", pc \in {"select", "accept"},
           backlog' = backlog - 1, forked' = forked + 1,
           status' = [status EXCEPT ![forked + 1] = "running"], ends' = ends \cup {forked + 1},
           UNCHANGED <<fdset, i, k, reg, buf, origin, sender, whom, at, loop, told, steady,
                       slot, n, closed, sock, sent, c2p, p2c>>
    PROVE  RangeInv'
<1> USE ServerAssumption DEF RangeInv
<1>1. forked + 1 \in Pid
  BY DEF TableOK, Pid
<1>2. ParentOK'
  BY DEF ParentOK, BufOK, Points
<1>3. TableOK'
  BY <1>1 DEF TableOK
<1>4. ChildrenOK'
  BY DEF ChildrenOK, States
<1> QED BY <1>2, <1>3, <1>4

LEMMA RecordRange ==
    ASSUME RangeInv, Add \/ Load \/ Store
    PROVE  RangeInv'
<1> USE ServerAssumption DEF RangeInv, table, children
<1>1. CASE Add
  <2>1. ParentOK'
    BY <1>1 DEF ParentOK, BufOK, Points, Add
  <2>2. forked \in Pid
    BY <1>1 DEF TableOK, Pid, Add
  <2>3. TableOK'
    BY <1>1, <2>2 DEF TableOK, Slots, Add
  <2> QED BY <1>1, <2>1, <2>3, ChildrenFrame DEF Add
<1>2. CASE Load
  <2>1. ParentOK'
    BY <1>2 DEF ParentOK, BufOK, Points, Load, TableOK, Slots
  <2>2. TableOK'
    BY <1>2 DEF TableOK, Slots, Load
  <2> QED BY <1>2, <2>1, <2>2, ChildrenFrame DEF Load
<1>3. CASE Store
  <2>1. ParentOK'
    BY <1>3 DEF ParentOK, BufOK, Points, Store, Slots
  <2>2. n' = reg + 1 /\ n' \in 0..MaxClients
    BY <1>3 DEF ParentOK, Store, Slots
  <2>3. \A j \in 0..n' - 1 : slot'[j] \in Pid
    BY <1>3, <2>2 DEF TableOK, ParentOK, Store, Slots
  <2>4. TableOK'
    BY <1>3, <2>2, <2>3 DEF TableOK, Store
  <2> QED BY <1>3, <2>1, <2>4, ChildrenFrame DEF Store
<1> QED BY <1>1, <1>2, <1>3

LEMMA ReapRange ==
    ASSUME RangeInv, NEW p \in Pid, Removal(p), ParentOK',
           status' = [status EXCEPT ![p] = "reaped"],
           pc' = pc \/ pc' \notin InAdd,
           UNCHANGED <<reg, forked, backlog, closed, sock, sent, c2p, p2c>>
    PROVE  RangeInv'
<1> USE ServerAssumption DEF RangeInv
<1>1. /\ slot' \in [Slots -> 0..MaxPid] /\ n' \in 0..n /\ ends' \subseteq Pid
      /\ \A j \in Slots :
            \/ slot'[j] = slot[j]
            \/ j + 1 \in 0..n - 1 /\ slot'[j] = slot[j + 1]
  BY RemovalSlots
<1>2. n \in 0..MaxClients /\ \A j \in 0..n - 1 : j \in Slots /\ slot[j] \in Pid
  BY DEF TableOK, Slots
<1>3. \A j \in Slots : slot[j] \in Pid => slot'[j] \in Pid
  BY <1>1, <1>2
<1>4. \A j \in 0..n' - 1 : slot'[j] \in Pid
  <2> SUFFICES ASSUME NEW j \in 0..n' - 1 PROVE slot'[j] \in Pid
    OBVIOUS
  <2>1. j \in 0..n - 1
    <3>1. n \in Nat /\ n' \in 0..n
      BY <1>1, <1>2
    <3> QED BY <3>1, Prefix
  <2> QED BY <1>2, <1>3, <2>1
<1>5. pc' = "load" => n' < MaxClients /\ slot'[n'] \in Pid
  <2> SUFFICES ASSUME pc' = "load" PROVE n' < MaxClients /\ slot'[n'] \in Pid
    OBVIOUS
  <2>1. pc = "load" /\ n < MaxClients /\ slot[n] \in Pid
    BY DEF TableOK, InAdd
  <2>2. n' \in Slots /\ slot[n'] \in Pid
    BY <1>1, <1>2, <2>1 DEF Slots
  <2> QED BY <1>1, <1>2, <1>3, <2>1, <2>2
<1>6. pc' = "store" => n' <= reg' /\ \A j \in 0..reg' : slot'[j] \in Pid
  <2> SUFFICES ASSUME pc' = "store" PROVE n' <= reg' /\ \A j \in 0..reg' : slot'[j] \in Pid
    OBVIOUS
  <2>1. pc = "store" /\ n <= reg /\ \A j \in 0..reg : slot[j] \in Pid
    BY DEF TableOK, InAdd
  <2>2. reg \in Slots /\ reg' = reg
    BY DEF ParentOK, Slots
  <2> QED BY <1>1, <1>2, <1>3, <2>1, <2>2 DEF Slots
<1>7. n' \in 0..MaxClients /\ (pc' = "add" => forked' > 0)
  BY <1>1, <1>2 DEF TableOK, InAdd
<1>8. TableOK'
  BY <1>1, <1>4, <1>5, <1>6, <1>7 DEF TableOK
<1>9. ChildrenOK'
  BY DEF ChildrenOK, States
<1> QED BY <1>8, <1>9

\* The steps of the parent that touch neither the array nor a child.
Quiet ==
    \/ Select \/ Welcome \/ Greet \/ Announce \/ AnnounceDone
    \/ Find \/ Aim \/ WriteClosed \/ WriteBroken
    \/ Scan \/ ScanDone \/ IsSet \/ Fetch \/ ReadNothing
    \/ Got \/ Lookup \/ Answer \/ Broadcast \/ Pick \/ BroadcastDone
    \/ PollEmpty \/ PollGreet \/ PollAnnounceDone \/ PollScan \/ PollSkip

LEMMA QuietFrame ==
    ASSUME ParentOK, Quiet
    PROVE  /\ UNCHANGED <<table, reg, children>>
           /\ pc \notin InAdd /\ pc' \notin InAdd
<1>1. loop \notin InAdd
  BY DEF ParentOK, InAdd
<1> QED
  BY <1>1 DEF Quiet, Select, Welcome, Greet, Announce, AnnounceDone, Find, Aim, WriteClosed,
                 WriteBroken, Wrote, Scan, ScanDone, IsSet, Fetch, ReadNothing, Got, Lookup, Answer,
                 Broadcast, Pick, BroadcastDone, PollEmpty, PollGreet, PollAnnounceDone, PollScan,
                 PollSkip, LoopOver, Handled, InAdd, children

\* The end of a loop, or of a message, leaves good indexes behind.
LEMMA OverRange ==
    ASSUME RangeInv, LoopOver, pc' = "scan", buf = "none",
           UNCHANGED <<fdset, reg, buf, origin, sender, whom, at>>
    PROVE  ParentOK'
<1> USE ServerAssumption DEF RangeInv, ParentOK, LoopOver
<1>1. steady' \in BOOLEAN /\ told' \subseteq Pid
  OBVIOUS
<1>2. BufOK'
  BY DEF BufOK
<1>3. i' \in 0..MaxClients /\ k' \in 0..MaxClients
  OBVIOUS
<1>4. loop' \in {"scan", "greet", "announce", "send"}
  OBVIOUS
<1> QED BY <1>1, <1>2, <1>3, <1>4 DEF Points

LEMMA HandledRange ==
    ASSUME RangeInv, Handled, i < MaxClients, pc' \in {"scan", "find"},
           whom' \in 0..MaxPid, UNCHANGED <<fdset, reg, at>>
    PROVE  ParentOK'
<1> USE ServerAssumption DEF RangeInv, ParentOK, Handled
<1>1. steady' \in BOOLEAN /\ told' \subseteq Pid
  OBVIOUS
<1>2. BufOK'
  BY DEF BufOK
<1>3. i' \in 0..MaxClients /\ k' \in 0..MaxClients
  OBVIOUS
<1>4. loop' \in {"scan", "greet", "announce", "send"} /\ origin' \in 0..MaxPid /\ sender' \in 0..MaxPid
  OBVIOUS
<1> QED BY <1>1, <1>2, <1>3, <1>4 DEF Points

LEMMA QuietRange ==
    ASSUME RangeInv, Quiet
    PROVE  RangeInv'
<1> USE ServerAssumption DEF RangeInv
<1>1. TableOK' /\ ChildrenOK'
  BY QuietFrame, TableFrame, ChildrenFrame
<1> SUFFICES ParentOK'
  BY <1>1
<1>2. /\ n \in 0..MaxClients /\ slot \in [Slots -> 0..MaxPid] /\ Recorded \subseteq Pid
      /\ forked \in 0..MaxPid /\ \A p \in Pid : p \in 0..MaxPid
  BY DEF TableOK, Recorded, Pid
<1>3. CASE Select
  BY <1>2, <1>3 DEF Select, Ready, ParentOK, BufOK, Points
<1>4. CASE Welcome
  BY <1>2, <1>4 DEF Welcome, ParentOK, BufOK, Points
<1>5. CASE Greet
  BY <1>2, <1>5 DEF Greet, ParentOK, BufOK, Points
<1>6. CASE AnnounceDone
  BY <1>6, OverRange DEF AnnounceDone, ParentOK, BufOK
<1>7. CASE PollEmpty
  BY <1>2, <1>7 DEF PollEmpty, ParentOK, BufOK, Points
<1>8. CASE PollGreet
  BY <1>2, <1>8 DEF PollGreet, ParentOK, BufOK, Points
<1>9. CASE PollAnnounceDone
  BY <1>9, OverRange DEF PollAnnounceDone
<1>10. CASE Announce
  BY <1>2, <1>10 DEF Announce, Slots, ParentOK, BufOK, Points
<1>11. CASE Broadcast
  BY <1>2, <1>11 DEF Broadcast, Slots, ParentOK, BufOK, Points
<1>12. CASE Pick
  BY <1>2, <1>12 DEF Pick, Slots, ParentOK, BufOK, Points
<1>13. CASE Find
  <2>1. at' \in Slots
    BY <1>2, <1>13, FirstIsRecord DEF Find, ParentOK, Slots
  <2> QED BY <1>13, <2>1 DEF Find, ParentOK, BufOK, Points
<1>14. CASE Aim
  BY <1>2, <1>14 DEF Aim, ParentOK, BufOK, Points, Slots
<1>15. CASE WriteClosed
  BY <1>2, <1>15 DEF WriteClosed, Wrote, ParentOK, BufOK, Points
<1>16. CASE WriteBroken
  BY <1>2, <1>16 DEF WriteBroken, Wrote, ParentOK, BufOK, Points
<1>17. CASE Scan
  BY <1>2, <1>17 DEF Scan, Slots, ParentOK, BufOK, Points
<1>18. CASE PollScan
  BY <1>2, <1>18 DEF PollScan, Slots, ParentOK, BufOK, Points
<1>19. CASE ScanDone
  BY <1>2, <1>19 DEF ScanDone, ParentOK, BufOK, Points
<1>20. CASE IsSet
  BY <1>2, <1>20 DEF IsSet, ParentOK, BufOK, Points
<1>21. CASE Fetch
  BY <1>2, <1>21 DEF Fetch, Slots, ParentOK, BufOK, Points
<1>22. CASE ReadNothing
  BY <1>2, <1>22 DEF ReadNothing, ParentOK, BufOK, Points
<1>23. CASE PollSkip
  BY <1>2, <1>23 DEF PollSkip, ParentOK, BufOK, Points
<1>24. CASE Got
  BY <1>2, <1>24 DEF Got, Slots, ParentOK, BufOK, Points
<1>25. CASE Answer
  BY <1>25, HandledRange DEF Answer, ParentOK, BufOK
<1>26. CASE BroadcastDone
  BY <1>26, HandledRange DEF BroadcastDone, ParentOK, BufOK
<1>27. CASE Lookup
  <2>1. i < MaxClients /\ buf # "none" /\ whom' \in 0..MaxPid
    BY <1>27 DEF Lookup, ParentOK, BufOK
  <2>2. CASE whom \in Recorded
    <3>1. steady' \in BOOLEAN /\ loop' \in {"scan", "send"}
      BY <1>27, <2>2 DEF Lookup
    <3>2. /\ sender' = whom /\ k' = 0 /\ pc' = "send" /\ whom' = 0
          /\ UNCHANGED <<fdset, i, reg, buf, origin, told, at>>
      BY <1>27, <2>2 DEF Lookup
    <3>3. BufOK'
      BY <2>1, <3>2 DEF BufOK
    <3> QED BY <2>1, <3>1, <3>2, <3>3 DEF ParentOK, Points
  <2>3. CASE whom \notin Recorded
    BY <1>27, <2>1, <2>3, HandledRange DEF Lookup
  <2> QED BY <2>2, <2>3
<1> QED BY <1>3, <1>4, <1>5, <1>6, <1>7, <1>8, <1>9, <1>10, <1>11, <1>12, <1>13,
           <1>14, <1>15, <1>16, <1>17, <1>18, <1>19, <1>20, <1>21, <1>22, <1>23, <1>24, <1>25, <1>26, <1>27 DEF Quiet

LEMMA WriteRange ==
    ASSUME RangeInv, Write
    PROVE  RangeInv'
<1> USE ServerAssumption DEF RangeInv
<1>1. ParentOK' /\ pc' \notin InAdd
  BY DEF Write, Wrote, ParentOK, BufOK, Points, InAdd, TableOK
<1>2. TableOK'
  BY <1>1, TableFrame DEF Write, Wrote
<1>3. whom \in Pid /\ p2c \in [Pid -> 0..PipeCap] /\ p2c[whom] < PipeCap
  BY DEF Write, TableOK, ChildrenOK
<1>4. p2c' \in [Pid -> 0..PipeCap]
  BY <1>3 DEF Write
<1>5. ChildrenOK'
  BY <1>4 DEF Write, Wrote, ChildrenOK
<1> QED BY <1>1, <1>2, <1>5

LEMMA ReadRange ==
    ASSUME RangeInv, Read
    PROVE  RangeInv'
<1> USE ServerAssumption DEF RangeInv
<1>1. origin \in Pid /\ c2p[origin] \in Seq(Message) /\ c2p[origin] # <<>>
  BY DEF Read, TableOK, ChildrenOK
<1>2. Head(c2p[origin]) \in Message
  BY <1>1
<1>3. ParentOK' /\ pc' \notin InAdd
  BY <1>2 DEF Read, ParentOK, BufOK, Points, InAdd, Message
<1>4. TableOK'
  BY <1>3, TableFrame DEF Read
<1>5. PICK h \in 1..Len(c2p[origin]) :
          c2p' = [c2p EXCEPT ![origin] = SubSeq(@, h + 1, Len(@))]
  BY DEF Read
<1>6. SubSeq(c2p[origin], h + 1, Len(c2p[origin])) \in Seq(Message)
  <2>1. h + 1 \in 1..Len(c2p[origin]) + 1 /\ Len(c2p[origin]) \in Nat
    BY <1>1, <1>5
  <2> QED BY <1>1, <2>1
<1>7. c2p' \in [Pid -> Seq(Message)]
  BY <1>1, <1>5, <1>6 DEF ChildrenOK
<1>8. ChildrenOK'
  BY <1>7 DEF Read, ChildrenOK
<1> QED BY <1>3, <1>4, <1>8

LEMMA ChildRange ==
    ASSUME RangeInv, NEW p \in Pid, Child(p) \/ Client(p)
    PROVE  RangeInv'
<1> USE ServerAssumption DEF RangeInv
<1>1. UNCHANGED <<parent, table>>
  BY DEF Child, Client, ChildRead, ChildWrite, ChildDrain, ChildClose, ChildExit,
         ClientSend, ClientClose
<1>2. ParentOK' /\ TableOK'
  BY <1>1, ParentFrame, TableFrame DEF parent
<1>3. CASE ChildRead(p)
  BY <1>2, <1>3 DEF ChildRead, ChildrenOK, States
<1>4. CASE ChildWrite(p)
  <2>1. sock[p] \in Seq(Message) /\ sock[p] # <<>> /\ c2p[p] \in Seq(Message)
    BY <1>4 DEF ChildWrite, ChildrenOK
  <2>2. Head(sock[p]) \in Message /\ Tail(sock[p]) \in Seq(Message)
    BY <2>1
  <2>3. Append(c2p[p], Head(sock[p])) \in Seq(Message)
    BY <2>1, <2>2
  <2> QED BY <1>2, <1>4, <2>2, <2>3 DEF ChildWrite, ChildrenOK, States
<1>5. CASE ChildDrain(p)
  <2>1. PICK rest \in 0..p2c[p] - 1 : p2c' = [p2c EXCEPT ![p] = rest]
    BY <1>5 DEF ChildDrain
  <2>2. rest \in 0..PipeCap
    BY <2>1 DEF ChildrenOK
  <2> QED BY <1>2, <1>5, <2>1, <2>2 DEF ChildDrain, ChildrenOK, States
<1>6. CASE ChildClose(p)
  BY <1>2, <1>6 DEF ChildClose, ChildrenOK, States
<1>7. CASE ChildExit(p)
  BY <1>2, <1>7 DEF ChildExit, ChildrenOK, States
<1>8. ASSUME NEW m \in Message, ClientSend(p, m)
      PROVE  RangeInv'
  <2>1. sock[p] \in Seq(Message)
    BY DEF ChildrenOK
  <2>2. Append(sock[p], m) \in Seq(Message) /\ Append(sock[p], m) # <<>>
    BY <2>1
  <2> QED BY <1>2, <1>8, <2>2 DEF ClientSend, ChildrenOK, States
<1>9. CASE ClientClose(p)
  BY <1>2, <1>9 DEF ClientClose, ChildrenOK, States
<1> QED BY <1>3, <1>4, <1>5, <1>6, <1>7, <1>8, <1>9 DEF Child, Client

\* The parent of either server: every step is one of these.
LEMMA ParentSteps ==
    /\ Parent => Accept \/ Add \/ Load \/ Store \/ Write \/ Read \/ Quiet
    /\ PollParent => \/ PollAccept \/ PollRefuse \/ PollSetupFails
                     \/ Add \/ Load \/ Store \/ Write \/ Read \/ Quiet
BY DEF Parent, Connection, WriteStep, Reading, Handling, Quiet, PollParent, PollRecord,
       PollArrival, PollRead, PollHandle, PollWrite

LEMMA RangeStep ==
    ASSUME RangeInv, [Next]_vars
    PROVE  RangeInv'
<1>1. CASE UNCHANGED vars
  BY <1>1, ParentFrame, TableFrame, ChildrenFrame DEF RangeInv, vars, parent
<1>2. CASE Accept
  BY <1>2, AcceptRange DEF Accept
<1>3. CASE Parent /\ ~Accept
  BY <1>3, ParentSteps, RecordRange, WriteRange, ReadRange, QuietRange
<1>4. CASE Connect
  <2>1. TableOK'
    BY <1>4, ServerAssumption DEF Connect, RangeInv, TableOK, parent
  <2> QED BY <1>4, <2>1, ParentFrame, ChildrenFrame DEF Connect, RangeInv
<1>5. ASSUME NEW p \in Pid, Reap(p) \/ ReapInSelect(p)
      PROVE  RangeInv'
  <2>1. steady' \in BOOLEAN
    BY <1>5, RemovalSlots DEF Reap, ReapInSelect, RangeInv, ParentOK
  <2>2. Recorded \subseteq Pid
    BY DEF RangeInv, TableOK, Recorded
  <2>3. ParentOK'
    BY <1>5, <2>1, <2>2 DEF Reap, ReapInSelect, RangeInv, ParentOK, BufOK, Points
  <2> QED BY <1>5, <2>3, ReapRange DEF Reap, ReapInSelect, InAdd
<1>6. ASSUME NEW p \in Pid, Child(p) \/ Client(p)
      PROVE  RangeInv'
  BY <1>6, ChildRange
<1> QED BY <1>1, <1>2, <1>3, <1>4, <1>5, <1>6 DEF Next

\* Values stay in range although the handler shifts records and lowers the
\* counter between any two steps of the parent, also inside client_count++.
THEOREM TypeCorrect == Spec => []TypeOK
BY RangeTypes, RangeInit, RangeStep, PTL DEF Spec

LEMMA PollRangeStep ==
    ASSUME RangeInv, [PollNext]_vars
    PROVE  RangeInv'
<1>1. CASE UNCHANGED vars \/ Connect \/ \E p \in Pid : PollReap(p) \/ PollChild(p) \/ Client(p)
  <2>1. [Next]_vars
    BY <1>1 DEF Next, PollReap, PollChild
  <2> QED BY <2>1, RangeStep
<1>2. CASE PollAccept
  BY <1>2, AcceptRange DEF PollAccept
<1>3. CASE PollRefuse \/ PollSetupFails
  <2>1. TableOK'
    BY <1>3, ServerAssumption DEF PollRefuse, PollSetupFails, Dropped, RangeInv, TableOK, parent
  <2> QED BY <1>3, <2>1, ParentFrame, ChildrenFrame
          DEF PollRefuse, PollSetupFails, Dropped, RangeInv
<1>4. CASE Add \/ Load \/ Store \/ Write \/ Read \/ Quiet
  BY <1>4, RecordRange, WriteRange, ReadRange, QuietRange
<1> QED BY <1>1, <1>2, <1>3, <1>4, ParentSteps DEF PollNext

\* The same for the polling server.
THEOREM PollTypeCorrect == PollSpec => []TypeOK
BY RangeTypes, RangeInit, PollRangeStep, PTL DEF PollSpec

-----------------------------------------------------------------------------
(* Records.                                                                *)

Kept == \A p \in Pid : p \in Recorded /\ p \notin Recorded' => status'[p] = "reaped"

LEMMA StoreKeeps ==
    ASSUME RangeInv, Add \/ Load \/ Store
    PROVE  Kept
<1> USE ServerAssumption DEF RangeInv, TableOK, ParentOK, Slots
<1>1. CASE Add
  <2>1. n' = n /\ \A j \in 0..n - 1 : slot'[j] = slot[j]
    BY <1>1 DEF Add
  <2> QED BY <2>1 DEF Recorded, Kept
<1>2. CASE Load
  BY <1>2 DEF Load, table, Recorded, Kept
<1>3. CASE Store
  <2>1. n <= reg /\ n' = reg + 1 /\ slot' = slot
    BY <1>3 DEF Store
  <2>2. 0..n - 1 \subseteq 0..n' - 1
    BY <2>1
  <2> QED BY <2>1, <2>2 DEF Recorded, Kept
<1> QED BY <1>1, <1>2, <1>3

LEMMA SameRecords ==
    ASSUME UNCHANGED <<slot, n>>
    PROVE  Kept
BY DEF Recorded, Kept

LEMMA OthersKeep ==
    ASSUME RangeInv, Write \/ Read \/ Quiet
    PROVE  Kept
<1>1. CASE Write \/ Read
  BY <1>1, SameRecords DEF Write, Wrote, Read, table
<1>2. CASE Quiet
  BY <1>2, QuietFrame, SameRecords DEF table, RangeInv
<1> QED BY <1>1, <1>2

LEMMA NextKeeps ==
    ASSUME RangeInv, [Next]_vars
    PROVE  Kept
<1>1. CASE UNCHANGED vars \/ Connect \/ Accept
  BY <1>1, SameRecords DEF vars, table, Connect, Accept
<1>2. CASE Parent /\ ~Accept
  BY <1>2, ParentSteps, StoreKeeps, OthersKeep
<1>3. ASSUME NEW p \in Pid, Reap(p) \/ ReapInSelect(p)
      PROVE  Kept
  <2>1. Removal(p) /\ status' = [status EXCEPT ![p] = "reaped"] /\ status \in [Pid -> States]
    BY <1>3 DEF Reap, ReapInSelect, RangeInv, ChildrenOK
  <2>2. \A q \in Recorded : q # p => q \in Recorded'
    BY <2>1, RemovalSlots DEF RangeInv
  <2> QED BY <2>1, <2>2 DEF Kept
<1>4. ASSUME NEW p \in Pid, Child(p) \/ Client(p)
      PROVE  Kept
  BY <1>4, SameRecords DEF Child, Client, ChildRead, ChildWrite, ChildDrain, ChildClose,
                           ChildExit, ClientSend, ClientClose, table
<1> QED BY <1>1, <1>2, <1>3, <1>4 DEF Next

\* However the handler comes between the parent's steps, inside client_count++
\* as well, a record goes away only with the child it is of.
THEOREM RecordsKept == Spec => RecordsStay
<1>1. RangeInv /\ [Next]_vars =>
         [\A p \in Pid : p \in Recorded /\ p \notin Recorded' => status'[p] = "reaped"]_vars
  BY NextKeeps DEF Kept
<1> QED BY <1>1, RangeInit, RangeStep, PTL DEF Spec, RecordsStay

LEMMA PollNextKeeps ==
    ASSUME RangeInv, [PollNext]_vars
    PROVE  Kept
<1>1. CASE PollAccept \/ PollRefuse \/ PollSetupFails
  BY <1>1, SameRecords DEF PollAccept, PollRefuse, PollSetupFails, Dropped
<1>2. CASE Add \/ Load \/ Store \/ Write \/ Read \/ Quiet
  BY <1>2, StoreKeeps, OthersKeep
<1>3. CASE UNCHANGED vars \/ Connect \/ \E p \in Pid : PollReap(p) \/ PollChild(p) \/ Client(p)
  <2>1. [Next]_vars
    BY <1>3 DEF Next, PollReap, PollChild
  <2> QED BY <2>1, NextKeeps
<1> QED BY <1>1, <1>2, <1>3, ParentSteps DEF PollNext

\* The same for the polling server.
THEOREM PollRecordsKept == PollSpec => RecordsStay
<1>1. RangeInv /\ [PollNext]_vars =>
         [\A p \in Pid : p \in Recorded /\ p \notin Recorded' => status'[p] = "reaped"]_vars
  BY PollNextKeeps DEF Kept
<1> QED BY <1>1, RangeInit, PollRangeStep, PTL DEF PollSpec, RecordsStay

-----------------------------------------------------------------------------
(* A broadcast reaches everybody while no record is removed.               *)

\* How many records the loop has taken.
Pos == IF loop = "announce" THEN i ELSE k

Covered == \A j \in 0..Pos - 1 : slot[j] \in ends => slot[j] \in told
CoveredBefore == \A j \in 0..Pos - 2 : slot[j] \in ends => slot[j] \in told

Sending == {"find", "aim", "write"}

ToldInv == steady =>
    /\ loop \in {"announce", "send"}
    /\ pc \in {"announce", "send", "pick", "dead"} \cup Sending
    /\ pc \in {"announce", "send"} => pc = loop /\ Covered
    /\ pc = "pick" => loop = "send" /\ k < n /\ Covered
    /\ pc \in Sending => Pos \in 1..n /\ CoveredBefore
    /\ pc \in {"find", "write"} => whom = slot[Pos - 1]
    /\ pc = "aim" => slot[at] = slot[Pos - 1]

LEMMA ToldInit == Init => ToldInv
BY DEF Init, ToldInv

LEMMA ToldFrame ==
    ASSUME ToldInv, steady' \in {steady, FALSE},
           steady' => UNCHANGED <<pc, i, k, whom, at, loop, told, slot, n, ends>>
    PROVE  ToldInv'
BY DEF ToldInv, Covered, CoveredBefore, Pos

\* Steps at points where no broadcast is on its way, or that end one.
LEMMA ToldOutside ==
    ASSUME ToldInv,
           \/ Accept \/ PollAccept \/ Add \/ Load \/ Store \/ Read
           \/ Select \/ Welcome \/ AnnounceDone \/ Scan \/ ScanDone \/ IsSet \/ Fetch
           \/ ReadNothing \/ Got \/ Answer \/ BroadcastDone
           \/ PollEmpty \/ PollAnnounceDone \/ PollScan \/ PollSkip
    PROVE  ToldInv'
<1>1. ~steady'
  BY DEF Accept, PollAccept, Add, Load, Store, Read, Select, Welcome, AnnounceDone, Scan,
         ScanDone, IsSet, Fetch, ReadNothing, Got, Answer, BroadcastDone, PollEmpty,
         PollAnnounceDone, PollScan, PollSkip, LoopOver, Handled, ToldInv, Sending
<1> QED BY <1>1 DEF ToldInv

LEMMA ToldLoop ==
    ASSUME RangeInv, ToldInv,
           \/ Greet \/ PollGreet \/ Lookup \/ Announce \/ Broadcast \/ Pick
           \/ Find \/ Aim \/ WriteClosed \/ WriteBroken \/ Write
    PROVE  ToldInv'
<1>1. /\ n \in Nat /\ i \in Nat /\ k \in Nat /\ UNCHANGED <<slot, n, ends>>
      /\ loop \in {"scan", "greet", "announce", "send"}
  BY DEF RangeInv, ParentOK, TableOK, Greet, PollGreet, Lookup, Announce, Broadcast, Pick,
         Find, Aim, WriteClosed, WriteBroken, Write, Wrote, table
<1>2. CASE Greet \/ PollGreet
  BY <1>1, <1>2 DEF Greet, PollGreet, ToldInv, Covered, Pos, Sending
<1>3. CASE Lookup
  <2>1. CASE buf = "room" /\ whom \in Recorded
    <3>1. pc' = "send" /\ loop' = "send" /\ k' = 0
      BY <1>3, <2>1 DEF Lookup
    <3>2. Pos' = 0 /\ Covered'
      BY <3>1 DEF Pos, Covered
    <3> QED BY <3>1, <3>2 DEF ToldInv, Sending
  <2>2. CASE ~(buf = "room" /\ whom \in Recorded)
    <3>1. ~steady'
      BY <1>3, <2>2 DEF Lookup, Handled
    <3> QED BY <3>1 DEF ToldInv
  <2> QED BY <2>1, <2>2
<1> SUFFICES ASSUME steady' PROVE ToldInv'
  BY DEF ToldInv
<1>4. CASE Announce
  <2>1. /\ steady /\ pc = "announce" /\ loop = "announce" /\ Pos = i /\ Covered
    BY <1>4 DEF Announce, ToldInv, Pos
  <2>2. pc' = "aim" /\ loop' = loop /\ at' = i /\ Pos' = i + 1 /\ i < n /\ told' = told
    BY <1>4, <2>1 DEF Announce, Pos
  <2> QED BY <1>1, <2>1, <2>2 DEF ToldInv, Covered, CoveredBefore, Sending
<1>5. CASE Broadcast
  BY <1>1, <1>5 DEF Broadcast, ToldInv, Covered, Pos, Sending
<1>6. CASE Pick
  <2>1. /\ steady /\ pc = "pick" /\ loop = "send" /\ Pos = k /\ k < n /\ Covered
    BY <1>6 DEF Pick, ToldInv, Pos
  <2>2. pc' = "find" /\ loop' = loop /\ whom' = slot[k] /\ Pos' = k + 1 /\ told' = told
    BY <1>6, <2>1 DEF Pick, Pos
  <2> QED BY <1>1, <2>1, <2>2 DEF ToldInv, Covered, CoveredBefore, Sending
<1>7. CASE Find
  <2>1. steady /\ pc = "find" /\ Pos \in 1..n /\ CoveredBefore /\ whom = slot[Pos - 1]
    BY <1>7 DEF Find, ToldInv, Sending
  <2>2. Pos - 1 \in 0..n - 1
    BY <1>1, <2>1
  <2>3. whom \in Recorded
    BY <2>1, <2>2 DEF Recorded
  <2>4. slot[FirstOf(whom)] = whom
    BY <2>3, FirstIsRecord DEF RangeInv
  <2>5. pc' = "aim" /\ at' = FirstOf(whom) /\ UNCHANGED <<i, k, loop, told>>
    BY <1>7, <2>3 DEF Find
  <2>6. Pos' = Pos /\ CoveredBefore'
    BY <1>1, <2>1, <2>5 DEF Pos, CoveredBefore
  <2>7. slot'[at'] = slot'[Pos' - 1]
    BY <1>1, <2>1, <2>4, <2>5, <2>6
  <2> QED BY <1>1, <2>1, <2>5, <2>6, <2>7 DEF ToldInv, Sending
<1>8. CASE Aim
  BY <1>1, <1>8 DEF Aim, ToldInv, CoveredBefore, Pos, Sending
<1>9. CASE WriteClosed \/ Write
  <2>1. /\ steady /\ Pos \in 1..n /\ CoveredBefore /\ whom = slot[Pos - 1]
        /\ loop \in {"announce", "send"}
    BY <1>9 DEF WriteClosed, Write, Wrote, ToldInv, Sending
  <2>2. /\ pc' = loop /\ UNCHANGED <<i, k, loop>> /\ told \subseteq told'
        /\ whom \in ends => whom \in told'
    BY <1>9, <2>1 DEF WriteClosed, Write, Wrote
  <2>3. Pos' = Pos
    BY <2>2 DEF Pos
  <2>4. \A j \in 0..Pos - 1 : j \in 0..Pos - 2 \/ j = Pos - 1
    BY <1>1, <2>1
  <2>5. Covered'
    BY <1>1, <2>1, <2>2, <2>3, <2>4 DEF Covered, CoveredBefore
  <2> QED BY <2>1, <2>2, <2>5 DEF ToldInv, Sending
<1>10. CASE WriteBroken
  BY <1>10 DEF WriteBroken, Wrote, ToldInv, Sending
<1> QED BY <1>2, <1>3, <1>4, <1>5, <1>6, <1>7, <1>8, <1>9, <1>10

LEMMA ToldStep ==
    ASSUME RangeInv, ToldInv, [Next]_vars
    PROVE  ToldInv'
<1>1. CASE UNCHANGED vars \/ Connect
  BY <1>1, ToldFrame DEF vars, Connect, parent, table
<1>2. CASE Parent
  BY <1>2, ToldOutside, ToldLoop DEF Parent, Connection, WriteStep, Reading, Handling
<1>3. ASSUME NEW p \in Pid, Reap(p)
      PROVE  ToldInv'
  <2>1. CASE p \in Recorded
    BY <1>3, <2>1 DEF Reap, Removal, ToldInv
  <2>2. CASE p \notin Recorded
    BY <1>3, <2>2, ToldFrame DEF Reap, Removal
  <2> QED BY <2>1, <2>2
<1>4. ASSUME NEW p \in Pid, ReapInSelect(p)
      PROVE  ToldInv'
  BY <1>4 DEF ReapInSelect, Removal, ToldInv, Sending
<1>5. ASSUME NEW p \in Pid, Child(p) \/ Client(p)
      PROVE  ToldInv'
  <2>1. UNCHANGED <<parent, table>>
    BY <1>5 DEF Child, Client, ChildRead, ChildWrite, ChildDrain, ChildClose, ChildExit,
                ClientSend, ClientClose
  <2> QED BY <2>1, ToldFrame DEF parent, table
<1> QED BY <1>1, <1>2, <1>3, <1>4, <1>5 DEF Next

LEMMA PollToldStep ==
    ASSUME RangeInv, ToldInv, [PollNext]_vars
    PROVE  ToldInv'
<1>1. CASE UNCHANGED vars \/ Connect \/ \E p \in Pid : PollReap(p) \/ PollChild(p) \/ Client(p)
  <2>1. [Next]_vars
    BY <1>1 DEF Next, PollReap, PollChild
  <2> QED BY <2>1, ToldStep
<1>2. CASE PollRefuse \/ PollSetupFails
  BY <1>2, ToldFrame DEF PollRefuse, PollSetupFails, Dropped, parent
<1>3. CASE PollParent /\ ~(PollRefuse \/ PollSetupFails)
  BY <1>3, ToldOutside, ToldLoop
     DEF PollParent, PollRecord, PollArrival, PollRead, PollHandle, PollWrite,
         WriteStep, Handling
<1> QED BY <1>1, <1>2, <1>3 DEF PollNext

LEMMA ReachedAll ==
    ASSUME RangeInv, ToldInv, AnnounceDone \/ BroadcastDone \/ PollAnnounceDone, steady
    PROVE  Recorded \cap ends \subseteq told
<1>1. n \in Nat /\ i \in Nat /\ k \in Nat
  BY DEF RangeInv, ParentOK, TableOK
<1>2. Covered /\ Pos >= n /\ Pos \in Nat
  BY <1>1 DEF AnnounceDone, BroadcastDone, PollAnnounceDone, ToldInv, Pos
<1>3. \A j \in 0..n - 1 : j \in 0..Pos - 1
  BY <1>1, <1>2
<1> QED BY <1>2, <1>3 DEF Covered, Recorded

\* A broadcast, a loop of writes with the handler and other steps in between,
\* has been written to every record with open pipes when it ends, unless a
\* record was removed meanwhile: what the search, the shifted slots and the
\* descriptors looked up anew lead to is the child the loop meant.
THEOREM BroadcastsComplete == Spec => BroadcastReachesAll
<1>1. Spec => [](RangeInv /\ ToldInv)
  BY RangeInit, RangeStep, ToldInit, ToldStep, PTL DEF Spec
<1>2. RangeInv /\ ToldInv =>
         [(AnnounceDone \/ BroadcastDone) /\ steady => Recorded \cap ends \subseteq told]_vars
  BY ReachedAll
<1> QED BY <1>1, <1>2, PTL DEF BroadcastReachesAll

\* The same for the polling server, whose announcements go by pid.
THEOREM PollBroadcastsComplete == PollSpec => PollBroadcastReachesAll
<1>1. PollSpec => [](RangeInv /\ ToldInv)
  BY RangeInit, PollRangeStep, ToldInit, PollToldStep, PTL DEF PollSpec
<1>2. RangeInv /\ ToldInv =>
         [(PollAnnounceDone \/ BroadcastDone) /\ steady =>
              Recorded \cap ends \subseteq told]_vars
  BY ReachedAll
<1> QED BY <1>1, <1>2, PTL DEF PollBroadcastReachesAll

-----------------------------------------------------------------------------
(* The limit of the polling server.                                        *)

CountInv ==
    /\ status \in [Pid -> States]
    /\ n \in 0..MaxClients /\ reg \in Nat
    /\ pc \in {"add", "load"} => n < MaxClients
    /\ pc = "store" => reg < MaxClients /\ n <= reg
    /\ pc \notin InAdd => Cardinality(Unreaped) <= n
    /\ pc \in {"add", "load"} => Cardinality(Unreaped) <= n + 1
    /\ pc = "store" => Cardinality(Unreaped) <= reg + 1

LEMMA UnreapedFinite ==
    ASSUME NEW P \in SUBSET Pid
    PROVE  IsFiniteSet(P) /\ Cardinality(P) \in Nat
<1>1. IsFiniteSet(Pid)
  BY ServerAssumption, FS_Interval DEF Pid
<1> QED BY <1>1, FS_Subset, FS_CardinalityType

\* A step of the parent outside add_client_to_list touches neither the counter
\* nor a child.
LEMMA QuietStep ==
    ASSUME CountInv, pc \notin InAdd, pc' \notin InAdd,
           n' = n, reg' = reg, status' = status
    PROVE  CountInv'
BY DEF CountInv, Unreaped, InAdd, Pid

\* A step of a child, or its reaping, leaves no more children than there were.
LEMMA ChildStep ==
    ASSUME CountInv, UNCHANGED <<pc, n, reg>>,
           status' \in [Pid -> States], Unreaped' \subseteq Unreaped
    PROVE  CountInv'
<1>1. IsFiniteSet(Unreaped) /\ Cardinality(Unreaped) \in Nat
  BY UnreapedFinite DEF Unreaped
<1>2. Cardinality(Unreaped') \in Nat /\ Cardinality(Unreaped') <= Cardinality(Unreaped)
  BY <1>1, FS_Subset, FS_CardinalityType
<1>3. MaxClients \in Nat
  BY ServerAssumption
<1> QED BY <1>1, <1>2, <1>3 DEF CountInv, InAdd

\* One turn of the handler: the count of children goes down by one, that of
\* the records by one at most.
LEMMA ReapStep ==
    ASSUME CountInv, NEW p \in Pid, Reap(p)
    PROVE  CountInv'
<1> USE DEF Reap, parent
<1>1. IsFiniteSet(Unreaped) /\ Cardinality(Unreaped) \in Nat
  BY UnreapedFinite DEF Unreaped
<1>2. Unreaped' = Unreaped \ {p} /\ p \in Unreaped
  BY DEF CountInv, Unreaped, States, Pid
<1>3. Cardinality(Unreaped') = Cardinality(Unreaped) - 1
  BY <1>1, <1>2, FS_RemoveElement
<1>4. status' \in [Pid -> States]
  BY DEF CountInv, States
<1>5. CASE p \in Recorded
  <2>1. n > 0 /\ n' = n - 1
    BY <1>5, ServerAssumption DEF Recorded, Removal, CountInv
  <2> QED BY <1>1, <1>3, <1>4, <2>1, ServerAssumption DEF CountInv, InAdd
<1>6. CASE p \notin Recorded
  <2>1. n' = n
    BY <1>6 DEF Removal
  <2> QED BY <1>1, <1>3, <1>4, <2>1, ServerAssumption DEF CountInv, InAdd
<1> QED BY <1>5, <1>6

\* A child more, while a slot is free.
LEMMA AcceptStep ==
    ASSUME CountInv, PollAccept
    PROVE  CountInv'
<1>1. IsFiniteSet(Unreaped) /\ Cardinality(Unreaped) \in Nat
  BY UnreapedFinite DEF Unreaped
<1>2. Unreaped' \subseteq Unreaped \cup {forked + 1}
  BY DEF PollAccept, CountInv, Unreaped, States, Pid
<1>3. /\ IsFiniteSet(Unreaped \cup {forked + 1})
      /\ Cardinality(Unreaped \cup {forked + 1}) \in Nat
      /\ Cardinality(Unreaped \cup {forked + 1}) <= Cardinality(Unreaped) + 1
  BY <1>1, FS_AddElement, FS_CardinalityType
<1>4. Cardinality(Unreaped') \in Nat /\ Cardinality(Unreaped') <= Cardinality(Unreaped) + 1
  BY <1>1, <1>2, <1>3, FS_Subset, FS_CardinalityType
<1>5. status' \in [Pid -> States]
  BY DEF PollAccept, CountInv, States
<1>6. pc = "select" /\ pc' = "add" /\ n' = n /\ reg' = reg /\ n < MaxClients
  BY DEF PollAccept
<1> QED BY <1>1, <1>4, <1>5, <1>6, ServerAssumption DEF CountInv, InAdd

\* add_client_to_list.
LEMMA RecordStep ==
    ASSUME CountInv, PollRecord
    PROVE  CountInv'
<1>1. Cardinality(Unreaped) \in Nat /\ MaxClients \in Nat
  BY UnreapedFinite, ServerAssumption DEF Unreaped
<1>2. status' = status /\ Unreaped' = Unreaped
  BY DEF PollRecord, Add, Load, Store, children, table, Unreaped, Pid
<1>3. CASE Add
  BY <1>1, <1>2, <1>3 DEF Add, CountInv, InAdd
<1>4. CASE Load
  BY <1>1, <1>2, <1>4 DEF Load, table, CountInv, InAdd
<1>5. CASE Store
  BY <1>1, <1>2, <1>5 DEF Store, CountInv, InAdd
<1> QED BY <1>3, <1>4, <1>5 DEF PollRecord

LEMMA CountStep ==
    ASSUME RangeInv, CountInv, [PollNext]_vars
    PROVE  CountInv'
<1> USE DEF parent, table, children
<1>1. CASE UNCHANGED vars
  <2>1. UNCHANGED <<pc, n, reg, status>>
    BY <1>1 DEF vars
  <2>2. Unreaped' = Unreaped
    BY <2>1 DEF Unreaped, Pid
  <2> QED BY <2>1, <2>2, ChildStep DEF CountInv
<1>2. CASE PollParent
  <2>1. CASE PollAccept
    BY <2>1, AcceptStep
  <2>2. CASE PollRecord
    BY <2>2, RecordStep
  <2>3. CASE PollRefuse \/ PollSetupFails
    BY <2>3, QuietStep DEF PollRefuse, PollSetupFails, Dropped, InAdd
  <2>4. CASE Write
    <3>1. loop \notin InAdd
      BY DEF RangeInv, ParentOK, InAdd
    <3> QED BY <2>4, <3>1, QuietStep DEF Write, Wrote, InAdd
  <2>5. CASE Read
    BY <2>5, QuietStep DEF Read, InAdd
  <2>6. CASE Quiet
    BY <2>6, QuietFrame, QuietStep DEF RangeInv
  <2> QED BY <1>2, <2>1, <2>2, <2>3, <2>4, <2>5, <2>6, ParentSteps DEF PollRecord
<1>3. CASE Connect \/ \E p \in Pid : Client(p)
  <2>1. UNCHANGED <<pc, n, reg, status>>
    BY <1>3 DEF Connect, Client, ClientSend, ClientClose
  <2>2. Unreaped' = Unreaped
    BY <2>1 DEF Unreaped, Pid
  <2> QED BY <2>1, <2>2, ChildStep DEF CountInv
<1>4. ASSUME NEW p \in Pid, PollReap(p)
      PROVE  CountInv'
  BY <1>4, ReapStep DEF PollReap
<1>5. ASSUME NEW p \in Pid, PollChild(p)
      PROVE  CountInv'
  <2>1. UNCHANGED <<pc, n, reg>>
    BY <1>5 DEF PollChild, Child, ChildRead, ChildWrite, ChildDrain, ChildClose, ChildExit
  <2>2. status' \in [Pid -> States] /\ Unreaped' \subseteq Unreaped
    BY <1>5 DEF PollChild, Child, ChildRead, ChildWrite, ChildDrain, ChildClose, ChildExit,
                CountInv, States, Unreaped, Pid
  <2> QED BY <2>1, <2>2, ChildStep
<1> QED BY <1>1, <1>2, <1>3, <1>4, <1>5 DEF PollNext

LEMMA CountInit ==
    ASSUME Init
    PROVE  CountInv
<1>1. Unreaped = {}
  BY DEF Init, Unreaped, Pid
<1>2. Cardinality(Unreaped) = 0
  BY <1>1, FS_EmptySet
<1> QED BY <1>2, ServerAssumption DEF Init, CountInv, States, InAdd

\* There are never more children than the array of the server has slots,
\* although the handler runs between the load and the store of client_count++.
THEOREM LimitHolds == PollSpec => []ChildrenWithinArray
<1>1. CountInv => ChildrenWithinArray
  <2>1. Cardinality(Unreaped) \in Nat
    BY UnreapedFinite DEF Unreaped
  <2> QED BY <2>1, ServerAssumption DEF CountInv, ChildrenWithinArray, InAdd
<1>2. RangeInv /\ CountInv /\ [PollNext]_vars => CountInv'
  BY CountStep
<1> QED BY <1>1, <1>2, RangeInit, PollRangeStep, CountInit, PTL DEF PollSpec
=============================================================================
