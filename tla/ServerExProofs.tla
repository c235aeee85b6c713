--------------------------- MODULE ServerExProofs ---------------------------
(***************************************************************************)
(* Proofs about ServerEx: the types, that the daemon can always accept     *)
(* another connection, and the order in which its children end.            *)
(***************************************************************************)
EXTENDS ServerEx, TLAPS

Statuses == {"none", "refused", "setup", "greet", "wait", "zombie", "reaped"}

\* How many descriptors are in use at each point of the daemon's loop.
UsedInv ==
    /\ TypeOK
    /\ pc = "accept" => used >= 1 /\ used < FdLimit
    /\ pc = "pipes" => used >= 2
    /\ pc \in {"fork", "close"} => used >= 6

LEMMA UsedInit == Init => UsedInv
<1> SUFFICES ASSUME Init PROVE UsedInv
  OBVIOUS
<1>1. /\ pc = "accept" /\ used = 1 /\ ends = {} /\ lost = 0
      /\ backlog = 0 /\ accepted = 0 /\ reset = {}
  BY DEF Init
<1>2. status \in [Conn -> Statuses] /\ holds \in [Conn -> SUBSET Conn]
  BY DEF Init, Statuses
<1>3. QED
  BY <1>1, <1>2, ServerExAssumption DEF UsedInv, TypeOK, Statuses

LEMMA UsedStep == UsedInv /\ [Next]_vars => UsedInv'
<1> SUFFICES ASSUME UsedInv, [Next]_vars PROVE UsedInv'
  OBVIOUS
<1> USE ServerExAssumption DEF UsedInv, TypeOK, daemon, children
<1>1. CASE Accept
  BY <1>1 DEF Accept, Conn
<1>2. CASE OpenPipes
  <2>1. CASE used + 4 <= FdLimit /\ PipesOpen
    BY <1>2, <2>1 DEF OpenPipes, PipesOpen, Conn
  <2>2. CASE used + 4 > FdLimit /\ used + 2 <= FdLimit /\ TurnAway(2)
    <3>1. status' \in [Conn -> Statuses]
      BY <2>2 DEF TurnAway, Statuses
    <3>2. used' = used + 1 /\ lost' = lost + 1 /\ pc' = "accept"
          /\ UNCHANGED <<ends, backlog, accepted, holds, reset>>
      BY <2>2 DEF TurnAway
    <3>3. QED  BY <1>2, <2>2, <3>1, <3>2 DEF OpenPipes, Statuses
  <2>3. CASE used + 2 > FdLimit /\ TurnAway(0)
    <3>1. status' \in [Conn -> Statuses]
      BY <2>3 DEF TurnAway, Statuses
    <3>2. used' = used - 1 /\ lost' = lost /\ pc' = "accept"
          /\ UNCHANGED <<ends, backlog, accepted, holds, reset>>
      BY <2>3 DEF TurnAway
    <3>3. QED  BY <1>2, <2>3, <3>1, <3>2 DEF OpenPipes, Statuses
  <2>4. QED  BY <1>2, <2>1, <2>2, <2>3 DEF OpenPipes
<1>3. CASE Fork
  <2>1. ends \subseteq Conn
    BY DEF Conn
  <2>2. QED  BY <1>3, <2>1 DEF Fork
<1>4. CASE ForkFails
  <2>1. status' \in [Conn -> Statuses]
    BY <1>4 DEF ForkFails, Statuses
  <2>2. used' = used - 5 /\ pc' = "accept" /\ ends' \subseteq ends
    BY <1>4 DEF ForkFails
  <2>3. pc = "fork" /\ UNCHANGED <<lost, backlog, accepted, holds, reset>>
    BY <1>4 DEF ForkFails
  <2>4. TypeOK'
    BY <2>1, <2>2, <2>3 DEF Statuses
  <2>5. used' >= 1 /\ used' < FdLimit
    BY <2>2, <2>3
  <2>6. QED  BY <2>2, <2>4, <2>5
<1>5. CASE Close
  BY <1>5 DEF Close
<1>6. CASE Killed \/ Connect
  <2>1. CASE Killed
    BY <2>1 DEF Killed
  <2>2. CASE Connect
    BY <2>2 DEF Connect
  <2>3. QED  BY <1>6, <2>1, <2>2
<1>7. ASSUME NEW c \in Conn, Reap(c) \/ Child(c) \/ ClientReset(c)
      PROVE UsedInv'
  <2>1. UNCHANGED daemon
    BY <1>7 DEF Reap, Child, Setup, Greet, EndOfPipe, ClientReset
  <2>2. status' \in [Conn -> Statuses]
    BY <1>7 DEF Reap, Child, Setup, Greet, EndOfPipe, ClientReset, Statuses
  <2>3. holds' \in [Conn -> SUBSET Conn] /\ reset' \subseteq Conn
    BY <1>7 DEF Reap, Child, Setup, Greet, EndOfPipe, ClientReset
  <2>4. QED  BY <2>1, <2>2, <2>3 DEF Statuses
<1>8. CASE UNCHANGED vars
  BY <1>8 DEF vars
<1>9. QED
  BY <1>1, <1>2, <1>3, <1>4, <1>5, <1>6, <1>7, <1>8 DEF Next, Daemon

LEMMA UsedAlways == Spec => []UsedInv
BY UsedInit, UsedStep, PTL DEF Spec

THEOREM TypeCorrect == Spec => []TypeOK
<1>1. UsedInv => TypeOK
  BY DEF UsedInv
<1>2. QED  BY <1>1, UsedAlways, PTL

\* For any limit of descriptors and any number of connections, the daemon has
\* a descriptor left to accept the next one with.
THEOREM AlwaysRoomToRefuse == Spec => []RoomToRefuse
<1>1. UsedInv => RoomToRefuse
  BY DEF UsedInv, RoomToRefuse
<1>2. QED  BY <1>1, UsedAlways, PTL

-----------------------------------------------------------------------------
(* The order of the ends: the daemon, and every child forked after c, holds *)
(* the other end of the pipe c waits at.                                    *)

HoldInv ==
    /\ TypeOK
    /\ EndsInReverse
    /\ \A c \in Conn : c > accepted => status[c] = "none"
    /\ pc \in {"pipes", "fork"} => status[accepted] = "none"
    /\ pc = "fork" => accepted \in ends
    /\ pc # "dead" => Forked \subseteq ends
    /\ \A c, d \in Conn : c < d /\ c \in Forked /\ Alive(d) => c \in holds[d]

\* Children of chat_ex/chat_server.c end after the daemon and youngest first.
THEOREM ChildrenEndInReverse == Spec => []EndsInReverse
<1>1. Init /\ TypeOK => HoldInv
  BY DEF Init, HoldInv, EndsInReverse, Forked, Alive
<1>2. ASSUME HoldInv, TypeOK', [Next]_vars PROVE HoldInv'
  <2> USE <1>2 DEF HoldInv, TypeOK, daemon, children
  <2>1. CASE Accept \/ Close \/ Killed \/ Connect
    <3>1. UNCHANGED <<status, holds, reset>> /\ accepted' >= accepted
      BY <2>1 DEF Accept, Close, Killed, Connect
    <3>2. Forked' = Forked /\ \A c \in Conn : Alive(c)' <=> Alive(c)
      BY <3>1 DEF Forked, Alive
    <3>3. EndsInReverse'
      BY <2>1, <3>1, <3>2 DEF EndsInReverse, Accept, Close, Killed, Connect
    <3>4. (pc # "dead" => Forked \subseteq ends)' /\ (pc = "fork" => accepted \in ends)'
      BY <2>1, <3>2 DEF Accept, Close, Killed, Connect
    <3>5. (pc \in {"pipes", "fork"} => status[accepted] = "none")'
      BY <2>1, <3>1 DEF Accept, Close, Killed, Connect, Conn
    <3>6. \A c, d \in Conn : c < d /\ c \in Forked' /\ Alive(d)' => c \in holds'[d]
      BY <3>1, <3>2
    <3>7. \A c \in Conn : c > accepted' => status'[c] = "none"
      BY <3>1 DEF Conn
    <3>8. QED  BY <3>3, <3>4, <3>5, <3>6, <3>7
  <2>2. CASE OpenPipes \/ ForkFails
    <3>1. /\ status[accepted] = "none" /\ accepted \in Conn
          /\ \/ status' = status
             \/ status' = [status EXCEPT ![accepted] = "refused"]
          /\ UNCHANGED <<holds, reset, accepted>>
          /\ pc # "dead" /\ pc' \in {"accept", "fork"}
          /\ ends \ {accepted} \subseteq ends'
          /\ pc' = "fork" => accepted \in ends' /\ status' = status
      BY <2>2 DEF OpenPipes, PipesOpen, TurnAway, ForkFails
    <3>2. Forked' = Forked /\ accepted \notin Forked
      BY <3>1 DEF Forked
    <3>3. \A c \in Conn : Alive(c)' <=> Alive(c)
      BY <3>1 DEF Alive
    <3>4. \A c \in Conn : status'[c] \in {"zombie", "reaped"} =>
                          status[c] \in {"zombie", "reaped"}
      BY <3>1
    <3>5. EndsInReverse'
      BY <3>1, <3>3, <3>4 DEF EndsInReverse
    <3>6. Forked' \subseteq ends' /\ (pc' = "fork" => accepted' \in ends')
      BY <3>1, <3>2
    <3>7. \A c, d \in Conn : c < d /\ c \in Forked' /\ Alive(d)' => c \in holds'[d]
      BY <3>1, <3>2, <3>3
    <3>8. \A c \in Conn : c > accepted' => status'[c] = "none"
      BY <3>1 DEF Conn
    <3>9. pc' \in {"pipes", "fork"} => status'[accepted'] = "none"
      BY <3>1
    <3>10. QED  BY <3>5, <3>6, <3>7, <3>8, <3>9
  <2>3. CASE Fork
    <3>1. /\ accepted \in Conn /\ status[accepted] = "none"
          /\ status' = [status EXCEPT ![accepted] = "setup"]
          /\ holds' = [holds EXCEPT ![accepted] = ends]
          /\ UNCHANGED <<ends, accepted, reset>>
          /\ pc = "fork" /\ pc' = "close"
      BY <2>3 DEF Fork
    <3>2. Forked' = Forked \cup {accepted} /\ accepted \notin Forked
      BY <3>1 DEF Forked
    <3>3. \A c \in Conn : Alive(c)' <=> Alive(c) \/ c = accepted
      BY <3>1 DEF Alive
    <3>4. EndsInReverse'
      BY <3>1 DEF EndsInReverse
    <3>5. \A c, d \in Conn : c < d /\ c \in Forked' /\ Alive(d)' => c \in holds'[d]
      <4> SUFFICES ASSUME NEW c \in Conn, NEW d \in Conn,
                          c < d, c \in Forked', Alive(d)'
                   PROVE c \in holds'[d]
        OBVIOUS
      <4>1. CASE d = accepted
        BY <3>1, <3>2, <4>1 DEF Conn
      <4>2. CASE d # accepted
        <5>1. Alive(d) /\ status[d] # "none"
          BY <3>3, <4>2 DEF Alive
        <5>2. d <= accepted
          BY <5>1 DEF Conn
        <5>3. c \in Forked
          BY <3>2, <4>2, <5>2 DEF Conn
        <5>4. QED  BY <3>1, <4>2, <5>1, <5>3
      <4>3. QED  BY <4>1, <4>2
    <3>6. (pc # "dead" => Forked \subseteq ends)'
      BY <3>1, <3>2
    <3>7. \A c \in Conn : c > accepted' => status'[c] = "none"
      BY <3>1 DEF Conn
    <3>8. QED  BY <3>1, <3>4, <3>5, <3>6, <3>7
  <2>4. ASSUME NEW c \in Conn, Reap(c) \/ Child(c) PROVE HoldInv'
    <3>1. /\ UNCHANGED <<pc, ends, accepted, reset>>
          /\ \E st \in {"greet", "wait", "zombie", "reaped"} :
                 status' = [status EXCEPT ![c] = st]
          /\ status[c] \in {"setup", "greet", "wait", "zombie"}
          /\ status[c] = "zombie" => status'[c] = "reaped"
          /\ \A d \in Conn : d # c => holds'[d] = holds[d]
      BY <2>4 DEF Reap, Child, Setup, Greet, EndOfPipe
    <3>2. Forked' = Forked /\ c \in Forked
      BY <3>1 DEF Forked
    <3>3. \A d \in Conn : Alive(d)' => Alive(d)
      BY <3>1 DEF Alive
    <3>4. Alive(c)' => holds[c] \ {c} \subseteq holds'[c]
      BY <2>4 DEF Reap, Child, Setup, Greet, EndOfPipe, Alive
    <3>5. \A b, d \in Conn : b < d /\ b \in Forked' /\ Alive(d)' => b \in holds'[d]
      BY <3>1, <3>2, <3>3, <3>4 DEF Conn
    <3>6. EndsInReverse'
      <4> SUFFICES ASSUME NEW b \in Conn, NEW d \in Conn, b < d, b \notin reset',
                          status'[b] \in {"zombie", "reaped"}
                   PROVE pc' = "dead" /\ ~Alive(d)'
        BY DEF EndsInReverse
      <4>1. CASE status[b] \in {"zombie", "reaped"}
        BY <3>1, <3>3, <4>1 DEF EndsInReverse
      <4>2. CASE status[b] \notin {"zombie", "reaped"}
        <5>1. b = c /\ status[c] # "zombie"
          BY <3>1, <4>2
        <5>2. EndOfPipe(c)
          BY <2>4, <3>1, <5>1 DEF Reap, Child, Setup, Greet
        <5>3. c \notin ends /\ \A e \in Conn : c \notin holds[e]
          BY <5>2 DEF EndOfPipe, HasWriter
        <5>4. pc = "dead"
          BY <3>2, <5>3
        <5>5. ~Alive(d)
          BY <3>2, <5>1, <5>3
        <5>6. QED  BY <3>1, <3>3, <5>4, <5>5
      <4>3. QED  BY <4>1, <4>2
    <3>7. QED  BY <3>1, <3>2, <3>5, <3>6
  <2>5. ASSUME NEW c \in Conn, ClientReset(c) PROVE HoldInv'
    <3>1. UNCHANGED <<pc, ends, accepted, status, holds>> /\ reset \subseteq reset'
      BY <2>5 DEF ClientReset
    <3>2. Forked' = Forked /\ \A d \in Conn : Alive(d)' <=> Alive(d)
      BY <3>1 DEF Forked, Alive
    <3>3. EndsInReverse'
      BY <3>1, <3>2 DEF EndsInReverse
    <3>4. QED  BY <3>1, <3>2, <3>3
  <2>6. CASE UNCHANGED vars
    <3>1. UNCHANGED <<pc, ends, accepted, status, holds, reset>>
      BY <2>6 DEF vars
    <3>2. Forked' = Forked /\ \A d \in Conn : Alive(d)' <=> Alive(d)
      BY <3>1 DEF Forked, Alive
    <3>3. EndsInReverse'
      BY <3>1, <3>2 DEF EndsInReverse
    <3>4. QED  BY <3>1, <3>2, <3>3
  <2>7. QED
    BY <2>1, <2>2, <2>3, <2>4, <2>5, <2>6 DEF Next, Daemon
<1>3. HoldInv => EndsInReverse
  BY DEF HoldInv
<1>4. QED  BY <1>1, <1>2, <1>3, TypeCorrect, PTL DEF Spec
=============================================================================
