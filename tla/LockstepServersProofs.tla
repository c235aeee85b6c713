----------------------- MODULE LockstepServersProofs -----------------------
(***************************************************************************)
(* Proofs about LockstepServers for both programs and any size of the      *)
(* table: types, no pipe is read once the table is full, and SIGINT ends   *)
(* all children but the one that is being recorded.                        *)
(***************************************************************************)
EXTENDS LockstepServers, TLAPS

Status == {"none", "refused", "failed", "nick", "talk", "listen",
           "zombie", "reaped", "killed"}

\* A connection is between accept and the counter.
Entering == {"fork", "record", "join"}

Turning == {"select", "scan", "relay"}

\* The capacity has been tested when a connection is entered, and what is
\* counted, or about to be, is a connection.  Until a connection is refused all
\* that were accepted are counted; then the parent only accepts.
TableInv ==
    /\ TypeOK
    /\ c2p \in [Conn -> Nat] /\ inbox \in [Conn -> Nat]
    /\ \A h \in Slots : h < n => slot[h] # 0
    /\ pc \in Entering => n < MaxClients /\ accepted > 0 /\ accepted = n + 1
    /\ pc = "join" => slot[n] # 0
    /\ pc \in Turning => accepted = n
    /\ pc = "accept" /\ n < MaxClients => accepted = n
    /\ pc = "relay" => i < n

LEMMA TableInit == Init => TableInv
BY LockstepAssumption
   DEF Init, TableInv, TypeOK, Conn, Slots, Entering, Turning

\* The records that count are those of connections.
LEMMA RecordedAreConns ==
    ASSUME TypeOK, \A h \in Slots : h < n => slot[h] # 0
    PROVE  /\ Recorded \subseteq Conn
           /\ \A h \in Slots : h < n => slot[h] \in Conn
<1> USE LockstepAssumption DEF TypeOK
<1>1. ASSUME NEW h \in Slots, h < n PROVE slot[h] \in Conn
  BY <1>1 DEF Conn
<1>2. ASSUME NEW h \in 0..n - 1 PROVE h \in Slots /\ h < n
  BY <1>2 DEF Slots
<1>3. QED  BY <1>1, <1>2 DEF Recorded

\* A write of the parent changes no other type than that of its pipe.
LEMMA WriteTyped ==
    ASSUME p2c \in [Conn -> 0..PipeCap + 1], NEW c \in Conn, NEW next,
           NEW pieces \in SUBSET {1, 2}, WriteTo(c, pieces, next)
    PROVE  /\ p2c' \in [Conn -> 0..PipeCap + 1]
           /\ pc' \in {next, "dead"}
<1> USE LockstepAssumption DEF WriteTo
<1>1. CASE UNCHANGED p2c
  BY <1>1
<1>2. ASSUME NEW k \in pieces, p2c[c] < PipeCap, p2c' = [p2c EXCEPT ![c] = @ + k]
      PROVE  p2c' \in [Conn -> 0..PipeCap + 1]
  <2>1. p2c[c] + k \in 0..PipeCap + 1
    BY <1>2
  <2>2. QED  BY <1>2, <2>1
<1>3. QED  BY <1>1, <1>2

LEMMA TableStep == TableInv /\ [Next]_vars => TableInv'
<1> SUFFICES ASSUME TableInv, [Next]_vars PROVE TableInv'
  OBVIOUS
<1> USE LockstepAssumption DEF TableInv, TypeOK, Entering, Turning
<1>r. Recorded \subseteq Conn /\ \A h \in Slots : h < n => slot[h] \in Conn
  BY RecordedAreConns
<1>1. CASE Accept
  <2>1. accepted + 1 \in Conn /\ accepted + 1 + (backlog - 1) <= MaxConn
        /\ backlog - 1 \in Nat
    BY <1>1 DEF Accept, Conn
  <2>2. status' \in [Conn -> Status]
    BY <1>1, <2>1 DEF Accept, Status
  <2>3. QED  BY <1>1, <2>1, <2>2 DEF Accept, Status
<1>2. CASE Fork
  <2>1. accepted \in Conn
    BY <1>2 DEF Fork, Conn
  <2>2. status' \in [Conn -> Status]
    BY <1>2, <2>1 DEF Fork, Status
  <2>3. QED  BY <1>2, <2>2 DEF Fork, Status
<1>3. CASE RecordLog
  <2>1. n \in Slots /\ accepted \in 0..MaxConn /\ accepted > 0
    BY <1>3 DEF RecordLog, Slots
  <2>2. /\ slot' \in [Slots -> 0..MaxConn] /\ slot'[n] # 0
        /\ \A h \in Slots : h < n => slot'[h] # 0
    BY <1>3, <2>1 DEF RecordLog, Slots
  <2>3. c2p' \in [Conn -> Nat]
    <3>1. PICK rest \in 0..c2p[accepted] : c2p' = [c2p EXCEPT ![accepted] = rest]
      BY <1>3 DEF RecordLog
    <3>2. accepted \in Conn
      BY <2>1 DEF Conn
    <3>3. QED  BY <3>1, <3>2
  <2>4. QED  BY <1>3, <2>1, <2>2, <2>3 DEF RecordLog
<1>4. CASE Join
  <2>1. slot[i] \in Conn
    BY <1>4, <1>r DEF Join, Slots
  <2>2. p2c' \in [Conn -> 0..PipeCap + 1] /\ pc' \in {"join", "dead"}
    BY <1>4, <2>1, WriteTyped DEF Join
  <2>3. QED  BY <1>4, <2>2 DEF Join
<1>5. CASE JoinDone
  <2>1. \A h \in Slots : h < n + 1 => slot[h] # 0
    BY <1>5 DEF JoinDone, Slots
  <2>2. QED  BY <1>5, <2>1 DEF JoinDone, children
<1>6. CASE RecordMulti
  <2>1. n \in Slots /\ accepted \in 0..MaxConn /\ accepted > 0
    BY <1>6 DEF RecordMulti, Slots
  <2>2. slot' \in [Slots -> 0..MaxConn] /\ \A h \in Slots : h < n + 1 => slot'[h] # 0
    BY <1>6, <2>1 DEF RecordMulti, Slots
  <2>3. QED  BY <1>6, <2>1, <2>2 DEF RecordMulti, children
<1>7. CASE Select
  <2>1. ready' \subseteq Conn
    BY <1>7, <1>r DEF Select, Readable
  <2>2. QED  BY <1>7, <2>1 DEF Select, children
<1>8. CASE ScanRead
  <2>1. c2p' \in [Conn -> Nat]
    <3>1. slot[i] \in Conn
      BY <1>8, <1>r DEF ScanRead, Slots
    <3>2. PICK rest \in 0..c2p[slot[i]] - 1 : c2p' = [c2p EXCEPT ![slot[i]] = rest]
      BY <1>8 DEF ScanRead
    <3>3. QED  BY <3>1, <3>2
  <2>2. QED  BY <1>8, <2>1 DEF ScanRead
<1>9. CASE ScanSkip  BY <1>9 DEF ScanSkip, children
<1>10. CASE ScanDone  BY <1>10 DEF ScanDone, children
<1>11. CASE Relay
  <2>1. slot[j] \in Conn
    BY <1>11, <1>r DEF Relay, Slots
  <2>2. p2c' \in [Conn -> 0..PipeCap + 1] /\ pc' \in {"relay", "dead"}
    BY <1>11, <2>1, WriteTyped DEF Relay
  <2>3. QED  BY <1>11, <2>2 DEF Relay
<1>12. CASE RelayDone  BY <1>12 DEF RelayDone, children
<1>13. CASE Sigchld
  <2>1. status' \in [Conn -> Status]
    BY <1>13 DEF Sigchld, Status
  <2>2. QED  BY <1>13, <2>1 DEF Sigchld, parent, Status
<1>14. CASE Sigint
  <2>1. status' \in [Conn -> Status]
    BY <1>14 DEF Sigint, Status
  <2>2. QED  BY <1>14, <2>1 DEF Sigint, Status
<1>15. CASE Connect  BY <1>15 DEF Connect, children
<1>16. ASSUME NEW c \in Conn, Child(c)  PROVE TableInv'
  <2>1. /\ UNCHANGED parent
        /\ status' \in [Conn -> Status] /\ p2c' \in [Conn -> 0..PipeCap + 1]
        /\ c2p' \in [Conn -> Nat] /\ inbox' \in [Conn -> Nat]
    <3>1. CASE Nick(c)
      <4>1. inbox' \in [Conn -> Nat]
        BY <3>1 DEF Nick
      <4>2. c2p' \in [Conn -> Nat]
        BY <3>1 DEF Nick
      <4>3. QED  BY <3>1, <4>1, <4>2 DEF Nick, Status
    <3>2. CASE Talk(c)
      <4>1. PICK rest \in 0..inbox[c] - 1 : inbox' = [inbox EXCEPT ![c] = rest]
        BY <3>2 DEF Talk
      <4>2. QED  BY <3>2, <4>1 DEF Talk, Status
    <3>3. CASE Listen(c)
      <4>1. PICK rest \in 0..p2c[c] - 1 : p2c' = [p2c EXCEPT ![c] = rest]
        BY <3>3 DEF Listen
      <4>2. QED  BY <3>3, <4>1 DEF Listen, Status
    <3>4. CASE Leave(c)  BY <3>4 DEF Leave, Status
    <3>5. QED  BY <1>16, <3>1, <3>2, <3>3, <3>4 DEF Child
  <2>2. QED  BY <2>1 DEF parent, Status
<1>17. ASSUME NEW c \in Conn, ClientSend(c)  PROVE TableInv'
  BY <1>17 DEF ClientSend, parent
<1>18. ASSUME NEW c \in Conn, ClientClose(c)  PROVE TableInv'
  BY <1>18 DEF ClientClose, parent
<1>19. CASE UNCHANGED vars
  BY <1>19 DEF vars, parent, children
<1>20. QED
  BY <1>1, <1>2, <1>3, <1>4, <1>5, <1>6, <1>7, <1>8, <1>9, <1>10, <1>11, <1>12,
     <1>13, <1>14, <1>15, <1>16, <1>17, <1>18, <1>19 DEF Next, Parent

\* The table, its counter and the parent's indexes stay in their ranges, also
\* when forks fail and connections are refused.
THEOREM TypeCorrect == Spec => []TypeOK
<1>1. TableInv => TypeOK
  BY DEF TableInv
<1>2. QED  BY TableInit, TableStep, <1>1, PTL DEF Spec

-----------------------------------------------------------------------------
\* What has not been accepted, or is being forked, is not there yet, and a child
\* that has not passed on a nickname has written nothing.
SilentInv ==
    \A c \in Conn :
        /\ status[c] \in {"none", "nick"} => c2p[c] = 0
        /\ c > accepted \/ (c = accepted /\ pc = "fork") => status[c] = "none"

LEMMA SilentInit == Init => SilentInv
BY LockstepAssumption DEF Init, SilentInv, Conn

LEMMA SilentStep == TableInv /\ SilentInv /\ [Next]_vars => SilentInv'
<1> SUFFICES ASSUME TableInv, SilentInv, [Next]_vars PROVE SilentInv'
  OBVIOUS
<1> USE LockstepAssumption DEF TableInv, TypeOK, SilentInv
<1>1. ASSUME UNCHANGED <<status, accepted>>, pc' = "fork" => pc = "fork",
             \A c \in Conn : c2p[c] = 0 => c2p'[c] = 0
      PROVE  SilentInv'
  BY <1>1
<1>2. CASE Accept
  <2>1. accepted + 1 \in Conn
    BY <1>2 DEF Accept, Conn
  <2>2. \A c \in Conn : c # accepted + 1 \/ pc' = "fork" => status'[c] = status[c]
    BY <1>2 DEF Accept
  <2>3. c2p' = c2p /\ accepted' = accepted + 1 /\ status[accepted + 1] = "none"
    BY <1>2, <2>1 DEF Accept
  <2>4. \A c \in Conn : c > accepted + 1 => c > accepted /\ c # accepted + 1
    BY DEF Conn
  <2>5. status'[accepted + 1] \in {"none", "refused"}
        /\ (pc' = "fork" => status'[accepted + 1] = "none")
    BY <1>2, <2>1, <2>3 DEF Accept
  <2>6. QED  BY <2>1, <2>2, <2>3, <2>4, <2>5
<1>3. CASE Fork
  <2>1. accepted \in Conn /\ c2p[accepted] = 0
    BY <1>3 DEF Fork, Conn, Entering
  <2>2. \A c \in Conn : c > accepted => c # accepted
    BY DEF Conn
  <2>3. QED  BY <1>3, <2>1, <2>2 DEF Fork
<1>4. CASE Join
  <2>1. pc' \in {"join", "dead"}
    BY <1>4 DEF Join, WriteTo
  <2>2. QED  BY <1>1, <1>4, <2>1 DEF Join
<1>5. CASE Relay
  <2>1. pc' # "fork"
    BY <1>5 DEF Relay, WriteTo
  <2>2. QED  BY <1>1, <1>5, <2>1 DEF Relay
<1>6. CASE RecordLog \/ ScanRead
  <2>1. \A c \in Conn : c2p[c] = 0 => c2p'[c] = 0
    <3>1. CASE RecordLog
      <4>1. PICK rest \in 0..c2p[accepted] : c2p' = [c2p EXCEPT ![accepted] = rest]
        BY <3>1 DEF RecordLog
      <4>2. QED  BY <4>1
    <3>2. CASE ScanRead
      <4>1. PICK rest \in 0..c2p[slot[i]] - 1 : c2p' = [c2p EXCEPT ![slot[i]] = rest]
        BY <3>2 DEF ScanRead
      <4>2. QED  BY <4>1
    <3>3. QED  BY <1>6, <3>1, <3>2
  <2>2. QED  BY <1>1, <1>6, <2>1 DEF RecordLog, ScanRead
<1>7. CASE JoinDone \/ RecordMulti \/ Select \/ ScanSkip \/ ScanDone \/ RelayDone
  BY <1>1, <1>7
     DEF JoinDone, RecordMulti, Select, ScanSkip, ScanDone, RelayDone, children
<1>8. CASE Sigchld
  BY <1>8 DEF Sigchld, parent
<1>9. CASE Sigint
  BY <1>9 DEF Sigint
<1>10. ASSUME NEW c \in Conn, Child(c)  PROVE SilentInv'
  BY <1>10 DEF Child, Nick, Talk, Listen, Leave, parent
<1>11. ASSUME NEW c \in Conn, ClientSend(c) \/ ClientClose(c)  PROVE SilentInv'
  BY <1>1, <1>11 DEF ClientSend, ClientClose, parent
<1>12. CASE Connect \/ UNCHANGED vars
  BY <1>1, <1>12 DEF Connect, vars, parent, children
<1>13. QED
  BY <1>2, <1>3, <1>4, <1>5, <1>6, <1>7, <1>8, <1>9, <1>10, <1>11, <1>12
     DEF Next, Parent

\* The step in which something is read from a child's pipe.
LEMMA ReadsWhileOpen ==
    ASSUME TableInv, SilentInv, [Next]_vars, NEW c \in Conn, c2p'[c] < c2p[c]
    PROVE  accepted <= MaxClients
<1> USE LockstepAssumption DEF TableInv, TypeOK
<1>1. CASE RecordLog
  BY <1>1 DEF RecordLog, Entering
<1>2. CASE ScanRead
  BY <1>2 DEF ScanRead, Turning
<1>3. ASSUME NEW d \in Conn, Child(d)  PROVE FALSE
  <2>1. CASE Nick(d)
    <3>1. c2p[d] = 0 /\ \E w \in {0, 1} : c2p' = [c2p EXCEPT ![d] = w]
      BY <2>1 DEF SilentInv, Nick
    <3>2. QED  BY <3>1
  <2>2. CASE Talk(d)  BY <2>2 DEF Talk
  <2>3. CASE Listen(d) \/ Leave(d)  BY <2>3 DEF Listen, Leave
  <2>4. QED  BY <1>3, <2>1, <2>2, <2>3 DEF Child
<1>4. CASE c2p' = c2p
  BY <1>4
<1>5. QED
  BY <1>1, <1>2, <1>3, <1>4
     DEF Next, Parent, Accept, Fork, Join, JoinDone, RecordMulti, Select, ScanSkip,
         ScanDone, Relay, RelayDone, Sigchld, Sigint, Connect, ClientSend,
         ClientClose, vars, children

\* Once more connections have been accepted than the table has records, nothing
\* is read from any child.
THEOREM FullTableIsDeaf == Spec => NothingReadOnceFull
<1>1. TableInv /\ SilentInv /\ [Next]_vars
      => [\A c \in Conn : c2p'[c] < c2p[c] => accepted <= MaxClients]_vars
  BY ReadsWhileOpen
<1>2. QED
  BY TableInit, TableStep, SilentInit, SilentStep, <1>1, PTL
     DEF Spec, NothingReadOnceFull

-----------------------------------------------------------------------------
\* The states of a child that serves its client.
Up == {"nick", "talk", "listen"}

\* In multi_chat_server.c every child is in the table from the step after fork
\* on, and SIGINT ends those that are.
CoveredInv ==
    /\ program \in {"log", "multi"}
    /\ program = "multi" => pc # "join" /\ \A c \in Conn : status[c] # "nick"
    /\ program = "log" => pc # "ended"
    /\ program = "multi" /\ Serving =>
           \A c \in Conn :
               status[c] \in Up => c \in Recorded \/ (c = accepted /\ pc = "record")

LEMMA RecordedGrows ==
    ASSUME TypeOK, n < MaxClients, slot' = [slot EXCEPT ![n] = accepted], n' = n + 1
    PROVE  Recorded' = Recorded \cup {accepted}
<1> USE LockstepAssumption DEF TypeOK, Slots
<1>1. n \in Slots /\ \A h \in 0..n - 1 : h \in Slots /\ h # n
  OBVIOUS
<1>2. slot'[n] = accepted /\ \A h \in 0..n - 1 : slot'[h] = slot[h]
  BY <1>1
<1>3. n' - 1 = n /\ 0..n = (0..n - 1) \cup {n}
  OBVIOUS
<1>4. QED  BY <1>2, <1>3 DEF Recorded

LEMMA CoveredInit == Init => CoveredInv
BY DEF Init, CoveredInv, Up

LEMMA CoveredStep == TableInv /\ CoveredInv /\ [Next]_vars => CoveredInv'
<1> SUFFICES ASSUME TableInv, CoveredInv, [Next]_vars PROVE CoveredInv'
  OBVIOUS
<1> USE LockstepAssumption DEF CoveredInv, Serving, Up
<1>t. TypeOK /\ n \in Nat /\ accepted \in Nat /\ status \in [Conn -> Status]
  BY DEF TableInv, TypeOK, Status
<1>1. ASSUME UNCHANGED <<program, slot, n, accepted>>, pc # "record",
             pc' \notin {"join", "ended"}, Serving' => Serving,
             \A c \in Conn : status'[c] \in Up => status[c] = status'[c]
      PROVE  CoveredInv'
  BY <1>1 DEF Recorded
<1>2. CASE Accept
  <2>1. \A c \in Conn : status'[c] \in Up => status[c] = status'[c]
    BY <1>2, <1>t DEF Accept
  <2>2. QED  BY <1>2, <2>1 DEF Accept, Recorded
<1>3. CASE Fork
  <2>1. \A c \in Conn : c # accepted => status'[c] = status[c]
    BY <1>3, <1>t DEF Fork
  <2>2. program = "multi" => \A c \in Conn : status'[c] # "nick"
    BY <1>3, <1>t DEF Fork
  <2>3. QED  BY <1>3, <2>1, <2>2 DEF Fork, Recorded
<1>4. CASE RecordLog \/ Join \/ JoinDone
  <2>1. program = "log" /\ program' = "log" /\ pc' # "ended"
    BY <1>4 DEF RecordLog, Join, JoinDone, WriteTo, TableInv, TypeOK
  <2>2. QED  BY <2>1
<1>5. CASE RecordMulti
  <2>1. Recorded' = Recorded \cup {accepted}
    BY <1>5, <1>t, RecordedGrows DEF RecordMulti, TableInv, Entering
  <2>2. QED  BY <1>5, <2>1 DEF RecordMulti, children
<1>6. CASE Relay
  <2>1. pc' \in {"relay", "dead"}
    BY <1>6 DEF Relay, WriteTo
  <2>2. QED  BY <1>1, <1>6, <2>1 DEF Relay
<1>7. CASE Select \/ ScanRead \/ ScanSkip \/ ScanDone \/ RelayDone
  BY <1>1, <1>7 DEF Select, ScanRead, ScanSkip, ScanDone, RelayDone, children
<1>8. CASE Sigchld
  BY <1>8 DEF Sigchld, parent, Recorded
<1>9. CASE Sigint
  BY <1>9 DEF Sigint
<1>10. ASSUME NEW c \in Conn, Child(c)  PROVE CoveredInv'
  <2>1. \A d \in Conn :
            status'[d] \in Up => status[d] \in Up /\ (status'[d] = "nick" => status[d] = "nick")
    BY <1>10, <1>t DEF Child, Nick, Talk, Listen, Leave
  <2>2. UNCHANGED <<program, parent>>
    BY <1>10 DEF Child, Nick, Talk, Listen, Leave
  <2>3. QED  BY <2>1, <2>2 DEF parent, Recorded
<1>11. ASSUME UNCHANGED <<program, pc, slot, n, accepted, status>>  PROVE CoveredInv'
  BY <1>11 DEF Recorded
<1>12. CASE Connect \/ UNCHANGED vars
  BY <1>11, <1>12 DEF Connect, vars, parent, children
<1>13. ASSUME NEW c \in Conn, ClientSend(c) \/ ClientClose(c)  PROVE CoveredInv'
  BY <1>11, <1>13 DEF ClientSend, ClientClose, parent
<1>14. QED
  BY <1>2, <1>3, <1>4, <1>5, <1>6, <1>7, <1>8, <1>9, <1>10, <1>12, <1>13
     DEF Next, Parent

LEMMA SigintSparesNewest ==
    ASSUME TableInv, CoveredInv, Sigint
    PROVE  OnlyNewestSurvives'
<1> SUFFICES ASSUME NEW c \in 1..accepted, status'[c] \in {"talk", "listen"}
             PROVE  c = accepted /\ c \notin Recorded
  BY DEF Sigint, OnlyNewestSurvives, Recorded
<1>1. c \in Conn /\ program = "multi" /\ Serving
  BY LockstepAssumption DEF Sigint, TableInv, TypeOK, Conn
<1>2. status[c] \in Up /\ c \notin Recorded
  BY <1>1 DEF Sigint, TableInv, TypeOK, Up
<1>3. QED  BY <1>1, <1>2 DEF CoveredInv

\* Nothing happens after SIGINT has ended multi_chat_server.c.
LEMMA NothingAfterEnd ==
    ASSUME CoveredInv, [Next]_vars, pc = "ended"
    PROVE  UNCHANGED vars
BY DEF Next, Parent, Accept, Fork, RecordLog, Join, JoinDone, RecordMulti, Select,
       ScanRead, ScanSkip, ScanDone, Relay, RelayDone, Sigchld, Sigint, Connect,
       Child, Nick, Talk, Listen, Leave, ClientSend, ClientClose, Serving

LEMMA NewestStep ==
    ASSUME TableInv, CoveredInv, OnlyNewestSurvives, [Next]_vars
    PROVE  OnlyNewestSurvives'
<1>1. CASE pc = "ended"
  BY <1>1, NothingAfterEnd
     DEF vars, parent, children, OnlyNewestSurvives, Recorded
<1>2. CASE Sigint
  BY <1>2, SigintSparesNewest
<1>3. ASSUME pc # "ended", ~Sigint  PROVE pc' # "ended"
  BY <1>3 DEF Next, Parent, Accept, Fork, RecordLog, Join, JoinDone, RecordMulti,
       Select, ScanRead, ScanSkip, ScanDone, Relay, RelayDone, Sigchld, Connect,
       Child, Nick, Talk, Listen, Leave, ClientSend, ClientClose, WriteTo,
       vars, parent, children
<1>4. QED  BY <1>1, <1>2, <1>3 DEF OnlyNewestSurvives

\* SIGINT ends every child of multi_chat_server.c but one, and only one that
\* has been forked and is not yet in the table.
THEOREM NewestAlone == Spec => []OnlyNewestSurvives
<1>1. Init => OnlyNewestSurvives
  BY DEF Init, OnlyNewestSurvives
<1>2. QED
  BY TableInit, TableStep, CoveredInit, CoveredStep, NewestStep, <1>1, PTL DEF Spec
=============================================================================
