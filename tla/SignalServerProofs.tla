------------------------- MODULE SignalServerProofs -------------------------
(***************************************************************************)
(* Proofs about SignalServer: the types, that a room with somebody in it   *)
(* is never removed, and what its two handlers promise until a child is    *)
(* reaped: announced messages are ahead of the handler, a child waits in   *)
(* vain only for an answer that was never meant to come, and the clients   *)
(* take turns.                                                             *)
(***************************************************************************)
EXTENDS SignalServer, TLAPS

Status == {"unborn", "reading", "written", "waiting", "zombie", "reaped"}

\* What keeps the indexes and counters in their ranges: the capacity has been
\* tested when a record is begun, a record that is counted, or about to be, has
\* a pid (so has the one the handler is busy with, even when it is counted no
\* more), and a message is in one place at a time.
RangeInv ==
    /\ TypeOK
    /\ forked + backlog <= MaxConn
    /\ pc \in {"record", "load"} => n < MaxClients
    /\ pc = "record" => forked > 0
    /\ \A g \in Slots : g < n => slot[g] # 0
    /\ pc = "load" => slot[n] # 0
    /\ pc = "store" => \A g \in Slots : g <= reg => slot[g] # 0
    /\ hpc \in {"serve", "tell"} => i < MaxClients /\ slot[i] # 0
    /\ \A p \in Pid : c2p[p] + sock[p] <= sent[p]

LEMMA RangeInit == Init => RangeInv
<1> SUFFICES ASSUME Init PROVE RangeInv
  OBVIOUS
<1> USE SignalAssumption DEF Init, RangeInv, TypeOK, Pid, Slots
<1>1. users \in [Room -> [Pid -> 0..MaxEntries]] /\ home \in [Pid -> Room \cup {NoRoom}]
  OBVIOUS
<1>2. sock \in [Pid -> 0..MaxSend] /\ sent \in [Pid -> 0..MaxSend]
      /\ c2p \in [Pid -> 0..MaxSend] /\ p2c \in [Pid -> Nat]
  OBVIOUS
<1>3. slot \in [Slots -> 0..MaxConn] /\ status \in [Pid -> Status]
  BY DEF Status
<1>4. \A p \in Pid : c2p[p] + sock[p] <= sent[p]
  OBVIOUS
<1>5. pc = "accept" /\ hpc = "idle" /\ n = 0 /\ reg = 0 /\ i = 0 /\ j = 0
      /\ ends = {} /\ forked = 0 /\ backlog = 0 /\ open = {} /\ early = {} /\ mute = {}
      /\ closed \in [Pid -> BOOLEAN] /\ heard \in [Pid -> SUBSET Pid]
      /\ left \in [Pid -> 0..MaxSend]
  OBVIOUS
<1>6. usr1 \in BOOLEAN
  BY Zenon
<1> HIDE DEF Init, Pid
<1>7. TypeOK
  BY <1>1, <1>2, <1>3, <1>5, <1>6 DEF Status
<1> HIDE DEF TypeOK
<1>8. QED  BY <1>4, <1>5, <1>7

\* A write of the parent changes no range.
LEMMA WriteRange ==
    ASSUME NEW p, p2c \in [Pid -> Nat],
           pc \in {"accept", "record", "load", "store", "dead"}, WriteTo(p)
    PROVE  /\ p2c' \in [Pid -> Nat]
           /\ pc' = pc \/ pc' = "dead"
BY DEF WriteTo

LEMMA AnsweredRange ==
    ASSUME RangeInv, hpc = "serve", Answered, open' \subseteq Room,
           users' \in [Room -> [Pid -> 0..MaxEntries]],
           home' \in [Pid -> Room \cup {NoRoom}]
    PROVE  RangeInv'
<1> USE DEF RangeInv, TypeOK
<1>1. p2c' \in [Pid -> Nat] /\ (pc' = pc \/ pc' = "dead")
  BY WriteRange DEF Answered
<1>2. hpc' = "read" /\ i' = i + 1 /\ i' \in 0..MaxClients
  BY SignalAssumption DEF Answered
<1>3. UNCHANGED <<reg, slot, n, ends, forked, backlog, usr1, j,
                  status, closed, sock, sent, c2p, early, mute, heard, left>>
  BY DEF Answered, history
<1>4. QED  BY <1>1, <1>2, <1>3

LEMMA RangeStep ==
    ASSUME RangeInv, [Next]_vars
    PROVE  RangeInv'
<1> USE SignalAssumption DEF RangeInv, TypeOK
<1>1. CASE Main
  <2> USE DEF handler, tables, children, history, InLoop
  <2>1. CASE Accept
    <3>1. forked + 1 \in Pid /\ n < MaxClients /\ backlog > 0
      BY <2>1 DEF Accept, Turned, Pid
    <3>2. /\ pc' = "record" /\ forked' = forked + 1 /\ backlog' = backlog - 1
          /\ status' = [status EXCEPT ![forked + 1] = "reading"]
          /\ ends' = ends \cup {forked + 1}
          /\ UNCHANGED <<reg, slot, n, handler, tables, closed, sock, sent, c2p, p2c, history>>
      BY <2>1 DEF Accept, Turned
    <3>3. forked' \in 0..MaxConn /\ forked' > 0 /\ backlog' \in 0..MaxConn
          /\ forked' + backlog' <= MaxConn
      BY <3>1, <3>2 DEF Pid
    <3>4. status' \in [Pid -> Status] /\ ends' \subseteq Pid
      BY <3>1, <3>2 DEF Status
    <3>5. QED  BY <3>1, <3>2, <3>3, <3>4 DEF Status
  <2>2. CASE Refuse  BY <2>2 DEF Refuse, Turned
  <2>3. CASE Record
    <3>1. /\ slot' = [slot EXCEPT ![n] = forked]
          /\ home' = [home EXCEPT ![forked] = NoRoom]
          /\ pc' = "load" /\ n < MaxClients /\ forked > 0 /\ n \in Slots
      BY <2>3 DEF Record, Slots
    <3>2. slot' \in [Slots -> 0..MaxConn] /\ home' \in [Pid -> Room \cup {NoRoom}]
      BY <3>1
    <3>3. UNCHANGED <<reg, n, ends, forked, backlog, handler, open, users, children, history>>
      BY <2>3 DEF Record
    <3>4. slot'[n] # 0 /\ \A g \in Slots : slot[g] # 0 => slot'[g] # 0
      BY <3>1
    <3>5. hpc = "idle"
      BY <2>3 DEF Record
    <3>6. QED  BY <3>1, <3>2, <3>3, <3>4, <3>5
  <2>4. CASE Load
    <3>1. \A g \in Slots : g <= n => slot[g] # 0
      BY <2>4 DEF Load, Slots
    <3>2. QED  BY <2>4, <3>1 DEF Load
  <2>5. CASE Store
    <3>1. \A g \in Slots : g < reg + 1 => slot[g] # 0
      BY <2>5 DEF Store, Slots
    <3>2. QED  BY <2>5, <3>1 DEF Store
  <2>6. QED  BY <1>1, <2>1, <2>2, <2>3, <2>4, <2>5 DEF Main
<1>2. CASE Handler
  <2> USE DEF main, InHandler
  <2>1. CASE Enter
    <3>1. hpc' = "read" /\ i' = 0
      BY <2>1 DEF Enter
    <3>2. UNCHANGED <<main, j, tables, children, history>>
      BY <2>1 DEF Enter
    <3>3. i' \in 0..MaxClients
      BY <3>1
    <3>4. usr1' \in BOOLEAN
      BY <2>1, Zenon DEF Enter
    <3>5. TypeOK'
      BY <3>1, <3>2, <3>3, <3>4 DEF tables, children, history
    <3> HIDE DEF TypeOK
    <3>6. QED  BY <3>1, <3>2, <3>3, <3>5 DEF tables, children, history
  <2>2. CASE Read
    <3>1. slot[i] \in ends /\ i < n /\ slot[i] \in Pid
      BY <2>2 DEF Read
    <3>2. /\ hpc' = "serve"
          /\ heard' = [p \in Pid |-> CASE p = slot[i] -> {}
                                     [] p # slot[i] /\ p \in Recorded -> heard[p] \cup {slot[i]}
                                     [] OTHER -> heard[p]]
          /\ UNCHANGED <<main, usr1, i, j, tables, status, closed, sock, sent, p2c, early, mute>>
      BY <2>2 DEF Read
    <3>3. heard' \in [Pid -> SUBSET Pid]
      BY <3>1, <3>2
    <3>4. /\ c2p' \in [Pid -> 0..MaxSend] /\ left' \in [Pid -> 0..MaxSend]
          /\ \A p \in Pid : c2p'[p] + sock[p] <= sent[p]
      <4>1. PICK rest \in 0..c2p[slot[i]] - 1 :
                c2p' = [c2p EXCEPT ![slot[i]] = rest] /\ left' = [left EXCEPT ![slot[i]] = rest]
        BY <2>2 DEF Read
      <4>2. rest \in 0..MaxSend /\ rest <= c2p[slot[i]]
        BY <3>1, <4>1
      <4>3. QED  BY <3>1, <4>1, <4>2
    <3>5. i < MaxClients
      BY <3>1
    <3>6. slot[i] # 0
      BY <3>1 DEF Pid
    <3>7. QED  BY <3>1, <3>2, <3>3, <3>4, <3>5, <3>6 DEF tables
  <2>3. CASE Skip  BY <2>3 DEF Skip, tables, children, history
  <2>4. CASE Return  BY <2>4 DEF Return, tables, children, history
  <2>5. ASSUME NEW r \in Room, AddRoom(r)  PROVE RangeInv'
    <3>1. open' \subseteq Room /\ users' \in [Room -> [Pid -> 0..MaxEntries]]
          /\ home' = home /\ Answered /\ hpc = "serve"
      BY <2>5 DEF AddRoom
    <3>2. QED  BY <3>1, AnsweredRange
  <2>6. ASSUME NEW r \in Room, JoinRoom(r)  PROVE RangeInv'
    <3>p. slot[i] \in Pid
      <4>1. hpc = "serve"
        BY <2>6 DEF JoinRoom
      <4>2. i \in Slots /\ slot[i] # 0
        BY <4>1 DEF Slots
      <4>3. QED  BY <4>2 DEF Pid
    <3>1. /\ users' = [users EXCEPT ![r][slot[i]] = @ + 1] /\ users[r][slot[i]] < MaxEntries
          /\ home' = [home EXCEPT ![slot[i]] = r] /\ open' = open /\ Answered /\ hpc = "serve"
      BY <2>6 DEF JoinRoom
    <3>2. users' \in [Room -> [Pid -> 0..MaxEntries]]
      <4> DEFINE row == [users[r] EXCEPT ![slot[i]] = @ + 1]
      <4>1. row \in [Pid -> 0..MaxEntries]
        BY <3>1, <3>p
      <4>2. users' = [users EXCEPT ![r] = row]
        BY <3>1
      <4> HIDE DEF row
      <4>3. QED  BY <4>1, <4>2
    <3>3. home' \in [Pid -> Room \cup {NoRoom}]
      BY <3>1
    <3>4. QED  BY <3>1, <3>2, <3>3, AnsweredRange
  <2>7. ASSUME NEW r \in Room, RemoveRoom(r)  PROVE RangeInv'
    <3>1. open' \subseteq Room /\ users' = users /\ home' = home /\ Answered /\ hpc = "serve"
      BY <2>7 DEF RemoveRoom
    <3>2. QED  BY <3>1, AnsweredRange
  <2>8. CASE LeaveRoom
    <3>p. slot[i] \in Pid
      <4>1. hpc = "serve"
        BY <2>8 DEF LeaveRoom
      <4>2. i \in Slots /\ slot[i] # 0
        BY <4>1 DEF Slots
      <4>3. QED  BY <4>2 DEF Pid
    <3>1. /\ users' = [users EXCEPT ![home[slot[i]]][slot[i]] = IF @ > 0 THEN @ - 1 ELSE 0]
          /\ home' = [home EXCEPT ![slot[i]] = NoRoom]
          /\ open' = open /\ Answered /\ hpc = "serve" /\ home[slot[i]] \in Room
      BY <2>8 DEF LeaveRoom
    <3>2. users' \in [Room -> [Pid -> 0..MaxEntries]]
      <4> DEFINE r == home[slot[i]]
      <4> DEFINE row == [users[r] EXCEPT ![slot[i]] = IF @ > 0 THEN @ - 1 ELSE 0]
      <4>1. row \in [Pid -> 0..MaxEntries]
        BY <3>1, <3>p
      <4>2. users' = [users EXCEPT ![r] = row]
        BY <3>1
      <4> HIDE DEF row
      <4>3. QED  BY <3>1, <4>1, <4>2
    <3>3. home' \in [Pid -> Room \cup {NoRoom}]
      BY <3>1
    <3>4. QED  BY <3>1, <3>2, <3>3, AnsweredRange
  <2>9. CASE Reply
    <3>1. open' = open /\ users' = users /\ home' = home /\ Answered /\ hpc = "serve"
      BY <2>9 DEF Reply, tables
    <3>2. QED  BY <3>1, AnsweredRange
  <2>10. CASE NoReply
    <3>1. slot[i] \in Pid
      <4>1. hpc = "serve"
        BY <2>10 DEF NoReply, InHandler
      <4>2. i \in Slots /\ slot[i] \in 0..MaxConn /\ slot[i] # 0
        BY <4>1 DEF Slots
      <4>3. QED  BY <4>2 DEF Pid
    <3>2. /\ hpc' = "read" /\ i' = i + 1 /\ mute' = mute \cup {slot[i]}
          /\ UNCHANGED <<main, usr1, j, tables, children, early, heard, left>>
      BY <2>10 DEF NoReply, Unanswered
    <3>3. mute' \subseteq Pid /\ i' \in 0..MaxClients
      BY <2>10, <3>1, <3>2 DEF NoReply, InHandler, Slots
    <3>4. QED  BY <3>2, <3>3 DEF tables, children
  <2>11. CASE Talk  BY <2>11 DEF Talk, tables, children, history
  <2>12. CASE Tell
    <3>1. p2c' \in [Pid -> Nat] /\ (pc' = pc \/ pc' = "dead")
      BY <2>12, WriteRange DEF Tell
    <3>2. j' = j + 1 /\ j' \in 0..MaxClients
      BY <2>12 DEF Tell
    <3>3. UNCHANGED <<reg, slot, n, ends, forked, backlog, usr1, hpc, i, tables,
                      status, closed, sock, sent, c2p, history>>
      BY <2>12 DEF Tell
    <3>4. QED  BY <3>1, <3>2, <3>3 DEF tables, history
  <2>13. CASE Told  BY <2>13 DEF Told, tables, children, history
  <2>14. QED
    BY <1>2, <2>1, <2>2, <2>3, <2>4, <2>5, <2>6, <2>7, <2>8, <2>9, <2>10,
       <2>11, <2>12, <2>13 DEF Handler
<1>3. CASE Connect  BY <1>3 DEF Connect, handler, tables, children, history
<1>4. ASSUME NEW p \in Pid, Reap(p)  PROVE RangeInv'
  <2>1. status' = [status EXCEPT ![p] = "reaped"]
        /\ UNCHANGED <<pc, reg, forked, backlog, handler, tables,
                       closed, sock, sent, c2p, p2c, history>>
    BY <1>4 DEF Reap
  <2>2. slot' \in [Slots -> 0..MaxConn] /\ n' \in 0..n /\ ends' \subseteq Pid
        /\ \A g \in Slots : slot[g] # 0 => slot'[g] # 0
    <3>1. CASE p \in Recorded
      <4>1. n > 0 /\ n - 1 \in Slots /\ n' = n - 1
        BY <1>4, <3>1 DEF Reap, Recorded, Slots
      <4>2. slot' = [slot EXCEPT ![FirstOf(p)] = slot[n - 1]] /\ ends' = ends \ {p}
        BY <1>4, <3>1 DEF Reap
      <4>3. slot[n - 1] \in 0..MaxConn /\ slot[n - 1] # 0
        BY <4>1
      <4>4. slot' \in [Slots -> 0..MaxConn] /\ \A g \in Slots : slot[g] # 0 => slot'[g] # 0
        BY <4>2, <4>3
      <4>5. QED  BY <4>1, <4>2, <4>4
    <3>2. CASE p \notin Recorded
      BY <1>4, <3>2 DEF Reap
    <3>3. QED  BY <3>1, <3>2
  <2>3. pc = "load" => n' \in Slots /\ slot[n'] # 0
    BY <2>2 DEF Slots
  <2>4. hpc \in {"serve", "tell"} => i \in Slots
    BY DEF Slots
  <2>5. status' \in [Pid -> Status]
    BY <2>1 DEF Status
  <2>6. TypeOK'
    BY <2>1, <2>2, <2>5 DEF handler, tables, history, Status
  <2>7. pc = "load" => slot'[n'] # 0
    BY <2>2, <2>3
  <2>8. hpc \in {"serve", "tell"} => i < MaxClients /\ slot'[i] # 0
    BY <2>2, <2>4
  <2>9. \A g \in Slots : (g < n' => slot'[g] # 0)
                        /\ (pc = "store" /\ g <= reg => slot'[g] # 0)
    BY <2>2 DEF Slots
  <2>10. n' <= n /\ UNCHANGED <<pc, reg, forked, backlog, hpc, i, sock, sent, c2p>>
    BY <2>1, <2>2 DEF handler
  <2> HIDE DEF TypeOK
  <2>11. QED
    <3>1. pc \in {"record", "load"} => n' < MaxClients
      BY <2>2 DEF TypeOK
    <3>2. QED  BY <2>6, <2>7, <2>8, <2>9, <2>10, <3>1
<1>5. ASSUME NEW p \in Pid, Child(p)  PROVE RangeInv'
  <2> USE DEF main, handler, tables, history
  <2>1. CASE ChildPass(p)
    <3>1. c2p' \in [Pid -> 0..MaxSend] /\ sock' \in [Pid -> 0..MaxSend]
          /\ \A q \in Pid : c2p'[q] + sock'[q] <= sent[q]
      BY <2>1 DEF ChildPass
    <3>2. status' = [status EXCEPT ![p] = "written"]
          /\ UNCHANGED <<main, handler, tables, closed, sent, p2c, history>>
      BY <2>1 DEF ChildPass
    <3>3. QED  BY <3>1, <3>2
  <2>2. CASE ChildSignal(p)  BY <2>2 DEF ChildSignal
  <2>3. CASE ChildAnswer(p)  BY <2>3 DEF ChildAnswer
  <2>4. CASE ChildExit(p)  BY <2>4 DEF ChildExit
  <2>5. QED  BY <1>5, <2>1, <2>2, <2>3, <2>4 DEF Child
<1>6. ASSUME NEW p \in Pid, ClientSend(p)  PROVE RangeInv'
  <2>1. sock' \in [Pid -> 0..MaxSend] /\ sent' \in [Pid -> 0..MaxSend]
        /\ \A q \in Pid : c2p[q] + sock'[q] <= sent'[q]
    BY <1>6 DEF ClientSend
  <2>2. UNCHANGED <<main, handler, tables, status, closed, c2p, p2c, history>>
    BY <1>6 DEF ClientSend
  <2>3. QED  BY <2>1, <2>2 DEF main, handler, tables, history
<1>7. ASSUME NEW p \in Pid, ClientClose(p)  PROVE RangeInv'
  BY <1>7 DEF ClientClose, main, handler, tables, history
<1>8. CASE UNCHANGED vars
  BY <1>8 DEF vars, main, handler, tables, children, history
<1>9. QED  BY <1>1, <1>2, <1>3, <1>4, <1>5, <1>6, <1>7, <1>8 DEF Next

\* The parent's indexes, its counter and its tables stay in their ranges.
THEOREM TypeCorrect == Spec => []TypeOK
<1>1. RangeInv /\ [Next]_vars => RangeInv'
  BY RangeStep
<1>2. RangeInv => TypeOK
  BY DEF RangeInv
<1>3. QED  BY RangeInit, <1>1, <1>2, PTL DEF Spec

-----------------------------------------------------------------------------
\* The room a client is in exists and lists it, whether the client has a record
\* or not.  A room is emptied when it is made, and no client is in it then; it
\* goes when nobody is listed, and so when nobody is in it.
HomeInv ==
    \A p \in Pid : home[p] # NoRoom => home[p] \in open /\ users[home[p]][p] > 0

LEMMA HomeInit == Init => HomeInv
BY DEF Init, HomeInv

\* The client that is being served.
LEMMA ServedIsClient ==
    ASSUME RangeInv, hpc = "serve"
    PROVE  slot[i] \in Pid
<1>1. i \in Slots /\ slot[i] # 0
  BY SignalAssumption DEF RangeInv, TypeOK, Slots
<1>2. QED  BY <1>1 DEF RangeInv, TypeOK, Pid

LEMMA HomeStep ==
    ASSUME RangeInv, HomeInv, [Next]_vars
    PROVE  HomeInv'
<1> USE SignalAssumption DEF HomeInv
<1> users \in [Room -> [Pid -> 0..MaxEntries]] /\ home \in [Pid -> Room \cup {NoRoom}]
  BY DEF RangeInv, TypeOK
<1>1. ASSUME UNCHANGED tables  PROVE HomeInv'
  BY <1>1 DEF tables
<1>2. CASE Record
  <2>1. home' = [home EXCEPT ![forked] = NoRoom] /\ UNCHANGED <<open, users>>
    BY <1>2 DEF Record
  <2>2. QED  BY <2>1
<1>3. ASSUME NEW r \in Room, AddRoom(r)  PROVE HomeInv'
  <2>1. /\ r \notin open /\ open' = open \cup {r} /\ home' = home
        /\ users' = [users EXCEPT ![r] = [p \in Pid |-> 0]]
    BY <1>3 DEF AddRoom
  <2>2. \A q \in open : q \in Room => users'[q] = users[q]
    BY <2>1
  <2>3. QED  BY <2>1, <2>2
<1>4. ASSUME NEW r \in Room, JoinRoom(r)  PROVE HomeInv'
  <2> DEFINE c == slot[i]
  <2>1. c \in Pid
    BY <1>4, ServedIsClient DEF JoinRoom, InHandler
  <2>2. /\ r \in open /\ open' = open /\ home' = [home EXCEPT ![c] = r]
        /\ users' = [users EXCEPT ![r][c] = @ + 1]
    BY <1>4 DEF JoinRoom
  <2> HIDE DEF c
  <2>3. \A q \in Room, p \in Pid : users[q][p] > 0 => users'[q][p] > 0
    BY <2>1, <2>2
  <2>4. users'[r][c] > 0
    BY <2>1, <2>2
  <2>5. QED  BY <2>1, <2>2, <2>3, <2>4
<1>5. CASE LeaveRoom
  <2> DEFINE c == slot[i]
             r == home[c]
  <2>1. c \in Pid /\ r \in Room
    BY <1>5, ServedIsClient DEF LeaveRoom, InHandler, RangeInv, TypeOK
  <2>2. /\ open' = open /\ home' = [home EXCEPT ![c] = NoRoom]
        /\ users' = [users EXCEPT ![r][c] = IF @ > 0 THEN @ - 1 ELSE 0]
    BY <1>5 DEF LeaveRoom
  <2> HIDE DEF c, r
  <2>3. \A q \in Room, p \in Pid : p # c => users'[q][p] = users[q][p]
    BY <2>1, <2>2
  <2>4. QED  BY <2>1, <2>2, <2>3
<1>6. ASSUME NEW r \in Room, RemoveRoom(r)  PROVE HomeInv'
  <2>1. UserCount(r) = {} /\ open' = open \ {r} /\ UNCHANGED <<users, home>>
    BY <1>6 DEF RemoveRoom
  <2>2. \A p \in Pid : home[p] # NoRoom => home[p] # r
    BY <2>1 DEF UserCount
  <2>3. QED  BY <2>1, <2>2
<1>7. CASE Main
  BY <1>1, <1>2, <1>7 DEF Main, Accept, Refuse, Load, Store
<1>8. CASE Handler
  BY <1>1, <1>3, <1>4, <1>5, <1>6, <1>8
     DEF Handler, Enter, Read, Skip, Return, Reply, NoReply, Talk, Tell, Told
<1>9. CASE Connect
  BY <1>1, <1>9 DEF Connect
<1>10. ASSUME NEW p \in Pid, Reap(p) \/ Child(p) \/ ClientSend(p) \/ ClientClose(p)
       PROVE  HomeInv'
  BY <1>1, <1>10 DEF Reap, Child, ChildPass, ChildSignal, ChildAnswer, ChildExit,
                     ClientSend, ClientClose
<1>11. CASE UNCHANGED vars
  BY <1>1, <1>11 DEF vars
<1>12. QED  BY <1>7, <1>8, <1>9, <1>10, <1>11 DEF Next

\* The pids of the records that count are those of children.
LEMMA RecordedArePids == RangeInv => Recorded \subseteq Pid
<1> SUFFICES ASSUME RangeInv, NEW g \in 0..n - 1 PROVE slot[g] \in Pid
  BY DEF Recorded
<1>1. n \in 0..MaxClients
  BY DEF RangeInv, TypeOK
<1>2. g \in Slots /\ g < n
  BY <1>1, SignalAssumption DEF Slots
<1>3. slot[g] \in 0..MaxConn /\ slot[g] # 0
  BY <1>2 DEF RangeInv, TypeOK
<1>4. QED  BY <1>3, SignalAssumption DEF Pid

\* /rm never takes the room of a connected client away, and the room a client
\* is in always lists it, however joins, moves and departures interleave.
THEOREM RoomsKept == Spec => []MemberListed
<1>1. Init => RangeInv /\ HomeInv
  BY RangeInit, HomeInit
<1>2. RangeInv /\ HomeInv /\ [Next]_vars => RangeInv' /\ HomeInv'
  BY RangeStep, HomeStep
<1>3. RangeInv /\ HomeInv => MemberListed
  BY RecordedArePids DEF HomeInv, MemberListed
<1>4. QED  BY <1>1, <1>2, <1>3, PTL DEF Spec

-----------------------------------------------------------------------------
(* While no child has been reaped.                                         *)

NotForkedYet == \A p \in Pid : p > forked => status[p] = "unborn"

\* Only Reap makes a child reaped, and a new child has never been one.
LEMMA ReapedBefore ==
    ASSUME RangeInv, NotForkedYet, [Next]_vars
    PROVE  /\ NotForkedYet'
           /\ NobodyReaped' => NobodyReaped /\ \A p \in Pid : ~Reap(p)
<1> USE DEF NotForkedYet, NobodyReaped
<1>1. status \in [Pid -> Status] /\ forked \in 0..MaxConn
  BY DEF RangeInv, TypeOK, Status
<1>2. CASE status' = status /\ forked' = forked
  BY <1>1, <1>2 DEF Reap
<1>3. CASE Accept
  <2>1. forked' = forked + 1 /\ status' = [status EXCEPT ![forked + 1] = "reading"]
    BY <1>3 DEF Accept
  <2>2. \A p \in Pid : p # forked + 1 => status'[p] = status[p]
    BY <1>1, <2>1
  <2>3. \A p \in Pid : p > forked' => p > forked /\ p # forked + 1
    BY <1>1, <2>1 DEF Pid
  <2>4. \A p \in Pid : p = forked + 1 => status[p] = "unborn"
    BY <1>1 DEF Pid
  <2>5. \A p \in Pid : ~Reap(p)
    BY <1>1, <1>3 DEF Accept, Reap, Pid
  <2> QED BY <2>2, <2>3, <2>4, <2>5
<1>4. ASSUME NEW p \in Pid, Reap(p)
      PROVE  NotForkedYet' /\ ~NobodyReaped'
  BY <1>1, <1>4 DEF Reap
<1>5. ASSUME NEW p \in Pid, Child(p)
      PROVE  NotForkedYet' /\ (NobodyReaped' => NobodyReaped /\ \A q \in Pid : ~Reap(q))
  <2>1. PICK s \in Status \ {"unborn", "reaped"} : status' = [status EXCEPT ![p] = s]
    BY <1>5 DEF Child, ChildPass, ChildSignal, ChildAnswer, ChildExit, Status
  <2>2. status[p] \notin {"unborn", "reaped"} /\ forked' = forked
    BY <1>5 DEF Child, ChildPass, ChildSignal, ChildAnswer, ChildExit, main
  <2>3. \A q \in Pid : status'[q] = IF q = p THEN s ELSE status[q]
    BY <1>1, <2>1
  <2>4. \A q \in Pid : ~Reap(q)
    BY <1>1, <2>1, <2>2, <2>3 DEF Reap
  <2> QED BY <2>2, <2>3, <2>4
<1>6. CASE Refuse \/ Record \/ Load \/ Store \/ Handler \/ Connect \/ UNCHANGED vars
  <2>1. status' = status /\ forked' = forked
    BY <1>6 DEF Refuse, Turned, Record, Load, Store, Connect, vars, children, main, Handler, Enter, Read,
                Skip, Return, AddRoom, JoinRoom, RemoveRoom, LeaveRoom, Reply, NoReply, Talk, Tell,
                Told, Answered, Unanswered
  <2> QED BY <1>2, <2>1
<1>7. ASSUME NEW p \in Pid, ClientSend(p) \/ ClientClose(p)
      PROVE  NotForkedYet' /\ (NobodyReaped' => NobodyReaped /\ \A q \in Pid : ~Reap(q))
  BY <1>2, <1>7 DEF ClientSend, ClientClose, main
<1> QED BY <1>3, <1>4, <1>5, <1>6, <1>7 DEF Next, Main

\* What a step of the handler leaves alone.
LEMMA HandlerFrame ==
    ASSUME Handler
    PROVE  /\ UNCHANGED <<reg, slot, n, ends, forked, backlog, status, closed, sock, sent, early>>
           /\ pc' \in {pc, "dead"}
BY DEF Handler, Enter, Read, Skip, Return, AddRoom, JoinRoom, RemoveRoom, LeaveRoom, Reply,
       NoReply, Talk, Tell, Told, Answered, Unanswered, WriteTo, main, children, history

\* Records are added at the end and never removed: they are different, their
\* pipes are open, and the handler's index stays where a record is.
Distinct == \A g, h \in 0..n - 1 : g # h => slot[g] # slot[h]

Recording == {"record", "load", "store"}

TableInv ==
    /\ Distinct
    /\ Recorded \subseteq ends
    /\ \A p \in Recorded : p <= forked
    /\ pc \in Recording => forked \notin Recorded /\ forked \in ends
    /\ pc \in {"load", "store"} => slot[n] = forked
    /\ pc = "store" => reg = n
    /\ hpc \in {"serve", "tell"} => i < n
    /\ hpc = "idle" => i = 0

LEMMA TableInit == Init => TableInv
<1> SUFFICES ASSUME Init PROVE TableInv
  OBVIOUS
<1>1. Recorded = {} /\ n = 0 /\ pc = "accept" /\ hpc = "idle" /\ i = 0
  BY DEF Init, Recorded
<1> QED BY <1>1 DEF TableInv, Distinct, Recording

LEMMA TableFrame ==
    ASSUME TableInv, UNCHANGED <<reg, slot, n, ends, forked>>, pc' \in {pc, "accept", "dead"},
           hpc' \in {"serve", "tell"} => i' < n, hpc' = "idle" => i' = 0
    PROVE  TableInv'
<1>1. Recorded' = Recorded /\ Distinct' = Distinct
  BY DEF Recorded, Distinct
<1> QED BY <1>1 DEF TableInv, Recording

\* The parent's loop, in which a record is made.
LEMMA TableMain ==
    ASSUME RangeInv, TableInv, Main
    PROVE  TableInv'
<1> USE SignalAssumption
<1>1. n \in 0..MaxClients /\ slot \in [Slots -> 0..MaxConn] /\ forked \in 0..MaxConn
  BY DEF RangeInv, TypeOK
<1>2. hpc = "idle" /\ hpc' = hpc /\ i' = i
  BY DEF Main, Accept, Refuse, Record, Load, Store, Turned, InLoop, handler
<1>3. CASE Accept
  <2>1. /\ UNCHANGED <<reg, slot, n>> /\ pc' = "record"
        /\ ends' = ends \cup {forked + 1} /\ forked' = forked + 1
    BY <1>3 DEF Accept
  <2>2. Recorded' = Recorded /\ Distinct' = Distinct
    BY <2>1 DEF Recorded, Distinct
  <2>3. \A p \in Recorded : p <= forked' /\ p # forked'
    BY <1>1, <2>1, RecordedArePids DEF TableInv, Pid
  <2> QED BY <1>2, <2>1, <2>2, <2>3 DEF TableInv, Recording
<1>4. CASE Refuse
  BY <1>2, <1>4, TableFrame DEF Refuse, TableInv
<1>5. CASE Record
  <2>1. /\ UNCHANGED <<reg, n, ends, forked>> /\ pc = "record" /\ pc' = "load"
        /\ slot' = [slot EXCEPT ![n] = forked]
    BY <1>5 DEF Record, InLoop
  <2>2. n \in Slots /\ \A g \in 0..n - 1 : g # n /\ g \in Slots
    BY <1>1, <2>1 DEF RangeInv, Slots
  <2>3. slot'[n] = forked /\ \A g \in 0..n - 1 : slot'[g] = slot[g]
    BY <1>1, <2>1, <2>2
  <2>4. Recorded' = Recorded /\ Distinct' = Distinct
    BY <2>1, <2>3 DEF Recorded, Distinct
  <2> QED BY <1>2, <2>1, <2>3, <2>4 DEF TableInv, Recording
<1>6. CASE Load
  <2>1. /\ UNCHANGED <<slot, n, ends, forked>> /\ pc = "load" /\ pc' = "store" /\ reg' = n
    BY <1>6 DEF Load, InLoop
  <2>2. Recorded' = Recorded /\ Distinct' = Distinct
    BY <2>1 DEF Recorded, Distinct
  <2> QED BY <1>2, <2>1, <2>2 DEF TableInv, Recording
<1>7. CASE Store
  <2>1. /\ UNCHANGED <<slot, ends, forked>> /\ pc = "store" /\ pc' = "accept" /\ n' = n + 1
    BY <1>7 DEF Store, InLoop, TableInv
  <2>2. 0..n' - 1 = (0..n - 1) \cup {n}
    BY <1>1, <2>1
  <2>3. Recorded' = Recorded \cup {forked} /\ forked \notin Recorded /\ slot[n] = forked
    BY <2>1, <2>2 DEF Recorded, TableInv, Recording
  <2>4. Distinct'
    BY <2>1, <2>2, <2>3 DEF Distinct, Recorded, TableInv
  <2> QED BY <1>1, <1>2, <2>1, <2>3, <2>4 DEF TableInv, Recording
<1> QED BY <1>3, <1>4, <1>5, <1>6, <1>7 DEF Main

LEMMA TableStep ==
    ASSUME RangeInv, TableInv, [Next]_vars, \A p \in Pid : ~Reap(p)
    PROVE  TableInv'
<1>1. CASE Main
  BY <1>1, TableMain
<1>2. CASE Handler
  <2>1. UNCHANGED <<reg, slot, n, ends, forked>> /\ pc' \in {pc, "dead"}
    BY <1>2, HandlerFrame
  <2>2. (hpc' \in {"serve", "tell"} => i' < n) /\ (hpc' = "idle" => i' = 0)
    BY <1>2 DEF Handler, Enter, Read, Skip, Return, AddRoom, JoinRoom, RemoveRoom, LeaveRoom,
                Reply, NoReply, Talk, Tell, Told, Answered, Unanswered, InHandler, TableInv
  <2> QED BY <2>1, <2>2, TableFrame
<1>3. CASE Connect \/ \E p \in Pid : Child(p) \/ ClientSend(p) \/ ClientClose(p)
  <2>1. UNCHANGED <<reg, slot, n, ends, forked, pc, hpc, i>>
    BY <1>3 DEF Connect, Child, ChildPass, ChildSignal, ChildAnswer, ChildExit,
                ClientSend, ClientClose, main, handler
  <2> QED BY <2>1, TableFrame DEF TableInv
<1>4. CASE UNCHANGED vars
  BY <1>4, TableFrame DEF vars, main, handler, TableInv
<1> QED BY <1>1, <1>2, <1>3, <1>4 DEF Next

-----------------------------------------------------------------------------
(* What the handler knows of a child that has written.                     *)

\* A child without a record that has announced a message did so too early.
EarlyInv ==
    \A p \in Pid \ Recorded : c2p[p] > 0 /\ status[p] # "written" => p \in early

\* A child whose answer is on its way, at the latest when the handler writes
\* to the record it is busy with.
BeingAnswered(p) == p = slot[i] /\ (hpc = "serve" \/ (hpc = "tell" /\ j <= i))

\* A child that has written has its message in the pipe, in the handler's
\* hands, or answered; or it is one the handler has nothing to say to.
WaitInv ==
    \A p \in Pid : status[p] \in {"written", "waiting"} /\ p \notin mute =>
        c2p[p] > 0 \/ p2c[p] > 0 \/ BeingAnswered(p)

LEMMA EarlyStep ==
    ASSUME RangeInv, NotForkedYet, TableInv, EarlyInv, [Next]_vars, \A p \in Pid : ~Reap(p)
    PROVE  EarlyInv'
<1> USE DEF EarlyInv
<1>1. /\ c2p \in [Pid -> Nat] /\ status \in [Pid -> Status] /\ n \in 0..MaxClients
  BY SignalAssumption DEF RangeInv, TypeOK, Status
<1>2. Recorded \subseteq Recorded'
  <2>1. CASE Store
    <3>1. slot' = slot /\ n' = n + 1
      BY <2>1 DEF Store, InLoop, TableInv
    <3> QED BY <1>1, <3>1 DEF Recorded
  <2>2. CASE Record
    <3>1. n' = n /\ slot' = [slot EXCEPT ![n] = forked]
      BY <2>2 DEF Record
    <3>2. \A g \in 0..n - 1 : g # n /\ g \in Slots
      BY <1>1, SignalAssumption DEF Slots
    <3>3. slot \in [Slots -> 0..MaxConn]
      BY DEF RangeInv, TypeOK
    <3>4. \A g \in 0..n - 1 : slot'[g] = slot[g]
      BY <3>1, <3>2, <3>3
    <3> QED BY <3>1, <3>4 DEF Recorded
  <2>3. CASE ~Store /\ ~Record
    <3>1. slot' = slot /\ n' = n
      BY <2>3, HandlerFrame DEF Next, Main, Accept, Refuse, Turned, Load, Connect, Child, ChildPass,
         ChildSignal, ChildAnswer, ChildExit, ClientSend, ClientClose, main, vars
    <3> QED BY <3>1 DEF Recorded
  <2> QED BY <2>1, <2>2, <2>3
<1>3. CASE UNCHANGED <<c2p, status, early>>
  BY <1>2, <1>3
<1>4. CASE Accept
  <2>1. status' = [status EXCEPT ![forked + 1] = "reading"] /\ UNCHANGED <<c2p, early>>
    BY <1>4 DEF Accept, history
  <2>2. \A p \in Pid : p = forked + 1 => status[p] # "written"
    BY DEF NotForkedYet, RangeInv, TypeOK, Pid
  <2> QED BY <1>1, <1>2, <2>1, <2>2
<1>5. CASE Read
  <2>1. PICK rest \in 0..c2p[slot[i]] - 1 : c2p' = [c2p EXCEPT ![slot[i]] = rest]
    BY <1>5 DEF Read
  <2>2. UNCHANGED <<status, early>>
    BY <1>5 DEF Read
  <2>3. \A p \in Pid : c2p'[p] > 0 => c2p[p] > 0
    BY <1>1, <2>1
  <2> QED BY <1>2, <2>2, <2>3
<1>6. ASSUME NEW p \in Pid, Child(p)
      PROVE  EarlyInv'
  <2>1. CASE ChildPass(p)
    BY <1>1, <1>2, <2>1 DEF ChildPass, history
  <2>2. CASE ChildSignal(p)
    BY <1>1, <1>2, <2>2 DEF ChildSignal
  <2>3. CASE ChildAnswer(p) \/ ChildExit(p)
    <3>1. PICK s \in {"reading", "zombie"} : status' = [status EXCEPT ![p] = s]
      BY <2>3 DEF ChildAnswer, ChildExit
    <3>2. status[p] # "written" /\ UNCHANGED <<c2p, early>>
      BY <2>3 DEF ChildAnswer, ChildExit, history
    <3> QED BY <1>1, <1>2, <3>1, <3>2
  <2> QED BY <1>6, <2>1, <2>2, <2>3 DEF Child
<1>7. CASE ~Accept /\ ~Read /\ ~(\E p \in Pid : Child(p))
  <2>1. UNCHANGED <<c2p, status, early>>
    BY <1>7 DEF Next, Main, Refuse, Record, Load, Store, Connect, ClientSend, ClientClose, vars, history,
                children, Handler, Enter, Skip, Return, AddRoom, JoinRoom, RemoveRoom,
                LeaveRoom, Reply, NoReply, Talk, Tell, Told, Answered, Unanswered
  <2> QED BY <1>3, <2>1
<1> QED BY <1>4, <1>5, <1>6, <1>7

LEMMA WaitHandler ==
    ASSUME RangeInv, TableInv, WaitInv, Handler
    PROVE  WaitInv'
<1> USE DEF WaitInv
<1>1. UNCHANGED <<slot, n, ends, status>>
  BY HandlerFrame
<1>2. /\ p2c \in [Pid -> Nat] /\ c2p \in [Pid -> Nat] /\ i \in Nat /\ j \in Nat /\ n \in Nat
  BY SignalAssumption DEF RangeInv, TypeOK
<1>3. Recorded \subseteq ends
  BY DEF TableInv
<1>4. CASE Enter \/ Skip \/ Return
  <2>1. UNCHANGED <<c2p, p2c, mute>> /\ \A p \in Pid : ~BeingAnswered(p)
    BY <1>4 DEF Enter, Skip, Return, children, history, InHandler, BeingAnswered
  <2> QED BY <1>1, <2>1
<1>5. CASE Read
  <2>1. UNCHANGED <<p2c, mute, i>> /\ hpc = "read" /\ hpc' = "serve"
    BY <1>5 DEF Read, InHandler
  <2>2. \A p \in Pid : ~BeingAnswered(p) /\ (p = slot[i] => BeingAnswered(p)')
    BY <1>1, <2>1 DEF BeingAnswered
  <2>3. \A p \in Pid : p # slot[i] => c2p'[p] = c2p[p]
    BY <1>2, <1>5 DEF Read
  <2> QED BY <1>1, <2>1, <2>2, <2>3
<1>6. CASE Talk
  <2>1. UNCHANGED <<c2p, p2c, mute, i>> /\ hpc = "serve" /\ hpc' = "tell" /\ j' = 0
    BY <1>6 DEF Talk, children, history, InHandler
  <2>2. \A p \in Pid : BeingAnswered(p) => BeingAnswered(p)'
    BY <1>1, <1>2, <2>1 DEF BeingAnswered
  <2> QED BY <1>1, <2>1, <2>2
<1>7. CASE NoReply
  <2>1. UNCHANGED <<c2p, p2c>> /\ mute' = mute \cup {slot[i]}
    BY <1>7 DEF NoReply, Unanswered, children
  <2> QED BY <1>1, <2>1 DEF BeingAnswered
<1>8. CASE hpc = "serve" /\ Answered
  <2>1. slot[i] \in Recorded /\ slot[i] \in ends
    BY <1>2, <1>3, <1>8 DEF TableInv, Recorded
  <2>2. UNCHANGED <<c2p, mute>> /\ WriteTo(slot[i])
    BY <1>8, <2>1 DEF Answered, history
  <2>3. CASE Gone(slot[i]) /\ p2c' = p2c
    BY <1>1, <2>2, <2>3 DEF Gone, BeingAnswered
  <2>4. CASE p2c' = [p2c EXCEPT ![slot[i]] = @ + 1]
    BY <1>1, <1>2, <2>2, <2>4 DEF BeingAnswered
  <2> QED BY <2>1, <2>2, <2>3, <2>4 DEF WriteTo
<1>9. CASE Tell
  <2>1. /\ hpc = "tell" /\ hpc' = hpc /\ i' = i /\ j' = j + 1 /\ j < n
        /\ UNCHANGED <<c2p, mute>>
    BY <1>9 DEF Tell, InHandler, history
  <2>2. slot[j] \in ends
    BY <1>2, <1>3, <2>1 DEF Recorded
  <2>3. \A p \in Pid : BeingAnswered(p) => BeingAnswered(p)' \/ (j = i /\ p = slot[j])
    BY <1>1, <1>2, <2>1 DEF BeingAnswered
  <2>4. CASE p2c' = p2c /\ (j = i => Gone(slot[j]))
    BY <1>1, <2>1, <2>3, <2>4 DEF Gone
  <2>5. CASE p2c' = [p2c EXCEPT ![slot[j]] = @ + 1]
    BY <1>1, <1>2, <2>1, <2>3, <2>5
  <2> QED BY <1>9, <2>2, <2>4, <2>5 DEF Tell, WriteTo
<1>10. CASE Told
  <2>1. UNCHANGED <<c2p, p2c, mute>> /\ hpc = "tell" /\ j >= n
    BY <1>10 DEF Told, children, history, InHandler
  <2>2. \A p \in Pid : ~BeingAnswered(p)
    BY <1>2, <2>1 DEF TableInv, BeingAnswered
  <2> QED BY <1>1, <2>1, <2>2
<1> QED BY <1>4, <1>5, <1>6, <1>7, <1>8, <1>9, <1>10
        DEF Handler, AddRoom, JoinRoom, RemoveRoom, LeaveRoom, Reply, InHandler

LEMMA WaitStep ==
    ASSUME RangeInv, TableInv, WaitInv, [Next]_vars, \A p \in Pid : ~Reap(p)
    PROVE  WaitInv'
<1> USE DEF WaitInv
<1>1. /\ p2c \in [Pid -> Nat] /\ c2p \in [Pid -> Nat] /\ status \in [Pid -> Status]
      /\ mute \subseteq Pid
  BY SignalAssumption DEF RangeInv, TypeOK, Status
<1>2. CASE Main
  <2>1. /\ UNCHANGED <<c2p, p2c, mute>> /\ hpc = "idle"
    BY <1>2 DEF Main, Accept, Refuse, Turned, Record, Load, Store, InLoop, children, history
  <2>2. \A p \in Pid : ~BeingAnswered(p)
    BY <2>1 DEF BeingAnswered
  <2>3. status' = status \/ status' = [status EXCEPT ![forked + 1] = "reading"]
    BY <1>2 DEF Main, Accept, Refuse, Turned, Record, Load, Store, children
  <2> QED BY <1>1, <2>1, <2>2, <2>3
<1>3. CASE Handler
  BY <1>3, WaitHandler
<1>4. ASSUME NEW p \in Pid, Child(p)
      PROVE  WaitInv'
  <2>1. UNCHANGED <<slot, hpc, i, j>>
    BY <1>4 DEF Child, ChildPass, ChildSignal, ChildAnswer, ChildExit, main, handler
  <2>2. \A q \in Pid : BeingAnswered(q)' = BeingAnswered(q)
    BY <2>1 DEF BeingAnswered
  <2>3. CASE ChildPass(p)
    <3>1. c2p' = [c2p EXCEPT ![p] = @ + 1] /\ UNCHANGED <<p2c, mute>>
      BY <2>3 DEF ChildPass, history
    <3>2. status' = [status EXCEPT ![p] = "written"]
      BY <2>3 DEF ChildPass
    <3> QED BY <1>1, <2>2, <3>1, <3>2
  <2>4. CASE ChildSignal(p)
    <3>1. UNCHANGED <<c2p, p2c, mute>> /\ status[p] = "written"
      BY <2>4 DEF ChildSignal
    <3>2. status' = [status EXCEPT ![p] = "waiting"]
      BY <2>4 DEF ChildSignal
    <3> QED BY <1>1, <2>2, <3>1, <3>2
  <2>5. CASE ChildAnswer(p)
    <3>1. /\ p2c' = [p2c EXCEPT ![p] = 0] /\ c2p' = c2p /\ mute' = mute \ {p}
      BY <2>5 DEF ChildAnswer
    <3>2. PICK s \in {"reading", "zombie"} : status' = [status EXCEPT ![p] = s]
      BY <2>5 DEF ChildAnswer
    <3> QED BY <1>1, <2>2, <3>1, <3>2
  <2>6. CASE ChildExit(p)
    <3>1. UNCHANGED <<c2p, p2c, mute>>
      BY <2>6 DEF ChildExit, history
    <3>2. status' = [status EXCEPT ![p] = "zombie"]
      BY <2>6 DEF ChildExit
    <3> QED BY <1>1, <2>2, <3>1, <3>2
  <2> QED BY <1>4, <2>3, <2>4, <2>5, <2>6 DEF Child
<1>5. CASE Connect \/ (\E p \in Pid : ClientSend(p) \/ ClientClose(p)) \/ UNCHANGED vars
  <2>1. UNCHANGED <<c2p, p2c, mute, status, slot, hpc, i, j>>
    BY <1>5 DEF Connect, ClientSend, ClientClose, vars, children, history, handler, main
  <2>2. \A q \in Pid : BeingAnswered(q)' = BeingAnswered(q)
    BY <2>1 DEF BeingAnswered
  <2> QED BY <2>1, <2>2
<1> QED BY <1>2, <1>3, <1>4, <1>5 DEF Next

-----------------------------------------------------------------------------
(* Announced messages are ahead of the handler.                            *)

Ahead(g) == \/ usr1
            \/ hpc = "read" /\ g >= i
            \/ hpc \in {"serve", "tell"} /\ g > i

AheadInv ==
    pc # "dead" => \A g \in 0..n - 1 :
        c2p[slot[g]] > left[slot[g]] /\ status[slot[g]] # "written" /\ slot[g] \notin early
        => Ahead(g)

LEMMA AheadStep ==
    ASSUME RangeInv, TableInv, EarlyInv, AheadInv, [Next]_vars, \A p \in Pid : ~Reap(p)
    PROVE  AheadInv'
<1>1. /\ c2p \in [Pid -> Nat] /\ left \in [Pid -> Nat] /\ status \in [Pid -> Status]
      /\ n \in 0..MaxClients /\ n \in Nat /\ i \in Nat /\ forked \in Nat
      /\ \A g \in 0..n - 1 : slot[g] \in Pid
  BY SignalAssumption, RecordedArePids DEF RangeInv, TypeOK, Status, Recorded
<1>2. CASE Handler
  <2>1. UNCHANGED <<slot, n, status, early>> /\ pc' \in {pc, "dead"}
    BY <1>2, HandlerFrame
  <2>2. CASE Enter
    BY <1>1, <2>1, <2>2 DEF Enter, AheadInv, Ahead, children, history
  <2>3. CASE Read
    <3>1. usr1' = usr1 /\ i' = i /\ hpc = "read" /\ hpc' = "serve" /\ i < n
      BY <2>3 DEF Read, InHandler
    <3>2. \A g \in 0..n - 1 :
              c2p'[slot[g]] > left'[slot[g]] => c2p[slot[g]] > left[slot[g]] /\ g # i
      <4>1. PICK rest \in 0..c2p[slot[i]] - 1 :
                c2p' = [c2p EXCEPT ![slot[i]] = rest] /\ left' = [left EXCEPT ![slot[i]] = rest]
        BY <2>3 DEF Read
      <4>2. \A p \in Pid : c2p'[p] > left'[p] => p # slot[i]
        BY <1>1, <4>1
      <4>3. QED  BY <1>1, <4>1, <4>2
    <3> QED BY <1>1, <2>1, <3>1, <3>2 DEF AheadInv, Ahead
  <2>4. CASE Skip
    <3>1. /\ UNCHANGED <<c2p, left, usr1, hpc>> /\ i' = i + 1 /\ hpc = "read" /\ i < n
      BY <2>4 DEF Skip, children, history, InHandler
    <3>2. c2p[slot[i]] = 0
      <4>1. slot[i] \in ends
        BY <1>1, <3>1 DEF TableInv, Recorded
      <4> QED BY <2>4, <4>1 DEF Skip
    <3>3. \A g \in 0..n - 1 : c2p[slot[g]] > left[slot[g]] => g # i
      BY <1>1, <3>1, <3>2
    <3> QED BY <1>1, <2>1, <3>1, <3>3 DEF AheadInv, Ahead
  <2>5. CASE Return
    BY <1>1, <2>1, <2>5 DEF Return, AheadInv, Ahead, children, history, InHandler
  <2>6. CASE Talk \/ Tell
    <3>1. UNCHANGED <<c2p, left, usr1, i>> /\ hpc \in {"serve", "tell"} /\ hpc' = "tell"
      BY <2>6 DEF Talk, Tell, children, history, InHandler
    <3> QED BY <2>1, <3>1 DEF AheadInv, Ahead
  <2>7. CASE hpc \in {"serve", "tell"} /\ hpc' = "read" /\ i' = i + 1
           /\ UNCHANGED <<c2p, left, usr1>>
    BY <1>1, <2>1, <2>7 DEF AheadInv, Ahead
  <2> QED BY <1>2, <2>2, <2>3, <2>4, <2>5, <2>6, <2>7
          DEF Handler, AddRoom, JoinRoom, RemoveRoom, LeaveRoom, Reply, NoReply, Told,
              Answered, Unanswered, children, history, InHandler
<1>3. CASE Main
  <2>1. UNCHANGED <<c2p, left, usr1, hpc, i, early>> /\ pc # "dead"
    BY <1>3 DEF Main, Accept, Refuse, Turned, Record, Load, Store, InLoop, children, history, handler
  <2>2. CASE Accept
    <3>1. status' = [status EXCEPT ![forked + 1] = "reading"] /\ UNCHANGED <<slot, n>>
      BY <2>2 DEF Accept
    <3>2. \A g \in 0..n - 1 : slot[g] # forked + 1
      <4>1. \A g \in 0..n - 1 : slot[g] \in Nat /\ slot[g] <= forked
        BY <1>1 DEF TableInv, Recorded, Pid
      <4> QED BY <1>1, <4>1
    <3>3. \A g \in 0..n - 1 : status'[slot[g]] = status[slot[g]]
      BY <1>1, <3>1, <3>2
    <3> QED BY <2>1, <3>1, <3>3 DEF AheadInv, Ahead
  <2>3. CASE Store
    <3>1. n' = n + 1 /\ UNCHANGED <<slot, status>> /\ slot[n] = forked /\ forked \notin Recorded
      BY <2>3 DEF Store, InLoop, TableInv, Recording, children
    <3>2. forked \in Pid
      BY <2>3, SignalAssumption DEF Store, InLoop, TableInv, Recording, RangeInv, TypeOK, Pid
    <3>3. c2p[forked] > left[forked] /\ status[forked] # "written" => forked \in early
      BY <1>1, <3>1, <3>2 DEF EarlyInv
    <3>4. \A g \in 0..n' - 1 : g \in 0..n - 1 \/ g = n
      BY <1>1, <3>1
    <3> QED BY <2>1, <3>1, <3>3, <3>4 DEF AheadInv, Ahead
  <2>4. CASE Record
    <3>1. n' = n /\ status' = status /\ slot' = [slot EXCEPT ![n] = forked]
      BY <2>4 DEF Record, children
    <3>2. \A g \in 0..n - 1 : g # n /\ g \in Slots
      BY <1>1, SignalAssumption DEF Slots
    <3>3. \A g \in 0..n - 1 : slot'[g] = slot[g]
      BY <3>1, <3>2 DEF RangeInv, TypeOK
    <3> QED BY <2>1, <3>1, <3>3 DEF AheadInv, Ahead
  <2>5. CASE Refuse \/ Load
    <3>1. UNCHANGED <<slot, n, status>>
      BY <2>5 DEF Refuse, Load, children
    <3> QED BY <2>1, <3>1 DEF AheadInv, Ahead
  <2> QED BY <1>3, <2>2, <2>3, <2>4, <2>5 DEF Main
<1>4. ASSUME NEW p \in Pid, Child(p)
      PROVE  AheadInv'
  <2>1. UNCHANGED <<pc, slot, n, hpc, i>>
    BY <1>4 DEF Child, ChildPass, ChildSignal, ChildAnswer, ChildExit, main, handler
  <2>2. CASE ChildPass(p)
    <3>1. c2p' = [c2p EXCEPT ![p] = @ + 1] /\ UNCHANGED <<usr1, early, left>>
      BY <2>2 DEF ChildPass, history, handler
    <3>2. status' = [status EXCEPT ![p] = "written"]
      BY <2>2 DEF ChildPass
    <3> QED BY <1>1, <2>1, <3>1, <3>2 DEF AheadInv, Ahead
  <2>3. CASE ChildSignal(p)
    BY <2>1, <2>3 DEF ChildSignal, AheadInv, Ahead
  <2>4. CASE ChildAnswer(p) \/ ChildExit(p)
    <3>1. UNCHANGED <<c2p, left, usr1, early>> /\ status[p] # "written"
      BY <2>4 DEF ChildAnswer, ChildExit, history, handler
    <3>2. PICK s \in {"reading", "zombie"} : status' = [status EXCEPT ![p] = s]
      BY <2>4 DEF ChildAnswer, ChildExit
    <3> QED BY <1>1, <2>1, <3>1, <3>2 DEF AheadInv, Ahead
  <2> QED BY <1>4, <2>2, <2>3, <2>4 DEF Child
<1>5. CASE Connect \/ (\E p \in Pid : ClientSend(p) \/ ClientClose(p)) \/ UNCHANGED vars
  <2>1. UNCHANGED <<pc, slot, n, hpc, i, usr1, c2p, left, early, status>>
    BY <1>5 DEF Connect, ClientSend, ClientClose, vars, children, history, handler, main
  <2> QED BY <2>1 DEF AheadInv, Ahead
<1> QED BY <1>2, <1>3, <1>4, <1>5 DEF Next

-----------------------------------------------------------------------------
(* The clients take turns.                                                 *)

\* The slots in front of this one have had their turn in this round.
Reached == IF hpc \in {"serve", "tell"} THEN i + 1 ELSE i

\* The slots that were read from after slot g was: behind it, up to where the
\* handler is, or, if g is still to come, before the handler or, in the round
\* before, behind g.
ReadSince(g, h) ==
    IF g < Reached THEN g < h /\ h < Reached ELSE h < Reached \/ g < h

TurnInv ==
    /\ \A g, h \in 0..n - 1 :
          ~Gone(slot[g]) /\ slot[h] \in heard[slot[g]] => ReadSince(g, h)
    /\ \A p \in Pid \ Recorded : heard[p] = {}
    /\ \A p \in Pid : heard[p] \subseteq Recorded

\* A step that reads from nobody, after which no child has come back and the
\* handler is where it was.
LEMMA TurnFrame ==
    ASSUME RangeInv, TurnInv, UNCHANGED <<n, heard>>,
           \A g \in 0..n - 1 : slot'[g] = slot[g] /\ (Gone(slot[g]) => Gone(slot[g])'),
           Reached' = Reached
    PROVE  TurnInv'
<1>1. Recorded' = Recorded
  BY DEF Recorded
<1>2. \A g, h \in 0..n - 1 : ReadSince(g, h)' = ReadSince(g, h)
  BY DEF ReadSince
<1> QED BY <1>1, <1>2 DEF TurnInv

LEMMA TurnHandler ==
    ASSUME RangeInv, TableInv, TurnInv, Handler
    PROVE  TurnInv'
<1>1. UNCHANGED <<slot, n, status>>
  BY HandlerFrame
<1>2. n \in Nat /\ i \in Nat /\ \A g \in 0..n - 1 : slot[g] \in Pid
  BY RecordedArePids DEF RangeInv, TypeOK, Recorded
<1>3. Recorded' = Recorded /\ \A g \in 0..n - 1 : Gone(slot[g])' = Gone(slot[g])
  BY <1>1 DEF Recorded, Gone
<1>4. CASE Reached' = Reached /\ heard' = heard
  BY <1>1, <1>3, <1>4, TurnFrame
<1>5. CASE Enter
  <2>1. Reached' = Reached /\ heard' = heard
    BY <1>5 DEF Enter, InHandler, Reached, TableInv, history
  <2> QED BY <1>4, <2>1
<1>6. CASE Read
  <2>1. /\ hpc = "read" /\ hpc' = "serve" /\ i' = i /\ i \in 0..n - 1
        /\ heard' = [p \in Pid |-> CASE p = slot[i] -> {}
                                     [] p # slot[i] /\ p \in Recorded -> heard[p] \cup {slot[i]}
                                     [] OTHER -> heard[p]]
    BY <1>2, <1>6 DEF Read, InHandler
  <2>2. /\ heard'[slot[i]] = {}
        /\ \A g \in 0..n - 1 : g # i => heard'[slot[g]] \subseteq heard[slot[g]] \cup {slot[i]}
        /\ \A p \in Pid \ Recorded : heard'[p] = {}
        /\ \A p \in Pid : heard'[p] \subseteq Recorded
    <3>1. slot[i] \in Recorded /\ \A p \in Pid : p \notin Recorded => p # slot[i]
      BY <2>1 DEF Recorded
    <3>2. \A g \in 0..n - 1 : g # i => slot[g] # slot[i]
      BY <2>1 DEF TableInv, Distinct
    <3> QED BY <1>2, <2>1, <3>1, <3>2 DEF TurnInv
  <2>3. \A g, h \in 0..n - 1 :
            ~Gone(slot[g]) /\ slot[h] \in heard'[slot[g]] => ReadSince(g, h)'
    <3> SUFFICES ASSUME NEW g \in 0..n - 1, NEW h \in 0..n - 1,
                        ~Gone(slot[g]), slot[h] \in heard'[slot[g]]
                 PROVE  ReadSince(g, h)'
      OBVIOUS
    <3>1. g # i /\ (slot[h] \in heard[slot[g]] \/ h = i)
      BY <2>1, <2>2 DEF TableInv, Distinct
    <3>2. ReadSince(g, h) \/ h = i
      BY <3>1 DEF TurnInv
    <3>3. Reached = i /\ Reached' = i + 1
      BY <2>1 DEF Reached
    <3> QED BY <1>2, <3>1, <3>2, <3>3 DEF ReadSince
  <2> QED BY <1>1, <1>3, <2>2, <2>3 DEF TurnInv
<1>7. CASE Skip
  <2>1. hpc = "read" /\ hpc' = hpc /\ i' = i + 1 /\ i \in 0..n - 1 /\ heard' = heard
    BY <1>2, <1>7 DEF Skip, InHandler, history
  <2>2. Gone(slot[i])
    BY <1>7, <2>1 DEF Skip, TableInv, Recorded
  <2>3. Reached = i /\ Reached' = i + 1
    BY <2>1 DEF Reached
  <2>4. \A g, h \in 0..n - 1 : g # i /\ ReadSince(g, h) => ReadSince(g, h)'
    BY <1>2, <2>3 DEF ReadSince
  <2> QED BY <1>1, <1>3, <2>1, <2>2, <2>4 DEF TurnInv
<1>8. CASE Return
  <2>1. hpc = "read" /\ hpc' = "idle" /\ i' = 0 /\ i >= n /\ heard' = heard
    BY <1>8 DEF Return, InHandler, history
  <2>2. Reached = i /\ Reached' = 0
    BY <2>1 DEF Reached
  <2>3. \A g, h \in 0..n - 1 : ReadSince(g, h) => ReadSince(g, h)'
    BY <1>2, <2>1, <2>2 DEF ReadSince
  <2> QED BY <1>1, <1>3, <2>1, <2>3 DEF TurnInv
<1>9. CASE Talk \/ Tell
  <2>1. Reached' = Reached /\ heard' = heard
    BY <1>9 DEF Talk, Tell, InHandler, Reached, history
  <2> QED BY <1>4, <2>1
<1>10. CASE hpc \in {"serve", "tell"} /\ hpc' = "read" /\ i' = i + 1 /\ heard' = heard
  <2>1. Reached' = Reached
    BY <1>10 DEF Reached
  <2> QED BY <1>4, <1>10, <2>1
<1> QED BY <1>5, <1>6, <1>7, <1>8, <1>9, <1>10
        DEF Handler, AddRoom, JoinRoom, RemoveRoom, LeaveRoom, Reply, NoReply, Told,
            Answered, Unanswered, history, InHandler

LEMMA TurnStep ==
    ASSUME RangeInv, NobodyReaped, TableInv, TurnInv, [Next]_vars, \A p \in Pid : ~Reap(p)
    PROVE  TurnInv'
<1>1. /\ status \in [Pid -> Status] /\ n \in 0..MaxClients /\ n \in Nat /\ i \in Nat /\ forked \in Nat
      /\ slot \in [Slots -> 0..MaxConn]
      /\ \A g \in 0..n - 1 : slot[g] \in Pid
  BY SignalAssumption, RecordedArePids DEF RangeInv, TypeOK, Status, Recorded
<1>2. CASE Handler
  BY <1>2, TurnHandler
<1>3. CASE Main
  <2>1. UNCHANGED <<hpc, i, heard>> /\ hpc = "idle" /\ i = 0
    BY <1>3 DEF Main, Accept, Refuse, Turned, Record, Load, Store, InLoop, history, handler, TableInv
  <2>2. Reached' = Reached /\ Reached = 0
    BY <2>1 DEF Reached
  <2>3. CASE Accept
    <3>1. status' = [status EXCEPT ![forked + 1] = "reading"] /\ UNCHANGED <<slot, n>>
      BY <2>3 DEF Accept
    <3>2. \A g \in 0..n - 1 : slot[g] # forked + 1
      <4>1. \A g \in 0..n - 1 : slot[g] \in Nat /\ slot[g] <= forked
        BY <1>1 DEF TableInv, Recorded, Pid
      <4> QED BY <1>1, <4>1
    <3>3. \A g \in 0..n - 1 : status'[slot[g]] = status[slot[g]]
      BY <1>1, <3>1, <3>2
    <3> QED BY <2>1, <2>2, <3>1, <3>3, TurnFrame DEF Gone
  <2>4. CASE Store
    <3>1. n' = n + 1 /\ UNCHANGED <<slot, status>> /\ slot[n] = forked /\ forked \notin Recorded
      BY <2>4 DEF Store, InLoop, TableInv, Recording, children
    <3>2. forked \in Pid
      BY <2>4, SignalAssumption DEF Store, InLoop, TableInv, Recording, RangeInv, TypeOK, Pid
    <3>3. \A g \in 0..n' - 1 : g \in 0..n - 1 \/ g = n
      BY <1>1, <3>1
    <3>4. Recorded \subseteq Recorded'
      BY <1>1, <3>1 DEF Recorded
    <3>5. heard[forked] = {} /\ \A g \in 0..n - 1 : forked \notin heard[slot[g]]
      BY <1>1, <3>1, <3>2 DEF TurnInv
    <3>6. \A g, h \in 0..n' - 1 :
              ~Gone(slot[g]) /\ slot[h] \in heard[slot[g]] => ReadSince(g, h)
      BY <1>1, <3>1, <3>3, <3>5 DEF TurnInv
    <3>7. \A g \in 0..n' - 1 : Gone(slot[g])' = Gone(slot[g])
      BY <3>1 DEF Gone
    <3>8. \A g, h \in 0..n' - 1 : ReadSince(g, h)' = ReadSince(g, h)
      BY <2>2 DEF ReadSince
    <3>9. \A p \in Pid \ Recorded' : heard'[p] = {}
      BY <2>1, <3>4 DEF TurnInv
    <3>10. \A p \in Pid : heard'[p] \subseteq Recorded'
      BY <2>1, <3>4 DEF TurnInv
    <3> QED BY <2>1, <3>1, <3>6, <3>7, <3>8, <3>9, <3>10 DEF TurnInv
  <2>5. CASE Record
    <3>1. n' = n /\ status' = status /\ slot' = [slot EXCEPT ![n] = forked]
      BY <2>5 DEF Record, children
    <3>2. \A g \in 0..n - 1 : g # n /\ g \in Slots
      BY <1>1, SignalAssumption DEF Slots
    <3>3. \A g \in 0..n - 1 : slot'[g] = slot[g]
      BY <1>1, <3>1, <3>2
    <3> QED BY <2>1, <2>2, <3>1, <3>3, TurnFrame DEF Gone
  <2>6. CASE Refuse \/ Load
    <3>1. UNCHANGED <<slot, n, status>>
      BY <2>6 DEF Refuse, Load, children
    <3> QED BY <2>1, <2>2, <3>1, TurnFrame DEF Gone
  <2> QED BY <1>3, <2>3, <2>4, <2>5, <2>6 DEF Main
<1>4. ASSUME NEW p \in Pid, Child(p)
      PROVE  TurnInv'
  <2>1. UNCHANGED <<n, slot, heard>> /\ Reached' = Reached
    BY <1>4 DEF Child, ChildPass, ChildSignal, ChildAnswer, ChildExit, main, handler, history, Reached
  <2>2. ~Gone(p) /\ \A q \in Pid : q # p => status'[q] = status[q]
    BY <1>1, <1>4 DEF Child, ChildPass, ChildSignal, ChildAnswer, ChildExit, Gone
  <2>3. \A q \in Pid : Gone(q) => Gone(q)'
    BY <2>2 DEF Gone
  <2> QED BY <1>1, <2>1, <2>3, TurnFrame
<1>5. CASE Connect \/ (\E p \in Pid : ClientSend(p) \/ ClientClose(p)) \/ UNCHANGED vars
  <2>1. UNCHANGED <<n, slot, hpc, i, heard, status>>
    BY <1>5 DEF Connect, ClientSend, ClientClose, vars, children, history, handler, main
  <2>2. Reached' = Reached
    BY <2>1 DEF Reached
  <2> QED BY <2>1, <2>2, TurnFrame DEF Gone
<1> QED BY <1>2, <1>3, <1>4, <1>5 DEF Next

-----------------------------------------------------------------------------
\* What holds until a child is reaped.
CalmInv ==
    /\ NotForkedYet
    /\ NobodyReaped => TableInv /\ EarlyInv /\ WaitInv /\ AheadInv /\ TurnInv

LEMMA CalmInit == Init => CalmInv
<1> SUFFICES ASSUME Init PROVE CalmInv
  OBVIOUS
<1>1. Recorded = {}
  BY DEF Init, Recorded
<1>2. TableInv
  BY TableInit
<1>3. EarlyInv /\ WaitInv /\ NotForkedYet
  BY <1>1 DEF Init, EarlyInv, WaitInv, NotForkedYet
<1>4. AheadInv /\ TurnInv
  BY <1>1 DEF Init, AheadInv, TurnInv
<1> QED BY <1>2, <1>3, <1>4 DEF CalmInv

LEMMA CalmStep ==
    ASSUME RangeInv, CalmInv, [Next]_vars
    PROVE  CalmInv'
<1>1. NotForkedYet' /\ (NobodyReaped' => NobodyReaped /\ \A p \in Pid : ~Reap(p))
  BY ReapedBefore DEF CalmInv
<1>2. ASSUME NobodyReaped'
      PROVE  TableInv' /\ EarlyInv' /\ WaitInv' /\ AheadInv' /\ TurnInv'
  BY <1>1, <1>2, TableStep, EarlyStep, WaitStep, AheadStep, TurnStep DEF CalmInv
<1> QED BY <1>1, <1>2 DEF CalmInv

LEMMA CalmHolds == Spec => [](RangeInv /\ CalmInv)
BY RangeInit, RangeStep, CalmInit, CalmStep, PTL DEF Spec

\* Signals merge while they are pending, and yet no announced message is left
\* behind the handler without another signal.
THEOREM AnnouncedServed == Spec => []AnnouncedIsAhead
<1>1. CalmInv => AnnouncedIsAhead
  BY DEF CalmInv, AheadInv, Ahead, AnnouncedIsAhead
<1> QED BY <1>1, CalmHolds, PTL

\* When the handler waits for a child that waits for the parent, nothing was
\* answered to the child's message.
THEOREM WaitingOnlyWhenMute == Spec => []StuckOnlyWhenMute
<1>1. RangeInv /\ CalmInv => StuckOnlyWhenMute
  <2> SUFFICES ASSUME RangeInv, CalmInv, NobodyReaped, hpc = "read", i < n,
                      status[slot[i]] = "waiting", slot[i] \notin mute
               PROVE  c2p[slot[i]] > 0 \/ p2c[slot[i]] > 0
    BY DEF StuckOnlyWhenMute
  <2>1. i \in 0..n - 1
    BY DEF RangeInv, TypeOK
  <2>2. slot[i] \in Pid
    BY <2>1, RecordedArePids DEF Recorded
  <2> QED BY <2>2 DEF CalmInv, WaitInv, BeingAnswered
<1> QED BY <1>1, CalmHolds, PTL

LEMMA NotHeardTwice ==
    ASSUME RangeInv, CalmInv, Read, NobodyReaped, NEW p \in Recorded, ~Gone(p)
    PROVE  slot[i] \notin heard[p]
<1>1. PICK g \in 0..n - 1 : p = slot[g]
  BY DEF Recorded
<1>2. i \in 0..n - 1 /\ Reached = i
  BY DEF Read, InHandler, Reached, RangeInv, TypeOK
<1>3. ~ReadSince(g, i)
  BY <1>2 DEF ReadSince
<1> QED BY <1>1, <1>2, <1>3 DEF CalmInv, TurnInv

\* A client is read from again only after every other client that is there.
THEOREM TurnsTaken == Spec => TakingTurns
<1>1. RangeInv /\ CalmInv =>
          [Read /\ NobodyReaped => \A p \in Recorded : ~Gone(p) => slot[i] \notin heard[p]]_vars
  BY NotHeardTwice
<1> QED BY <1>1, CalmHolds, PTL DEF TakingTurns
=============================================================================
