------------------------- MODULE RoomRegistryProofs -------------------------
(***************************************************************************)
(* Proofs about the parent's tables for every number of rooms, clients,    *)
(* connections and names.                                                  *)
(***************************************************************************)
EXTENDS RoomRegistry, FiniteSetTheorems, TLAPS

-----------------------------------------------------------------------------
(* Facts about the helpers.                                                *)

\* Every set the invariants count is finite.
LEMMA FiniteTables ==
    ASSUME TypeOK
    PROVE  /\ IsFiniteSet(clients)
           /\ IsFiniteSet(rooms)
           /\ \A r : IsFiniteSet(Members(r))
<1>1. IsFiniteSet(1..forked)
  BY FS_Interval DEF TypeOK
<1>2. IsFiniteSet(clients)
  <2>1. clients \in SUBSET (1..forked)
    BY DEF TypeOK
  <2>. QED  BY <1>1, <2>1, FS_Subset
<1>3. IsFiniteSet(rooms)
  BY RoomAssumption, FS_Subset DEF TypeOK
<1>4. \A r : Members(r) \in SUBSET clients
  BY DEF Members
<1>. QED  BY <1>2, <1>3, <1>4, FS_Subset

\* Cardinalities when one element is added or removed, in the form the steps
\* below use.
LEMMA OneElement ==
    ASSUME NEW S, IsFiniteSet(S), NEW x
    PROVE  /\ Cardinality(S) \in Nat
           /\ Cardinality(S \cup {x}) \in Nat
           /\ Cardinality(S \ {x}) \in Nat
           /\ x \notin S => Cardinality(S \cup {x}) = Cardinality(S) + 1
           /\ x \in S => Cardinality(S \ {x}) = Cardinality(S) - 1
           /\ Cardinality(S \cup {x}) <= Cardinality(S) + 1
           /\ Cardinality(S \ {x}) <= Cardinality(S)
<1>1. /\ IsFiniteSet(S \cup {x})
      /\ Cardinality(S \cup {x}) =
             IF x \in S THEN Cardinality(S) ELSE Cardinality(S) + 1
  BY FS_AddElement
<1>2. /\ IsFiniteSet(S \ {x})
      /\ Cardinality(S \ {x}) =
             IF x \in S THEN Cardinality(S) - 1 ELSE Cardinality(S)
  BY FS_RemoveElement
<1>3. /\ Cardinality(S) \in Nat
      /\ Cardinality(S \cup {x}) \in Nat
      /\ Cardinality(S \ {x}) \in Nat
  BY <1>1, <1>2, FS_CardinalityType
<1>. QED  BY <1>1, <1>2, <1>3

\* Taking a client out of r never adds a room, never closes general, and
\* lowers no count but that of r.
LEMMA AfterLeaving ==
    ASSUME TypeOK, NEW r \in RoomName
    PROVE  /\ RoomsAfterLeaving(r) \subseteq rooms
           /\ General \in RoomsAfterLeaving(r)
           /\ IsFiniteSet(RoomsAfterLeaving(r))
           /\ Cardinality(RoomsAfterLeaving(r)) \in Nat
           /\ Cardinality(RoomsAfterLeaving(r)) <= MaxRooms
           /\ CountAfterLeaving(r) \in [RoomName -> Int]
           /\ \A s \in RoomName : CountAfterLeaving(r)[s] =
                  IF s = r /\ r \in rooms THEN count[s] - 1 ELSE count[s]
<1>1. RoomsAfterLeaving(r) \in SUBSET rooms /\ General \in RoomsAfterLeaving(r)
  BY DEF RoomsAfterLeaving, TypeOK
<1>2. IsFiniteSet(rooms)
  BY FiniteTables
<1>3. /\ IsFiniteSet(RoomsAfterLeaving(r))
      /\ Cardinality(RoomsAfterLeaving(r)) <= Cardinality(rooms)
  BY <1>1, <1>2, FS_Subset
<1>4. Cardinality(rooms) \in Nat /\ Cardinality(RoomsAfterLeaving(r)) \in Nat
  BY <1>2, <1>3, FS_CardinalityType
<1>5. Cardinality(RoomsAfterLeaving(r)) <= MaxRooms
  BY <1>3, <1>4, LimitAssumption DEF TypeOK
<1>6. /\ CountAfterLeaving(r) \in [RoomName -> Int]
      /\ \A s \in RoomName : CountAfterLeaving(r)[s] =
             IF s = r /\ r \in rooms THEN count[s] - 1 ELSE count[s]
  BY DEF CountAfterLeaving, TypeOK
<1>. QED  BY <1>1, <1>3, <1>4, <1>5, <1>6

\* Entering a room counts one more in it and changes no other count.
LEMMA AfterEntering ==
    ASSUME NEW r \in RoomName, NEW existing, NEW counted \in [RoomName -> Int]
    PROVE  /\ CountAfterEntering(r, existing, counted) \in [RoomName -> Int]
           /\ \A s \in RoomName : CountAfterEntering(r, existing, counted)[s] =
                  IF s # r THEN counted[s]
                  ELSE IF r \in existing THEN counted[r] + 1 ELSE 1
BY DEF CountAfterEntering

-----------------------------------------------------------------------------
(* Types.                                                                  *)

LEMMA TypeInit == Init => TypeOK
<1> SUFFICES ASSUME Init PROVE TypeOK
  OBVIOUS
<1>1. Cardinality({General}) = 1 /\ Cardinality({}) = 0
  BY FS_Singleton, FS_EmptySet
<1>2. /\ forked \in 0..MaxPid
      /\ alive \subseteq 1..forked
      /\ clients \subseteq alive
      /\ nick \in [Pid -> NickName]
      /\ room \in [Pid -> RoomName]
      /\ rooms \subseteq RoomName
      /\ count \in [RoomName -> Int]
      /\ General \in rooms
  BY RoomAssumption, NickAssumption, LimitAssumption DEF Init
<1>3. Cardinality(rooms) <= MaxRooms /\ Cardinality(clients) <= MaxClients
  BY <1>1, LimitAssumption DEF Init
<1>. QED  BY <1>2, <1>3 DEF TypeOK

LEMMA TypeStep == TypeOK /\ [Next]_vars => TypeOK'
<1> SUFFICES ASSUME TypeOK, [Next]_vars PROVE TypeOK'
  OBVIOUS
<1>f. IsFiniteSet(clients) /\ IsFiniteSet(rooms)
  BY FiniteTables
<1>n. Cardinality(clients) \in Nat /\ Cardinality(rooms) \in Nat
  BY <1>f, FS_CardinalityType
<1>1. CASE AddClient
  <2>1. forked + 1 \in Pid
    BY <1>1, LimitAssumption DEF AddClient, TypeOK, Pid
  <2>2. /\ Cardinality(clients \cup {forked + 1}) <= Cardinality(clients) + 1
        /\ Cardinality(clients \cup {forked + 1}) \in Nat
    BY <1>f, OneElement
  <2>3. Cardinality(clients') <= MaxClients
    BY <1>1, <1>n, <2>2, LimitAssumption DEF AddClient
  <2>4. nick' \in [Pid -> NickName] /\ room' \in [Pid -> RoomName]
    BY <1>1, <2>1, RoomAssumption, NickAssumption DEF AddClient, TypeOK
  <2>5. /\ forked' \in 0..MaxPid
        /\ alive' \subseteq 1..forked'
        /\ clients' \subseteq alive'
    BY <1>1, LimitAssumption DEF AddClient, TypeOK
  <2>. QED  BY <1>1, <2>3, <2>4, <2>5 DEF AddClient, TypeOK
<1>2. CASE AddClientFull
  BY <1>2, LimitAssumption DEF AddClientFull, TypeOK
<1>3. ASSUME NEW p \in Pid, RemoveClient(p) PROVE TypeOK'
  <2>1. room[p] \in RoomName
    BY DEF TypeOK
  <2>2. /\ rooms' \subseteq RoomName /\ General \in rooms'
        /\ Cardinality(rooms') <= MaxRooms
        /\ count' \in [RoomName -> Int]
    BY <1>3, <2>1, AfterLeaving DEF RemoveClient, TypeOK
  <2>3. Cardinality(clients') <= MaxClients
    <3>1. Cardinality(clients \ {p}) <= Cardinality(clients)
      BY <1>f, OneElement
    <3>2. Cardinality(clients \ {p}) \in Nat
      BY <1>f, OneElement
    <3>. QED  BY <1>3, <1>n, <3>1, <3>2, LimitAssumption DEF RemoveClient, TypeOK
  <2>4. nick' \in [Pid -> NickName] /\ room' \in [Pid -> RoomName]
    BY <1>3, RoomAssumption, NickAssumption DEF RemoveClient, TypeOK
  <2>. QED  BY <1>3, <2>2, <2>3, <2>4 DEF RemoveClient, TypeOK
<1>4. ASSUME NEW p \in Pid, ReapUnrecorded(p) PROVE TypeOK'
  BY <1>4 DEF ReapUnrecorded, TypeOK
<1>5. ASSUME NEW p \in Pid, LeaveRoom(p) PROVE TypeOK'
  <2>1. room[p] \in RoomName
    BY DEF TypeOK
  <2>2. /\ rooms' \subseteq RoomName /\ General \in rooms'
        /\ Cardinality(rooms') <= MaxRooms
        /\ count' \in [RoomName -> Int]
    BY <1>5, <2>1, AfterLeaving, RoomAssumption DEF LeaveRoom, TypeOK
  <2>. QED  BY <1>5, <2>2, RoomAssumption DEF LeaveRoom, TypeOK
<1>6. ASSUME NEW p \in Pid, NEW r \in RoomName, AddRoom(p, r) PROVE TypeOK'
  <2>1. Cardinality(rooms') <= MaxRooms
    <3>1. Cardinality(rooms \cup {r}) = Cardinality(rooms) + 1
      BY <1>6, <1>f, OneElement DEF AddRoom
    <3>. QED  BY <1>6, <1>n, <3>1, LimitAssumption DEF AddRoom
  <2>. QED  BY <1>6, <2>1 DEF AddRoom, TypeOK
<1>7. ASSUME NEW p \in Pid, NEW r \in RoomName, RemoveRoom(p, r) PROVE TypeOK'
  <2>1. Cardinality(rooms') <= MaxRooms
    <3>1. Cardinality(rooms \ {r}) <= Cardinality(rooms)
      BY <1>f, OneElement
    <3>2. Cardinality(rooms \ {r}) \in Nat
      BY <1>f, OneElement
    <3>. QED  BY <1>7, <1>n, <3>1, <3>2, LimitAssumption DEF RemoveRoom, TypeOK
  <2>. QED  BY <1>7, <2>1 DEF RemoveRoom, TypeOK
<1>8. ASSUME NEW p \in Pid, NEW r \in RoomName, JoinRoom(p, r) PROVE TypeOK'
  <2> DEFINE left == RoomsAfterLeaving(room[p])
             counted == CountAfterLeaving(room[p])
  <2>1. room[p] \in RoomName
    BY DEF TypeOK
  <2>2. /\ left \subseteq rooms /\ General \in left /\ IsFiniteSet(left)
        /\ Cardinality(left) \in Nat /\ Cardinality(left) <= MaxRooms
        /\ counted \in [RoomName -> Int]
    BY <2>1, AfterLeaving
  <2>3. rooms' = left \cup {r} /\ CanEnter(r, left)
    BY <1>8 DEF JoinRoom
  <2>4. Cardinality(left \cup {r}) =
            IF r \in left THEN Cardinality(left) ELSE Cardinality(left) + 1
    BY <2>2, FS_AddElement
  <2>5. Cardinality(rooms') <= MaxRooms
    BY <2>2, <2>3, <2>4, LimitAssumption DEF CanEnter
  <2>6. count' \in [RoomName -> Int]
    BY <1>8, <2>2, AfterEntering DEF JoinRoom
  <2>7. rooms' \subseteq RoomName /\ General \in rooms'
    BY <2>2, <2>3 DEF TypeOK
  <2>8. room' \in [Pid -> RoomName]
    BY <1>8 DEF JoinRoom, TypeOK
  <2>. QED  BY <1>8, <2>5, <2>6, <2>7, <2>8 DEF JoinRoom, TypeOK
<1>9. ASSUME NEW p \in Pid, NEW r \in RoomName, JoinRefused(p, r) PROVE TypeOK'
  <2>1. room[p] \in RoomName
    BY DEF TypeOK
  <2>. QED  BY <1>9, <2>1, AfterLeaving DEF JoinRefused, TypeOK
<1>10. ASSUME NEW p \in Pid, NEW n \in NickName, ChangeNickname(p, n) PROVE TypeOK'
  BY <1>10 DEF ChangeNickname, TypeOK
<1>11. CASE UNCHANGED vars
  BY <1>11 DEF vars, TypeOK
<1>. QED
  BY <1>1, <1>2, <1>3, <1>4, <1>5, <1>6, <1>7, <1>8, <1>9, <1>10, <1>11 DEF Next

\* The parent's tables keep their types and capacities.
THEOREM TypeCorrect == Spec => []TypeOK
  BY TypeInit, TypeStep, PTL DEF Spec
-----------------------------------------------------------------------------
(* How a step changes the records that name a room.                        *)

\* A new record names general.
LEMMA MembersArrived ==
    ASSUME TypeOK, AddClient, NEW s
    PROVE  /\ forked + 1 \notin clients
           /\ Members(s)' = IF s = General THEN Members(s) \cup {forked + 1}
                                           ELSE Members(s)
<1>1. forked + 1 \notin clients /\ forked + 1 \in Pid
  BY LimitAssumption DEF AddClient, TypeOK, Pid
<1>2. \A q \in clients : room'[q] = room[q]
  BY <1>1 DEF AddClient, TypeOK
<1>3. room'[forked + 1] = General
  BY <1>1 DEF AddClient, TypeOK
<1>. QED  BY <1>1, <1>2, <1>3 DEF Members, AddClient

\* A removed record names no room.
LEMMA MembersRemoved ==
    ASSUME TypeOK, NEW p \in Pid, RemoveClient(p), NEW s
    PROVE  Members(s)' = Members(s) \ {p}
<1>1. \A q \in clients \ {p} : room'[q] = room[q]
  BY DEF RemoveClient, TypeOK
<1>. QED  BY <1>1 DEF Members, RemoveClient

\* A client that enters r is out of the room it was in.
LEMMA MembersMoved ==
    ASSUME TypeOK, NEW p \in clients, NEW r \in RoomName, NEW s,
           clients' = clients, room' = [room EXCEPT ![p] = r]
    PROVE  Members(s)' = IF s = r THEN (Members(s) \ {p}) \cup {p}
                                  ELSE Members(s) \ {p}
<1>1. p \in Pid
  BY LimitAssumption DEF TypeOK, Pid
<1>2. room'[p] = r /\ \A q \in clients \ {p} : room'[q] = room[q]
  BY <1>1 DEF TypeOK
<1>. QED  BY <1>2 DEF Members

-----------------------------------------------------------------------------
(* The counters never exceed the membership.                               *)

\* Once p is counted out of its room no counter exceeds the number of other
\* records that name the room.
LEMMA CountedOut ==
    ASSUME TypeOK, NeverOverCounts, NEW p \in clients, NEW s \in rooms
    PROVE  /\ CountAfterLeaving(room[p])[s] \in Int
           /\ CountAfterLeaving(room[p])[s] <= Cardinality(Members(s) \ {p})
<1>1. room[p] \in RoomName /\ s \in RoomName
  BY LimitAssumption DEF TypeOK, Pid
<1>2. /\ CountAfterLeaving(room[p])[s] =
             IF s = room[p] THEN count[s] - 1 ELSE count[s]
      /\ count[s] \in Int
  BY <1>1, AfterLeaving DEF TypeOK
<1>3. count[s] <= Cardinality(Members(s))
  BY DEF NeverOverCounts
<1>4. IsFiniteSet(Members(s))
  BY FiniteTables
<1>5. /\ Cardinality(Members(s)) \in Nat
      /\ Cardinality(Members(s) \ {p}) \in Nat
      /\ p \in Members(s) => Cardinality(Members(s) \ {p}) = Cardinality(Members(s)) - 1
  BY <1>4, OneElement
<1>6. CASE s = room[p]
  <2>1. p \in Members(s)
    BY <1>6 DEF Members
  <2>. QED  BY <1>2, <1>3, <1>5, <1>6, <2>1
<1>7. CASE s # room[p]
  <2>1. Members(s) \ {p} = Members(s)
    BY <1>7 DEF Members
  <2>. QED  BY <1>2, <1>3, <1>5, <1>7, <2>1
<1>. QED  BY <1>6, <1>7

LEMMA NeverOverCountsStep ==
    ASSUME TypeOK, NeverOverCounts, [Next]_vars
    PROVE  NeverOverCounts'
<1> SUFFICES ASSUME NEW s \in rooms'
             PROVE  count'[s] <= Cardinality(Members(s)')
  BY DEF NeverOverCounts
<1>m. /\ IsFiniteSet(Members(s))
      /\ Cardinality(Members(s)) \in Nat
  BY FiniteTables, OneElement
<1>c. s \in rooms => count[s] <= Cardinality(Members(s))
  BY DEF NeverOverCounts
<1>1. CASE AddClient
  <2>1. s \in rooms /\ s \in RoomName /\ count'[s] = count[s] /\ count[s] \in Int
    BY <1>1 DEF AddClient, TypeOK
  <2>2. CASE s = General
    <3>1. /\ Members(s)' = Members(s) \cup {forked + 1}
          /\ forked + 1 \notin Members(s)
      BY <1>1, <2>2, MembersArrived DEF Members
    <3>2. Cardinality(Members(s)') = Cardinality(Members(s)) + 1
      BY <1>m, <3>1, OneElement
    <3>. QED  BY <1>c, <1>m, <2>1, <3>2
  <2>3. CASE s # General
    <3>1. Members(s)' = Members(s)
      BY <1>1, <2>3, MembersArrived
    <3>. QED  BY <1>c, <2>1, <3>1
  <2>. QED  BY <2>2, <2>3
<1>2. CASE AddClientFull
  BY <1>2, <1>c DEF AddClientFull, Members
<1>3. ASSUME NEW p \in Pid, RemoveClient(p)
      PROVE  count'[s] <= Cardinality(Members(s)')
  <2>1. room[p] \in RoomName /\ p \in clients
    BY <1>3 DEF TypeOK, RemoveClient
  <2>2. s \in rooms
    BY <1>3, <2>1, AfterLeaving DEF RemoveClient
  <2>3. Members(s)' = Members(s) \ {p}
    BY <1>3, MembersRemoved
  <2>. QED  BY <1>3, <2>1, <2>2, <2>3, CountedOut DEF RemoveClient
<1>4. ASSUME NEW p \in Pid, ReapUnrecorded(p)
      PROVE  count'[s] <= Cardinality(Members(s)')
  BY <1>4, <1>c DEF ReapUnrecorded, Members
<1>5. ASSUME NEW p \in Pid, LeaveRoom(p)
      PROVE  count'[s] <= Cardinality(Members(s)')
  <2>1. room[p] \in RoomName /\ p \in clients
    BY <1>5 DEF TypeOK, LeaveRoom
  <2>2. /\ s \in rooms /\ s \in RoomName
        /\ CountAfterLeaving(room[p]) \in [RoomName -> Int]
    BY <1>5, <2>1, AfterLeaving DEF LeaveRoom, TypeOK
  <2>3. count'[s] = IF s = General THEN CountAfterLeaving(room[p])[s] + 1
                                   ELSE CountAfterLeaving(room[p])[s]
    BY <1>5, <2>2 DEF LeaveRoom
  <2>4. Members(s)' = IF s = General THEN (Members(s) \ {p}) \cup {p}
                                     ELSE Members(s) \ {p}
    BY <1>5, <2>1, MembersMoved, RoomAssumption DEF LeaveRoom
  <2>5. /\ IsFiniteSet(Members(s) \ {p})
        /\ Cardinality(Members(s) \ {p}) \in Nat
    BY <1>m, FS_RemoveElement, OneElement
  <2>6. Cardinality((Members(s) \ {p}) \cup {p}) = Cardinality(Members(s) \ {p}) + 1
    BY <2>5, OneElement
  <2>7. /\ CountAfterLeaving(room[p])[s] \in Int
        /\ CountAfterLeaving(room[p])[s] <= Cardinality(Members(s) \ {p})
    BY <2>1, <2>2, CountedOut
  <2>8. CASE s = General
    <3>1. Cardinality(Members(s)') = Cardinality(Members(s) \ {p}) + 1
      BY <2>4, <2>6, <2>8
    <3>. QED  BY <2>3, <2>5, <2>7, <2>8, <3>1
  <2>9. CASE s # General
    BY <2>3, <2>4, <2>7, <2>9
  <2>. QED  BY <2>8, <2>9
<1>6. ASSUME NEW p \in Pid, NEW r \in RoomName, AddRoom(p, r)
      PROVE  count'[s] <= Cardinality(Members(s)')
  <2>1. Members(s)' = Members(s)
    BY <1>6 DEF AddRoom, Members
  <2>2. count'[s] = IF s = r THEN 0 ELSE count[s]
    BY <1>6 DEF AddRoom, TypeOK
  <2>3. s = r \/ s \in rooms
    BY <1>6 DEF AddRoom
  <2>. QED  BY <1>c, <1>m, <2>1, <2>2, <2>3
<1>7. ASSUME NEW p \in Pid, NEW r \in RoomName, RemoveRoom(p, r)
      PROVE  count'[s] <= Cardinality(Members(s)')
  <2>1. Members(s)' = Members(s)
    BY <1>7 DEF RemoveRoom, Members
  <2>2. s \in rooms /\ count'[s] = count[s]
    BY <1>7 DEF RemoveRoom, TypeOK
  <2>. QED  BY <1>c, <2>1, <2>2
<1>8. ASSUME NEW p \in Pid, NEW r \in RoomName, JoinRoom(p, r)
      PROVE  count'[s] <= Cardinality(Members(s)')
  <2> DEFINE left == RoomsAfterLeaving(room[p])
             counted == CountAfterLeaving(room[p])
  <2>1. room[p] \in RoomName /\ p \in clients
    BY <1>8 DEF TypeOK, JoinRoom
  <2>2. left \subseteq rooms /\ counted \in [RoomName -> Int]
    BY <2>1, AfterLeaving
  <2>3. s \in RoomName /\ (s # r => s \in left)
    BY <1>8, <2>2 DEF JoinRoom, TypeOK
  <2>4. count'[s] = IF s # r THEN counted[s]
                    ELSE IF r \in left THEN counted[r] + 1 ELSE 1
    <3>1. count' = CountAfterEntering(r, left, counted)
      BY <1>8 DEF JoinRoom
    <3>. HIDE DEF left, counted
    <3>. QED  BY <2>2, <2>3, <3>1, AfterEntering
  <2>5. Members(s)' = IF s = r THEN (Members(s) \ {p}) \cup {p}
                               ELSE Members(s) \ {p}
    BY <1>8, <2>1, MembersMoved DEF JoinRoom
  <2>6. /\ IsFiniteSet(Members(s) \ {p})
        /\ Cardinality(Members(s) \ {p}) \in Nat
    BY <1>m, FS_RemoveElement, OneElement
  <2>7. Cardinality((Members(s) \ {p}) \cup {p}) = Cardinality(Members(s) \ {p}) + 1
    BY <2>6, OneElement
  <2>8. s \in left => /\ counted[s] \in Int
                      /\ counted[s] <= Cardinality(Members(s) \ {p})
    BY <2>1, <2>2, CountedOut
  <2>9. CASE s = r
    <3>1. Cardinality(Members(s)') = Cardinality(Members(s) \ {p}) + 1
      BY <2>5, <2>7, <2>9
    <3>2. count'[s] = IF s \in left THEN counted[s] + 1 ELSE 1
      BY <2>4, <2>9
    <3>. HIDE DEF left, counted
    <3>. QED  BY <2>6, <2>8, <3>1, <3>2
  <2>10. CASE s # r
    BY <2>3, <2>4, <2>5, <2>8, <2>10
  <2>. QED  BY <2>9, <2>10
<1>9. ASSUME NEW p \in Pid, NEW r \in RoomName, JoinRefused(p, r)
      PROVE  count'[s] <= Cardinality(Members(s)')
  <2>1. room[p] \in RoomName /\ p \in clients
    BY <1>9 DEF TypeOK, JoinRefused
  <2>2. s \in rooms
    BY <1>9, <2>1, AfterLeaving DEF JoinRefused
  <2>3. Members(s)' = Members(s)
    BY <1>9 DEF JoinRefused, Members
  <2>4. /\ count'[s] \in Int
        /\ count'[s] <= Cardinality(Members(s) \ {p})
    BY <1>9, <2>1, <2>2, CountedOut DEF JoinRefused
  <2>5. /\ Cardinality(Members(s) \ {p}) <= Cardinality(Members(s))
        /\ Cardinality(Members(s) \ {p}) \in Nat
    BY <1>m, OneElement
  <2>. QED  BY <1>m, <2>3, <2>4, <2>5
<1>10. ASSUME NEW p \in Pid, NEW n \in NickName, ChangeNickname(p, n)
       PROVE  count'[s] <= Cardinality(Members(s)')
  BY <1>10, <1>c DEF ChangeNickname, Members
<1>11. CASE UNCHANGED vars
  BY <1>11, <1>c DEF vars, Members
<1>. QED
  BY <1>1, <1>2, <1>3, <1>4, <1>5, <1>6, <1>7, <1>8, <1>9, <1>10, <1>11 DEF Next

\* Every error in a room's counter is on the low side, however often joins are
\* refused (NeverOverCounts).
THEOREM CountersNeverHigh == Spec => []NeverOverCounts
<1>1. Init => NeverOverCounts
  <2> SUFFICES ASSUME Init PROVE NeverOverCounts
    OBVIOUS
  <2>1. \A r : Members(r) = {}
    BY DEF Init, Members
  <2>. QED  BY <2>1, FS_EmptySet, RoomAssumption DEF Init, NeverOverCounts
<1>2. TypeOK /\ NeverOverCounts /\ [Next]_vars => NeverOverCounts'
  BY NeverOverCountsStep
<1>. QED  BY <1>1, <1>2, TypeCorrect, PTL DEF Spec
-----------------------------------------------------------------------------
(* general counts at most the clients in it minus all clients.             *)

\* Once p is counted out of its room, general's counter is below the bound by
\* one, which pays for p entering general again.
LEMMA GeneralCountedOut ==
    ASSUME TypeOK, GeneralCountsNobody, NEW p \in clients
    PROVE  /\ CountAfterLeaving(room[p])[General] \in Int
           /\ CountAfterLeaving(room[p])[General]
                  <= Cardinality(Members(General) \ {p}) - Cardinality(clients)
<1>1. room[p] \in RoomName /\ General \in rooms /\ General \in RoomName
  BY LimitAssumption, RoomAssumption DEF TypeOK, Pid
<1>2. /\ CountAfterLeaving(room[p])[General] =
             IF General = room[p] THEN count[General] - 1 ELSE count[General]
      /\ count[General] \in Int
  BY <1>1, AfterLeaving DEF TypeOK
<1>3. IsFiniteSet(Members(General)) /\ IsFiniteSet(clients)
  BY FiniteTables
<1>4. /\ Cardinality(clients) \in Nat
      /\ Cardinality(Members(General)) \in Nat
      /\ Cardinality(Members(General) \ {p}) \in Nat
      /\ p \in Members(General) =>
             Cardinality(Members(General) \ {p}) = Cardinality(Members(General)) - 1
  BY <1>3, OneElement
<1>5. count[General] <= Cardinality(Members(General)) - Cardinality(clients)
  BY DEF GeneralCountsNobody
<1>6. CASE General = room[p]
  <2>1. p \in Members(General)
    BY <1>6 DEF Members
  <2>. QED  BY <1>2, <1>4, <1>5, <1>6, <2>1
<1>7. CASE General # room[p]
  <2>1. Members(General) \ {p} = Members(General)
    BY <1>7 DEF Members
  <2>. QED  BY <1>2, <1>4, <1>5, <1>7, <2>1
<1>. QED  BY <1>6, <1>7

LEMMA GeneralCountsNobodyStep ==
    ASSUME TypeOK, GeneralCountsNobody, [Next]_vars
    PROVE  GeneralCountsNobody'
<1> SUFFICES count'[General] <= Cardinality(Members(General)') - Cardinality(clients')
  BY DEF GeneralCountsNobody
<1>m. /\ IsFiniteSet(Members(General)) /\ IsFiniteSet(clients)
      /\ Cardinality(Members(General)) \in Nat
      /\ Cardinality(clients) \in Nat
  BY FiniteTables, OneElement
<1>g. General \in RoomName /\ General \in rooms /\ count[General] \in Int
  BY RoomAssumption DEF TypeOK
<1>c. count[General] <= Cardinality(Members(General)) - Cardinality(clients)
  BY DEF GeneralCountsNobody
<1>o. ASSUME NEW p \in clients
      PROVE  /\ IsFiniteSet(Members(General) \ {p})
             /\ Cardinality(Members(General) \ {p}) \in Nat
             /\ Cardinality(Members(General) \ {p}) <= Cardinality(Members(General))
             /\ Cardinality((Members(General) \ {p}) \cup {p}) =
                    Cardinality(Members(General) \ {p}) + 1
             /\ Cardinality(clients \ {p}) = Cardinality(clients) - 1
             /\ Cardinality(clients \ {p}) \in Nat
  <2>1. IsFiniteSet(Members(General) \ {p})
    BY <1>m, FS_RemoveElement
  <2>2. Cardinality((Members(General) \ {p}) \cup {p}) =
            Cardinality(Members(General) \ {p}) + 1
    BY <2>1, OneElement
  <2>. QED  BY <1>m, <2>1, <2>2, OneElement
<1>1. CASE AddClient
  <2>1. /\ Members(General)' = Members(General) \cup {forked + 1}
        /\ forked + 1 \notin clients
        /\ forked + 1 \notin Members(General)
    BY <1>1, MembersArrived DEF Members
  <2>2. Cardinality(Members(General)') = Cardinality(Members(General)) + 1
    BY <1>m, <2>1, OneElement
  <2>3. Cardinality(clients') = Cardinality(clients) + 1
    BY <1>1, <1>m, <2>1, OneElement DEF AddClient
  <2>4. count' = count
    BY <1>1 DEF AddClient
  <2>. QED  BY <1>c, <1>m, <1>g, <2>2, <2>3, <2>4
<1>2. CASE AddClientFull
  BY <1>2, <1>c DEF AddClientFull, Members
<1>3. ASSUME NEW p \in Pid, RemoveClient(p)
      PROVE  count'[General] <= Cardinality(Members(General)') - Cardinality(clients')
  <2>1. p \in clients /\ clients' = clients \ {p}
        /\ count' = CountAfterLeaving(room[p])
    BY <1>3 DEF RemoveClient
  <2>2. Members(General)' = Members(General) \ {p}
    BY <1>3, MembersRemoved
  <2>9. /\ CountAfterLeaving(room[p])[General] \in Int
        /\ CountAfterLeaving(room[p])[General]
               <= Cardinality(Members(General) \ {p}) - Cardinality(clients)
    BY <2>1, GeneralCountedOut
  <2>10. /\ Cardinality(Members(General) \ {p}) \in Nat
         /\ Cardinality(Members(General) \ {p}) <= Cardinality(Members(General))
         /\ Cardinality(clients \ {p}) = Cardinality(clients) - 1
    BY <2>1, <1>o
  <2>. QED  BY <1>m, <2>1, <2>2, <2>9, <2>10
<1>4. ASSUME NEW p \in Pid, ReapUnrecorded(p)
      PROVE  count'[General] <= Cardinality(Members(General)') - Cardinality(clients')
  BY <1>4, <1>c DEF ReapUnrecorded, Members
<1>5. ASSUME NEW p \in Pid, LeaveRoom(p)
      PROVE  count'[General] <= Cardinality(Members(General)') - Cardinality(clients')
  <2>1. p \in clients /\ room[p] \in RoomName
    BY <1>5 DEF LeaveRoom, TypeOK
  <2>2. CountAfterLeaving(room[p]) \in [RoomName -> Int]
    BY <2>1, AfterLeaving
  <2>3. clients' = clients /\ count'[General] = CountAfterLeaving(room[p])[General] + 1
    BY <1>5, <1>g, <2>2 DEF LeaveRoom
  <2>4. Members(General)' = (Members(General) \ {p}) \cup {p}
    BY <1>5, <1>g, <2>1, MembersMoved DEF LeaveRoom
  <2>5. Cardinality(Members(General)') = Cardinality(Members(General) \ {p}) + 1
    BY <1>o, <2>1, <2>4
  <2>9. /\ CountAfterLeaving(room[p])[General] \in Int
        /\ CountAfterLeaving(room[p])[General]
               <= Cardinality(Members(General) \ {p}) - Cardinality(clients)
    BY <2>1, GeneralCountedOut
  <2>10. /\ Cardinality(Members(General) \ {p}) \in Nat
         /\ Cardinality(Members(General) \ {p}) <= Cardinality(Members(General))
         /\ Cardinality(clients \ {p}) = Cardinality(clients) - 1
    BY <2>1, <1>o
  <2>. QED  BY <1>m, <2>1, <2>3, <2>5, <2>9, <2>10
<1>6. ASSUME NEW p \in Pid, NEW r \in RoomName, AddRoom(p, r)
      PROVE  count'[General] <= Cardinality(Members(General)') - Cardinality(clients')
  <2>1. Members(General)' = Members(General) /\ clients' = clients
    BY <1>6 DEF AddRoom, Members
  <2>2. count'[General] = count[General]
    BY <1>6, <1>g DEF AddRoom, TypeOK
  <2>. QED  BY <1>c, <2>1, <2>2
<1>7. ASSUME NEW p \in Pid, NEW r \in RoomName, RemoveRoom(p, r)
      PROVE  count'[General] <= Cardinality(Members(General)') - Cardinality(clients')
  <2>1. Members(General)' = Members(General) /\ clients' = clients
    BY <1>7 DEF RemoveRoom, Members
  <2>2. count'[General] = count[General]
    BY <1>7, <1>g DEF RemoveRoom, TypeOK
  <2>. QED  BY <1>c, <2>1, <2>2
<1>8. ASSUME NEW p \in Pid, NEW r \in RoomName, JoinRoom(p, r)
      PROVE  count'[General] <= Cardinality(Members(General)') - Cardinality(clients')
  <2>1. p \in clients /\ room[p] \in RoomName /\ clients' = clients
    BY <1>8 DEF JoinRoom, TypeOK
  <2>2. /\ CountAfterLeaving(room[p]) \in [RoomName -> Int]
        /\ General \in RoomsAfterLeaving(room[p])
    BY <2>1, AfterLeaving
  <2>3. count'[General] = IF r = General
                          THEN CountAfterLeaving(room[p])[General] + 1
                          ELSE CountAfterLeaving(room[p])[General]
    <3>1. count' = CountAfterEntering(r, RoomsAfterLeaving(room[p]),
                                      CountAfterLeaving(room[p]))
      BY <1>8 DEF JoinRoom
    <3>. QED  BY <1>g, <2>2, <3>1, AfterEntering
  <2>4. Members(General)' = IF General = r THEN (Members(General) \ {p}) \cup {p}
                                           ELSE Members(General) \ {p}
    BY <1>8, <2>1, MembersMoved DEF JoinRoom
  <2>5. Cardinality(Members(General)') =
            IF General = r THEN Cardinality(Members(General) \ {p}) + 1
                           ELSE Cardinality(Members(General) \ {p})
    BY <1>o, <2>1, <2>4
  <2>9. /\ CountAfterLeaving(room[p])[General] \in Int
        /\ CountAfterLeaving(room[p])[General]
               <= Cardinality(Members(General) \ {p}) - Cardinality(clients)
    BY <2>1, GeneralCountedOut
  <2>10. /\ Cardinality(Members(General) \ {p}) \in Nat
         /\ Cardinality(Members(General) \ {p}) <= Cardinality(Members(General))
         /\ Cardinality(clients \ {p}) = Cardinality(clients) - 1
    BY <2>1, <1>o
  <2>. QED  BY <1>m, <2>1, <2>3, <2>5, <2>9, <2>10
<1>9. ASSUME NEW p \in Pid, NEW r \in RoomName, JoinRefused(p, r)
      PROVE  count'[General] <= Cardinality(Members(General)') - Cardinality(clients')
  <2>1. p \in clients /\ clients' = clients /\ count' = CountAfterLeaving(room[p])
    BY <1>9 DEF JoinRefused
  <2>2. Members(General)' = Members(General)
    BY <1>9 DEF JoinRefused, Members
  <2>9. /\ CountAfterLeaving(room[p])[General] \in Int
        /\ CountAfterLeaving(room[p])[General]
               <= Cardinality(Members(General) \ {p}) - Cardinality(clients)
    BY <2>1, GeneralCountedOut
  <2>10. /\ Cardinality(Members(General) \ {p}) \in Nat
         /\ Cardinality(Members(General) \ {p}) <= Cardinality(Members(General))
         /\ Cardinality(clients \ {p}) = Cardinality(clients) - 1
    BY <2>1, <1>o
  <2>. QED  BY <1>m, <2>1, <2>2, <2>9, <2>10
<1>10. ASSUME NEW p \in Pid, NEW n \in NickName, ChangeNickname(p, n)
       PROVE  count'[General] <= Cardinality(Members(General)') - Cardinality(clients')
  BY <1>10, <1>c DEF ChangeNickname, Members
<1>11. CASE UNCHANGED vars
  BY <1>11, <1>c DEF vars, Members
<1>. QED
  BY <1>1, <1>2, <1>3, <1>4, <1>5, <1>6, <1>7, <1>8, <1>9, <1>10, <1>11 DEF Next

\* /list and /users never count a user in general (GeneralCountsNobody).
THEOREM GeneralNeverCounted == Spec => []GeneralCountsNobody
<1>1. Init => GeneralCountsNobody
  <2> SUFFICES ASSUME Init PROVE GeneralCountsNobody
    OBVIOUS
  <2>1. Members(General) = {} /\ clients = {} /\ count[General] = 0
    BY RoomAssumption DEF Init, Members
  <2>. QED  BY <2>1, FS_EmptySet DEF GeneralCountsNobody
<1>2. TypeOK /\ GeneralCountsNobody /\ [Next]_vars => GeneralCountsNobody'
  BY GeneralCountsNobodyStep
<1>. QED  BY <1>1, <1>2, TypeCorrect, PTL DEF Spec

-----------------------------------------------------------------------------
(* Nicknames.                                                              *)

\* Only "guest" is ever shared: the duplicate test of /nickname compares with
\* every other record, and a new record is always a guest (SharedNickIsGuest).
THEOREM NicknamesDistinct == Spec => []SharedNickIsGuest
<1>1. Init => SharedNickIsGuest
  BY DEF Init, SharedNickIsGuest
<1>2. TypeOK /\ SharedNickIsGuest /\ [Next]_vars => SharedNickIsGuest'
  <2> SUFFICES ASSUME TypeOK, SharedNickIsGuest, [Next]_vars,
                      NEW a \in clients', NEW b \in clients',
                      a # b, nick'[a] = nick'[b]
               PROVE  nick'[a] = Guest
    BY DEF SharedNickIsGuest
  <2>i. \A x, y \in clients : x # y /\ nick[x] = nick[y] => nick[x] = Guest
    BY DEF SharedNickIsGuest
  <2>p. clients \subseteq Pid
    BY LimitAssumption DEF TypeOK, Pid
  <2>1. CASE AddClient
    <3>1. forked + 1 \in Pid
      BY <2>1, LimitAssumption DEF AddClient, TypeOK, Pid
    <3>2. nick'[forked + 1] = Guest
      BY <2>1, <3>1 DEF AddClient, TypeOK
    <3>3. \A q \in clients \ {forked + 1} : nick'[q] = nick[q]
      BY <2>1, <2>p DEF AddClient, TypeOK
    <3>4. clients' = clients \cup {forked + 1}
      BY <2>1 DEF AddClient
    <3>5. CASE a = forked + 1 \/ b = forked + 1
      BY <3>2, <3>5
    <3>6. CASE a # forked + 1 /\ b # forked + 1
      <4>1. a \in clients /\ b \in clients /\ nick'[a] = nick[a] /\ nick'[b] = nick[b]
        BY <3>3, <3>4, <3>6
      <4>. QED  BY <2>i, <4>1
    <3>. QED  BY <3>5, <3>6
  <2>2. CASE AddClientFull
    BY <2>2, <2>i DEF AddClientFull
  <2>3. ASSUME NEW p \in Pid, RemoveClient(p) PROVE nick'[a] = Guest
    <3>1. \A q \in clients' : q \in clients /\ nick'[q] = nick[q]
      BY <2>3, <2>p DEF RemoveClient, TypeOK
    <3>. QED  BY <2>i, <3>1
  <2>4. ASSUME NEW p \in Pid, ReapUnrecorded(p) PROVE nick'[a] = Guest
    BY <2>4, <2>i DEF ReapUnrecorded
  <2>5. ASSUME NEW p \in Pid, LeaveRoom(p) PROVE nick'[a] = Guest
    BY <2>5, <2>i DEF LeaveRoom
  <2>6. ASSUME NEW p \in Pid, NEW r \in RoomName,
               AddRoom(p, r) \/ RemoveRoom(p, r) \/ JoinRoom(p, r) \/ JoinRefused(p, r)
        PROVE nick'[a] = Guest
    <3>1. nick' = nick /\ clients' = clients
      BY <2>6 DEF AddRoom, RemoveRoom, JoinRoom, JoinRefused
    <3>. QED  BY <2>i, <3>1
  <2>7. ASSUME NEW p \in Pid, NEW n \in NickName, ChangeNickname(p, n)
        PROVE nick'[a] = Guest
    <3>1. /\ nick'[p] = n
          /\ \A q \in clients \ {p} : nick'[q] = nick[q] /\ nick[q] # n
          /\ clients' = clients
      BY <2>7, <2>p DEF ChangeNickname, NickFree, TypeOK
    <3>2. a # p /\ b # p
      BY <3>1
    <3>. QED  BY <2>i, <3>1, <3>2
  <2>8. CASE UNCHANGED vars
    BY <2>8, <2>i DEF vars
  <2>. QED  BY <2>1, <2>2, <2>3, <2>4, <2>5, <2>6, <2>7, <2>8 DEF Next
<1>. QED  BY <1>1, <1>2, TypeCorrect, PTL DEF Spec

-----------------------------------------------------------------------------
(* While the room array cannot fill up, the counters are exact and the     *)
(* tables implement RoomDirectory.  The assumption that there are no more  *)
(* names than slots is part of every statement: with more names a refused  *)
(* join breaks the counters.                                               *)

\* A slot for every name users give.
SlotsForAll == Cardinality(RoomName) <= MaxRooms

\* What the implementation proof needs of the tables.
ExactTables == TypeOK /\ RecordsNameOpenRooms /\ ExactCounts

-----------------------------------------------------------------------------
\* With a slot for every name no join is refused.
LEMMA NeverRefused ==
    ASSUME SlotsForAll, TypeOK, NEW p \in Pid, NEW r \in RoomName
    PROVE  ~JoinRefused(p, r)
<1> SUFFICES ASSUME JoinRefused(p, r) PROVE FALSE
  OBVIOUS
<1> DEFINE left == RoomsAfterLeaving(room[p])
<1>1. room[p] \in RoomName
  BY DEF TypeOK
<1>2. left \subseteq rooms /\ IsFiniteSet(left) /\ Cardinality(left) \in Nat
  BY <1>1, AfterLeaving
<1>3. r \notin left /\ ~(Cardinality(left) < MaxRooms)
  BY DEF JoinRefused, CanEnter
<1>4. left \cup {r} \in SUBSET RoomName
  BY <1>2 DEF TypeOK
<1>5. /\ Cardinality(left \cup {r}) <= Cardinality(RoomName)
      /\ Cardinality(RoomName) \in Nat
  BY <1>4, RoomAssumption, FS_Subset, FS_CardinalityType
<1>6. Cardinality(left \cup {r}) = Cardinality(left) + 1
  BY <1>2, <1>3, OneElement
<1>. QED  BY <1>2, <1>3, <1>5, <1>6, LimitAssumption DEF SlotsForAll

\* Counted out of its room, p leaves behind a room whose counter is the number
\* of the others, and the room is gone exactly when there are no others.
LEMMA ExactlyCountedOut ==
    ASSUME ExactTables, NEW p \in clients
    PROVE  /\ room[p] \in rooms
           /\ \A s \in rooms \ {General} :
                 CountAfterLeaving(room[p])[s] = Cardinality(Members(s) \ {p})
           /\ \A s \in rooms : s \notin RoomsAfterLeaving(room[p]) <=>
                 s = room[p] /\ s # General /\ Members(s) \ {p} = {}
<1>1. room[p] \in rooms /\ room[p] \in RoomName
  BY LimitAssumption DEF ExactTables, RecordsNameOpenRooms, TypeOK, Pid
<1>2. \A s \in rooms : /\ IsFiniteSet(Members(s))
                       /\ Cardinality(Members(s)) \in Nat
                       /\ p \in Members(s) => Cardinality(Members(s) \ {p})
                                                  = Cardinality(Members(s)) - 1
  BY FiniteTables, OneElement DEF ExactTables
<1>3. p \in Members(room[p])
  BY DEF Members
<1>4. ASSUME NEW s \in rooms \ {General}
      PROVE  CountAfterLeaving(room[p])[s] = Cardinality(Members(s) \ {p})
  <2>1. /\ count[s] = Cardinality(Members(s)) /\ s \in RoomName
        /\ CountAfterLeaving(room[p])[s] =
               IF s = room[p] THEN count[s] - 1 ELSE count[s]
    BY <1>1, AfterLeaving DEF ExactTables, ExactCounts, TypeOK
  <2>2. CASE s = room[p]
    BY <1>2, <1>3, <2>1, <2>2
  <2>3. CASE s # room[p]
    <3>1. Members(s) \ {p} = Members(s)
      BY <2>3 DEF Members
    <3>. QED  BY <2>1, <2>3, <3>1
  <2>. QED  BY <2>2, <2>3
<1>5. ASSUME NEW s \in rooms
      PROVE  s \notin RoomsAfterLeaving(room[p]) <=>
                 s = room[p] /\ s # General /\ Members(s) \ {p} = {}
  <2>1. s \notin RoomsAfterLeaving(room[p]) <=>
            s = room[p] /\ s # General /\ count[s] = 1
    BY DEF RoomsAfterLeaving
  <2>2. ASSUME s = room[p], s # General
        PROVE  count[s] = 1 <=> Members(s) \ {p} = {}
    <3>1. count[s] = Cardinality(Members(s))
      BY <2>2 DEF ExactTables, ExactCounts
    <3>2. Cardinality(Members(s) \ {p}) = Cardinality(Members(s)) - 1
      BY <1>2, <1>3, <2>2
    <3>3. IsFiniteSet(Members(s) \ {p})
      BY <1>2, FS_RemoveElement
    <3>4. Cardinality(Members(s) \ {p}) = 0 <=> Members(s) \ {p} = {}
      BY <3>3, FS_EmptySet
    <3>. QED  BY <1>2, <3>1, <3>2, <3>4
  <2>. QED  BY <2>1, <2>2
<1>. QED  BY <1>1, <1>4, <1>5

\* The same for a client that enters r next.
LEMMA ExactlyMoved ==
    ASSUME ExactTables, NEW p \in clients, NEW r \in RoomName,
           clients' = clients,
           room' = [room EXCEPT ![p] = r],
           rooms' = RoomsAfterLeaving(room[p]) \cup {r},
           \A s \in RoomName \ {General} : count'[s] =
               IF s # r THEN CountAfterLeaving(room[p])[s]
               ELSE IF r \in RoomsAfterLeaving(room[p])
                    THEN CountAfterLeaving(room[p])[r] + 1 ELSE 1
    PROVE  RecordsNameOpenRooms' /\ ExactCounts'
<1> DEFINE left == RoomsAfterLeaving(room[p])
<1>t. TypeOK
  BY DEF ExactTables
<1>p. clients \subseteq Pid
  BY LimitAssumption DEF ExactTables, TypeOK, Pid
<1>l. left \subseteq rooms /\ room[p] \in rooms /\ rooms \subseteq RoomName
  <2>1. room[p] \in RoomName
    BY <1>p DEF ExactTables, TypeOK
  <2>. QED  BY <1>t, <2>1, AfterLeaving, ExactlyCountedOut DEF TypeOK
<1>m. \A s : Members(s)' = IF s = r THEN (Members(s) \ {p}) \cup {p}
                                    ELSE Members(s) \ {p}
  BY <1>t, MembersMoved
<1>1. RecordsNameOpenRooms'
  <2> SUFFICES ASSUME NEW q \in clients PROVE room'[q] \in rooms'
    BY DEF RecordsNameOpenRooms
  <2>1. CASE q = p
    BY <1>p, <2>1 DEF ExactTables, TypeOK
  <2>2. CASE q # p
    <3>1. room'[q] = room[q] /\ room[q] \in rooms /\ q \in Members(room[q]) \ {p}
      BY <1>p, <2>2 DEF ExactTables, RecordsNameOpenRooms, TypeOK, Members
    <3>2. room[q] \in left
      BY <3>1, ExactlyCountedOut
    <3>. QED  BY <3>1, <3>2
  <2>. QED  BY <2>1, <2>2
<1>2. ExactCounts'
  <2> SUFFICES ASSUME NEW s \in rooms' \ {General}
               PROVE  count'[s] = Cardinality(Members(s)')
    BY DEF ExactCounts
  <2>s. s \in RoomName /\ (s # r => s \in left)
    BY <1>l
  <2>1. /\ IsFiniteSet(Members(s) \ {p})
        /\ Cardinality(Members(s) \ {p}) \in Nat
        /\ Cardinality((Members(s) \ {p}) \cup {p}) = Cardinality(Members(s) \ {p}) + 1
    <3>1. IsFiniteSet(Members(s) \ {p})
      BY <1>t, FiniteTables, FS_RemoveElement
    <3>. QED  BY <3>1, OneElement
  <2>2. CASE s # r
    <3>1. count'[s] = Cardinality(Members(s) \ {p})
      BY <1>l, <2>s, <2>2, ExactlyCountedOut
    <3>2. Members(s)' = Members(s) \ {p}
      BY <1>m, <2>2
    <3>. QED  BY <3>1, <3>2
  <2>3. CASE s = r
    <3>1. Cardinality(Members(s)') = Cardinality(Members(s) \ {p}) + 1
      BY <1>m, <2>1, <2>3
    <3>2. CASE s \in left
      <4>1. CountAfterLeaving(room[p])[s] = Cardinality(Members(s) \ {p})
        BY <1>l, <3>2, ExactlyCountedOut
      <4>2. count'[s] = CountAfterLeaving(room[p])[s] + 1
        BY <2>3, <2>s, <3>2
      <4>. QED  BY <3>1, <4>1, <4>2
    <3>3. CASE s \notin left
      <4>1. count'[s] = 1
        BY <2>3, <2>s, <3>3
      <4>2. Members(s) \ {p} = {}
        <5>1. CASE s \in rooms
          BY <3>3, <5>1, ExactlyCountedOut
        <5>2. CASE s \notin rooms
          BY <5>2 DEF ExactTables, RecordsNameOpenRooms, Members
        <5>. QED  BY <5>1, <5>2
      <4>3. Cardinality(Members(s) \ {p}) = 0
        BY <4>2, FS_EmptySet
      <4>. QED  BY <3>1, <4>1, <4>3
    <3>. QED  BY <3>2, <3>3
  <2>. QED  BY <2>2, <2>3
<1>. QED  BY <1>1, <1>2
-----------------------------------------------------------------------------
(* The counters stay exact.                                                *)

LEMMA ExactTablesStep ==
    ASSUME SlotsForAll, ExactTables, [Next]_vars
    PROVE  RecordsNameOpenRooms' /\ ExactCounts'
<1>t. TypeOK /\ General \in rooms /\ rooms \subseteq RoomName /\ General \in RoomName
  BY RoomAssumption DEF ExactTables, TypeOK
<1>p. clients \subseteq Pid
  BY LimitAssumption DEF ExactTables, TypeOK, Pid
<1>e. /\ \A q \in clients : room[q] \in rooms
      /\ \A s \in rooms \ {General} : count[s] = Cardinality(Members(s))
  BY DEF ExactTables, RecordsNameOpenRooms, ExactCounts
<1>u. ASSUME clients' = clients, room' = room, rooms' = rooms, count' = count
      PROVE  RecordsNameOpenRooms' /\ ExactCounts'
  BY <1>e, <1>u DEF RecordsNameOpenRooms, ExactCounts, Members
<1>1. CASE AddClient
  <2>1. \A q \in clients' : room'[q] \in rooms'
    <3>1. clients' = clients \cup {forked + 1} /\ rooms' = rooms
      BY <1>1 DEF AddClient
    <3>2. \A q \in clients : room'[q] = room[q]
      BY <1>1, <1>t, <1>p, MembersArrived DEF AddClient, TypeOK
    <3>3. room'[forked + 1] = General
      BY <1>1, <1>t, LimitAssumption DEF AddClient, TypeOK, Pid
    <3>. QED  BY <1>t, <1>e, <3>1, <3>2, <3>3
  <2>2. \A s \in rooms \ {General} : Members(s)' = Members(s)
    BY <1>1, <1>t, MembersArrived
  <2>3. rooms' = rooms /\ count' = count
    BY <1>1 DEF AddClient
  <2>. QED  BY <1>e, <2>1, <2>2, <2>3 DEF RecordsNameOpenRooms, ExactCounts
<1>2. CASE AddClientFull
  BY <1>2, <1>u DEF AddClientFull
<1>3. ASSUME NEW p \in Pid, RemoveClient(p)
      PROVE  RecordsNameOpenRooms' /\ ExactCounts'
  <2>1. /\ p \in clients /\ clients' = clients \ {p}
        /\ rooms' = RoomsAfterLeaving(room[p])
        /\ count' = CountAfterLeaving(room[p])
        /\ room[p] \in RoomName
    BY <1>3, <1>t DEF RemoveClient, TypeOK
  <2>2. \A q \in clients' : room'[q] = room[q]
    BY <1>3, <1>p, <1>t DEF RemoveClient, TypeOK
  <2>3. ASSUME NEW q \in clients' PROVE room'[q] \in rooms'
    <3>1. room[q] \in rooms /\ q \in Members(room[q]) \ {p}
      BY <1>e, <2>1 DEF Members
    <3>2. room[q] \in RoomsAfterLeaving(room[p])
      BY <2>1, <3>1, ExactlyCountedOut
    <3>. QED  BY <2>1, <2>2, <3>2
  <2>4. ASSUME NEW s \in rooms' \ {General} PROVE count'[s] = Cardinality(Members(s)')
    <3>1. s \in rooms
      BY <1>t, <2>1, AfterLeaving
    <3>2. Members(s)' = Members(s) \ {p}
      BY <1>3, <1>t, MembersRemoved
    <3>. QED  BY <2>1, <3>1, <3>2, ExactlyCountedOut
  <2>. QED  BY <2>3, <2>4 DEF RecordsNameOpenRooms, ExactCounts
<1>4. ASSUME NEW p \in Pid, ReapUnrecorded(p)
      PROVE  RecordsNameOpenRooms' /\ ExactCounts'
  BY <1>4, <1>u DEF ReapUnrecorded
<1>5. ASSUME NEW p \in Pid, LeaveRoom(p)
      PROVE  RecordsNameOpenRooms' /\ ExactCounts'
  <2>1. p \in clients /\ room[p] \in RoomName /\ room[p] # General
    BY <1>5, <1>t DEF LeaveRoom, TypeOK
  <2>2. /\ General \in RoomsAfterLeaving(room[p])
        /\ CountAfterLeaving(room[p]) \in [RoomName -> Int]
    BY <1>t, <2>1, AfterLeaving
  <2>3. /\ clients' = clients /\ room' = [room EXCEPT ![p] = General]
        /\ rooms' = RoomsAfterLeaving(room[p]) \cup {General}
    BY <1>5, <2>2 DEF LeaveRoom
  <2>4. \A s \in RoomName \ {General} : count'[s] = CountAfterLeaving(room[p])[s]
    BY <1>5, <2>2 DEF LeaveRoom
  <2>. QED  BY <1>t, <2>1, <2>3, <2>4, ExactlyMoved
<1>6. ASSUME NEW p \in Pid, NEW r \in RoomName, AddRoom(p, r)
      PROVE  RecordsNameOpenRooms' /\ ExactCounts'
  <2>1. /\ clients' = clients /\ room' = room
        /\ r \notin rooms /\ rooms' = rooms \cup {r}
        /\ \A s \in RoomName : count'[s] = IF s = r THEN 0 ELSE count[s]
    BY <1>6, <1>t DEF AddRoom, TypeOK
  <2>2. \A s : Members(s)' = Members(s)
    BY <2>1 DEF Members
  <2>3. Members(r) = {}
    BY <1>e, <2>1 DEF Members
  <2>4. Cardinality(Members(r)) = 0
    BY <2>3, FS_EmptySet
  <2>5. \A s \in rooms' \ {General} : count'[s] = Cardinality(Members(s)')
    BY <1>e, <1>t, <2>1, <2>2, <2>4
  <2>. QED  BY <1>e, <2>1, <2>5 DEF RecordsNameOpenRooms, ExactCounts
<1>7. ASSUME NEW p \in Pid, NEW r \in RoomName, RemoveRoom(p, r)
      PROVE  RecordsNameOpenRooms' /\ ExactCounts'
  <2>1. /\ clients' = clients /\ room' = room
        /\ r \in rooms \ {General} /\ rooms' = rooms \ {r} /\ count[r] <= 0
        /\ \A s \in RoomName \ {r} : count'[s] = count[s]
    BY <1>7, <1>t DEF RemoveRoom, CountedEmpty, TypeOK
  <2>2. \A s : Members(s)' = Members(s)
    BY <2>1 DEF Members
  <2>3. Members(r) = {}
    <3>1. IsFiniteSet(Members(r))
      BY <1>t, FiniteTables
    <3>2. /\ Cardinality(Members(r)) \in Nat
          /\ Cardinality(Members(r)) = 0 <=> Members(r) = {}
      BY <3>1, FS_CardinalityType, FS_EmptySet
    <3>. QED  BY <1>e, <2>1, <3>2
  <2>4. \A q \in clients' : room'[q] \in rooms'
    BY <1>e, <2>1, <2>3 DEF Members
  <2>5. \A s \in rooms' \ {General} : count'[s] = Cardinality(Members(s)')
    BY <1>e, <1>t, <2>1, <2>2
  <2>. QED  BY <2>4, <2>5 DEF RecordsNameOpenRooms, ExactCounts
<1>8. ASSUME NEW p \in Pid, NEW r \in RoomName, JoinRoom(p, r)
      PROVE  RecordsNameOpenRooms' /\ ExactCounts'
  <2>1. p \in clients /\ room[p] \in RoomName
    BY <1>8, <1>t DEF JoinRoom, TypeOK
  <2>2. CountAfterLeaving(room[p]) \in [RoomName -> Int]
    BY <1>t, <2>1, AfterLeaving
  <2>3. /\ clients' = clients /\ room' = [room EXCEPT ![p] = r]
        /\ rooms' = RoomsAfterLeaving(room[p]) \cup {r}
        /\ count' = CountAfterEntering(r, RoomsAfterLeaving(room[p]),
                                       CountAfterLeaving(room[p]))
    BY <1>8 DEF JoinRoom
  <2>4. \A s \in RoomName \ {General} : count'[s] =
            IF s # r THEN CountAfterLeaving(room[p])[s]
            ELSE IF r \in RoomsAfterLeaving(room[p])
                 THEN CountAfterLeaving(room[p])[r] + 1 ELSE 1
    BY <2>2, <2>3, AfterEntering
  <2>. QED  BY <2>1, <2>3, <2>4, ExactlyMoved
<1>9. ASSUME NEW p \in Pid, NEW r \in RoomName, JoinRefused(p, r)
      PROVE  RecordsNameOpenRooms' /\ ExactCounts'
  BY <1>9, <1>t, NeverRefused
<1>10. ASSUME NEW p \in Pid, NEW n \in NickName, ChangeNickname(p, n)
       PROVE  RecordsNameOpenRooms' /\ ExactCounts'
  BY <1>10, <1>u DEF ChangeNickname
<1>11. CASE UNCHANGED vars
  BY <1>11, <1>u DEF vars
<1>. QED
  BY <1>1, <1>2, <1>3, <1>4, <1>5, <1>6, <1>7, <1>8, <1>9, <1>10, <1>11 DEF Next

\* With a slot for every name, records name existing rooms and every counter
\* but general's is the number of records (RecordsNameOpenRooms, ExactCounts).
THEOREM CountersExact ==
    ASSUME SlotsForAll
    PROVE  Spec => [](RecordsNameOpenRooms /\ ExactCounts)
<1>1. Init => RecordsNameOpenRooms /\ ExactCounts
  BY DEF Init, RecordsNameOpenRooms, ExactCounts
<1>2. TypeOK /\ (RecordsNameOpenRooms /\ ExactCounts) /\ [Next]_vars
          => (RecordsNameOpenRooms /\ ExactCounts)'
  BY ExactTablesStep DEF ExactTables
<1>. QED  BY <1>1, <1>2, TypeCorrect, PTL DEF Spec

-----------------------------------------------------------------------------
(* The tables implement the directory of rooms.                            *)

\* The room p leaves closes in the array exactly when the directory closes it.
LEMMA ClosesBehind ==
    ASSUME ExactTables, NEW p \in clients
    PROVE  RoomsAfterLeaving(room[p]) = Directory!OpenWithout(p)
<1>1. /\ room[p] \in rooms
      /\ room[p] \notin RoomsAfterLeaving(room[p]) <=>
             room[p] # General /\ Members(room[p]) \ {p} = {}
  BY ExactlyCountedOut
<1>2. Directory!Occupied(room[p], clients \ {p}) <=> Members(room[p]) \ {p} # {}
  BY DEF Directory!Occupied, Members
<1>3. \/ RoomsAfterLeaving(room[p]) = rooms
      \/ RoomsAfterLeaving(room[p]) = rooms \ {room[p]}
  BY DEF RoomsAfterLeaving
<1>. QED  BY <1>1, <1>2, <1>3 DEF Directory!OpenWithout

\* Every step of the tables is a step of the directory or changes nothing in
\* it.
LEMMA DirectoryStep ==
    ASSUME SlotsForAll, ExactTables, [Next]_vars
    PROVE  [Directory!Next]_(Directory!directory)
<1>t. TypeOK
  BY DEF ExactTables
<1>p. clients \subseteq Pid
  BY LimitAssumption DEF ExactTables, TypeOK, Pid
<1>1. CASE AddClient
  <2>1. forked + 1 \notin clients /\ forked + 1 \in Pid
    BY <1>1, LimitAssumption DEF AddClient, ExactTables, TypeOK, Pid
  <2>2. Directory!Arrive(forked + 1)
    BY <1>1, <2>1 DEF AddClient, Directory!Arrive
  <2>. QED  BY <2>1, <2>2 DEF Directory!Next
<1>2. CASE AddClientFull
  BY <1>2 DEF AddClientFull, Directory!directory
<1>3. ASSUME NEW p \in Pid, RemoveClient(p) PROVE Directory!Next
  <2>1. Directory!Depart(p)
    BY <1>3, ClosesBehind DEF RemoveClient, Directory!Depart
  <2>. QED  BY <2>1 DEF Directory!Next
<1>4. ASSUME NEW p \in Pid, ReapUnrecorded(p) PROVE UNCHANGED Directory!directory
  BY <1>4 DEF ReapUnrecorded, Directory!directory
<1>5. ASSUME NEW p \in Pid, LeaveRoom(p) PROVE Directory!Next
  <2>1. p \in clients /\ room[p] \in RoomName
    BY <1>5, <1>t DEF LeaveRoom, TypeOK
  <2>2. General \in RoomsAfterLeaving(room[p])
    BY <1>t, <2>1, AfterLeaving
  <2>3. Directory!Move(p, General)
    BY <1>5, <2>1, <2>2, ClosesBehind DEF LeaveRoom, Directory!Move
  <2>. QED  BY <2>3, RoomAssumption DEF Directory!Next
<1>6. ASSUME NEW p \in Pid, NEW r \in RoomName, AddRoom(p, r) PROVE Directory!Next
  <2>1. Directory!OpenRoom(r)
    BY <1>6 DEF AddRoom, Directory!OpenRoom
  <2>. QED  BY <2>1 DEF Directory!Next
<1>7. ASSUME NEW p \in Pid, NEW r \in RoomName, RemoveRoom(p, r) PROVE Directory!Next
  <2>1. Cardinality(Members(r)) <= 0
    BY <1>7 DEF RemoveRoom, CountedEmpty, ExactTables, ExactCounts
  <2>2. Members(r) = {}
    <3>1. IsFiniteSet(Members(r))
      BY <1>t, FiniteTables
    <3>2. /\ Cardinality(Members(r)) \in Nat
          /\ Cardinality(Members(r)) = 0 <=> Members(r) = {}
      BY <3>1, FS_CardinalityType, FS_EmptySet
    <3>. QED  BY <2>1, <3>2
  <2>3. Directory!CloseRoom(r)
    BY <1>7, <2>2 DEF RemoveRoom, Members, Directory!CloseRoom, Directory!Occupied
  <2>. QED  BY <2>3 DEF Directory!Next
<1>8. ASSUME NEW p \in Pid, NEW r \in RoomName, JoinRoom(p, r) PROVE Directory!Next
  <2>1. Directory!Move(p, r)
    BY <1>8, ClosesBehind DEF JoinRoom, Directory!Move
  <2>. QED  BY <2>1 DEF Directory!Next
<1>9. ASSUME NEW p \in Pid, NEW r \in RoomName PROVE ~JoinRefused(p, r)
  BY <1>t, NeverRefused
<1>10. ASSUME NEW p \in Pid, NEW n \in NickName, ChangeNickname(p, n)
       PROVE UNCHANGED Directory!directory
  BY <1>10 DEF ChangeNickname, Directory!directory
<1>11. CASE UNCHANGED vars
  BY <1>11 DEF vars, Directory!directory
<1>. QED
  BY <1>1, <1>2, <1>3, <1>4, <1>5, <1>6, <1>7, <1>8, <1>9, <1>10, <1>11 DEF Next

\* With a slot for every name the parent's tables implement the directory of
\* rooms (ImplementsDirectory).
THEOREM RegistryImplementsDirectory ==
    ASSUME SlotsForAll
    PROVE  Spec => ImplementsDirectory
<1>1. Init => Directory!Init
  BY DEF Init, Directory!Init
<1>2. TypeOK /\ (RecordsNameOpenRooms /\ ExactCounts) /\ [Next]_vars
          => [Directory!Next]_(Directory!directory)
  BY DirectoryStep DEF ExactTables
<1>. QED
  BY <1>1, <1>2, TypeCorrect, CountersExact, PTL
     DEF Spec, ImplementsDirectory, Directory!Spec
=============================================================================
