--------------------------- MODULE Server17Proofs ---------------------------
(***************************************************************************)
(* Proofs about Server17: a free descriptor number is always found, the    *)
(* types, every live child has its slot, the limit on children, and every  *)
(* pipe end the parent has open is named.                                  *)
(***************************************************************************)
EXTENDS Server17, FiniteSetTheorems, TLAPS

-----------------------------------------------------------------------------
(* Numbers.                                                                *)

\* The least of some numbers.
LEMMA Least ==
    ASSUME NEW S \in SUBSET Nat, S # {}
    PROVE  \E x \in S : \A y \in S : x <= y
<1> DEFINE R == OpToRel(<, Nat)
<1>1. IsWellFoundedOn(R, Nat)
  BY NatLessThanWellFounded
<1>2. \A x, y \in Nat : x < y => <<x, y>> \in R
  BY DEF OpToRel
<1> HIDE DEF R
<1>3. PICK x \in S : \A y \in S : ~(<<y, x>> \in R)
  BY <1>1, WFMin
<1>4. ASSUME NEW y \in S PROVE x <= y
  <2>1. x \in Nat /\ y \in Nat
    OBVIOUS
  <2>2. ~(y < x)
    BY <1>2, <1>3, <2>1
  <2>3. QED  BY <2>1, <2>2
<1>5. QED  BY <1>4

\* A set of numbers smaller than Fd leaves one of Fd out.
LEMMA SomeLeft ==
    ASSUME NEW S \in SUBSET Fd, Cardinality(S) < 4 * MaxConn + 3
    PROVE  \E f \in Fd : f \notin S
<1>1. IsFiniteSet(Fd) /\ Cardinality(Fd) = 4 * MaxConn + 3
  BY FS_Interval, Server17Assumption DEF Fd
<1>2. S # Fd
  BY <1>1, Server17Assumption
<1>3. QED  BY <1>2

LEMMA OneMore ==
    ASSUME NEW S, NEW x, IsFiniteSet(S)
    PROVE  /\ IsFiniteSet(S \cup {x})
           /\ Cardinality(S) \in Nat /\ Cardinality(S \cup {x}) \in Nat
           /\ Cardinality(S \cup {x}) <= Cardinality(S) + 1
<1>1. IsFiniteSet(S \cup {x})
      /\ Cardinality(S \cup {x}) = IF x \in S THEN Cardinality(S) ELSE Cardinality(S) + 1
  BY FS_AddElement
<1>2. Cardinality(S) \in Nat
  BY FS_CardinalityType
<1>3. QED  BY <1>1, <1>2

\* The number that is handed out is free.
LEMMA LowestIsFree ==
    ASSUME NEW table, \E f \in Fd : table[f] = Free
    PROVE  LowestFree(table) \in Fd /\ table[LowestFree(table)] = Free
<1> DEFINE S == {f \in Fd : table[f] = Free}
<1>1. S \in SUBSET Nat /\ S # {} /\ Fd \subseteq Nat
  BY Server17Assumption DEF Fd
<1>2. PICK f \in S : \A g \in S : f <= g
  BY <1>1, Least
<1>3. \A g \in 0..f - 1 : g \in Fd /\ g \notin S
  BY <1>1, <1>2, Server17Assumption DEF Fd
<1>4. f \in Fd /\ table[f] = Free /\ \A g \in 0..f - 1 : table[g] # Free
  BY <1>2, <1>3
<1>5. QED  BY <1>4 DEF LowestFree

\* The free slot a connection gets.
LEMMA FirstFreeSlot ==
    ASSUME Active # Slots
    PROVE  (CHOOSE h \in Slots \ Active : \A g \in Slots \ Active : h <= g)
               \in Slots \ Active
<1>1. Slots \ Active \in SUBSET Nat /\ Slots \ Active # {}
  BY Server17Assumption DEF Slots, Active
<1>2. QED  BY <1>1, Least

-----------------------------------------------------------------------------
(* Types.                                                                  *)

Ends == [kind : {"free", "terminal", "listen", "sock", "toR", "toW", "fromR", "fromW"},
         conn : 0..MaxConn]
Slot == [pid : 0..MaxConn, sock : Fd, toR : Fd, toW : Fd, fromR : Fd, fromW : Fd,
         active : BOOLEAN]
Status == {"none", "nick", "serve", "zombie", "reaped"}

\* A connection is being set up.
Setup == {"choose", "pipe", "pipe2", "fork", "close", "record"}
Chosen == Setup \ {"choose"}

\* The numbers in use, but for the terminal's and conn_sock's.
Used(table, but) == {f \in Fd : f # 0 /\ f # but /\ table[f] # Free}

\* How many of them there may be: four for each connection that was set up,
\* whether that failed or not, and those of the one being set up.
UsedBound ==
    1 + (IF pc \notin Setup THEN 4 * accepted
         ELSE 4 * (accepted - 1)
              + (IF pc \in {"choose", "pipe"} THEN 0 ELSE IF pc = "pipe2" THEN 2 ELSE 4))

FdInv ==
    /\ fds \in [Fd -> Ends]
    /\ fds[0] = End("terminal", 0)
    /\ \A f \in Fd : f # 0 => fds[f].kind # "terminal"
    /\ \A h \in Active : 0 \notin ClosedByRemove(h)
    /\ Cardinality(Used(fds, conn)) <= UsedBound

SetupInv ==
    /\ IF pc \in Setup THEN cur = accepted /\ accepted > 0 /\ conn # 0
                       ELSE cur = 0 /\ conn = 0
    /\ pc \in {"pipe2", "fork", "close", "record"} => slot[s].toR # 0 /\ slot[s].toW # 0
    /\ pc \in {"fork", "close", "record"} => slot[s].fromR # 0 /\ slot[s].fromW # 0
    /\ pc = "record" => fds[conn] = Free
    /\ pc \in Chosen => s \notin Active

\* The parent's and the handler's loops, and the slot the handler will free.
TellInv ==
    /\ named \subseteq Slots /\ at \in 0..MaxClients /\ notice \in 0..MaxClients
    /\ leaving \in 0..MaxClients /\ sent \in 0..MaxSend
    /\ leaving # NoSlot => leaving \in Active

RangeInv ==
    /\ TypeOK
    /\ accepted \in Nat /\ backlog \in Nat /\ accepted + backlog <= MaxConn
    /\ FdInv /\ SetupInv /\ TellInv

\* One number more is in use.
LEMMA OneMoreUsed ==
    ASSUME NEW table \in [Fd -> Ends], NEW but, NEW end \in Ends, end # Free,
           Cardinality(Used(table, but)) <= 4 * MaxConn
    PROVE  LET f == LowestFree(table) IN
           /\ f \in Fd /\ table[f] = Free
           /\ Opened(table, end) \in [Fd -> Ends]
           /\ Opened(table, end) = [table EXCEPT ![f] = end]
           /\ Used(Opened(table, end), but) \subseteq Used(table, but) \cup {f}
           /\ Cardinality(Used(Opened(table, end), but)) <= Cardinality(Used(table, but)) + 1
<1> DEFINE U == Used(table, but)
           V == U \cup {0} \cup {but}
           f == LowestFree(table)
           W == Used(Opened(table, end), but)
<1>1. IsFiniteSet(Fd)
  BY FS_Interval, Server17Assumption DEF Fd
<1>2. IsFiniteSet(U) /\ Cardinality(U) \in Nat
  BY <1>1, FS_Subset, FS_CardinalityType DEF Used
<1>3. IsFiniteSet(V) /\ Cardinality(V) <= Cardinality(U) + 2 /\ Cardinality(V) \in Nat
  <2> HIDE DEF U
  <2>1. IsFiniteSet(U \cup {0}) /\ Cardinality(U \cup {0}) <= Cardinality(U) + 1
        /\ Cardinality(U \cup {0}) \in Nat
    BY <1>2, OneMore
  <2>2. IsFiniteSet(V) /\ Cardinality(V) <= Cardinality(U \cup {0}) + 1
        /\ Cardinality(V) \in Nat
    BY <2>1, OneMore
  <2> HIDE DEF V
  <2>3. QED  BY <1>2, <2>1, <2>2
<1>4. V \cap Fd \in SUBSET V /\ V \cap Fd \in SUBSET Fd
  OBVIOUS
<1>5. Cardinality(V \cap Fd) <= Cardinality(V) /\ Cardinality(V \cap Fd) \in Nat
  BY <1>3, <1>4, FS_Subset, FS_CardinalityType
<1>6. Cardinality(V \cap Fd) < 4 * MaxConn + 3
  BY <1>2, <1>3, <1>5, Server17Assumption
<1>7. PICK g \in Fd : g \notin V \cap Fd
  BY <1>4, <1>6, SomeLeft
<1>8. table[g] = Free
  BY <1>7 DEF Used
<1>9. f \in Fd /\ table[f] = Free
  BY <1>8, LowestIsFree
<1>10. Opened(table, end) = [table EXCEPT ![f] = end]
  BY DEF Opened
<1>11. Opened(table, end) \in [Fd -> Ends]
  BY <1>9, <1>10
<1>12. W \subseteq U \cup {f}
  BY <1>9, <1>10 DEF Used
<1>13. IsFiniteSet(U \cup {f}) /\ Cardinality(U \cup {f}) <= Cardinality(U) + 1
       /\ Cardinality(U \cup {f}) \in Nat
  <2> HIDE DEF U, f
  <2>1. QED  BY <1>2, OneMore
<1>14. Cardinality(W) <= Cardinality(U \cup {f}) /\ Cardinality(W) \in Nat
  BY <1>12, <1>13, FS_Subset, FS_CardinalityType
<1>15. Cardinality(W) <= Cardinality(U) + 1
  BY <1>2, <1>13, <1>14
<1> HIDE DEF U, V, W, f
<1>16. QED  BY <1>9, <1>10, <1>11, <1>12, <1>15 DEF U, W, f

LEMMA BoundIsNumber == accepted \in Nat => UsedBound \in Int
BY DEF UsedBound

\* Numbers that are closed are not in use.
LEMMA FewerUsed ==
    ASSUME NEW table, NEW but, NEW other, NEW more,
           Used(other, more) \subseteq Used(table, but)
    PROVE  /\ Cardinality(Used(other, more)) <= Cardinality(Used(table, but))
           /\ Cardinality(Used(other, more)) \in Nat
           /\ Cardinality(Used(table, but)) \in Nat
<1>1. IsFiniteSet(Fd)
  BY FS_Interval, Server17Assumption DEF Fd
<1>2. IsFiniteSet(Used(table, but)) /\ IsFiniteSet(Used(other, more))
  BY <1>1, FS_Subset DEF Used
<1>3. QED  BY <1>2, FS_Subset, FS_CardinalityType

LEMMA ClosedRange ==
    ASSUME FdInv, NEW numbers, 0 \notin numbers
    PROVE  /\ ClosedAll(numbers) \in [Fd -> Ends]
           /\ ClosedAll(numbers)[0] = End("terminal", 0)
           /\ \A f \in Fd : f # 0 => ClosedAll(numbers)[f].kind # "terminal"
           /\ \A f \in Fd : ClosedAll(numbers)[f] = Free \/ ClosedAll(numbers)[f] = fds[f]
           /\ \A but : Used(ClosedAll(numbers), but) \subseteq Used(fds, but)
           /\ \A f \in numbers \cap Fd : ClosedAll(numbers)[f] = Free
<1>1. Free \in Ends /\ Free.kind = "free" /\ 0 \in Fd
  BY Server17Assumption DEF Free, End, Ends, Fd
<1>2. QED  BY <1>1 DEF FdInv, ClosedAll, Used

LEMMA RangeInit == Init => RangeInv
<1> SUFFICES ASSUME Init PROVE RangeInv
  OBVIOUS
<1> USE Server17Assumption
<1>1. 0 \in Fd /\ 0 \in Slots /\ 0 \in 0..MaxConn
  BY DEF Fd, Slots
<1>2. TypeOK
  <2>1. slot \in [Slots -> Slot]
    BY <1>1 DEF Init, Unused, Slot
  <2>2. \A f \in Fd : fds[f].conn \in 0..MaxConn
    BY <1>1 DEF Init, End, Free
  <2>3. QED  BY <1>1, <2>1, <2>2 DEF Init, TypeOK, Slot, NoSlot
<1>3. fds \in [Fd -> Ends] /\ fds[0] = End("terminal", 0)
      /\ \A f \in Fd : f # 0 => fds[f].kind # "terminal"
  BY <1>1 DEF Init, End, Free, Ends
<1>4. Active = {}
  BY DEF Init, Active, Unused
<1>5. Cardinality(Used(fds, conn)) <= UsedBound
  <2>1. Used(fds, conn) \subseteq {1}
    BY DEF Init, Used, Fd
  <2>2. IsFiniteSet({1}) /\ Cardinality({1}) = 1
    BY FS_Singleton
  <2>3. Cardinality(Used(fds, conn)) <= 1
    BY <2>1, <2>2, FS_Subset
  <2>4. UsedBound = 1
    BY DEF Init, UsedBound, Setup
  <2>5. QED  BY <2>3, <2>4
<1>6. SetupInv
  BY DEF Init, SetupInv, Setup, Chosen
<1>7. TellInv /\ accepted \in Nat /\ backlog \in Nat /\ accepted + backlog <= MaxConn
  BY DEF Init, TellInv, NoSlot
<1>8. QED  BY <1>2, <1>3, <1>4, <1>5, <1>6, <1>7 DEF RangeInv, FdInv

\* A step that changes neither the descriptors nor the array nor what is set up.
LEMMA TableKept ==
    ASSUME FdInv, SetupInv, UNCHANGED <<fds, slot, conn, cur, accepted>>,
           \/ pc' = pc /\ s' = s
           \/ pc \notin Setup /\ pc' \notin Setup
           \/ pc = "fork" /\ pc' = "close" /\ s' = s
    PROVE  FdInv' /\ SetupInv'
<1>1. Active' = Active /\ \A h \in Active : ClosedByRemove(h)' = ClosedByRemove(h)
  BY DEF Active, ClosedByRemove, EndsOf
<1>2. UsedBound' = UsedBound
  BY DEF UsedBound, Setup
<1>3. FdInv'
  BY <1>1, <1>2 DEF FdInv, Used
<1>4. SetupInv'
  BY <1>1 DEF SetupInv, Setup, Chosen
<1>5. QED  BY <1>3, <1>4

LEMMA FreedSlot ==
    ASSUME NEW r \in Slot, NEW q, q = [r EXCEPT !.active = FALSE, !.pid = 0]
    PROVE  q \in Slot
<1>1. [r EXCEPT !.active = FALSE] \in Slot
  BY DEF Slot
<1>2. \A t \in Slot : [t EXCEPT !.pid = 0] \in Slot
  BY Server17Assumption DEF Slot
<1>3. q = [[r EXCEPT !.active = FALSE] EXCEPT !.pid = 0]
  OBVIOUS
<1>4. QED  BY <1>1, <1>2, <1>3

\* The array when some slots are freed.
Freed(freed) ==
    [h \in Slots |-> IF h \in freed THEN [slot[h] EXCEPT !.active = FALSE, !.pid = 0]
                                    ELSE slot[h]]

\* Slots are freed and their numbers are closed.
LEMMA FreedRange ==
    ASSUME RangeInv, NEW freed \in SUBSET Active, NEW numbers,
           numbers \subseteq (UNION {ClosedByRemove(h) : h \in freed}) \cup {1},
           fds' = ClosedAll(numbers),
           slot' = Freed(freed),
           UNCHANGED <<setup, accepted>>,
           pc' = pc \/ (pc \notin Setup /\ pc' \notin Setup)
    PROVE  FdInv' /\ SetupInv' /\ slot' \in [Slots -> Slot]
<1> USE Server17Assumption DEF RangeInv
<1>1. 0 \notin numbers
  <2>1. \A h \in freed : 0 \notin ClosedByRemove(h)
    BY DEF FdInv
  <2> DEFINE U == UNION {ClosedByRemove(h) : h \in freed}
  <2>2. 0 \notin U
    BY <2>1
  <2>3. numbers \subseteq U \cup {1}
    OBVIOUS
  <2> HIDE DEF U
  <2>4. ASSUME NEW f \in numbers PROVE f # 0
    <3>1. f \in U \/ f = 1
      BY <2>3
    <3>2. QED  BY <2>2, <3>1
  <2>5. QED  BY <2>4
<1>2. slot \in [Slots -> Slot]
  BY DEF TypeOK, Slot
<1>3. /\ slot' \in [Slots -> Slot]
      /\ \A h \in Slots : /\ EndsOf(h)' = EndsOf(h)
                          /\ ClosedByRemove(h)' = ClosedByRemove(h)
                          /\ slot'[h].toR = slot[h].toR /\ slot'[h].toW = slot[h].toW
                          /\ slot'[h].fromR = slot[h].fromR
                          /\ slot'[h].fromW = slot[h].fromW
                          /\ slot'[h].active => slot[h].active
  <2>1. ASSUME NEW h \in Slots
        PROVE  /\ slot'[h] \in Slot
               /\ slot'[h].sock = slot[h].sock
               /\ slot'[h].toR = slot[h].toR /\ slot'[h].toW = slot[h].toW
               /\ slot'[h].fromR = slot[h].fromR /\ slot'[h].fromW = slot[h].fromW
               /\ slot'[h].active => slot[h].active
    <3>1. CASE h \in freed
      <4>1. slot'[h] = [slot[h] EXCEPT !.active = FALSE, !.pid = 0]
        BY <3>1 DEF Freed
      <4>2. slot[h] \in Slot
        BY <1>2
      <4>3. slot'[h] \in Slot
        BY <4>1, <4>2, FreedSlot
      <4>4. slot'[h].sock = slot[h].sock
            /\ slot'[h].toR = slot[h].toR /\ slot'[h].toW = slot[h].toW
            /\ slot'[h].fromR = slot[h].fromR /\ slot'[h].fromW = slot[h].fromW
        BY <4>1, <4>2 DEF Slot
      <4>5. slot'[h].active = FALSE
        BY <4>1, <4>2 DEF Slot
      <4>6. QED  BY <4>3, <4>4, <4>5
    <3>2. CASE h \notin freed
      BY <1>2, <3>2 DEF Freed
    <3>3. QED  BY <3>1, <3>2
  <2>2. slot' \in [Slots -> Slot]
    BY <2>1 DEF Freed
  <2>3. QED  BY <2>1, <2>2 DEF EndsOf, ClosedByRemove
<1>4. Active' \subseteq Active
  BY <1>3 DEF Active
<1>5. UsedBound' = UsedBound /\ conn' = conn
  BY DEF UsedBound, Setup, setup
<1>6. Used(fds', conn') \subseteq Used(fds, conn)
  BY <1>1, <1>5, ClosedRange
<1>7. Cardinality(Used(fds, conn))' <= UsedBound'
  <2>1. Cardinality(Used(fds', conn')) <= Cardinality(Used(fds, conn))
        /\ Cardinality(Used(fds', conn')) \in Nat /\ Cardinality(Used(fds, conn)) \in Nat
    BY <1>6, FewerUsed
  <2>2. UsedBound \in Int
    BY BoundIsNumber
  <2>3. Cardinality(Used(fds, conn)) <= UsedBound
    BY DEF FdInv
  <2>4. Cardinality(Used(fds', conn')) <= UsedBound'
    BY <1>5, <2>1, <2>2, <2>3
  <2>5. QED  BY <2>4 DEF Used
<1>8. FdInv'
  <2>1. \A h \in Active' : 0 \notin ClosedByRemove(h)'
    BY <1>3, <1>4 DEF FdInv, Active
  <2>2. /\ fds' \in [Fd -> Ends] /\ fds'[0] = End("terminal", 0)
        /\ \A f \in Fd : f # 0 => fds'[f].kind # "terminal"
    BY <1>1, ClosedRange
  <2>3. QED  BY <1>7, <2>1, <2>2 DEF FdInv
<1>9. SetupInv'
  <2>1. s \in Slots
    BY DEF TypeOK
  <2>2. pc = "record" => fds'[conn] = Free
    <3>1. conn \in Fd
      BY DEF TypeOK
    <3>2. QED  BY <1>1, <3>1, ClosedRange DEF SetupInv
  <2>3. QED  BY <1>3, <1>4, <2>1, <2>2 DEF SetupInv, Setup, Chosen, setup
<1>10. QED  BY <1>3, <1>8, <1>9

\* remove_client frees one of them.
LEMMA RemovedRange ==
    ASSUME RangeInv, NEW h \in Active, RemoveClient(h), UNCHANGED <<setup, accepted>>, pc' = pc
    PROVE  /\ FdInv' /\ SetupInv' /\ slot' \in [Slots -> Slot]
           /\ slot' = Freed({h}) /\ fds' = ClosedAll(ClosedByRemove(h))
<1>1. slot \in [Slots -> Slot] /\ h \in Slots
  BY DEF RangeInv, TypeOK, Slot, Active
<1>2. /\ fds' = ClosedAll(ClosedByRemove(h))
      /\ slot' = [slot EXCEPT ![h] = [slot[h] EXCEPT !.active = FALSE, !.pid = 0]]
  BY <1>1 DEF RemoveClient
<1>3. slot' = Freed({h})
  BY <1>1, <1>2, Zenon DEF Freed
<1>4. ClosedByRemove(h) \subseteq (UNION {ClosedByRemove(g) : g \in {h}}) \cup {1}
  OBVIOUS
<1>5. {h} \in SUBSET Active
  OBVIOUS
<1>6. FdInv' /\ SetupInv' /\ slot' \in [Slots -> Slot]
  BY <1>2, <1>3, <1>4, <1>5, FreedRange
<1>7. QED  BY <1>2, <1>3, <1>6

\* There are two free numbers for a pipe.
LEMMA PipeOpened ==
    ASSUME RangeInv, pc \in {"pipe", "pipe2"}, NEW e \in Ends, NEW d \in Ends,
           e.kind \notin {"free", "terminal"}, d.kind \notin {"free", "terminal"}
    PROVE  LET table == Opened(Opened(fds, e), d) IN
           /\ LowestFree(fds) \in Fd \ {0}
           /\ LowestFree(Opened(fds, e)) \in Fd \ {0}
           /\ table \in [Fd -> Ends]
           /\ table[0] = End("terminal", 0)
           /\ \A f \in Fd : f # 0 => table[f].kind # "terminal"
           /\ Cardinality(Used(table, conn)) <= UsedBound + 2
<1> DEFINE once == Opened(fds, e)
           twice == Opened(once, d)
<1>0. e # Free /\ d # Free /\ End("terminal", 0) # Free
  BY DEF Free, End
<1>1. /\ fds \in [Fd -> Ends] /\ fds[0] = End("terminal", 0)
      /\ \A f \in Fd : f # 0 => fds[f].kind # "terminal"
  BY DEF RangeInv, FdInv
<1>2. UsedBound \in Int /\ UsedBound <= 4 * MaxConn - 1
      /\ Cardinality(Used(fds, conn)) <= UsedBound
  <2>1. accepted \in Nat /\ accepted <= MaxConn
    BY Server17Assumption DEF RangeInv
  <2>2. UsedBound = 1 + 4 * (accepted - 1) + (IF pc = "pipe" THEN 0 ELSE 2)
    BY <2>1 DEF UsedBound, Setup
  <2>3. QED  BY <2>1, <2>2, Server17Assumption DEF RangeInv, FdInv
<1>3. Cardinality(Used(fds, conn)) \in Nat
  BY FewerUsed
<1>4. Cardinality(Used(fds, conn)) <= 4 * MaxConn
  BY <1>2, <1>3, Server17Assumption
<1>5. /\ LowestFree(fds) \in Fd /\ fds[LowestFree(fds)] = Free
      /\ once \in [Fd -> Ends] /\ once = [fds EXCEPT ![LowestFree(fds)] = e]
      /\ Cardinality(Used(once, conn)) <= Cardinality(Used(fds, conn)) + 1
  BY <1>0, <1>1, <1>4, OneMoreUsed
<1>6. once[0] = End("terminal", 0) /\ \A f \in Fd : f # 0 => once[f].kind # "terminal"
  BY <1>0, <1>1, <1>5
<1>7. Cardinality(Used(once, conn)) \in Nat
  BY FewerUsed
<1>8. Cardinality(Used(once, conn)) <= 4 * MaxConn
  BY <1>2, <1>3, <1>5, <1>7, Server17Assumption
<1>9. /\ LowestFree(once) \in Fd /\ once[LowestFree(once)] = Free
      /\ twice \in [Fd -> Ends] /\ twice = [once EXCEPT ![LowestFree(once)] = d]
      /\ Cardinality(Used(twice, conn)) <= Cardinality(Used(once, conn)) + 1
  <2> HIDE DEF once
  <2>1. QED  BY <1>0, <1>5, <1>8, OneMoreUsed
<1>10. twice[0] = End("terminal", 0) /\ \A f \in Fd : f # 0 => twice[f].kind # "terminal"
  <2> HIDE DEF once
  <2>1. QED  BY <1>0, <1>6, <1>9
<1>11. LowestFree(fds) # 0 /\ LowestFree(once) # 0
  <2> HIDE DEF once
  <2>1. QED  BY <1>0, <1>1, <1>5, <1>6, <1>9
<1>12. Cardinality(Used(twice, conn)) \in Nat
  BY FewerUsed
<1>13. Cardinality(Used(twice, conn)) <= UsedBound + 2
  <2> HIDE DEF twice, once
  <2>1. QED  BY <1>2, <1>3, <1>5, <1>7, <1>9, <1>12
<1>14. QED  BY <1>5, <1>9, <1>10, <1>11, <1>13

\* A pipe for the connection that is being set up.
LEMMA PipeRange ==
    ASSUME RangeInv,
           \/ pc = "pipe" /\ PipeToChild
           \/ pc = "pipe2" /\ PipeFromChild
    PROVE  FdInv' /\ SetupInv' /\ slot' \in [Slots -> Slot]
<1> DEFINE read == IF pc = "pipe" THEN "toR" ELSE "fromR"
           write == IF pc = "pipe" THEN "toW" ELSE "fromW"
           opened == Opened(fds, End(read, cur))
           f == LowestFree(fds)
           g == LowestFree(opened)
<1>1. /\ fds' = Opened(opened, End(write, cur))
      /\ slot' = [slot EXCEPT ![s][read] = f, ![s][write] = g]
      /\ pc' = IF pc = "pipe" THEN "pipe2" ELSE "fork"
      /\ UNCHANGED <<setup, accepted>>
  BY DEF PipeToChild, PipeFromChild, OpenPipe, At
<1>2. End(read, cur) \in Ends /\ End(write, cur) \in Ends
      /\ End(read, cur).kind \notin {"free", "terminal"}
      /\ End(write, cur).kind \notin {"free", "terminal"}
  BY DEF End, Ends, RangeInv, TypeOK
<1>3. /\ f \in Fd \ {0} /\ g \in Fd \ {0}
      /\ fds' \in [Fd -> Ends] /\ fds'[0] = End("terminal", 0)
      /\ \A x \in Fd : x # 0 => fds'[x].kind # "terminal"
      /\ Cardinality(Used(fds', conn)) <= UsedBound + 2
  <2> HIDE DEF read, write
  <2>1. QED  BY <1>1, <1>2, PipeOpened
<1> s \in Slots /\ slot \in [Slots -> Slot]
  BY DEF RangeInv, TypeOK, Slot
<1>4. /\ slot' \in [Slots -> Slot]
      /\ \A h \in Slots : h # s => slot'[h] = slot[h]
      /\ slot'[s].active = slot[s].active
      /\ (slot'[s].toR # 0 /\ slot'[s].toW # 0) \/ pc # "pipe"
      /\ (slot'[s].fromR # 0 /\ slot'[s].fromW # 0) \/ pc # "pipe2"
      /\ pc = "pipe2" => slot'[s].toR = slot[s].toR /\ slot'[s].toW = slot[s].toW
  <2> HIDE DEF f, g
  <2>1. CASE pc = "pipe"
    <3>1. slot' = [slot EXCEPT ![s] = [slot[s] EXCEPT !.toR = f, !.toW = g]]
      BY <1>1, <2>1
    <3>2. QED  BY <1>3, <2>1, <3>1 DEF Slot
  <2>2. CASE pc = "pipe2"
    <3>1. slot' = [slot EXCEPT ![s] = [slot[s] EXCEPT !.fromR = f, !.fromW = g]]
      BY <1>1, <2>2
    <3>2. QED  BY <1>3, <2>2, <3>1 DEF Slot
  <2>3. QED  BY <2>1, <2>2
<1>5. UsedBound' = UsedBound + 2
  <2>1. accepted \in Nat
    BY DEF RangeInv
  <2>2. QED  BY <1>1, <2>1 DEF UsedBound, Setup
<1>6. s \notin Active /\ Active' = Active
      /\ \A h \in Active : ClosedByRemove(h)' = ClosedByRemove(h)
  <2>1. s \notin Active
    BY DEF RangeInv, SetupInv, Chosen, Setup
  <2>2. QED  BY <1>4, <2>1 DEF Active, ClosedByRemove, EndsOf
<1> HIDE DEF read, write, opened, f, g
<1>7. FdInv'
  <2>1. Cardinality(Used(fds', conn')) <= UsedBound'
    BY <1>1, <1>3, <1>5 DEF setup
  <2>2. Cardinality(Used(fds, conn))' <= UsedBound'
    BY <2>1 DEF Used
  <2>3. QED  BY <1>3, <1>6, <2>2 DEF FdInv, RangeInv
<1>8. SetupInv'
  BY <1>1, <1>4, <1>6 DEF RangeInv, SetupInv, Setup, Chosen, setup
<1>9. QED  BY <1>4, <1>7, <1>8

\* Numbers of the connection being set up are closed.
LEMMA ClosedInSetup ==
    ASSUME RangeInv, pc \in Setup, pc # "record", NEW numbers, 0 \notin numbers,
           conn \in numbers, fds' = ClosedAll(numbers),
           UNCHANGED <<slot, accepted>>,
           \/ pc' = "record" /\ pc = "close" /\ UNCHANGED setup
           \/ pc' = "loop" /\ cur' = 0 /\ s' = 0 /\ conn' = 0
    PROVE  FdInv' /\ SetupInv'
<1> USE DEF RangeInv
<1>1. /\ fds' \in [Fd -> Ends] /\ fds'[0] = End("terminal", 0)
      /\ \A f \in Fd : f # 0 => fds'[f].kind # "terminal"
      /\ Used(fds', conn) \subseteq Used(fds, conn)
      /\ conn \in Fd /\ fds'[conn] = Free
  BY ClosedRange DEF TypeOK
<1>2. Used(fds', conn') \subseteq Used(fds, conn)
  BY <1>1 DEF Used, setup
<1>3. Cardinality(Used(fds', conn')) <= Cardinality(Used(fds, conn))
      /\ Cardinality(Used(fds', conn')) \in Nat /\ Cardinality(Used(fds, conn)) \in Nat
  BY <1>2, FewerUsed
<1>4. UsedBound <= UsedBound' /\ UsedBound \in Int /\ UsedBound' \in Int
  BY DEF UsedBound, Setup
<1>5. Cardinality(Used(fds, conn)) <= UsedBound
  BY DEF FdInv
<1>6. Cardinality(Used(fds', conn')) <= UsedBound'
  BY <1>3, <1>4, <1>5
<1>7. Active' = Active /\ \A h \in Active : ClosedByRemove(h)' = ClosedByRemove(h)
  BY DEF Active, ClosedByRemove, EndsOf
<1>8. FdInv'
  <2>1. Cardinality(Used(fds, conn))' <= UsedBound'
    BY <1>6 DEF Used
  <2>2. QED  BY <1>1, <1>7, <2>1 DEF FdInv
<1>9. SetupInv'
  BY <1>1, <1>7 DEF SetupInv, Setup, Chosen, setup
<1>10. QED  BY <1>8, <1>9

\* accept takes the lowest free number.
LEMMA AcceptRange ==
    ASSUME RangeInv, Accept
    PROVE  FdInv' /\ SetupInv' /\ conn' \in Fd /\ cur' \in 0..MaxConn
<1> USE DEF RangeInv
<1> DEFINE e == End("sock", accepted + 1)
<1>1. /\ pc = "accept" /\ backlog > 0 /\ accepted + 1 \in 0..MaxConn /\ conn = 0
      /\ conn' = LowestFree(fds) /\ fds' = Opened(fds, e)
      /\ accepted' = accepted + 1 /\ cur' = accepted + 1 /\ pc' = "choose"
      /\ UNCHANGED slot
  BY Server17Assumption DEF Accept, At, SetupInv, Setup
<1>2. e \in Ends /\ e # Free /\ e.kind = "sock" /\ End("terminal", 0) # Free
  BY <1>1 DEF End, Ends, Free
<1>3. UsedBound = 1 + 4 * accepted /\ UsedBound' = 1 + 4 * accepted
      /\ Cardinality(Used(fds, conn)) <= UsedBound
      /\ Cardinality(Used(fds, conn)) \in Nat
  BY <1>1, FewerUsed DEF UsedBound, Setup, FdInv
<1>4. Cardinality(Used(fds, conn)) <= 4 * MaxConn
  BY <1>1, <1>3, Server17Assumption
<1>5. /\ conn' \in Fd /\ fds[conn'] = Free
      /\ fds' \in [Fd -> Ends] /\ fds' = [fds EXCEPT ![conn'] = e]
      /\ Used(fds', conn) \subseteq Used(fds, conn) \cup {conn'}
  <2> HIDE DEF e
  <2>1. fds \in [Fd -> Ends]
    BY DEF FdInv
  <2>2. QED  BY <1>1, <1>2, <1>4, <2>1, OneMoreUsed
<1>6. conn' # 0
  BY <1>2, <1>5 DEF FdInv
<1>7. fds'[0] = End("terminal", 0) /\ \A f \in Fd : f # 0 => fds'[f].kind # "terminal"
  <2> HIDE DEF e
  <2>1. QED  BY <1>2, <1>5, <1>6 DEF FdInv
<1>8. Used(fds', conn') \subseteq Used(fds, conn)
  BY <1>1, <1>5 DEF Used
<1>9. Cardinality(Used(fds', conn')) <= UsedBound'
  <2>1. Cardinality(Used(fds', conn')) <= Cardinality(Used(fds, conn))
        /\ Cardinality(Used(fds', conn')) \in Nat
    BY <1>8, FewerUsed
  <2>2. QED  BY <1>3, <2>1
<1>10. Active' = Active /\ \A h \in Active : ClosedByRemove(h)' = ClosedByRemove(h)
  BY <1>1 DEF Active, ClosedByRemove, EndsOf
<1> HIDE DEF e
<1>11. FdInv'
  <2>1. Cardinality(Used(fds, conn))' <= UsedBound'
    BY <1>9 DEF Used
  <2>2. QED  BY <1>5, <1>7, <1>10, <2>1 DEF FdInv
<1>12. SetupInv'
  BY <1>1, <1>6 DEF SetupInv, Setup, Chosen
<1>13. QED  BY <1>1, <1>5, <1>11, <1>12

\* The slot becomes active with numbers of its own.
LEMMA RecordRange ==
    ASSUME RangeInv, Record
    PROVE  FdInv' /\ SetupInv' /\ slot' \in [Slots -> Slot]
<1> USE DEF RangeInv
<1>1. /\ slot' = [slot EXCEPT ![s] = [slot[s] EXCEPT !.pid = cur, !.sock = conn,
                                                     !.active = TRUE]]
      /\ pc = "record" /\ pc' = "unname" /\ cur' = 0 /\ conn' = 0
      /\ UNCHANGED <<s, fds, accepted>>
  BY DEF Record, At
<1>2. slot \in [Slots -> Slot] /\ s \in Slots /\ cur \in 0..MaxConn /\ conn \in Fd
  BY DEF TypeOK, Slot
<1>3. [slot[s] EXCEPT !.pid = cur, !.sock = conn, !.active = TRUE] \in Slot
  <2>1. \A t \in Slot : [t EXCEPT !.active = TRUE] \in Slot
    BY DEF Slot
  <2>2. [slot[s] EXCEPT !.pid = cur, !.sock = conn] \in Slot
    BY <1>2 DEF Slot
  <2>3. [slot[s] EXCEPT !.pid = cur, !.sock = conn, !.active = TRUE]
        = [[slot[s] EXCEPT !.pid = cur, !.sock = conn] EXCEPT !.active = TRUE]
    OBVIOUS
  <2>4. QED  BY <2>1, <2>2, <2>3
<1>4. /\ \A h \in Slots : h # s => slot'[h] = slot[h]
      /\ slot'[s].sock = conn
      /\ slot'[s].toR = slot[s].toR /\ slot'[s].toW = slot[s].toW
      /\ slot'[s].fromR = slot[s].fromR /\ slot'[s].fromW = slot[s].fromW
  BY <1>1, <1>2 DEF Slot
<1>5. \A h \in Active' : 0 \notin ClosedByRemove(h)'
  <2>1. /\ conn # 0 /\ slot[s].toR # 0 /\ slot[s].toW # 0
        /\ slot[s].fromR # 0 /\ slot[s].fromW # 0
    <3>1. pc = "record"
      BY <1>1
    <3>2. QED  BY <3>1 DEF SetupInv, Setup
  <2> SUFFICES ASSUME NEW h \in Active' PROVE 0 \notin ClosedByRemove(h)'
    OBVIOUS
  <2>2. CASE h = s
    BY <1>4, <2>1, <2>2 DEF ClosedByRemove, EndsOf
  <2>3. CASE h # s
    <3>1. h \in Slots /\ slot'[h] = slot[h] /\ h \in Active
      BY <1>4, <2>3 DEF Active
    <3>2. 0 \notin ClosedByRemove(h)
      BY <3>1 DEF FdInv
    <3>3. QED  BY <3>1, <3>2 DEF ClosedByRemove, EndsOf
  <2>4. QED  BY <2>2, <2>3
<1>6. Cardinality(Used(fds, conn))' <= UsedBound'
  <2>1. UsedBound = UsedBound'
    BY <1>1 DEF UsedBound, Setup
  <2>2. fds' = fds /\ conn' = 0 /\ fds[conn] = Free
    BY <1>1 DEF SetupInv
  <2>3. Used(fds', conn') = Used(fds, conn)
    BY <2>2 DEF Used
  <2>4. Cardinality(Used(fds, conn)) <= UsedBound
    BY DEF FdInv
  <2>5. Cardinality(Used(fds', conn')) <= UsedBound'
    BY <2>1, <2>3, <2>4
  <2>6. QED  BY <2>5 DEF Used
<1>7. FdInv'
  BY <1>1, <1>5, <1>6 DEF FdInv
<1>8. SetupInv'
  BY <1>1 DEF SetupInv, Setup, Chosen
<1>9. slot' \in [Slots -> Slot]
  BY <1>1, <1>2, <1>3
<1>10. QED  BY <1>7, <1>8, <1>9

LEMMA OpenPipeFrame ==
    ASSUME NEW step, NEW read, NEW write, NEW next, OpenPipe(step, read, write, next)
    PROVE  /\ pc = step /\ pc' = next
           /\ UNCHANGED <<i, setup, backlog, accepted, status, first, source>>
BY DEF OpenPipe, At, children

LEMMA TellStep == RangeInv /\ [Next]_vars => TellInv'
<1> SUFFICES ASSUME RangeInv, [Next]_vars PROVE TellInv'
  OBVIOUS
<1> USE DEF RangeInv
<1>1. ASSUME UNCHANGED <<named, at, leaving, notice, sent>>, slot' = slot \/ leaving = NoSlot
      PROVE  TellInv'
  BY <1>1 DEF TellInv, Active
<1>2. CASE \/ Loop \/ ScanDone \/ Accept \/ ChooseSlot \/ Fork \/ CloseChildEnds
           \/ SetupFails \/ Terminate \/ Connect \/ Ended \/ UNCHANGED vars
  BY <1>1, <1>2 DEF Loop, ScanDone, Accept, ChooseSlot, Fork, CloseChildEnds, SetupFails,
     Terminate, Connect, Ended, vars, parent, children, telling, handler
<1>3. CASE PipeToChild \/ PipeFromChild \/ Record \/ Shutdown
  BY <1>1, <1>3 DEF PipeToChild, PipeFromChild, OpenPipe, Record, Shutdown, At, children,
     telling, handler
<1>4. CASE Scan \/ Answer \/ Broadcast \/ Unname
  <2>1. UNCHANGED <<leaving, notice, sent, slot>>
    BY <1>4 DEF Scan, Answer, Broadcast, Unname, handler, children
  <2>2. named' \subseteq Slots /\ at' \in 0..MaxClients
    <3>1. CASE Scan
      <4>1. CASE UNCHANGED telling
        BY <4>1 DEF telling, TellInv
      <4>2. CASE Process(i) /\ i < MaxClients
        <5>1. i \in Slots /\ 0 \in 0..MaxClients
          BY <4>2, Server17Assumption DEF TypeOK, Slots
        <5>2. named' \subseteq named \cup {i} /\ at' \in {0, at}
          BY <4>2 DEF Process
        <5>3. QED  BY <5>1, <5>2 DEF TellInv
      <4>3. QED  BY <3>1, <4>1, <4>2 DEF Scan
    <3>2. CASE Answer
      BY <3>2 DEF Answer, TellInv
    <3>3. CASE Broadcast
      BY <3>3, Server17Assumption DEF Broadcast, TellInv, NoSlot
    <3>4. CASE Unname
      BY <3>4 DEF Unname, TellInv
    <3>5. QED  BY <1>4, <3>1, <3>2, <3>3, <3>4
  <2>3. QED  BY <2>1, <2>2 DEF TellInv, Active
<1>5. ASSUME NEW c \in Conn, Reap(c) PROVE TellInv'
  <2>1. UNCHANGED <<named, at, sent, slot>>
    BY <1>5 DEF Reap, telling
  <2>2. /\ leaving' \in 0..MaxClients /\ notice' \in 0..MaxClients
        /\ leaving' # NoSlot => leaving' \in Active
    <3>1. CASE UNCHANGED handler
      BY <3>1 DEF handler, TellInv
    <3>2. CASE leaving' \in SlotOf(c) /\ notice' \in {0, NoSlot}
      BY <3>2, Server17Assumption DEF SlotOf, Active, Slots, NoSlot
    <3>3. QED  BY <1>5, <3>1, <3>2 DEF Reap
  <2>3. QED  BY <2>1, <2>2 DEF TellInv, Active
<1>6. CASE TellLeft
  <2>1. UNCHANGED <<named, at, leaving, sent, slot>> /\ notice' \in 0..MaxClients
    BY <1>6, Server17Assumption DEF TellLeft, telling, TellInv, NoSlot
  <2>2. QED  BY <2>1 DEF TellInv, Active
<1>7. CASE Remove
  <2>1. UNCHANGED <<named, at, notice, sent>> /\ leaving' = NoSlot
    BY <1>7 DEF Remove, telling, children
  <2>2. QED  BY <2>1, Server17Assumption DEF TellInv, NoSlot
<1>8. ASSUME NEW c \in Conn, Child(c) PROVE TellInv'
  <2>1. UNCHANGED <<named, at, leaving, notice, slot>> /\ sent' \in 0..MaxSend
    BY <1>8, Server17Assumption DEF Child, Read, Exit, ReadPipe, PipeEnds, parent, telling,
       handler, TellInv
  <2>2. QED  BY <2>1 DEF TellInv, Active
<1>9. QED  BY <1>2, <1>3, <1>4, <1>5, <1>6, <1>7, <1>8 DEF Next, Parent, Handler

LEMMA SumInBound ==
    ASSUME NEW a \in Nat, NEW b \in Nat, NEW n \in Nat, a + b <= n
    PROVE  a + b \in 0..n
OBVIOUS

LEMMA RangeStep == RangeInv /\ [Next]_vars => RangeInv'
<1> SUFFICES ASSUME RangeInv, [Next]_vars PROVE RangeInv'
  OBVIOUS
<1> USE Server17Assumption
<1>0. TellInv'
  BY TellStep
<1>1. ASSUME FdInv' /\ SetupInv', slot' \in [Slots -> Slot], conn' \in Fd,
             cur' \in 0..MaxConn, s' \in Slots,
             i' \in 0..MaxClients, status' \in [Conn -> Status],
             pc' \in {"loop", "scan", "accept", "choose", "pipe", "pipe2", "fork",
                      "close", "record", "unname", "shutdown", "ended"},
             accepted' \in Nat, backlog' \in Nat, accepted' + backlog' <= MaxConn,
             first' \in [Conn -> {"none", "own", "pipe"}],
             source' \in [Conn -> {"none", "own", "pipe", "terminal"}]
      PROVE  RangeInv'
  <2>1. \A f \in Fd : fds'[f].conn \in 0..MaxConn
    BY <1>1 DEF FdInv, Ends
  <2>2. accepted' + backlog' \in 0..MaxConn
    <3>1. accepted' \in Nat /\ backlog' \in Nat /\ accepted' + backlog' <= MaxConn
      BY <1>1
    <3>2. MaxConn \in Nat
      BY DEF Server17Assumption
    <3>3. QED  BY <3>1, <3>2, SumInBound
  <2>3. TypeOK'
    BY <1>0, <1>1, <2>1, <2>2 DEF TellInv, TypeOK, Slot, Status
  <2>4. QED  BY <1>0, <1>1, <2>3 DEF RangeInv
<1>t. /\ FdInv /\ SetupInv /\ slot \in [Slots -> Slot] /\ conn \in Fd
      /\ cur \in 0..MaxConn /\ s \in Slots /\ i \in 0..MaxClients
      /\ status \in [Conn -> Status]
      /\ accepted \in Nat /\ backlog \in Nat /\ accepted + backlog <= MaxConn
      /\ first \in [Conn -> {"none", "own", "pipe"}]
      /\ source \in [Conn -> {"none", "own", "pipe", "terminal"}]
  BY DEF RangeInv, TypeOK, Slot, Status
<1>2. CASE Loop \/ ScanDone
  <2>1. /\ pc \notin Setup /\ pc' \in {"shutdown", "scan", "accept"} /\ i' = 0
        /\ UNCHANGED <<setup, fds, slot, backlog, accepted, status, first, source>>
    BY <1>2 DEF Loop, ScanDone, At, Setup, children
  <2>2. FdInv' /\ SetupInv'
    BY <1>t, <2>1, TableKept DEF setup, Setup
  <2>3. QED  BY <1>1, <1>t, <2>1, <2>2 DEF setup
<1>3. CASE Scan \/ Answer \/ Broadcast
  <2>1. /\ i' \in 0..MaxClients /\ pc' = pc /\ pc = "scan"
        /\ UNCHANGED <<setup, fds, slot, backlog, accepted, status, first, source>>
    BY <1>3, <1>t DEF Scan, Answer, Broadcast, At
  <2>2. FdInv' /\ SetupInv'
    BY <1>t, <2>1, TableKept DEF setup
  <2>3. QED  BY <1>1, <1>t, <2>1, <2>2 DEF setup
<1>4. CASE Unname
  <2>1. /\ pc = "unname" /\ pc' = "loop" /\ s' = 0 /\ 0 \in Slots
        /\ UNCHANGED <<i, cur, conn, fds, slot, backlog, accepted, status, first, source>>
    BY <1>4 DEF Unname, At, children, Slots
  <2>2. FdInv' /\ SetupInv'
    BY <1>t, <2>1, TableKept DEF Setup
  <2>3. QED  BY <1>1, <1>t, <2>1, <2>2
<1>5. CASE Accept
  <2>1. FdInv' /\ SetupInv' /\ conn' \in Fd /\ cur' \in 0..MaxConn
    BY <1>5, AcceptRange
  <2>2. /\ UNCHANGED <<i, s, slot, status, first, source>>
        /\ pc' = "choose" /\ accepted' = accepted + 1 /\ backlog' = backlog - 1
        /\ backlog > 0
    BY <1>5 DEF Accept, At, children
  <2>3. QED  BY <1>1, <1>t, <2>1, <2>2
<1>6. CASE ChooseSlot
  <2>1. CASE Active = Slots
    <3>1. /\ fds' = ClosedAll({conn}) /\ cur' = 0 /\ s' = 0 /\ conn' = 0 /\ pc' = "loop"
          /\ UNCHANGED <<i, slot, backlog, accepted, status, first, source>>
          /\ pc = "choose"
      BY <1>6, <2>1 DEF ChooseSlot, At, children
    <3>2. 0 \notin {conn}
      BY <1>t, <3>1 DEF SetupInv, Setup
    <3>3. FdInv' /\ SetupInv'
      BY <3>1, <3>2, ClosedInSetup DEF Setup
    <3>4. 0 \in Fd /\ 0 \in Slots
      BY DEF Fd, Slots
    <3>5. QED  BY <1>1, <1>t, <3>1, <3>3, <3>4
  <2>2. CASE Active # Slots
    <3>1. /\ s' \in Slots \ Active /\ pc' = "pipe" /\ pc = "choose"
          /\ UNCHANGED <<cur, conn, fds, i, slot, backlog, accepted,
                         status, first, source>>
      BY <1>6, <2>2, FirstFreeSlot DEF ChooseSlot, At, children
    <3>2. Active' = Active /\ \A h \in Active : ClosedByRemove(h)' = ClosedByRemove(h)
      BY <3>1 DEF Active, ClosedByRemove, EndsOf
    <3>3. UsedBound' = UsedBound
      BY <3>1 DEF UsedBound, Setup
    <3>4. FdInv'
      BY <1>t, <3>1, <3>2, <3>3 DEF FdInv, Used
    <3>5. SetupInv'
      BY <1>t, <3>1, <3>2 DEF SetupInv, Setup, Chosen
    <3>6. QED  BY <1>1, <1>t, <3>1, <3>4, <3>5
  <2>3. QED  BY <2>1, <2>2
<1>7. CASE PipeToChild \/ PipeFromChild
  <2>1. /\ (pc = "pipe" /\ PipeToChild) \/ (pc = "pipe2" /\ PipeFromChild)
        /\ pc' \in {"pipe2", "fork"}
        /\ UNCHANGED <<i, setup, backlog, accepted, status, first, source>>
    <3>1. CASE PipeToChild
      BY <3>1, OpenPipeFrame DEF PipeToChild
    <3>2. CASE PipeFromChild
      BY <3>2, OpenPipeFrame DEF PipeFromChild
    <3>3. QED  BY <1>7, <3>1, <3>2
  <2>2. FdInv' /\ SetupInv' /\ slot' \in [Slots -> Slot]
    BY <2>1, PipeRange
  <2>3. QED  BY <1>1, <1>t, <2>1, <2>2 DEF setup
<1>8. CASE Fork
  <2>1. /\ pc = "fork" /\ pc' = "close"
        /\ UNCHANGED <<i, setup, fds, slot, backlog, accepted>>
        /\ status' = [status EXCEPT ![cur] = "nick"]
        /\ first' = [first EXCEPT ![cur] = InputAt(conn)]
        /\ source' = [source EXCEPT ![cur] = InputAt(slot[s].sock)]
    BY <1>8 DEF Fork, At
  <2>2. FdInv' /\ SetupInv'
    BY <1>t, <2>1, TableKept DEF setup
  <2>3. InputAt(conn) \in {"none", "own", "pipe"}
    <3>1. InChild(conn).kind # "terminal"
      BY <1>t, <2>1 DEF InChild, FdInv, SetupInv, Setup, Free, End
    <3>2. QED  BY <3>1 DEF InputAt
  <2>4. InputAt(slot[s].sock) \in {"none", "own", "pipe", "terminal"}
    BY DEF InputAt
  <2>5. QED  BY <1>1, <1>t, <2>1, <2>2, <2>3, <2>4 DEF Status, setup
<1>9. CASE CloseChildEnds
  <2>1. /\ pc = "close" /\ pc' = "record"
        /\ fds' = ClosedAll({conn, slot[s].toR, slot[s].fromW})
        /\ UNCHANGED <<i, setup, slot, backlog, accepted, status, first, source>>
    BY <1>9 DEF CloseChildEnds, At, children
  <2>2. 0 \notin {conn, slot[s].toR, slot[s].fromW}
    BY <1>t, <2>1 DEF SetupInv, Setup
  <2>3. FdInv' /\ SetupInv'
    BY <2>1, <2>2, ClosedInSetup DEF Setup
  <2>4. QED  BY <1>1, <1>t, <2>1, <2>3 DEF setup
<1>10. CASE Record
  <2>1. FdInv' /\ SetupInv' /\ slot' \in [Slots -> Slot]
    BY <1>10, RecordRange
  <2>2. /\ pc' = "unname" /\ cur' = 0 /\ conn' = 0 /\ 0 \in Fd
        /\ UNCHANGED <<i, s, backlog, accepted, status, first, source>>
    BY <1>10 DEF Record, children, Fd
  <2>3. QED  BY <1>1, <1>t, <2>1, <2>2
<1>11. CASE Shutdown
  <2>1. /\ pc = "shutdown" /\ pc' = pc /\ i \in Slots /\ i' \in 0..MaxClients
        /\ UNCHANGED <<setup, backlog, accepted, status, first, source>>
    BY <1>11, <1>t DEF Shutdown, At, Slots, children
  <2>2. FdInv' /\ SetupInv' /\ slot' \in [Slots -> Slot]
    <3>1. CASE i \in Active
      <4>1. RemoveClient(i)
        BY <1>11, <3>1 DEF Shutdown
      <4>2. QED  BY <2>1, <3>1, <4>1, RemovedRange
    <3>2. CASE i \notin Active
      <4>1. UNCHANGED <<fds, slot>>
        BY <1>11, <3>2 DEF Shutdown
      <4>2. QED  BY <1>t, <2>1, <4>1, TableKept DEF setup
    <3>3. QED  BY <3>1, <3>2
  <2>3. QED  BY <1>1, <1>t, <2>1, <2>2 DEF setup
<1>19. CASE Ended
  <2>1. /\ fds' = ClosedAll({1}) /\ pc = "shutdown" /\ pc' = "ended"
        /\ UNCHANGED <<i, setup, slot, backlog, accepted, status, first, source>>
    BY <1>19 DEF Ended, At, children
  <2>2. slot' = Freed({})
    BY <1>t, <2>1 DEF Freed
  <2>3. FdInv' /\ SetupInv'
    BY <2>1, <2>2, FreedRange DEF Setup
  <2>4. QED  BY <1>1, <1>t, <2>1, <2>3 DEF setup
<1>12. CASE SetupFails
  <2>1. /\ pc \in {"pipe", "pipe2", "fork"} /\ fds' = ClosedAll({conn})
        /\ cur' = 0 /\ s' = 0 /\ conn' = 0 /\ pc' = "loop"
        /\ UNCHANGED <<i, slot, backlog, accepted, status, first, source>>
    BY <1>12 DEF SetupFails, At, children
  <2>2. 0 \notin {conn} /\ 0 \in Fd /\ 0 \in Slots
    BY <1>t, <2>1 DEF SetupInv, Setup, Fd, Slots
  <2>3. FdInv' /\ SetupInv'
    BY <2>1, <2>2, ClosedInSetup DEF Setup
  <2>4. QED  BY <1>1, <1>t, <2>1, <2>2, <2>3
<1>13. CASE Terminate \/ Connect
  <2>1. /\ UNCHANGED <<pc, i, setup, fds, slot, accepted, status, first, source>>
        /\ backlog' \in Nat /\ accepted + backlog' <= MaxConn
    BY <1>13, <1>t DEF Terminate, Connect, children
  <2>2. FdInv' /\ SetupInv'
    BY <1>t, <2>1, TableKept DEF setup
  <2>3. pc' = pc
    BY <2>1
  <2>4. QED  BY <1>1, <1>t, <2>1, <2>2, <2>3 DEF setup, RangeInv, TypeOK
<1>14. ASSUME NEW c \in Conn, Reap(c) \/ Child(c)  PROVE RangeInv'
  <2>1. /\ UNCHANGED <<pc, i, setup, fds, slot, backlog, accepted, first, source>>
        /\ status' \in [Conn -> Status]
    BY <1>14, <1>t DEF Reap, Child, Read, ReadPipe, Exit, PipeEnds, Status, parent
  <2>2. FdInv' /\ SetupInv'
    BY <1>t, <2>1, TableKept DEF setup
  <2>3. pc' = pc
    BY <2>1
  <2>4. QED  BY <1>1, <1>t, <2>1, <2>2, <2>3 DEF setup, RangeInv, TypeOK
<1>15. CASE TellLeft
  <2>1. UNCHANGED <<pc, i, setup, fds, slot, backlog, accepted, status, first, source>>
    BY <1>15 DEF TellLeft
  <2>2. FdInv' /\ SetupInv'
    BY <1>t, <2>1, TableKept DEF setup
  <2>3. pc' = pc
    BY <2>1
  <2>4. QED  BY <1>1, <1>t, <2>1, <2>2, <2>3 DEF setup, RangeInv, TypeOK
<1>16. CASE Remove
  <2>1. UNCHANGED <<pc, i, setup, backlog, accepted, status, first, source>> /\ pc' = pc
    BY <1>16 DEF Remove, children
  <2>2. leaving \in Active /\ RemoveClient(leaving)
    BY <1>16 DEF Remove, RangeInv, TellInv
  <2>3. FdInv' /\ SetupInv' /\ slot' \in [Slots -> Slot]
    BY <2>1, <2>2, RemovedRange
  <2>4. QED  BY <1>1, <1>t, <2>1, <2>3 DEF setup, RangeInv, TypeOK
<1>17. CASE UNCHANGED vars
  <2>1. UNCHANGED <<pc, i, cur, s, conn, fds, slot, accepted, backlog,
                    status, first, source>>
    BY <1>17 DEF vars, parent, children, setup
  <2>2. FdInv' /\ SetupInv'
    BY <1>t, <2>1, TableKept
  <2>3. QED  BY <1>1, <1>t, <2>1, <2>2 DEF RangeInv, TypeOK
<1>18. QED
  BY <1>2, <1>3, <1>4, <1>5, <1>6, <1>7, <1>8, <1>9, <1>10, <1>11, <1>12, <1>13,
     <1>14, <1>15, <1>16, <1>17, <1>19 DEF Next, Parent, Handler

\* The kernel always has a descriptor number for the model to hand out, and the
\* parent's indexes, slots and descriptors stay in their ranges.
THEOREM TypeCorrect == Spec => []TypeOK
<1>1. RangeInv => TypeOK
  BY DEF RangeInv
<1>2. QED  BY RangeInit, RangeStep, <1>1, PTL DEF Spec

-----------------------------------------------------------------------------
(* Slots.                                                                  *)

\* A connection has been accepted and its child is not there yet.
Unforked == {"choose", "pipe", "pipe2", "fork"}

\* What makes the slots of the children their own: the active slots name
\* different children, none of them the connection being set up, a child exists
\* only for a connection that was accepted, and the slot that the handler will
\* free has no child any more.
SlotInv ==
    /\ \A h \in Active : slot[h].pid \in 1..accepted /\ slot[h].pid # cur
    /\ \A g, h \in Active : slot[g].pid = slot[h].pid => g = h
    /\ \A c \in Conn : c > accepted => status[c] = "none"
    /\ pc \in Unforked => status[cur] = "none"
    /\ leaving # NoSlot => status[slot[leaving].pid] = "reaped"
    /\ LiveChildHasSlot

\* While a connection is set up it is the one accepted last.
LEMMA SetUpLast ==
    ASSUME RangeInv
    PROVE  /\ accepted \in Nat /\ cur \in Nat
           /\ pc \in Setup => cur = accepted /\ cur \in Conn
           /\ pc \notin Setup => cur = 0
           /\ pc \in Chosen => s \notin Active
           /\ s \in Slots /\ slot \in [Slots -> Slot] /\ status \in [Conn -> Status]
<1>1. accepted \in Nat /\ accepted <= MaxConn
  BY Server17Assumption DEF RangeInv
<1>2. s \in Slots /\ slot \in [Slots -> Slot] /\ status \in [Conn -> Status]
  BY DEF RangeInv, TypeOK, Slot, Status
<1>3. QED  BY <1>1, <1>2, Server17Assumption DEF RangeInv, SetupInv, Conn, Chosen

LEMMA SlotInit == Init => SlotInv
BY DEF Init, SlotInv, Active, Unused, LiveChildHasSlot, Live, Unforked, NoSlot

\* A step that leaves the slots to their children.
LEMMA SlotKept ==
    ASSUME RangeInv, SlotInv, accepted' = accepted,
           \A h \in Slots : slot'[h].pid = slot[h].pid /\ slot'[h].active = slot[h].active,
           \A c \in Conn : /\ status'[c] = "none" <=> status[c] = "none"
                           /\ Live(c)' => Live(c)
                           /\ status[c] = "reaped" => status'[c] = "reaped",
           leaving' = leaving,
           \/ cur' = cur /\ (pc' \in Unforked => pc \in Unforked)
           \/ cur' = 0 /\ pc \in Unforked /\ pc' = "loop",
           Ending => Ending'
    PROVE  SlotInv'
<1>1. Active' = Active
  BY DEF Active
<1>2. \A c \in Conn : SlotOf(c)' = SlotOf(c)
  BY <1>1 DEF SlotOf, Active
<1>3. Active \subseteq Slots
  BY DEF Active
<1>4. accepted \in Nat /\ (pc \in Unforked => cur \in Conn)
  BY SetUpLast DEF Setup, Unforked
<1>5. \A h \in Active' : slot'[h].pid \in 1..accepted' /\ slot'[h].pid # cur'
  BY <1>1, <1>3, <1>4 DEF SlotInv
<1>6. \A g, h \in Active' : slot'[g].pid = slot'[h].pid => g = h
  BY <1>1, <1>3 DEF SlotInv
<1>7. pc' \in Unforked => status'[cur'] = "none"
  BY <1>4 DEF SlotInv, Unforked
<1>8. LiveChildHasSlot'
  <2> SUFFICES ASSUME NEW c \in Conn, Live(c)', c # cur', ~Ending'
               PROVE  SlotOf(c)' # {}
    BY DEF LiveChildHasSlot
  <2>1. Live(c) /\ ~Ending
    OBVIOUS
  <2>2. c # cur
    BY <2>1 DEF SlotInv, Live
  <2>3. QED  BY <1>2, <2>1, <2>2 DEF SlotInv, LiveChildHasSlot
<1>9. leaving' # NoSlot => status'[slot'[leaving'].pid] = "reaped"
  <2> SUFFICES ASSUME leaving # NoSlot PROVE status'[slot'[leaving].pid] = "reaped"
    OBVIOUS
  <2>1. leaving \in Active /\ slot[leaving].pid \in Conn
    BY Server17Assumption DEF RangeInv, TellInv, SlotInv, Conn
  <2>2. QED  BY <1>3, <2>1 DEF SlotInv
<1>10. QED  BY <1>5, <1>6, <1>7, <1>8, <1>9 DEF SlotInv

\* A child that reads or ends was there.
LEMMA ChildKeepsSlot ==
    ASSUME RangeInv, SlotInv, NEW c \in Conn, Child(c)
    PROVE  SlotInv'
<1>1. UNCHANGED parent /\ status[c] \in {"nick", "serve"}
  BY DEF Child, PipeEnds, Read, ReadPipe, Exit, Reads
<1>2. \/ status' = [status EXCEPT ![c] = "serve"]
      \/ status' = [status EXCEPT ![c] = "zombie"]
  BY DEF Child, PipeEnds, Read, ReadPipe, Exit
<1>3. status \in [Conn -> Status]
  BY SetUpLast
<1>4. \A d \in Conn : /\ status'[d] = "none" <=> status[d] = "none"
                      /\ Live(d)' => Live(d)
                      /\ status[d] = "reaped" => status'[d] = "reaped"
  BY <1>1, <1>2, <1>3 DEF Live
<1>5. /\ accepted' = accepted /\ slot' = slot /\ cur' = cur /\ pc' = pc
      /\ leaving' = leaving
  BY <1>1 DEF parent, setup, handler
<1>6. QED  BY <1>4, <1>5, SlotKept DEF Ending

\* The parent's steps that leave the slots to their children.
LEMMA ParentKeepsSlots ==
    ASSUME RangeInv, SlotInv,
           \/ Loop \/ Scan \/ Answer \/ Broadcast \/ ScanDone \/ ChooseSlot
           \/ PipeToChild \/ PipeFromChild \/ CloseChildEnds \/ Unname \/ Ended
           \/ SetupFails \/ Terminate
    PROVE  SlotInv'
<1> USE DEF Loop, Scan, Answer, Broadcast, ScanDone, ChooseSlot, PipeToChild, PipeFromChild,
        OpenPipe, CloseChildEnds, Unname, Ended, SetupFails, Terminate
<1>1. accepted' = accepted /\ status' = status /\ leaving' = leaving
  BY DEF children, handler
<1>2. \A c \in Conn : /\ status'[c] = "none" <=> status[c] = "none"
                      /\ Live(c)' => Live(c)
                      /\ status[c] = "reaped" => status'[c] = "reaped"
  BY <1>1 DEF Live
<1>3. \/ cur' = cur /\ (pc' \in Unforked => pc \in Unforked)
      \/ cur' = 0 /\ pc \in Unforked /\ pc' = "loop"
  BY DEF At, Unforked, setup
<1>4. Ending => Ending'
  BY DEF At, Ending
<1>0. slot' = slot \/ PipeToChild \/ PipeFromChild
  OBVIOUS
<1> HIDE DEF Loop, Scan, Answer, Broadcast, ScanDone, ChooseSlot, PipeToChild, PipeFromChild,
        OpenPipe, CloseChildEnds, Unname, Ended, SetupFails, Terminate
<1>5. \A h \in Slots : slot'[h].pid = slot[h].pid /\ slot'[h].active = slot[h].active
  <2>1. slot \in [Slots -> Slot] /\ s \in Slots
    BY SetUpLast
  <2>2. CASE PipeToChild
    <3>1. PICK f, g : slot' = [slot EXCEPT ![s] = [slot[s] EXCEPT !.toR = f, !.toW = g]]
      BY <2>2 DEF PipeToChild, OpenPipe
    <3>2. QED  BY <2>1, <3>1 DEF Slot
  <2>3. CASE PipeFromChild
    <3>1. PICK f, g : slot' = [slot EXCEPT ![s] = [slot[s] EXCEPT !.fromR = f, !.fromW = g]]
      BY <2>3 DEF PipeFromChild, OpenPipe
    <3>2. QED  BY <2>1, <3>1 DEF Slot
  <2>4. QED  BY <1>0, <2>2, <2>3
<1>6. QED  BY <1>1, <1>2, <1>3, <1>4, <1>5, SlotKept

LEMMA AcceptKeepsSlots ==
    ASSUME RangeInv, SlotInv, Accept
    PROVE  SlotInv'
<1>1. /\ pc = "accept" /\ pc' = "choose" /\ accepted' = accepted + 1 /\ cur' = accepted + 1
      /\ backlog > 0 /\ UNCHANGED <<slot, status>> /\ leaving' = NoSlot
  BY DEF Accept, At, handler, children
<1>2. accepted \in Nat /\ cur = 0 /\ accepted + 1 \in Conn
  <2>1. backlog \in Nat /\ accepted \in Nat /\ accepted + backlog <= MaxConn
    BY DEF RangeInv
  <2>2. cur = 0
    BY <1>1, SetUpLast DEF Setup
  <2>3. QED  BY <1>1, <2>1, <2>2, Server17Assumption DEF Conn
<1>3. Active' = Active /\ \A c \in Conn : SlotOf(c)' = SlotOf(c)
  BY <1>1 DEF Active, SlotOf
<1>4. status[accepted + 1] = "none"
  BY <1>2 DEF SlotInv
<1>5. \A h \in Active' : slot'[h].pid \in 1..accepted' /\ slot'[h].pid # cur'
  BY <1>1, <1>2, <1>3 DEF SlotInv
<1>6. \A c \in Conn : c > accepted' => status'[c] = "none"
  BY <1>1, <1>2 DEF SlotInv, Conn
<1>7. LiveChildHasSlot'
  <2> SUFFICES ASSUME NEW c \in Conn, Live(c)' PROVE SlotOf(c)' # {}
    BY DEF LiveChildHasSlot
  <2>1. Live(c) /\ c # cur /\ ~Ending
    BY <1>1, <1>2 DEF Live, Conn, Ending
  <2>2. QED  BY <1>3, <2>1 DEF SlotInv, LiveChildHasSlot
<1>8. QED  BY <1>1, <1>3, <1>4, <1>5, <1>6, <1>7 DEF SlotInv

LEMMA ForkKeepsSlots ==
    ASSUME RangeInv, SlotInv, Fork
    PROVE  SlotInv'
<1>1. /\ pc = "fork" /\ pc' = "close" /\ status' = [status EXCEPT ![cur] = "nick"]
      /\ UNCHANGED <<slot, accepted, cur>> /\ leaving' = NoSlot
  BY DEF Fork, At, handler, setup
<1>2. accepted \in Nat /\ cur = accepted /\ status \in [Conn -> Status]
  BY <1>1, SetUpLast DEF Setup
<1>3. Active' = Active /\ \A c \in Conn : SlotOf(c)' = SlotOf(c)
  BY <1>1 DEF Active, SlotOf
<1>4. \A c \in Conn : c > accepted' => status'[c] = "none"
  BY <1>1, <1>2 DEF SlotInv, Conn
<1>5. LiveChildHasSlot'
  <2> SUFFICES ASSUME NEW c \in Conn, Live(c)', c # cur' PROVE SlotOf(c)' # {}
    BY DEF LiveChildHasSlot
  <2>1. Live(c) /\ c # cur /\ ~Ending
    BY <1>1, <1>2 DEF Live, Ending
  <2>2. QED  BY <1>3, <2>1 DEF SlotInv, LiveChildHasSlot
<1>6. QED  BY <1>1, <1>3, <1>4, <1>5 DEF SlotInv, Unforked

\* The slot that was chosen is still free when it is filled in.
LEMMA RecordKeepsSlots ==
    ASSUME RangeInv, SlotInv, Record
    PROVE  SlotInv'
<1>1. /\ slot' = [slot EXCEPT ![s] = [slot[s] EXCEPT !.pid = cur, !.sock = conn,
                                                     !.active = TRUE]]
      /\ pc = "record" /\ pc' = "unname" /\ cur' = 0
      /\ UNCHANGED <<accepted, status>> /\ leaving' = NoSlot
  BY DEF Record, At, handler, children
<1>2. /\ accepted \in Nat /\ cur = accepted /\ cur \in Conn /\ s \notin Active
      /\ s \in Slots /\ slot \in [Slots -> Slot] /\ status \in [Conn -> Status]
  BY <1>1, SetUpLast DEF Setup, Chosen
<1>3. /\ \A h \in Slots : h # s => slot'[h] = slot[h]
      /\ slot'[s].pid = cur /\ slot'[s].active = TRUE
  BY <1>1, <1>2 DEF Slot
<1>4. Active' = Active \cup {s}
  BY <1>2, <1>3 DEF Active
<1>5. Active \subseteq Slots
  BY DEF Active
<1>6. \A h \in Active' : slot'[h].pid \in 1..accepted' /\ slot'[h].pid # cur'
  BY <1>1, <1>2, <1>3, <1>4, <1>5 DEF SlotInv, Conn
<1>7. \A g, h \in Active' : slot'[g].pid = slot'[h].pid => g = h
  BY <1>2, <1>3, <1>4, <1>5 DEF SlotInv
<1>8. LiveChildHasSlot'
  <2> SUFFICES ASSUME NEW c \in Conn, Live(c)' PROVE SlotOf(c)' # {}
    BY DEF LiveChildHasSlot
  <2>1. CASE c = cur
    BY <1>2, <1>3, <1>4, <2>1 DEF SlotOf
  <2>2. CASE c # cur
    <3>1. Live(c) /\ ~Ending
      BY <1>1 DEF Live, Ending
    <3>2. PICK h \in Active : slot[h].pid = c
      BY <2>2, <3>1 DEF SlotInv, LiveChildHasSlot, SlotOf
    <3>3. h \in Active' /\ slot'[h].pid = c
      BY <1>2, <1>3, <1>4, <1>5, <3>2
    <3>4. QED  BY <3>3 DEF SlotOf
  <2>3. QED  BY <2>1, <2>2
<1>9. QED  BY <1>1, <1>6, <1>7, <1>8 DEF SlotInv, Unforked

\* A slot is freed whose child, if the server goes on, is no more.
LEMMA RemovalKeepsSlots ==
    ASSUME RangeInv, SlotInv, NEW h \in Active, slot' = Freed({h}), leaving' = NoSlot,
           UNCHANGED <<pc, cur, accepted, status>>,
           Ending \/ status[slot[h].pid] = "reaped"
    PROVE  SlotInv'
<1>1. slot \in [Slots -> Slot] /\ h \in Slots
  BY SetUpLast DEF Active
<1>2. /\ \A g \in Slots : g # h => slot'[g] = slot[g]
      /\ slot'[h].active = FALSE
  BY <1>1 DEF Freed, Slot
<1>3. Active' = Active \ {h} /\ \A g \in Active' : slot'[g] = slot[g]
  BY <1>1, <1>2 DEF Active
<1>4. \A g \in Active' : slot'[g].pid \in 1..accepted' /\ slot'[g].pid # cur'
  BY <1>3 DEF SlotInv
<1>5. \A f, g \in Active' : slot'[f].pid = slot'[g].pid => f = g
  <2>1. \A f, g \in Active : slot[f].pid = slot[g].pid => f = g
    BY DEF SlotInv
  <2>2. QED  BY <1>3, <2>1
<1>6. LiveChildHasSlot'
  <2> SUFFICES ASSUME NEW d \in Conn, Live(d)', d # cur', ~Ending'
               PROVE  SlotOf(d)' # {}
    BY DEF LiveChildHasSlot
  <2>1. Live(d) /\ d # cur /\ ~Ending
    BY DEF Live, Ending
  <2>2. PICK g \in Active : slot[g].pid = d
    BY <2>1 DEF SlotInv, LiveChildHasSlot, SlotOf
  <2>3. g # h
    BY <2>1, <2>2 DEF Live
  <2>4. g \in Active' /\ slot'[g].pid = d
    BY <1>3, <2>2, <2>3
  <2>5. QED  BY <2>4 DEF SlotOf
<1>7. (\A d \in Conn : d > accepted' => status'[d] = "none")
      /\ (pc' \in Unforked => status'[cur'] = "none")
  BY DEF SlotInv
<1>8. QED  BY <1>4, <1>5, <1>6, <1>7 DEF SlotInv

LEMMA ShutdownKeepsSlots ==
    ASSUME RangeInv, SlotInv, Shutdown
    PROVE  SlotInv'
<1>1. /\ leaving' = NoSlot /\ leaving = NoSlot /\ pc = "shutdown"
      /\ UNCHANGED <<pc, cur, accepted, status>> /\ UNCHANGED setup
  BY DEF Shutdown, At, handler, setup, children
<1>2. CASE i \in Active
  <2>1. RemoveClient(i)
    BY <1>2 DEF Shutdown
  <2>2. slot' = Freed({i})
    BY <1>1, <1>2, <2>1, RemovedRange
  <2>3. QED  BY <1>1, <1>2, <2>2, RemovalKeepsSlots DEF Ending
<1>3. CASE i \notin Active
  <2>1. slot' = slot
    BY <1>3 DEF Shutdown
  <2>2. \A c \in Conn : Live(c)' => Live(c)
    BY <1>1 DEF Live
  <2>3. QED  BY <1>1, <2>1, <2>2, SlotKept DEF Ending
<1>4. QED  BY <1>2, <1>3

LEMMA RemoveKeepsSlots ==
    ASSUME RangeInv, SlotInv, Remove
    PROVE  SlotInv'
<1>1. /\ leaving' = NoSlot /\ UNCHANGED <<pc, cur, accepted, status>> /\ UNCHANGED setup
      /\ leaving \in Active /\ RemoveClient(leaving)
      /\ status[slot[leaving].pid] = "reaped"
  BY DEF Remove, RangeInv, TellInv, SlotInv, setup, children
<1>2. slot' = Freed({leaving})
  BY <1>1, RemovedRange
<1>3. QED  BY <1>1, <1>2, RemovalKeepsSlots

\* The slot that the handler will free is the one of the child it reaps: no two
\* slots name one child.
LEMMA ReapKeepsSlots ==
    ASSUME RangeInv, SlotInv, NEW c \in Conn, Reap(c)
    PROVE  SlotInv'
<1>1. /\ status[c] = "zombie" /\ status' = [status EXCEPT ![c] = "reaped"]
      /\ UNCHANGED <<pc, cur, slot, accepted>>
      /\ leaving' = NoSlot \/ leaving' \in SlotOf(c)
  BY DEF Reap, handler, setup
<1>2. status \in [Conn -> Status]
  BY SetUpLast
<1>3. \A d \in Conn : /\ status'[d] = "none" <=> status[d] = "none"
                      /\ Live(d)' => Live(d)
  BY <1>1, <1>2 DEF Live
<1>4. Active' = Active /\ \A d \in Conn : SlotOf(d)' = SlotOf(d)
  BY <1>1 DEF SlotOf, Active
<1>5. LiveChildHasSlot'
  <2> SUFFICES ASSUME NEW d \in Conn, Live(d)', d # cur', ~Ending'
               PROVE  SlotOf(d)' # {}
    BY DEF LiveChildHasSlot
  <2>1. Live(d) /\ d # cur /\ ~Ending
    BY <1>1, <1>3 DEF Ending
  <2>2. QED  BY <1>4, <2>1 DEF SlotInv, LiveChildHasSlot
<1>6. leaving' # NoSlot => status'[slot'[leaving'].pid] = "reaped"
  BY <1>1, <1>2 DEF SlotOf
<1>7. pc' \in Unforked => status'[cur'] = "none"
  <2>1. pc \in Unforked => cur \in Conn
    BY SetUpLast DEF Setup, Unforked
  <2>2. QED  BY <1>1, <1>3, <2>1 DEF SlotInv
<1>8. QED  BY <1>1, <1>3, <1>4, <1>5, <1>6, <1>7 DEF SlotInv

LEMMA SlotStep == RangeInv /\ SlotInv /\ [Next]_vars => SlotInv'
<1> SUFFICES ASSUME RangeInv, SlotInv, [Next]_vars PROVE SlotInv'
  OBVIOUS
<1>1. ASSUME UNCHANGED <<pc, cur, slot, accepted, status, leaving>> PROVE SlotInv'
  <2>1. \A c \in Conn : Live(c)' => Live(c)
    BY <1>1 DEF Live
  <2>2. QED  BY <1>1, <2>1, SlotKept DEF Ending
<1>2. CASE Connect \/ TellLeft \/ UNCHANGED vars
  BY <1>1, <1>2 DEF Connect, TellLeft, vars, parent, setup, handler, children
<1>3. QED
  BY <1>2, ParentKeepsSlots, AcceptKeepsSlots, ForkKeepsSlots, RecordKeepsSlots,
     ShutdownKeepsSlots, RemoveKeepsSlots, ReapKeepsSlots, ChildKeepsSlot
     DEF Next, Parent, Handler

\* While the server runs every child that is recorded has its own slot,
\* whenever the handler frees slots between the steps of the parent: a slot that
\* was chosen is still free when it is filled in, and is freed for its child only.
THEOREM SlotForEachChild == Spec => []LiveChildHasSlot
<1>1. SlotInv => LiveChildHasSlot
  BY DEF SlotInv
<1>2. QED  BY RangeInit, RangeStep, SlotInit, SlotStep, <1>1, PTL DEF Spec

\* So there are never more children than slots: the child being set up counts
\* for the slot that was chosen for it.
LEMMA LimitHeld == RangeInv /\ SlotInv => ChildrenWithinLimit
<1> SUFFICES ASSUME RangeInv, SlotInv, ~Ending
             PROVE  Cardinality({c \in Conn : Live(c)}) <= MaxClients
  BY DEF ChildrenWithinLimit
<1> DEFINE S == {c \in Conn : Live(c)}
           f == [c \in S |-> IF c = cur THEN s ELSE CHOOSE h \in Active : slot[h].pid = c]
<1>1. ASSUME NEW c \in S, c # cur
      PROVE  f[c] \in Active /\ slot[f[c]].pid = c
  <2>1. \E h \in Active : slot[h].pid = c
    BY <1>1 DEF SlotInv, LiveChildHasSlot, SlotOf
  <2>2. QED  BY <1>1, <2>1
<1>2. cur \in S => f[cur] = s /\ s \in Slots \ Active
  <2>1. cur \in S => pc \in Chosen
    BY SetUpLast DEF SlotInv, Live, Unforked, Setup, Chosen, Conn
  <2>2. QED  BY <2>1, SetUpLast
<1>3. f \in Injection(S, Slots)
  <2>1. f \in [S -> Slots]
    BY <1>1, <1>2 DEF Active
  <2>2. ASSUME NEW a \in S, NEW b \in S, f[a] = f[b] PROVE a = b
    BY <1>1, <1>2, <2>2
  <2>3. QED  BY <2>1, <2>2 DEF Injection, IsInjective
<1>4. IsFiniteSet(Slots) /\ Cardinality(Slots) = MaxClients
  BY FS_Interval, Server17Assumption DEF Slots
<1> HIDE DEF S, f
<1>5. Cardinality(S) <= MaxClients
  BY <1>3, <1>4, FS_Injection
<1>6. QED  BY <1>5 DEF S

THEOREM LimitOfChildren == Spec => []ChildrenWithinLimit
<1>1. QED
  BY RangeInit, RangeStep, SlotInit, SlotStep, LimitHeld, PTL DEF Spec

-----------------------------------------------------------------------------
(* The pipe ends the parent has open.                                      *)

PipeEnd(f) == fds[f].kind \in {"toR", "toW", "fromR", "fromW"}

\* The numbers at which the connection being set up has its pipes by now.
SetupEnds ==
    IF pc = "pipe2" THEN {slot[s].toR, slot[s].toW}
    ELSE IF pc \in {"fork", "close", "record"} THEN EndsOf(s) ELSE {}

\* The invariant looks at the chosen slot step by step: before the pipes are
\* made it holds the numbers of the client that had it before.
EndsInv ==
    /\ \A f \in Fd : PipeEnd(f) => fds[f].conn \in 1..accepted
    /\ \A f \in Fd : PipeEnd(f) /\ fds[f].conn # cur /\ status[fds[f].conn] # "none" =>
           \E h \in Active : f \in EndsOf(h)
    /\ \A f \in Fd : PipeEnd(f) /\ fds[f].conn = cur => f \in SetupEnds

LEMMA EndsInit == Init => EndsInv
BY DEF Init, EndsInv, PipeEnd, End, Free

LEMMA SetupEndsNamed == RangeInv /\ EndsInv => EndsAreNamed
<1> SUFFICES ASSUME RangeInv, EndsInv, NEW f \in Fd, PipeEnd(f), status[fds[f].conn] # "none"
             PROVE  \/ \E h \in Active : f \in EndsOf(h)
                    \/ cur # 0 /\ f \in EndsOf(s)
  BY DEF EndsAreNamed, PipeEnd
<1>1. CASE fds[f].conn # cur
  BY <1>1 DEF EndsInv
<1>2. CASE fds[f].conn = cur
  <2>1. cur # 0
    BY <1>2, SetUpLast DEF EndsInv
  <2>2. f \in SetupEnds
    BY <1>2 DEF EndsInv
  <2>3. QED  BY <2>1, <2>2 DEF SetupEnds, EndsOf
<1>3. QED  BY <1>1, <1>2

\* Ends are closed, and what is open of an active slot's is still named by one.
LEMMA EndsKept ==
    ASSUME RangeInv, EndsInv, accepted' >= accepted, accepted' \in Nat,
           \A f \in Fd : PipeEnd(f)' => fds'[f] = fds[f],
           \A c \in Conn : status[c] = "none" => status'[c] = "none" \/ c = cur,
           \A h \in Active : \A f \in EndsOf(h) : PipeEnd(f)' =>
               \E g \in Active' : f \in EndsOf(g)',
           \/ cur' = cur /\ SetupEnds \subseteq SetupEnds'
           \/ cur' \in {0, accepted + 1} /\ SetupEnds = {}
           \/ cur' = 0 /\ status'[cur] = "none"
           \/ cur' = 0 /\ \A f \in SetupEnds : \E g \in Active' : f \in EndsOf(g)'
    PROVE  EndsInv'
<1>1. accepted \in Nat /\ cur \in Nat
  BY SetUpLast
<1>2. ASSUME NEW f \in Fd, PipeEnd(f)'
      PROVE  /\ PipeEnd(f) /\ fds'[f] = fds[f]
             /\ fds[f].conn \in 1..accepted /\ fds[f].conn \in Conn
  <2>1. fds'[f] = fds[f] /\ PipeEnd(f)
    BY <1>2 DEF PipeEnd
  <2>2. accepted <= MaxConn
    BY Server17Assumption DEF RangeInv
  <2>3. QED  BY <1>1, <2>1, <2>2, Server17Assumption DEF EndsInv, Conn
<1>3. \A f \in Fd : PipeEnd(f)' => fds'[f].conn \in 1..accepted'
  BY <1>1, <1>2
<1>4. ASSUME NEW f \in Fd, PipeEnd(f)', fds'[f].conn # cur', status'[fds'[f].conn] # "none"
      PROVE  \E h \in Active' : f \in EndsOf(h)'
  <2>1. /\ PipeEnd(f) /\ fds[f].conn \in Conn /\ fds[f].conn # cur'
        /\ status'[fds[f].conn] # "none"
    BY <1>2, <1>4
  <2>2. CASE fds[f].conn = cur
    <3>1. f \in SetupEnds
      BY <2>1, <2>2 DEF EndsInv
    <3>2. QED  BY <2>1, <2>2, <3>1
  <2>3. CASE fds[f].conn # cur
    <3>1. PICK h \in Active : f \in EndsOf(h)
      BY <2>1, <2>3 DEF EndsInv
    <3>2. QED  BY <1>4, <3>1
  <2>4. QED  BY <2>2, <2>3
<1>5. ASSUME NEW f \in Fd, PipeEnd(f)', fds'[f].conn = cur' PROVE f \in SetupEnds'
  <2>1. PipeEnd(f) /\ fds[f].conn \in 1..accepted /\ fds[f].conn = cur'
    BY <1>2, <1>5
  <2>2. cur' = cur
    BY <1>1, <2>1
  <2>3. f \in SetupEnds
    BY <2>1, <2>2 DEF EndsInv
  <2>4. SetupEnds # {}
    BY <2>3
  <2>5. SetupEnds \subseteq SetupEnds'
    BY <1>1, <2>1, <2>2, <2>4
  <2>6. QED  BY <2>3, <2>5
<1>6. QED  BY <1>3, <1>4, <1>5 DEF EndsInv

\* The ends of the slots that stay as they are.
LEMMA NamesKept ==
    ASSUME slot' = slot
    PROVE  /\ Active' = Active /\ \A h : EndsOf(h)' = EndsOf(h)
           /\ \A h \in Active : \A f \in EndsOf(h) : \E g \in Active' : f \in EndsOf(g)'
<1>1. Active' = Active /\ \A h : EndsOf(h)' = EndsOf(h)
  BY DEF Active, EndsOf
<1>2. QED  BY <1>1

\* A pipe's numbers are in the chosen slot as soon as the pipe is there.
LEMMA PipeIsNamed ==
    ASSUME RangeInv, SlotInv, EndsInv,
           \/ pc = "pipe" /\ PipeToChild
           \/ pc = "pipe2" /\ PipeFromChild
    PROVE  EndsInv'
<1> DEFINE read == IF pc = "pipe" THEN "toR" ELSE "fromR"
           write == IF pc = "pipe" THEN "toW" ELSE "fromW"
           opened == Opened(fds, End(read, cur))
           f == LowestFree(fds)
           g == LowestFree(opened)
<1>1. /\ fds' = Opened(opened, End(write, cur))
      /\ slot' = [slot EXCEPT ![s][read] = f, ![s][write] = g]
      /\ pc' = IF pc = "pipe" THEN "pipe2" ELSE "fork"
      /\ UNCHANGED <<s, cur, accepted, status>>
  BY DEF PipeToChild, PipeFromChild, OpenPipe, At, setup, children
<1>2. /\ s \in Slots /\ slot \in [Slots -> Slot] /\ s \notin Active
      /\ cur = accepted /\ cur \in 1..accepted
  BY SetUpLast DEF Setup, Chosen, Conn
<1>3. ASSUME NEW x \in Fd
      PROVE  \/ fds'[x] = fds[x]
             \/ x \in {f, g} /\ fds'[x].conn = cur
  <2>1. fds \in [Fd -> Ends]
    BY DEF RangeInv, FdInv
  <2>2. opened = [fds EXCEPT ![f] = End(read, cur)]
        /\ fds' = [opened EXCEPT ![g] = End(write, cur)]
    BY <1>1 DEF Opened
  <2>3. End(read, cur).conn = cur /\ End(write, cur).conn = cur
    BY DEF End
  <2> HIDE DEF f, g, opened, read, write
  <2>4. QED  BY <2>1, <2>2, <2>3
<1> HIDE DEF f, g
<1>4. /\ \A h \in Slots : h # s => slot'[h] = slot[h]
      /\ slot'[s].active = slot[s].active
      /\ pc = "pipe" => slot'[s].toR = f /\ slot'[s].toW = g
      /\ pc = "pipe2" => /\ slot'[s].fromR = f /\ slot'[s].fromW = g
                         /\ slot'[s].toR = slot[s].toR /\ slot'[s].toW = slot[s].toW
  <2>1. CASE pc = "pipe"
    <3>1. slot' = [slot EXCEPT ![s] = [slot[s] EXCEPT !.toR = f, !.toW = g]]
      BY <1>1, <2>1
    <3>2. QED  BY <1>2, <2>1, <3>1 DEF Slot
  <2>2. CASE pc = "pipe2"
    <3>1. slot' = [slot EXCEPT ![s] = [slot[s] EXCEPT !.fromR = f, !.fromW = g]]
      BY <1>1, <2>2
    <3>2. QED  BY <1>2, <2>2, <3>1 DEF Slot
  <2>3. QED  BY <2>1, <2>2
<1>5. SetupEnds \cup {f, g} \subseteq SetupEnds'
  BY <1>1, <1>4 DEF SetupEnds, EndsOf
<1>6. Active' = Active /\ \A h \in Active : h \in Active' /\ EndsOf(h)' = EndsOf(h)
  BY <1>2, <1>4 DEF Active, EndsOf
<1>7. ASSUME NEW x \in Fd, PipeEnd(x)' PROVE fds'[x].conn \in 1..accepted'
  BY <1>1, <1>2, <1>3, <1>7 DEF EndsInv, PipeEnd
<1>8. ASSUME NEW x \in Fd, PipeEnd(x)', fds'[x].conn # cur', status'[fds'[x].conn] # "none"
      PROVE  \E h \in Active' : x \in EndsOf(h)'
  <2>1. fds'[x] = fds[x]
    BY <1>1, <1>3, <1>8
  <2>2. PICK h \in Active : x \in EndsOf(h)
    BY <1>1, <1>8, <2>1 DEF EndsInv, PipeEnd
  <2>3. QED  BY <1>6, <2>2
<1>9. ASSUME NEW x \in Fd, PipeEnd(x)', fds'[x].conn = cur' PROVE x \in SetupEnds'
  <2>1. CASE fds'[x] = fds[x]
    <3>1. x \in SetupEnds
      BY <1>1, <1>9, <2>1 DEF EndsInv, PipeEnd
    <3>2. QED  BY <1>5, <3>1
  <2>2. CASE x \in {f, g}
    BY <1>5, <2>2
  <2>3. QED  BY <1>3, <2>1, <2>2
<1>10. QED  BY <1>7, <1>8, <1>9 DEF EndsInv

\* accept takes a number that no pipe has.
LEMMA AcceptKeepsEnds ==
    ASSUME RangeInv, SlotInv, EndsInv, Accept
    PROVE  EndsInv'
<1>1. /\ pc = "accept" /\ accepted' = accepted + 1 /\ cur' = accepted + 1
      /\ fds' = [fds EXCEPT ![LowestFree(fds)] = End("sock", accepted + 1)]
      /\ slot' = slot /\ status' = status
  BY DEF Accept, At, Opened, children
<1>2. fds \in [Fd -> Ends] /\ accepted \in Nat
  BY DEF RangeInv, FdInv
<1>3. \A f \in Fd : PipeEnd(f)' => fds'[f] = fds[f]
  BY <1>1, <1>2 DEF PipeEnd, End
<1>4. SetupEnds = {}
  BY <1>1 DEF SetupEnds
<1>5. QED  BY <1>1, <1>2, <1>3, <1>4, NamesKept, EndsKept

\* The steps of the parent that close ends and leave the array as it is.
LEMMA ClosingKeepsEnds ==
    ASSUME RangeInv, SlotInv, EndsInv, ChooseSlot \/ SetupFails \/ CloseChildEnds
    PROVE  EndsInv'
<1>1. /\ slot' = slot /\ status' = status /\ accepted' = accepted
      /\ fds' = fds \/ \E numbers : fds' = ClosedAll(numbers)
  BY DEF ChooseSlot, SetupFails, CloseChildEnds, children
<1>2. fds \in [Fd -> Ends] /\ accepted \in Nat
  BY DEF RangeInv, FdInv
<1>3. \A f \in Fd : PipeEnd(f)' => fds'[f] = fds[f]
  BY <1>1, <1>2 DEF PipeEnd, ClosedAll, Free, End
<1>4. \/ cur' = cur /\ SetupEnds \subseteq SetupEnds'
      \/ cur' = 0 /\ SetupEnds = {}
      \/ cur' = 0 /\ status'[cur] = "none"
  <2>1. ASSUME ChooseSlot PROVE SetupEnds = {} /\ (cur' = cur \/ cur' = 0)
    BY <2>1 DEF ChooseSlot, At, SetupEnds
  <2>2. ASSUME SetupFails PROVE cur' = 0 /\ status'[cur] = "none"
    BY <1>1, <2>2 DEF SetupFails, At, SlotInv, Unforked
  <2>3. ASSUME CloseChildEnds PROVE cur' = cur /\ SetupEnds' = SetupEnds
    BY <2>3 DEF CloseChildEnds, At, SetupEnds, EndsOf, setup
  <2>4. QED  BY <2>1, <2>2, <2>3
<1>5. QED  BY <1>1, <1>2, <1>3, <1>4, NamesKept, EndsKept

\* Recording a client makes the slot active that names its ends.
LEMMA RecordKeepsEnds ==
    ASSUME RangeInv, SlotInv, EndsInv, Record
    PROVE  EndsInv'
<1>1. /\ slot' = [slot EXCEPT ![s] = [slot[s] EXCEPT !.pid = cur, !.sock = conn,
                                                     !.active = TRUE]]
      /\ pc = "record" /\ cur' = 0
      /\ UNCHANGED <<accepted, fds, status>>
  BY DEF Record, At, children
<1>2. /\ accepted \in Nat /\ s \notin Active /\ s \in Slots /\ slot \in [Slots -> Slot]
  BY <1>1, SetUpLast DEF Chosen, Setup
<1>3. /\ \A h \in Slots : h # s => slot'[h] = slot[h]
      /\ slot'[s].active = TRUE
      /\ slot'[s].toR = slot[s].toR /\ slot'[s].toW = slot[s].toW
      /\ slot'[s].fromR = slot[s].fromR /\ slot'[s].fromW = slot[s].fromW
  BY <1>1, <1>2 DEF Slot
<1>4. Active' = Active \cup {s} /\ \A h \in Slots : EndsOf(h)' = EndsOf(h)
  BY <1>2, <1>3 DEF Active, EndsOf
<1>5. \A h \in Active : \A f \in EndsOf(h) : \E g \in Active' : f \in EndsOf(g)'
  BY <1>4 DEF Active
<1>6. \A f \in SetupEnds : \E g \in Active' : f \in EndsOf(g)'
  BY <1>1, <1>2, <1>4 DEF SetupEnds
<1>7. QED  BY <1>1, <1>2, <1>5, <1>6, EndsKept DEF PipeEnd

\* Slots are freed with all the ends they name.
LEMMA FreeingKeepsEnds ==
    ASSUME RangeInv, SlotInv, EndsInv, NEW freed \in SUBSET Active, NEW numbers,
           \A h \in freed : ClosedByRemove(h) \subseteq numbers,
           fds' = ClosedAll(numbers), slot' = Freed(freed),
           UNCHANGED <<s, cur, accepted>>,
           pc' = pc \/ (pc \notin Setup /\ pc' \notin Setup),
           \A c \in Conn : status[c] = "none" => status'[c] = "none"
    PROVE  EndsInv'
<1>1. fds \in [Fd -> Ends] /\ accepted \in Nat
  BY DEF RangeInv, FdInv
<1>2. slot \in [Slots -> Slot] /\ s \in Slots
  BY SetUpLast
<1>3. ASSUME NEW h \in Slots
      PROVE  EndsOf(h)' = EndsOf(h) /\ {slot[h].toR, slot[h].toW} = {slot[h].toR, slot[h].toW}'
             /\ (h \in Active' <=> h \in Active \ freed)
  <2>1. CASE h \in freed
    <3>1. slot'[h] = [slot[h] EXCEPT !.active = FALSE, !.pid = 0]
      BY <2>1 DEF Freed
    <3>2. QED  BY <1>2, <2>1, <3>1 DEF Slot, EndsOf, Active
  <2>2. CASE h \notin freed
    <3>1. slot'[h] = slot[h]
      BY <2>2 DEF Freed
    <3>2. QED  BY <2>2, <3>1 DEF EndsOf, Active
  <2>3. QED  BY <2>1, <2>2
<1>4. \A f \in Fd : PipeEnd(f)' => fds'[f] = fds[f] /\ f \notin numbers
  BY <1>1 DEF PipeEnd, ClosedAll, Free, End
<1>5. \A h \in Active : \A f \in EndsOf(h) : f \in Fd /\ PipeEnd(f)' =>
          \E g \in Active' : f \in EndsOf(g)'
  BY <1>3, <1>4 DEF Active, ClosedByRemove
<1>6. SetupEnds' = SetupEnds
  BY <1>2, <1>3 DEF SetupEnds, Setup
<1>7. \A h \in Active : EndsOf(h) \subseteq Fd
  BY <1>2 DEF Active, EndsOf, Slot
<1>8. QED  BY <1>1, <1>4, <1>5, <1>6, <1>7, EndsKept

\* remove_client closes every end the slot names, so that no end is forgotten.
LEMMA RemovalKeepsEnds ==
    ASSUME RangeInv, SlotInv, EndsInv,
           \/ Remove
           \/ Shutdown /\ i \in Active
    PROVE  EndsInv'
<1>1. UNCHANGED <<pc, s, cur, accepted, status>> /\ UNCHANGED setup
  BY DEF Remove, Shutdown, setup, children
<1>2. PICK h \in Active : RemoveClient(h)
  BY DEF Remove, Shutdown, RangeInv, TellInv
<1>3. slot' = Freed({h}) /\ fds' = ClosedAll(ClosedByRemove(h))
  BY <1>1, <1>2, RemovedRange
<1>4. {h} \in SUBSET Active /\ \A g \in {h} : ClosedByRemove(g) \subseteq ClosedByRemove(h)
  OBVIOUS
<1>5. QED  BY <1>1, <1>3, <1>4, FreeingKeepsEnds

\* Only the child of the connection being set up is new.
LEMMA OthersKeepEnds ==
    ASSUME RangeInv, SlotInv, EndsInv, UNCHANGED <<fds, slot, cur, accepted>>,
           \A c \in Conn : status[c] = "none" => status'[c] = "none" \/ c = cur,
           \/ pc' = pc /\ s' = s
           \/ pc = "fork" /\ pc' = "close" /\ s' = s
           \/ pc \notin Setup /\ pc' \notin Setup
    PROVE  EndsInv'
<1>1. SetupEnds' = SetupEnds
  BY DEF SetupEnds, EndsOf, Setup
<1>2. accepted \in Nat
  BY SetUpLast
<1>3. QED  BY <1>1, <1>2, NamesKept, EndsKept

LEMMA EndsStep == RangeInv /\ SlotInv /\ EndsInv /\ [Next]_vars => EndsInv'
<1> SUFFICES ASSUME RangeInv, SlotInv, EndsInv, [Next]_vars PROVE EndsInv'
  OBVIOUS
<1>1. CASE \/ Loop \/ Scan \/ Answer \/ Broadcast \/ ScanDone \/ Unname
           \/ (Shutdown /\ i \notin Active) \/ TellLeft \/ Terminate \/ Connect \/ UNCHANGED vars
  <2>1. UNCHANGED <<fds, slot, cur, accepted, status>>
    BY <1>1 DEF Loop, Scan, Answer, Broadcast, ScanDone, Unname, Shutdown, TellLeft,
       Terminate, Connect, vars, parent, setup, children
  <2>2. (pc' = pc /\ s' = s) \/ (pc \notin Setup /\ pc' \notin Setup)
    BY <1>1 DEF Loop, Scan, Answer, Broadcast, ScanDone, Unname, Shutdown, TellLeft,
       Terminate, Connect, vars, parent, setup, At, Setup
  <2>3. QED  BY <2>1, <2>2, OthersKeepEnds
<1>2. ASSUME NEW c \in Conn, Child(c) \/ Reap(c) PROVE EndsInv'
  <2>1. /\ UNCHANGED <<pc, fds, slot, s, cur, accepted>>
        /\ status[c] \in {"nick", "serve", "zombie"}
    BY <1>2 DEF Child, PipeEnds, Read, ReadPipe, Exit, Reads, Reap, parent, setup
  <2>2. \E value \in {"serve", "zombie", "reaped"} : status' = [status EXCEPT ![c] = value]
    BY <1>2 DEF Child, PipeEnds, Read, ReadPipe, Exit, Reap
  <2>3. status \in [Conn -> Status]
    BY SetUpLast
  <2>4. \A d \in Conn : status[d] = "none" => status'[d] = "none"
    BY <2>1, <2>2, <2>3
  <2>5. QED  BY <2>1, <2>4, OthersKeepEnds
<1>3. CASE Ended
  <2>1. /\ fds' = ClosedAll({1}) /\ pc \notin Setup /\ pc' \notin Setup
        /\ UNCHANGED <<s, slot, cur, accepted, status>>
    BY <1>3 DEF Ended, At, Setup, setup, children
  <2>2. slot' = Freed({})
    BY <2>1, SetUpLast DEF Freed
  <2>3. QED  BY <2>1, <2>2, FreeingKeepsEnds
<1>4. CASE Fork
  <2>1. /\ status' = [status EXCEPT ![cur] = "nick"] /\ pc = "fork" /\ pc' = "close"
        /\ UNCHANGED <<fds, slot, s, cur, accepted>>
    BY <1>4 DEF Fork, At, setup
  <2>2. status \in [Conn -> Status]
    BY SetUpLast
  <2>3. \A c \in Conn : status[c] = "none" => status'[c] = "none" \/ c = cur
    BY <2>1, <2>2
  <2>4. QED  BY <2>1, <2>3, OthersKeepEnds
<1>5. CASE PipeToChild \/ PipeFromChild
  <2>1. \/ pc = "pipe" /\ PipeToChild
        \/ pc = "pipe2" /\ PipeFromChild
    BY <1>5 DEF PipeToChild, PipeFromChild, OpenPipe, At
  <2>2. QED  BY <2>1, PipeIsNamed
<1>6. QED
  BY <1>1, <1>2, <1>3, <1>4, <1>5, AcceptKeepsEnds, ClosingKeepsEnds, RecordKeepsEnds,
     RemovalKeepsEnds DEF Next, Parent, Handler

\* Although remove_client closes numbers that are closed already and may have
\* been handed out again, the parent has no pipe to or from a child that exists
\* or existed without an active slot, or the connection being set up, naming it:
\* only the ends of a setup that failed are ever lost.
THEOREM NoEndForgotten == Spec => []EndsAreNamed
<1>1. QED
  BY RangeInit, RangeStep, SlotInit, SlotStep, EndsInit, EndsStep, SetupEndsNamed,
     PTL DEF Spec
=============================================================================
