-------------------------- MODULE ClientViewProofs --------------------------
(***************************************************************************)
(* Proofs about ClientView: that a client's copies of its nickname and     *)
(* room follow from the notices on their way to it, whatever the other     *)
(* clients do.                                                             *)
(***************************************************************************)
EXTENDS ClientView, RoomRegistryProofs

-----------------------------------------------------------------------------
(* Queues.                                                                 *)

\* What a read leaves of a queue.
LEMMA Dropped ==
    ASSUME NEW S, NEW q \in Seq(S), NEW h \in 1..Len(q)
    PROVE  LET rest == SubSeq(q, h + 1, Len(q)) IN
           /\ rest \in Seq(S) /\ Len(rest) = Len(q) - h
           /\ \A g \in 1..Len(q) - h : rest[g] = q[g + h]
OBVIOUS

LEMMA Added ==
    ASSUME NEW S, NEW q \in Seq(S), NEW e \in S
    PROVE  /\ Append(q, e) \in Seq(S) /\ Len(Append(q, e)) = Len(q) + 1
           /\ \A h \in 1..Len(q) : Append(q, e)[h] = q[h]
           /\ Append(q, e)[Len(q) + 1] = e
OBVIOUS

LEMMA AddedTwice ==
    ASSUME NEW S, NEW q \in Seq(S), NEW e \in S
    PROVE  q \o <<e, e>> = Append(Append(q, e), e)
<1>1. q \o <<e, e>> \in Seq(S) /\ Append(Append(q, e), e) \in Seq(S)
  OBVIOUS
<1>2. Len(q \o <<e, e>>) = Len(q) + 2 /\ Len(Append(Append(q, e), e)) = Len(q) + 2
  OBVIOUS
<1>3. ASSUME NEW h \in 1..Len(q) + 2
      PROVE  (q \o <<e, e>>)[h] = Append(Append(q, e), e)[h]
  OBVIOUS
<1>4. QED  BY <1>1, <1>2, <1>3

\* The last of some positions.
LEMMA LastOne ==
    ASSUME NEW k \in Nat, NEW S \in SUBSET (1..k), S # {}
    PROVE  \E x \in S : \A y \in S : y <= x
<1> DEFINE R == OpToRel(<, Nat)
           T == {k - x : x \in S}
<1>1. IsWellFoundedOn(R, Nat)
  BY NatLessThanWellFounded
<1>2. \A x, y \in Nat : x < y => <<x, y>> \in R
  BY DEF OpToRel
<1>3. T \in SUBSET Nat /\ T # {}
  <2>1. \A x \in S : k - x \in Nat
    OBVIOUS
  <2>2. PICK x \in S : TRUE
    OBVIOUS
  <2>3. k - x \in T
    OBVIOUS
  <2>4. QED  BY <2>1, <2>3
<1> HIDE DEF R
<1>4. PICK t \in T : \A u \in T : ~(<<u, t>> \in R)
  BY <1>1, <1>3, WFMin
<1>5. PICK x \in S : t = k - x
  OBVIOUS
<1>6. ASSUME NEW y \in S PROVE y <= x
  <2>1. k - y \in T /\ k - y \in Nat /\ k - x \in Nat /\ x \in Nat /\ y \in Nat
    OBVIOUS
  <2>2. ~(k - y < k - x)
    BY <1>2, <1>4, <1>5, <2>1
  <2>3. QED  BY <2>1, <2>2
<1>7. QED  BY <1>6

\* The first of some positions.
LEMMA FirstOne ==
    ASSUME NEW k \in Nat, NEW S \in SUBSET (1..k), S # {}
    PROVE  \E x \in S : \A y \in S : x <= y
<1> DEFINE T == {(k + 1) - x : x \in S}
<1>1. T \in SUBSET (1..k) /\ T # {}
  <2>1. \A x \in S : (k + 1) - x \in 1..k
    OBVIOUS
  <2>2. PICK x \in S : TRUE
    OBVIOUS
  <2>3. (k + 1) - x \in T
    OBVIOUS
  <2>4. QED  BY <2>1, <2>3
<1>2. PICK t \in T : \A u \in T : u <= t
  BY <1>1, LastOne
<1>3. PICK x \in S : t = (k + 1) - x
  OBVIOUS
<1>4. ASSUME NEW y \in S PROVE x <= y
  <2>1. (k + 1) - y \in T /\ x \in Nat /\ y \in Nat
    OBVIOUS
  <2>2. (k + 1) - y <= (k + 1) - x
    BY <1>2, <1>3, <2>1
  <2>3. QED  BY <2>1, <2>2
<1>5. QED  BY <1>4

-----------------------------------------------------------------------------
(* What a queue of notices does to the client that reads it one by one.    *)

\* The notices that change the nickname or the room the client believes in.
MovesClient(e) == e.note = "moved" \/ (e.note = "entered" /\ e.arg # General)
Renames(q) == {h \in 1..Len(q) : q[h].note = "renamed"}
Moves(q) == {h \in 1..Len(q) : MovesClient(q[h])}

\* Reading n notices of q, of which those in M change a copy, turns it from old
\* into new: it is what the last of them says.
Result(q, M, n, old, new) ==
    /\ (\A h \in M : h > n) => new = old
    /\ \A h \in M : h <= n /\ (\A g \in M : g <= h \/ g > n) => new = q[h].arg

\* What has not been read does not matter.
LEMMA ResultOfPrefix ==
    ASSUME NEW q, NEW q2, NEW M, NEW M2, NEW k \in Nat, NEW n \in 0..k, NEW old, NEW new,
           M \subseteq 1..k, M2 \ {k + 1} = M,
           \A h \in 1..k : q2[h] = q[h],
           Result(q, M, n, old, new)
    PROVE  Result(q2, M2, n, old, new)
<1>1. ASSUME NEW h \in M2, h <= n PROVE h \in M /\ q2[h] = q[h]
  <2>1. h # k + 1
    BY <1>1
  <2>2. h \in M
    BY <2>1
  <2>3. QED  BY <2>2
<1>2. \A h \in M : h \in M2
  OBVIOUS
<1>3. ASSUME NEW h \in M2 PROVE h \in M \/ h > n
  <2>1. h \in M \/ h = k + 1
    OBVIOUS
  <2>2. k + 1 > n
    OBVIOUS
  <2>3. QED  BY <2>1, <2>2
<1>4. QED  BY <1>1, <1>2, <1>3 DEF Result

\* A notice that changes nothing, and one that does.
LEMMA ResultOfOther ==
    ASSUME NEW q, NEW q2, NEW M, NEW k \in Nat, NEW old, NEW new,
           M \subseteq 1..k, \A h \in 1..k : q2[h] = q[h],
           Result(q, M, k, old, new)
    PROVE  Result(q2, M, k + 1, old, new)
BY DEF Result

LEMMA ResultOfLast ==
    ASSUME NEW q2, NEW M2, NEW k \in Nat, NEW old,
           M2 \subseteq 1..k + 1, k + 1 \in M2
    PROVE  Result(q2, M2, k + 1, old, q2[k + 1].arg)
<1>1. \A h \in M2 : h <= k + 1
  OBVIOUS
<1>2. ASSUME NEW h \in M2, \A g \in M2 : g <= h \/ g > k + 1 PROVE h = k + 1
  BY <1>2
<1>3. QED  BY <1>1, <1>2 DEF Result

\* Reading some notices first and the others later.
LEMMA ResultInTwo ==
    ASSUME NEW q, NEW rest, NEW M, NEW M2, NEW k \in Nat, NEW j \in 0..k, NEW n \in j..k,
           M \subseteq 1..k,
           \A h \in M2 : h \in 1..k - j /\ h + j \in M /\ rest[h] = q[h + j],
           \A h \in M : h > j => h - j \in M2,
           NEW old, NEW mid, NEW new,
           Result(q, M, j, old, mid), Result(q, M, n, old, new)
    PROVE  Result(rest, M2, n - j, mid, new)
<1>1. ASSUME \A h \in M2 : h > n - j PROVE new = mid
  <2>1. \A h \in M : h <= j \/ h > n
    BY <1>1
  <2>2. CASE \A h \in M : h > j
    BY <2>1, <2>2 DEF Result
  <2>3. CASE \E h \in M : h <= j
    <3> DEFINE S == {h \in M : h <= j}
    <3>1. S \in SUBSET (1..k) /\ S # {}
      BY <2>3
    <3>2. PICK h \in S : \A g \in S : g <= h
      BY <3>1, LastOne
    <3>3. \A g \in M : g <= h \/ (g > j /\ g > n)
      BY <2>1, <3>2
    <3>4. h \in M /\ h <= j /\ h <= n
      OBVIOUS
    <3> HIDE DEF S
    <3>5. mid = q[h].arg /\ new = q[h].arg
      BY <3>3, <3>4 DEF Result
    <3>6. QED  BY <3>5
  <2>4. QED  BY <2>2, <2>3
<1>2. ASSUME NEW h \in M2, h <= n - j, \A g \in M2 : g <= h \/ g > n - j
      PROVE  new = rest[h].arg
  <2>1. h + j \in M /\ h + j <= n /\ rest[h] = q[h + j]
    BY <1>2
  <2>2. ASSUME NEW g \in M PROVE g <= h + j \/ g > n
    <3>0. g \in Nat /\ h \in Nat
      OBVIOUS
    <3>1. CASE g <= j
      BY <3>0, <3>1
    <3>2. CASE g > j
      <4>1. g - j \in M2 /\ g \in Nat
        BY <3>2
      <4>2. g - j <= h \/ g - j > n - j
        BY <1>2, <4>1
      <4>3. QED  BY <4>1, <4>2
    <3>3. QED  BY <3>0, <3>1, <3>2
  <2>3. QED  BY <2>1, <2>2 DEF Result
<1>3. QED  BY <1>1, <1>2 DEF Result

-----------------------------------------------------------------------------
(* A client's copies follow from its queue of notices.                     *)

Note ==
    {e \in [note : {"entered", "moved", "renamed"}, arg : RoomName \cup NickName, who : Pid \cup {0}] :
        /\ e.note = "renamed" => e.arg \in NickName
        /\ e.note = "entered" => e.arg \in RoomName
        /\ e.note = "moved" => e.arg = General}

\* A client that has the copy mine of its nickname has name when it has read q.
NickFollows(q, mine, name) == Result(q, Renames(q), Len(q), mine, name)

\* Client p, which believes to be in mine, believes to be in r when it has read
\* q, unless r is general; and when it comes to a notice that somebody else has
\* entered a room it believes to be there already.
RoomFollows(q, mine, r, p) ==
    /\ r # General => Result(q, Moves(q), Len(q), mine, r)
    /\ \A h \in Moves(q) : q[h].who # p => Result(q, Moves(q), h - 1, mine, q[h].arg)

\* The changes in a queue to which a notice is added.
LEMMA ChangesAdded ==
    ASSUME NEW q \in Seq(Note), NEW e \in Note
    PROVE  LET k == Len(q)
               longer == Append(q, e)
           IN  /\ Renames(q) \subseteq 1..k /\ Moves(q) \subseteq 1..k
               /\ Renames(longer) \ {k + 1} = Renames(q) /\ Moves(longer) \ {k + 1} = Moves(q)
               /\ Renames(longer) \subseteq 1..k + 1 /\ Moves(longer) \subseteq 1..k + 1
               /\ k + 1 \in Renames(longer) <=> e.note = "renamed"
               /\ k + 1 \in Moves(longer) <=> MovesClient(e)
<1> DEFINE k == Len(q)
           longer == Append(q, e)
<1>1. /\ longer \in Seq(Note) /\ Len(longer) = k + 1 /\ k \in Nat
      /\ \A h \in 1..k : longer[h] = q[h]
      /\ longer[k + 1] = e
  BY Added
<1>2. 1..k + 1 = (1..k) \cup {k + 1} /\ k + 1 \notin 1..k
  BY <1>1
<1> HIDE DEF longer, k
<1>3. /\ Renames(q) = {h \in 1..k : q[h].note = "renamed"}
      /\ Moves(q) = {h \in 1..k : MovesClient(q[h])}
      /\ Renames(longer) = {h \in 1..k + 1 : longer[h].note = "renamed"}
      /\ Moves(longer) = {h \in 1..k + 1 : MovesClient(longer[h])}
  BY <1>1 DEF Renames, Moves, k
<1>4. Renames(q) \subseteq 1..k /\ Moves(q) \subseteq 1..k
      /\ Renames(longer) \subseteq 1..k + 1 /\ Moves(longer) \subseteq 1..k + 1
  BY <1>3
<1>5. Renames(longer) \ {k + 1} = Renames(q) /\ Moves(longer) \ {k + 1} = Moves(q)
  BY <1>1, <1>2, <1>3
<1>6. (k + 1 \in Renames(longer) <=> e.note = "renamed")
      /\ (k + 1 \in Moves(longer) <=> MovesClient(e))
  BY <1>1, <1>2, <1>3
<1>7. QED  BY <1>4, <1>5, <1>6 DEF longer, k

LEMMA NoRename ==
    ASSUME NEW q \in Seq(Note), NEW e \in Note, e.note # "renamed"
    PROVE  Renames(Append(q, e)) = Renames(q)
<1> DEFINE R == Renames(Append(q, e))
           k == Len(q)
<1>1. R \ {k + 1} = Renames(q) /\ k + 1 \notin R
  BY ChangesAdded
<1> HIDE DEF R, k
<1>2. R = Renames(q)
  BY <1>1
<1>3. QED  BY <1>2 DEF R

\* A notice of a new nickname arrives as the record changes, others as it does not.
LEMMA NickAdded ==
    ASSUME NEW q \in Seq(Note), NEW e \in Note, NEW mine, NEW name, NEW name2,
           NickFollows(q, mine, name),
           name2 = IF e.note = "renamed" THEN e.arg ELSE name
    PROVE  NickFollows(Append(q, e), mine, name2)
<1> DEFINE k == Len(q)
           longer == Append(q, e)
<1>1. /\ longer \in Seq(Note) /\ Len(longer) = k + 1 /\ k \in Nat
      /\ \A h \in 1..k : longer[h] = q[h]
      /\ longer[k + 1] = e
  BY Added
<1>2. /\ Renames(q) \subseteq 1..k /\ Renames(longer) \ {k + 1} = Renames(q)
      /\ Renames(longer) \subseteq 1..k + 1
      /\ k + 1 \in Renames(longer) <=> e.note = "renamed"
  BY ChangesAdded
<1>3. Result(q, Renames(q), k, mine, name)
  BY DEF NickFollows
<1> HIDE DEF k, longer
<1>4. CASE e.note = "renamed"
  <2>1. Result(longer, Renames(longer), k + 1, mine, longer[k + 1].arg)
    BY <1>1, <1>2, <1>4, ResultOfLast
  <2>2. QED  BY <1>1, <1>4, <2>1 DEF NickFollows, longer
<1>5. CASE e.note # "renamed"
  <2>1. Renames(longer) = Renames(q)
    BY <1>2, <1>5
  <2>2. Result(longer, Renames(longer), k + 1, mine, name)
    BY <1>1, <1>2, <1>3, <2>1, ResultOfOther
  <2>3. QED  BY <1>1, <1>5, <2>2 DEF NickFollows, longer
<1>6. QED  BY <1>4, <1>5

\* A notice of an entry or of the return to general arrives as the record
\* changes to that room, or is about somebody who enters the recorded room.
LEMMA RoomAdded ==
    ASSUME NEW q \in Seq(Note), NEW e \in Note, NEW mine, NEW r, NEW r2, NEW p,
           RoomFollows(q, mine, r, p),
           e.who # p /\ MovesClient(e) => r # General /\ e.arg = r,
           r2 # General => IF MovesClient(e) THEN e.arg = r2 ELSE r = r2
    PROVE  RoomFollows(Append(q, e), mine, r2, p)
<1> DEFINE k == Len(q)
           longer == Append(q, e)
<1>1. /\ longer \in Seq(Note) /\ Len(longer) = k + 1 /\ k \in Nat
      /\ \A h \in 1..k : longer[h] = q[h]
      /\ longer[k + 1] = e
  BY Added
<1>2. /\ Moves(q) \subseteq 1..k /\ Moves(longer) \ {k + 1} = Moves(q)
      /\ Moves(longer) \subseteq 1..k + 1
      /\ k + 1 \in Moves(longer) <=> MovesClient(e)
  BY ChangesAdded
<1>3. /\ r # General => Result(q, Moves(q), k, mine, r)
      /\ \A h \in Moves(q) : q[h].who # p => Result(q, Moves(q), h - 1, mine, q[h].arg)
  BY DEF RoomFollows
<1> HIDE DEF k, longer
<1>4. ASSUME r2 # General PROVE Result(longer, Moves(longer), k + 1, mine, r2)
  <2>1. CASE MovesClient(e)
    <3>1. Result(longer, Moves(longer), k + 1, mine, longer[k + 1].arg)
      BY <1>1, <1>2, <2>1, ResultOfLast
    <3>2. QED  BY <1>1, <1>4, <2>1, <3>1
  <2>2. CASE ~MovesClient(e)
    <3>1. Moves(longer) = Moves(q)
      BY <1>2, <2>2
    <3>2. Result(q, Moves(q), k, mine, r)
      BY <1>3, <1>4, <2>2
    <3>3. Result(longer, Moves(longer), k + 1, mine, r)
      BY <1>1, <1>2, <3>1, <3>2, ResultOfOther
    <3>4. QED  BY <1>4, <2>2, <3>3
  <2>3. QED  BY <2>1, <2>2
<1>5. ASSUME NEW h \in Moves(longer), longer[h].who # p
      PROVE  Result(longer, Moves(longer), h - 1, mine, longer[h].arg)
  <2>1. CASE h = k + 1
    <3>1. MovesClient(e) /\ e.arg = r /\ r # General
      BY <1>1, <1>2, <1>5, <2>1
    <3>2. Result(q, Moves(q), k, mine, r)
      BY <1>3, <3>1
    <3>3. k \in 0..k /\ h - 1 = k
      BY <1>1, <2>1
    <3>4. Result(longer, Moves(longer), k, mine, r)
      BY <1>1, <1>2, <3>2, <3>3, ResultOfPrefix
    <3>5. QED  BY <1>1, <2>1, <3>1, <3>3, <3>4
  <2>2. CASE h # k + 1
    <3>1. h \in Moves(q) /\ h \in 1..k /\ longer[h] = q[h]
      BY <1>1, <1>2, <2>2
    <3>2. Result(q, Moves(q), h - 1, mine, q[h].arg)
      BY <1>3, <1>5, <3>1
    <3>3. h - 1 \in 0..k
      BY <1>1, <3>1
    <3>4. Result(longer, Moves(longer), h - 1, mine, q[h].arg)
      BY <1>1, <1>2, <3>2, <3>3, ResultOfPrefix
    <3>5. QED  BY <3>1, <3>4
  <2>3. QED  BY <2>1, <2>2
<1>6. QED  BY <1>1, <1>4, <1>5 DEF RoomFollows, longer

\* The changes in what a read of j notices leaves.
LEMMA ChangesLeft ==
    ASSUME NEW q \in Seq(Note), NEW j \in 1..Len(q)
    PROVE  LET k == Len(q)
               rest == SubSeq(q, j + 1, k)
           IN  /\ k \in Nat /\ rest \in Seq(Note) /\ Len(rest) = k - j
               /\ Renames(q) \subseteq 1..k /\ Moves(q) \subseteq 1..k
               /\ \A h \in Renames(rest) :
                      h \in 1..k - j /\ h + j \in Renames(q) /\ rest[h] = q[h + j]
               /\ \A h \in Moves(rest) :
                      h \in 1..k - j /\ h + j \in Moves(q) /\ rest[h] = q[h + j]
               /\ \A h \in Renames(q) : h > j => h - j \in Renames(rest)
               /\ \A h \in Moves(q) : h > j => h - j \in Moves(rest)
<1> DEFINE k == Len(q)
           rest == SubSeq(q, j + 1, k)
<1>1. /\ k \in Nat /\ rest \in Seq(Note) /\ Len(rest) = k - j
      /\ \A h \in 1..k - j : rest[h] = q[h + j]
  BY Dropped
<1>2. \A h \in 1..k - j : h + j \in 1..k
  BY <1>1
<1>3. \A h \in 1..k : h > j => h - j \in 1..k - j /\ (h - j) + j = h
  BY <1>1
<1> HIDE DEF rest, k
<1>4. /\ Renames(q) = {h \in 1..k : q[h].note = "renamed"}
      /\ Moves(q) = {h \in 1..k : MovesClient(q[h])}
      /\ Renames(rest) = {h \in 1..k - j : rest[h].note = "renamed"}
      /\ Moves(rest) = {h \in 1..k - j : MovesClient(rest[h])}
  BY <1>1 DEF Renames, Moves, k
<1>5. \A h \in Renames(rest) :
          h \in 1..k - j /\ h + j \in Renames(q) /\ rest[h] = q[h + j]
  BY <1>1, <1>2, <1>4
<1>6. \A h \in Moves(rest) :
          h \in 1..k - j /\ h + j \in Moves(q) /\ rest[h] = q[h + j]
  BY <1>1, <1>2, <1>4
<1>7. ASSUME NEW h \in Renames(q), h > j PROVE h - j \in Renames(rest)
  <2>1. h \in 1..k /\ q[h].note = "renamed"
    BY <1>4
  <2>2. h - j \in 1..k - j /\ rest[h - j] = q[h]
    BY <1>1, <1>3, <1>7, <2>1
  <2>3. QED  BY <1>4, <2>1, <2>2
<1>8. ASSUME NEW h \in Moves(q), h > j PROVE h - j \in Moves(rest)
  <2>1. h \in 1..k /\ MovesClient(q[h])
    BY <1>4
  <2>2. h - j \in 1..k - j /\ rest[h - j] = q[h]
    BY <1>1, <1>3, <1>8, <2>1
  <2>3. QED  BY <1>4, <2>1, <2>2
<1>9. Renames(q) \subseteq 1..k /\ Moves(q) \subseteq 1..k
  BY <1>4
<1>10. QED  BY <1>1, <1>5, <1>6, <1>7, <1>8, <1>9 DEF rest, k

\* The copies still follow when some notices have been read one by one.
LEMMA NickRead ==
    ASSUME NEW q \in Seq(Note), NEW j \in 1..Len(q), NEW mine, NEW mine2, NEW name,
           NickFollows(q, mine, name), Result(q, Renames(q), j, mine, mine2)
    PROVE  NickFollows(SubSeq(q, j + 1, Len(q)), mine2, name)
<1> DEFINE k == Len(q)
           rest == SubSeq(q, j + 1, k)
<1>1. /\ k \in Nat /\ Len(rest) = k - j
      /\ Renames(q) \subseteq 1..k
      /\ \A h \in Renames(rest) :
             h \in 1..k - j /\ h + j \in Renames(q) /\ rest[h] = q[h + j]
      /\ \A h \in Renames(q) : h > j => h - j \in Renames(rest)
  BY ChangesLeft
<1>2. Result(q, Renames(q), k, mine, name)
  BY DEF NickFollows
<1>3. j \in 0..k /\ k \in j..k
  BY <1>1
<1> HIDE DEF rest, k
<1>4. Result(rest, Renames(rest), k - j, mine2, name)
  BY <1>1, <1>2, <1>3, ResultInTwo
<1>5. QED  BY <1>1, <1>4 DEF NickFollows, rest, k

LEMMA RoomRead ==
    ASSUME NEW q \in Seq(Note), NEW j \in 1..Len(q), NEW mine, NEW mine2, NEW r, NEW p,
           RoomFollows(q, mine, r, p), Result(q, Moves(q), j, mine, mine2)
    PROVE  RoomFollows(SubSeq(q, j + 1, Len(q)), mine2, r, p)
<1> DEFINE k == Len(q)
           rest == SubSeq(q, j + 1, k)
<1>1. /\ k \in Nat /\ Len(rest) = k - j
      /\ Moves(q) \subseteq 1..k
      /\ \A h \in Moves(rest) :
             h \in 1..k - j /\ h + j \in Moves(q) /\ rest[h] = q[h + j]
      /\ \A h \in Moves(q) : h > j => h - j \in Moves(rest)
  BY ChangesLeft
<1>2. /\ r # General => Result(q, Moves(q), k, mine, r)
      /\ \A h \in Moves(q) : q[h].who # p => Result(q, Moves(q), h - 1, mine, q[h].arg)
  BY DEF RoomFollows
<1>3. j \in 0..k /\ k \in j..k
  BY <1>1
<1> HIDE DEF rest, k
<1>4. ASSUME r # General PROVE Result(rest, Moves(rest), k - j, mine2, r)
  BY <1>1, <1>2, <1>3, <1>4, ResultInTwo
<1>5. ASSUME NEW h \in Moves(rest), rest[h].who # p
      PROVE  Result(rest, Moves(rest), h - 1, mine2, rest[h].arg)
  <2>1. h \in 1..k - j /\ h + j \in Moves(q) /\ rest[h] = q[h + j]
    BY <1>1
  <2>2. Result(q, Moves(q), (h + j) - 1, mine, rest[h].arg)
    BY <1>2, <1>5, <2>1
  <2>3. (h + j) - 1 \in j..k /\ ((h + j) - 1) - j = h - 1
    BY <1>1, <1>3, <2>1
  <2>4. Result(rest, Moves(rest), ((h + j) - 1) - j, mine2, rest[h].arg)
    BY <1>1, <1>3, <2>2, <2>3, ResultInTwo
  <2>5. QED  BY <2>3, <2>4
<1>6. QED  BY <1>1, <1>4, <1>5 DEF RoomFollows, rest, k

-----------------------------------------------------------------------------
(* Types, and the queues after they have grown or shrunk.                  *)

Messages ==
    {m \in [cmd : {"join", "leave", "nickname", "chat", "whisper", "none"},
            arg : RoomName \cup NickName, quotes : Text] :
        /\ m.cmd = "join" => m.arg \in RoomName
        /\ m.cmd = "nickname" => m.arg \in NickName}

ViewTypes ==
    /\ manner \in Manners
    /\ myNick \in [Pid -> NickName] /\ myRoom \in [Pid -> RoomName]
    /\ last \in [Pid -> Messages] /\ sent \in [Pid -> 0..MaxSend]
    /\ toServer \in [Pid -> Seq(Messages)] /\ toClient \in [Pid -> Seq(Note)]
    /\ \A p \in Pid : Len(toServer[p]) <= sent[p]

ViewRange == TypeOK /\ ViewTypes /\ quoted \subseteq clients

LEMMA ViewTypesEnough == ViewRange => ViewTypeOK
<1> SUFFICES ASSUME ViewRange PROVE ViewTypeOK
  OBVIOUS
<1>1. ASSUME NEW p \in Pid PROVE Len(toServer[p]) <= MaxSend
  <2>1. /\ Len(toServer[p]) \in Nat /\ sent[p] \in 0..MaxSend
        /\ Len(toServer[p]) <= sent[p]
    BY DEF ViewRange, ViewTypes
  <2>2. QED  BY <2>1, ViewAssumption
<1>2. QED  BY <1>1 DEF ViewRange, ViewTypes, ViewTypeOK

LEMMA ViewRangeInit == ViewInit => ViewRange
<1> SUFFICES ASSUME ViewInit PROVE ViewRange
  OBVIOUS
<1>1. TypeOK
  BY TypeInit DEF ViewInit
<1>2. Nothing \in Messages
  BY RoomAssumption DEF Nothing, Command, Message, Messages, Text
<1>3. /\ manner \in Manners
      /\ myNick \in [Pid -> NickName] /\ myRoom \in [Pid -> RoomName]
      /\ last \in [Pid -> Messages] /\ sent \in [Pid -> 0..MaxSend]
  BY <1>2, RoomAssumption, NickAssumption, ViewAssumption DEF ViewInit
<1>4. toServer \in [Pid -> Seq(Messages)] /\ toClient \in [Pid -> Seq(Note)]
  BY DEF ViewInit
<1>5. \A p \in Pid : Len(toServer[p]) <= sent[p]
  BY DEF ViewInit
<1>6. quoted = {}
  BY DEF ViewInit
<1>7. QED  BY <1>1, <1>3, <1>4, <1>5, <1>6 DEF ViewRange, ViewTypes

\* What the server tells and what the user sends is of its type.
LEMMA NoticeTypes ==
    ASSUME NEW p \in Pid
    PROVE  /\ \A r \in RoomName : Notice("entered", r, p) \in Note
           /\ \A m \in NickName : Notice("renamed", m, p) \in Note
           /\ Notice("moved", General, p) \in Note
BY RoomAssumption DEF Notice, Note

\* What a user can quote is a notice.
LEMMA TextTypes == Text \subseteq Seq(Note)
<1>1. Quotation \subseteq Note
  BY RoomAssumption DEF Quotation, Notice, Note
<1>2. \A e \in Note : <<e>> \in Seq(Note)
  OBVIOUS
<1>3. <<>> \in Seq(Note)
  OBVIOUS
<1> HIDE DEF Note
<1>4. QED  BY <1>1, <1>2, <1>3 DEF Text

LEMMA CommandTypes ==
    /\ \A r \in RoomName : Command("join", r) \in Messages
    /\ \A m \in NickName : Command("nickname", m) \in Messages
    /\ Command("leave", General) \in Messages
    /\ \A x \in Text : /\ \A r \in RoomName : Message("chat", r, x) \in Messages
                       /\ \A m \in NickName : Message("whisper", m, x) \in Messages
BY RoomAssumption DEF Command, Message, Messages, Text

LEMMA TextsAreText == \A p \in Pid : TextsOf(p) \subseteq Text
BY DEF TextsOf, Text

\* A read takes at least the first message, and no other from a slow sender.
LEMMA TakenRange ==
    ASSUME NEW S, NEW q \in Seq(S)
    PROVE  Taken(q) \subseteq 1..Len(q) /\ (manner = "slow" => Taken(q) \subseteq {1})
BY DEF Taken

\* The queues after the parent has told a client, or everybody in a room.
LEMMA Told ==
    ASSUME ViewTypes, NEW p \in Pid, NEW e \in Note, Tell(p, e)
    PROVE  /\ toClient' \in [Pid -> Seq(Note)]
           /\ \A c \in Pid : toClient'[c] =
                  IF c = p THEN Append(toClient[c], e) ELSE toClient[c]
<1>1. toClient \in [Pid -> Seq(Note)] /\ toClient' = [toClient EXCEPT ![p] = Append(@, e)]
  BY DEF ViewTypes, Tell
<1>2. Append(toClient[p], e) \in Seq(Note)
  BY <1>1, Added
<1>3. QED  BY <1>1, <1>2

LEMMA ToldEntry ==
    ASSUME ViewTypes, NEW p \in Pid, NEW r \in RoomName, TellEntry(p, r)
    PROVE  LET e == Notice("entered", r, p) IN
           /\ toClient' \in [Pid -> Seq(Note)]
           /\ \A c \in Pid : toClient'[c] =
                  IF c = p THEN Append(Append(toClient[c], e), e)
                  ELSE IF c \in Members(r) THEN Append(toClient[c], e)
                  ELSE toClient[c]
<1> DEFINE e == Notice("entered", r, p)
<1>1. toClient \in [Pid -> Seq(Note)] /\ e \in Note
  BY NoticeTypes DEF ViewTypes
<1>2. toClient' = [c \in Pid |-> IF c = p THEN toClient[c] \o <<e, e>>
                                 ELSE IF c \in Members(r) THEN Append(toClient[c], e)
                                 ELSE toClient[c]]
  BY DEF TellEntry
<1> HIDE DEF e
<1>3. ASSUME NEW c \in Pid
      PROVE  /\ toClient[c] \o <<e, e>> = Append(Append(toClient[c], e), e)
             /\ Append(toClient[c], e) \in Seq(Note)
             /\ Append(Append(toClient[c], e), e) \in Seq(Note)
  <2>1. Append(toClient[c], e) \in Seq(Note)
    BY <1>1, Added
  <2>2. Append(Append(toClient[c], e), e) \in Seq(Note)
    BY <1>1, <2>1, Added
  <2>3. toClient[c] \o <<e, e>> = Append(Append(toClient[c], e), e)
    BY <1>1, AddedTwice
  <2>4. QED  BY <2>1, <2>2, <2>3
<1>4. \A c \in Pid : toClient'[c] =
          IF c = p THEN Append(Append(toClient[c], e), e)
          ELSE IF c \in Members(r) THEN Append(toClient[c], e)
          ELSE toClient[c]
  BY <1>2, <1>3
<1>5. \A c \in Pid : toClient'[c] \in Seq(Note)
  BY <1>1, <1>3, <1>4
<1>6. toClient' \in [Pid -> Seq(Note)]
  BY <1>2, <1>5
<1>7. QED  BY <1>4, <1>6 DEF e

\* The queue to the parent after a message was sent, and after one was handled.
LEMMA Transmitted ==
    ASSUME ViewTypes, NEW p \in Pid, NEW m \in Messages, Transmit(p, m), sent[p] < MaxSend,
           last' \in [Pid -> Messages]
    PROVE  ViewTypes' /\ \A c \in Pid \ {p} : toServer'[c] = toServer[c]
<1>1. /\ toServer \in [Pid -> Seq(Messages)] /\ sent \in [Pid -> 0..MaxSend]
      /\ toServer' = [toServer EXCEPT ![p] = Append(@, m)]
      /\ sent' = [sent EXCEPT ![p] = @ + 1]
      /\ UNCHANGED <<vars, manner, myNick, myRoom, toClient, quoted>>
  BY DEF ViewTypes, Transmit
<1>2. /\ Append(toServer[p], m) \in Seq(Messages)
      /\ Len(Append(toServer[p], m)) = Len(toServer[p]) + 1
  BY <1>1, Added
<1>3. sent[p] + 1 \in 0..MaxSend
  BY <1>1, ViewAssumption
<1>4. /\ toServer' \in [Pid -> Seq(Messages)] /\ sent' \in [Pid -> 0..MaxSend]
      /\ toServer'[p] = Append(toServer[p], m) /\ sent'[p] = sent[p] + 1
      /\ \A c \in Pid \ {p} : toServer'[c] = toServer[c] /\ sent'[c] = sent[c]
  BY <1>1, <1>2, <1>3
<1>5. ASSUME NEW c \in Pid PROVE Len(toServer'[c]) <= sent'[c]
  <2>1. Len(toServer[c]) <= sent[c] /\ Len(toServer[c]) \in Nat /\ sent[c] \in 0..MaxSend
    BY <1>1 DEF ViewTypes
  <2>2. CASE c = p
    BY <1>2, <1>4, <2>1, <2>2
  <2>3. CASE c # p
    BY <1>4, <2>1, <2>3
  <2>4. QED  BY <2>2, <2>3
<1>6. QED  BY <1>1, <1>4, <1>5 DEF ViewTypes

LEMMA Received ==
    ASSUME ViewTypes, NEW p \in Pid, Receive(p), toServer[p] # <<>>
    PROVE  /\ toServer' \in [Pid -> Seq(Messages)]
           /\ Len(toServer'[p]) < Len(toServer[p])
           /\ \A c \in Pid \ {p} : toServer'[c] = toServer[c]
           /\ Head(toServer[p]) \in Messages
<1>1. toServer \in [Pid -> Seq(Messages)]
  BY DEF ViewTypes
<1>2. PICK h \in Taken(toServer[p]) :
          toServer' = [toServer EXCEPT ![p] = SubSeq(@, h + 1, Len(@))]
  BY DEF Receive
<1>3. h \in 1..Len(toServer[p])
  BY <1>1, TakenRange
<1>4. /\ SubSeq(toServer[p], h + 1, Len(toServer[p])) \in Seq(Messages)
      /\ Len(SubSeq(toServer[p], h + 1, Len(toServer[p]))) = Len(toServer[p]) - h
  BY <1>1, <1>3, Dropped
<1>5. /\ toServer' \in [Pid -> Seq(Messages)]
      /\ toServer'[p] = SubSeq(toServer[p], h + 1, Len(toServer[p]))
      /\ \A c \in Pid \ {p} : toServer'[c] = toServer[c]
  BY <1>1, <1>2, <1>4
<1>6. Len(toServer[p]) \in Nat /\ Head(toServer[p]) \in Messages
  BY <1>1
<1>7. QED  BY <1>3, <1>4, <1>5, <1>6

\* A text reaches the queues of those it is sent to, who have then been sent what
\* it quotes, and leaves the others' alone.
LEMMA Passed ==
    ASSUME ViewTypes, NEW p \in Pid, ServeText(p)
    PROVE  /\ toClient' \in [Pid -> Seq(Note)]
           /\ quoted \subseteq quoted'
           /\ \A c \in Pid \ quoted' : toClient'[c] = toClient[c]
           /\ \A c \in Pid \ clients : toClient'[c] = toClient[c]
<1> DEFINE m == Head(toServer[p])
           Copy(q, S) == IF q \in S THEN m.quotes ELSE <<>>
<1>1. /\ p \in clients /\ toServer[p] # <<>> /\ Receive(p)
      /\ toClient' = [q \in Pid |->
             toClient[q] \o Copy(q, Addressees(m)) \o Copy(q, Echoed(p, m))]
      /\ quoted' = IF m.quotes = <<>> THEN quoted
                   ELSE quoted \cup Addressees(m) \cup Echoed(p, m)
  BY DEF ServeText
<1>2. toClient \in [Pid -> Seq(Note)]
  BY DEF ViewTypes
<1>3. m \in Messages
  BY <1>1, Received
<1>4. m.quotes \in Seq(Note)
  BY <1>3, TextTypes DEF Messages
<1>5. Addressees(m) \subseteq clients /\ Echoed(p, m) \subseteq clients
  BY <1>1 DEF Addressees, Echoed, Members
<1> HIDE DEF m
<1>6. \A S : \A q : Copy(q, S) \in Seq(Note)
  BY <1>4
<1>7. ASSUME NEW c \in Pid
      PROVE  /\ toClient'[c] \in Seq(Note)
             /\ Copy(c, Addressees(m)) = <<>> /\ Copy(c, Echoed(p, m)) = <<>>
                    => toClient'[c] = toClient[c]
  <2>1. toClient'[c] = toClient[c] \o Copy(c, Addressees(m)) \o Copy(c, Echoed(p, m))
    BY <1>1
  <2>2. /\ toClient[c] \in Seq(Note) /\ Copy(c, Addressees(m)) \in Seq(Note)
        /\ Copy(c, Echoed(p, m)) \in Seq(Note)
    BY <1>2, <1>6
  <2> HIDE DEF Copy
  <2>3. QED  BY <2>1, <2>2
<1>8. \A c \in Pid \ quoted' : Copy(c, Addressees(m)) = <<>> /\ Copy(c, Echoed(p, m)) = <<>>
  BY <1>1
<1>9. \A c \in Pid \ clients : Copy(c, Addressees(m)) = <<>> /\ Copy(c, Echoed(p, m)) = <<>>
  BY <1>5
<1>10. toClient' \in [Pid -> Seq(Note)]
  BY <1>1, <1>7
<1> HIDE DEF Copy
<1>11. QED  BY <1>1, <1>7, <1>8, <1>9, <1>10

-----------------------------------------------------------------------------
(* What a read does to the client.                                         *)

\* The first notice of a kind among those that are read at once.
LEMMA FirstOfKind ==
    ASSUME NEW q \in Seq(Note), NEW j \in 1..Len(q), NEW kind
    PROVE  LET batch == SubSeq(q, 1, j) IN
           /\ kind \in Kinds(batch) <=> \E h \in 1..j : q[h].note = kind
           /\ kind \in Kinds(batch) =>
                  \E h \in 1..j : q[h].note = kind /\ FirstArg(batch, kind) = q[h].arg
<1> DEFINE batch == SubSeq(q, 1, j)
<1>1. Len(q) \in Nat /\ j \in Nat
  OBVIOUS
<1>2. batch \in Seq(Note) /\ Len(batch) = j /\ \A h \in 1..j : batch[h] = q[h]
  <2>1. \A h \in 1..j : q[h] \in Note
    OBVIOUS
  <2>2. QED  OBVIOUS
<1>3. DOMAIN batch = 1..j
  BY <1>2
<1> HIDE DEF batch
<1>4. kind \in Kinds(batch) <=> \E h \in 1..j : q[h].note = kind
  BY <1>2, <1>3 DEF Kinds
<1>5. ASSUME kind \in Kinds(batch)
      PROVE  \E h \in 1..j : q[h].note = kind /\ FirstArg(batch, kind) = q[h].arg
  <2> DEFINE S == {h \in 1..j : q[h].note = kind}
             F(h) == batch[h].note = kind /\ \A g \in 1..h - 1 : batch[g].note # kind
  <2>1. S \in SUBSET (1..j) /\ S # {}
    BY <1>4, <1>5
  <2>2. PICK x \in S : \A y \in S : x <= y
    BY <1>1, <2>1, FirstOne
  <2>3. F(x) /\ x \in 1..j
    <3>1. x \in 1..j /\ x \in Nat /\ batch[x].note = kind
      BY <1>2
    <3>2. ASSUME NEW g \in 1..x - 1 PROVE batch[g].note # kind
      <4>1. g \in 1..j /\ ~(x <= g)
        BY <1>1, <3>1
      <4>2. q[g].note # kind
        BY <2>2, <4>1
      <4>3. QED  BY <1>2, <4>1, <4>2
    <3>3. QED  BY <3>1, <3>2
  <2> DEFINE c == CHOOSE h \in 1..j : F(h)
  <2>4. c \in 1..j /\ F(c)
    <3> HIDE DEF F
    <3>1. QED  BY <2>3
  <2>5. FirstArg(batch, kind) = batch[c].arg
    BY <1>3 DEF FirstArg
  <2>6. QED  BY <1>2, <2>4, <2>5
<1>6. QED  BY <1>4, <1>5 DEF batch

\* What a read does to the client: the first new nickname among the notices is
\* taken over, and from a single notice the room it moves the client to.
LEMMA Applied ==
    ASSUME ViewTypes, NEW p \in Pid, ReadNotices(p)
    PROVE  /\ toClient' \in [Pid -> Seq(Note)]
           /\ myNick' \in [Pid -> NickName] /\ myRoom' \in [Pid -> RoomName]
           /\ \A c \in Pid \ {p} : /\ toClient'[c] = toClient[c]
                                   /\ myNick'[c] = myNick[c] /\ myRoom'[c] = myRoom[c]
           /\ \E j \in 1..Len(toClient[p]) :
                  /\ manner = "slow" => j = 1
                  /\ toClient'[p] = SubSeq(toClient[p], j + 1, Len(toClient[p]))
                  /\ \/ myNick'[p] = myNick[p] /\ \A h \in 1..j : toClient[p][h].note # "renamed"
                     \/ \E h \in 1..j : /\ toClient[p][h].note = "renamed"
                                        /\ myNick'[p] = toClient[p][h].arg
                  /\ j = 1 => myRoom'[p] = IF MovesClient(toClient[p][1])
                                           THEN toClient[p][1].arg ELSE myRoom[p]
<1> DEFINE q == toClient[p]
<1>1. /\ toClient \in [Pid -> Seq(Note)] /\ myNick \in [Pid -> NickName]
      /\ myRoom \in [Pid -> RoomName] /\ q \in Seq(Note)
  BY DEF ViewTypes
<1>2. PICK j \in Taken(q) : /\ Apply(p, SubSeq(q, 1, j))
                            /\ toClient' = [toClient EXCEPT ![p] = SubSeq(@, j + 1, Len(@))]
  BY DEF ReadNotices
<1> DEFINE batch == SubSeq(q, 1, j)
<1>3. j \in 1..Len(q) /\ (manner = "slow" => j = 1)
  BY <1>1, TakenRange
<1>4. SubSeq(q, j + 1, Len(q)) \in Seq(Note)
  BY <1>1, <1>3, Dropped
<1>5. /\ toClient' \in [Pid -> Seq(Note)] /\ toClient'[p] = SubSeq(q, j + 1, Len(q))
      /\ \A c \in Pid \ {p} : toClient'[c] = toClient[c]
  BY <1>1, <1>2, <1>4
<1> HIDE DEF q
<1>6. \A kind : /\ kind \in Kinds(batch) <=> \E h \in 1..j : q[h].note = kind
                /\ kind \in Kinds(batch) =>
                       \E h \in 1..j : q[h].note = kind /\ FirstArg(batch, kind) = q[h].arg
  BY <1>1, <1>3, FirstOfKind
<1>7. \A h \in 1..j : q[h] \in Note
  BY <1>1, <1>3
<1>8. /\ "renamed" \in Kinds(batch) => FirstArg(batch, "renamed") \in NickName
      /\ "entered" \in Kinds(batch) => FirstArg(batch, "entered") \in RoomName
  BY <1>6, <1>7 DEF Note
<1>9. /\ myNick' = IF "renamed" \in Kinds(batch)
                   THEN [myNick EXCEPT ![p] = FirstArg(batch, "renamed")]
                   ELSE myNick
      /\ myRoom' = IF "renamed" \in Kinds(batch) THEN myRoom
                   ELSE IF "entered" \in Kinds(batch)
                   THEN [myRoom EXCEPT ![p] = RoomAfterEntry(p, FirstArg(batch, "entered"))]
                   ELSE [myRoom EXCEPT ![p] = General]
  BY <1>2 DEF Apply
<1> HIDE DEF batch
<1>10. /\ myNick' \in [Pid -> NickName]
       /\ \A c \in Pid \ {p} : myNick'[c] = myNick[c]
       /\ myNick'[p] = IF "renamed" \in Kinds(batch)
                       THEN FirstArg(batch, "renamed") ELSE myNick[p]
  BY <1>1, <1>8, <1>9
<1>11. /\ myRoom' \in [Pid -> RoomName]
       /\ \A c \in Pid \ {p} : myRoom'[c] = myRoom[c]
       /\ myRoom'[p] = IF "renamed" \in Kinds(batch) THEN myRoom[p]
                       ELSE IF "entered" \in Kinds(batch)
                       THEN RoomAfterEntry(p, FirstArg(batch, "entered"))
                       ELSE General
  <2>1. "entered" \in Kinds(batch) => RoomAfterEntry(p, FirstArg(batch, "entered")) \in RoomName
    BY <1>1, <1>8 DEF RoomAfterEntry
  <2>2. QED  BY <1>1, <1>9, <2>1, RoomAssumption
<1>12. \/ myNick'[p] = myNick[p] /\ \A h \in 1..j : q[h].note # "renamed"
       \/ \E h \in 1..j : q[h].note = "renamed" /\ myNick'[p] = q[h].arg
  BY <1>6, <1>10
<1>13. j = 1 => myRoom'[p] = IF MovesClient(q[1]) THEN q[1].arg ELSE myRoom[p]
  <2> SUFFICES ASSUME j = 1
               PROVE  myRoom'[p] = IF MovesClient(q[1]) THEN q[1].arg ELSE myRoom[p]
    OBVIOUS
  <2>1. 1..j = {1} /\ q[1] \in Note
    BY <1>3, <1>7
  <2>2. \A kind : /\ kind \in Kinds(batch) <=> q[1].note = kind
                  /\ kind \in Kinds(batch) => FirstArg(batch, kind) = q[1].arg
    BY <1>6, <2>1
  <2>3. CASE q[1].note = "renamed"
    BY <1>11, <2>2, <2>3 DEF MovesClient
  <2>4. CASE q[1].note = "entered"
    <3>1. myRoom'[p] = RoomAfterEntry(p, q[1].arg)
      BY <1>11, <2>2, <2>4
    <3>2. QED  BY <2>4, <3>1 DEF MovesClient, RoomAfterEntry
  <2>5. CASE q[1].note = "moved"
    <3>1. myRoom'[p] = General
      BY <1>11, <2>2, <2>5
    <3>2. q[1].arg = General
      BY <2>1, <2>5 DEF Note
    <3>3. QED  BY <2>5, <3>1, <3>2 DEF MovesClient
  <2>6. QED  BY <2>1, <2>3, <2>4, <2>5 DEF Note
<1>14. QED  BY <1>3, <1>5, <1>10, <1>11, <1>12, <1>13 DEF q

-----------------------------------------------------------------------------
(* Every step keeps the types.                                             *)

\* Every step of a chat is one of the tables, or leaves them alone.
LEMMA StepOfTables ==
    ASSUME ViewTypes, [ViewNext]_viewVars
    PROVE  [Next]_vars
<1>1. CASE Arrive
  BY <1>1 DEF Arrive, Next
<1>2. ASSUME NEW p \in Pid, Quit(p) PROVE [Next]_vars
  BY <1>2 DEF Quit, Next
<1>3. ASSUME NEW p \in Pid, ServeJoin(p) PROVE [Next]_vars
  <2>1. Head(toServer[p]) \in Messages /\ Head(toServer[p]).cmd = "join"
    BY <1>3, Received DEF ServeJoin
  <2>2. Head(toServer[p]).arg \in RoomName
    BY <2>1 DEF Messages
  <2>3. QED  BY <1>3, <2>2 DEF ServeJoin, Next
<1>4. ASSUME NEW p \in Pid, ServeLeave(p) PROVE [Next]_vars
  BY <1>4 DEF ServeLeave, Next
<1>5. ASSUME NEW p \in Pid, ServeNickname(p) PROVE [Next]_vars
  <2>1. Head(toServer[p]) \in Messages /\ Head(toServer[p]).cmd = "nickname"
    BY <1>5, Received DEF ServeNickname
  <2>2. Head(toServer[p]).arg \in NickName
    BY <2>1 DEF Messages
  <2>3. QED  BY <1>5, <2>2 DEF ServeNickname, RefuseNickname, Next
<1>6. ASSUME NEW p \in Pid,
             \/ \E m : Send(p, m)
             \/ Help(p) \/ ServeText(p) \/ ServeOther(p) \/ ReadNotices(p)
      PROVE  UNCHANGED vars
  BY <1>6 DEF Send, Help, Transmit, ServeText, ServeOther, ReadNotices
<1>7. CASE UNCHANGED viewVars
  BY <1>7 DEF viewVars
<1>8. QED
  BY <1>1, <1>2, <1>3, <1>4, <1>5, <1>6, <1>7 DEF ViewNext

\* A message is handled.
LEMMA Handled ==
    ASSUME ViewTypes, NEW p \in Pid, Receive(p), toServer[p] # <<>>,
           UNCHANGED <<manner, myNick, myRoom, last, sent>>,
           toClient' \in [Pid -> Seq(Note)]
    PROVE  ViewTypes'
<1>1. /\ toServer' \in [Pid -> Seq(Messages)]
      /\ Len(toServer'[p]) < Len(toServer[p])
      /\ \A c \in Pid \ {p} : toServer'[c] = toServer[c]
  BY Received
<1>2. ASSUME NEW c \in Pid PROVE Len(toServer'[c]) <= sent'[c]
  <2>1. /\ Len(toServer[c]) \in Nat /\ Len(toServer'[c]) \in Nat /\ sent[c] \in 0..MaxSend
        /\ Len(toServer[c]) <= sent[c]
    BY <1>1 DEF ViewTypes
  <2>2. Len(toServer'[c]) <= Len(toServer[c])
    <3>1. CASE c = p
      BY <1>1, <2>1, <3>1
    <3>2. CASE c # p
      BY <1>1, <2>1, <3>2
    <3>3. QED  BY <3>1, <3>2
  <2>3. sent'[c] = sent[c]
    OBVIOUS
  <2>4. QED  BY <2>1, <2>2, <2>3, ViewAssumption
<1>3. QED  BY <1>1, <1>2 DEF ViewTypes

LEMMA ViewTypesStep == ViewTypes /\ [ViewNext]_viewVars => ViewTypes'
<1> SUFFICES ASSUME ViewTypes, [ViewNext]_viewVars PROVE ViewTypes'
  OBVIOUS
<1>1. ASSUME UNCHANGED view PROVE ViewTypes'
  BY <1>1 DEF view, ViewTypes
<1>2. CASE Arrive \/ UNCHANGED viewVars
  BY <1>1, <1>2 DEF Arrive, viewVars
<1>3. ASSUME NEW p \in Pid, NEW m \in Messages, Send(p, m) PROVE ViewTypes'
  <2>1. last' \in [Pid -> Messages] /\ Transmit(p, m) /\ sent[p] < MaxSend
    BY <1>3 DEF Send, MaySend, ViewTypes
  <2>2. QED  BY <2>1, Transmitted
<1>4. ASSUME NEW p \in Pid, Help(p) PROVE ViewTypes'
  <2>1. CASE Transmit(p, last[p])
    <3>1. last' \in [Pid -> Messages] /\ sent[p] < MaxSend /\ last[p] \in Messages
      BY <1>4 DEF Help, MaySend, ViewTypes
    <3>2. QED  BY <2>1, <3>1, Transmitted
  <2>2. CASE ~Transmit(p, last[p])
    BY <1>1, <1>4, <2>2 DEF Help, view
  <2>3. QED  BY <2>1, <2>2
<1>5. ASSUME NEW p \in Pid, ServeJoin(p) PROVE ViewTypes'
  <2>1. /\ Receive(p) /\ toServer[p] # <<>> /\ Head(toServer[p]).cmd = "join"
        /\ UNCHANGED <<manner, myNick, myRoom, last, sent, quoted>>
        /\ TellEntry(p, Head(toServer[p]).arg) \/ toClient' = toClient
    BY <1>5 DEF ServeJoin
  <2>2. Head(toServer[p]).arg \in RoomName
    BY <2>1, Received DEF Messages
  <2>3. toClient' \in [Pid -> Seq(Note)]
    BY <2>1, <2>2, ToldEntry DEF ViewTypes
  <2>4. QED  BY <2>1, <2>3, Handled
<1>6. ASSUME NEW p \in Pid, ServeLeave(p) PROVE ViewTypes'
  <2>1. /\ Receive(p) /\ toServer[p] # <<>>
        /\ UNCHANGED <<manner, myNick, myRoom, last, sent, quoted>>
        /\ Tell(p, Notice("moved", General, p)) \/ toClient' = toClient
    BY <1>6 DEF ServeLeave
  <2>2. Notice("moved", General, p) \in Note
    BY NoticeTypes
  <2>3. toClient' \in [Pid -> Seq(Note)]
    BY <2>1, <2>2, Told DEF ViewTypes
  <2>4. QED  BY <2>1, <2>3, Handled
<1>7. ASSUME NEW p \in Pid, ServeNickname(p) PROVE ViewTypes'
  <2> DEFINE m == Head(toServer[p]).arg
  <2>1. /\ Receive(p) /\ toServer[p] # <<>> /\ Head(toServer[p]).cmd = "nickname"
        /\ UNCHANGED <<manner, myNick, myRoom, last, sent, quoted>>
        /\ Tell(p, Notice("renamed", m, p)) \/ toClient' = toClient
    BY <1>7 DEF ServeNickname, RefuseNickname
  <2>2. m \in NickName
    BY <2>1, Received DEF Messages
  <2>3. Notice("renamed", m, p) \in Note
    BY <2>2, NoticeTypes
  <2>4. toClient' \in [Pid -> Seq(Note)]
    BY <2>1, <2>3, Told DEF ViewTypes
  <2>5. QED  BY <2>1, <2>4, Handled
<1>8. ASSUME NEW p \in Pid, ServeOther(p) PROVE ViewTypes'
  BY <1>8, Handled DEF ServeOther, ViewTypes
<1>text. ASSUME NEW p \in Pid, ServeText(p) PROVE ViewTypes'
  <2>1. /\ Receive(p) /\ toServer[p] # <<>>
        /\ UNCHANGED <<manner, myNick, myRoom, last, sent>>
    BY <1>text DEF ServeText
  <2>2. toClient' \in [Pid -> Seq(Note)]
    BY <1>text, Passed
  <2>3. QED  BY <2>1, <2>2, Handled
<1>9. ASSUME NEW p \in Pid, ReadNotices(p) PROVE ViewTypes'
  <2>1. UNCHANGED <<manner, last, sent, toServer>>
    BY <1>9 DEF ReadNotices
  <2>2. /\ toClient' \in [Pid -> Seq(Note)]
        /\ myNick' \in [Pid -> NickName] /\ myRoom' \in [Pid -> RoomName]
    BY <1>9, Applied
  <2>3. QED  BY <2>1, <2>2 DEF ViewTypes
<1>10. ASSUME NEW p \in Pid, Quit(p) PROVE ViewTypes'
  <2>1. /\ toServer' = [toServer EXCEPT ![p] = <<>>]
        /\ toClient' = [toClient EXCEPT ![p] = <<>>]
        /\ UNCHANGED <<manner, myNick, myRoom, last, sent>>
    BY <1>10 DEF Quit
  <2>2. toServer' \in [Pid -> Seq(Messages)] /\ toClient' \in [Pid -> Seq(Note)]
    BY <2>1 DEF ViewTypes
  <2>3. \A c \in Pid : toServer'[c] = IF c = p THEN <<>> ELSE toServer[c]
    BY <2>1 DEF ViewTypes
  <2>4. \A c \in Pid : Len(toServer'[c]) <= sent'[c]
    BY <2>1, <2>3, ViewAssumption DEF ViewTypes
  <2>5. QED  BY <2>1, <2>2, <2>4 DEF ViewTypes
<1>11. ASSUME NEW p \in Pid, NEW x \in TextsOf(p),
              \/ Send(p, Message("chat", myRoom[p], x))
              \/ \E m \in NickName : Send(p, Message("whisper", m, x))
       PROVE  ViewTypes'
  <2>1. /\ Message("chat", myRoom[p], x) \in Messages
        /\ \A m \in NickName : Message("whisper", m, x) \in Messages
    BY CommandTypes, TextsAreText DEF ViewTypes
  <2>2. QED  BY <1>3, <1>11, <2>1
<1>12. QED
  BY <1>2, <1>3, <1>4, <1>5, <1>6, <1>7, <1>8, <1>text, <1>9, <1>10, <1>11, CommandTypes
     DEF ViewNext

\* Quoted notices are sent to recorded clients only.
LEMMA QuotedStep ==
    ASSUME ViewRange, [ViewNext]_viewVars
    PROVE  quoted' \subseteq clients'
<1>1. quoted \subseteq clients
  BY DEF ViewRange
<1>2. ASSUME NEW p \in Pid, Quit(p) PROVE quoted' \subseteq clients'
  BY <1>1, <1>2 DEF Quit, RemoveClient
<1>3. ASSUME NEW p \in Pid, ServeText(p) PROVE quoted' \subseteq clients'
  <2>1. clients' = clients /\ p \in clients
    BY <1>3 DEF ServeText, vars
  <2>2. \A m : Addressees(m) \subseteq clients /\ Echoed(p, m) \subseteq clients
    BY <2>1 DEF Addressees, Echoed, Members
  <2>3. QED  BY <1>1, <1>3, <2>1, <2>2 DEF ServeText
<1>4. CASE Arrive
  BY <1>1, <1>4 DEF Arrive, AddClient, view
<1>5. ASSUME NEW p \in Pid, ServeJoin(p) \/ ServeLeave(p) \/ ServeNickname(p) \/ ServeOther(p)
      PROVE  quoted' \subseteq clients'
  BY <1>1, <1>5 DEF ServeJoin, ServeLeave, ServeNickname, ServeOther, JoinRoom, JoinRefused,
     LeaveRoom, ChangeNickname, RefuseNickname, vars
<1>6. ASSUME NEW p \in Pid, (\E m : Send(p, m)) \/ Help(p) \/ ReadNotices(p)
      PROVE  quoted' \subseteq clients'
  BY <1>1, <1>6 DEF Send, Help, Transmit, ReadNotices, vars, view
<1>7. CASE UNCHANGED viewVars
  BY <1>1, <1>7 DEF viewVars, view, vars
<1>8. QED  BY <1>2, <1>3, <1>4, <1>5, <1>6, <1>7 DEF ViewNext

LEMMA ViewRangeStep == ViewRange /\ [ViewNext]_viewVars => ViewRange'
BY ViewTypesStep, StepOfTables, TypeStep, QuotedStep DEF ViewRange

\* The client's copies are nicknames and rooms, no more messages are on their
\* way to the parent than were sent, and the tables keep their types.
THEOREM ViewTypeCorrect == ViewSpec => []ViewTypeOK
<1>1. QED  BY ViewRangeInit, ViewRangeStep, ViewTypesEnough, PTL DEF ViewSpec

\* A chat is a behaviour of the tables: what is proved of them holds in it.
THEOREM ChatIsOfTables == ViewSpec => Spec
<1>1. ViewInit => Init
  BY DEF ViewInit
<1>2. ViewRange /\ [ViewNext]_viewVars => [Next]_vars
  BY StepOfTables DEF ViewRange
<1>3. QED  BY <1>1, <1>2, ViewRangeInit, ViewRangeStep, PTL DEF ViewSpec, Spec

\* The room counters never exceed the number of clients recorded in the room,
\* and nobody shares a nickname but guest, in every chat.
THEOREM ChatCountsNeverHigh == ViewSpec => []NeverOverCounts
BY ChatIsOfTables, CountersNeverHigh, PTL

THEOREM ChatNicknamesDistinct == ViewSpec => []SharedNickIsGuest
BY ChatIsOfTables, NicknamesDistinct, PTL

-----------------------------------------------------------------------------
(* The copies of the clients that are there.                               *)

\* A user who waits for the answer has one message on its way at most, and then
\* no new nickname is on its way back; nor are there ever two.
Waits(p) ==
    /\ Len(toServer[p]) <= 1
    /\ toServer[p] # <<>> => Renames(toClient[p]) = {}
    /\ \A g, h \in Renames(toClient[p]) : g = h

\* A client that was never sent a quoted notice is not misled.
CopyInv(p) ==
    p \notin quoted =>
        /\ NickFollows(toClient[p], myNick[p], nick[p])
        /\ manner = "slow" => RoomFollows(toClient[p], myRoom[p], room[p], p)
        /\ manner # "slow" => Waits(p)

\* Connections that have not been made yet are as new.
NotThereYet ==
    \A p \in Pid : p > forked => /\ myNick[p] = Guest
                                 /\ toServer[p] = <<>> /\ toClient[p] = <<>>

CopiesInv == NotThereYet /\ \A p \in clients : CopyInv(p)

\* With an empty queue the copies are what they should be.
LEMMA NothingToRead ==
    /\ \A mine, name : NickFollows(<<>>, mine, name) <=> mine = name
    /\ \A mine, r, p : RoomFollows(<<>>, mine, r, p) <=> (r # General => mine = r)
    /\ Renames(<<>>) = {}
<1>1. Renames(<<>>) = {} /\ Moves(<<>>) = {}
  BY DEF Renames, Moves
<1>2. QED  BY <1>1 DEF NickFollows, RoomFollows, Result

LEMMA CopiesInit == ViewInit => CopiesInv
BY DEF ViewInit, Init, CopiesInv, NotThereYet

LEMMA CopiesEnough == ViewRange /\ CopiesInv => NicknameKnown /\ StaleOnlyInGeneral
<1> SUFFICES ASSUME CopiesInv, NEW p \in clients \ quoted, Quiet(p)
             PROVE  /\ myNick[p] = nick[p]
                    /\ manner = "slow" => myRoom[p] = room[p] \/ room[p] = General
  BY DEF NicknameKnown, StaleOnlyInGeneral
<1>1. toClient[p] = <<>> /\ CopyInv(p)
  BY DEF Quiet, CopiesInv
<1>2. QED  BY <1>1, NothingToRead DEF CopyInv

\* The records and the clients that are there.
LEMMA There ==
    ASSUME ViewRange
    PROVE  /\ forked \in Nat /\ \A p \in clients : p \in Pid /\ p <= forked
           /\ manner \in {"slow", "patient"}
           /\ toClient \in [Pid -> Seq(Note)] /\ toServer \in [Pid -> Seq(Messages)]
<1>1. /\ manner \in Manners
      /\ toClient \in [Pid -> Seq(Note)] /\ toServer \in [Pid -> Seq(Messages)]
  BY DEF ViewRange, ViewTypes
<1>2. forked \in 0..MaxPid /\ clients \subseteq 1..forked
  BY DEF ViewRange, TypeOK
<1>3. QED  BY <1>1, <1>2, ViewAssumption, LimitAssumption DEF Pid

\* What is not a client's is left alone by the others' steps.
LEMMA NotThereKept ==
    ASSUME ViewRange, NotThereYet, forked' \in Nat, forked' >= forked,
           \A c \in Pid \ clients : /\ myNick'[c] = myNick[c]
                                    /\ toServer'[c] = toServer[c]
                                    /\ toClient'[c] = toClient[c]
    PROVE  NotThereYet'
<1>1. forked \in Nat /\ \A p \in clients : p <= forked
  BY There
<1>2. ASSUME NEW c \in Pid, c > forked'
      PROVE  myNick'[c] = Guest /\ toServer'[c] = <<>> /\ toClient'[c] = <<>>
  <2>1. c \in Nat
    BY LimitAssumption DEF Pid
  <2>2. c > forked /\ c \notin clients
    BY <1>1, <1>2, <2>1
  <2>3. QED  BY <2>2 DEF NotThereYet
<1>3. QED  BY <1>2 DEF NotThereYet

\* The number of messages to the parent does not grow.
NoMoreSent(c) ==
    \/ toServer'[c] = toServer[c]
    \/ Len(toServer'[c]) < Len(toServer[c]) /\ toServer' \in [Pid -> Seq(Messages)]

LEMMA CopyKept ==
    ASSUME ViewRange, NEW c \in Pid, CopyInv(c), NoMoreSent(c), manner' = manner,
           c \in quoted => c \in quoted',
           c \notin quoted' => toClient'[c] = toClient[c],
           myNick'[c] = myNick[c], myRoom'[c] = myRoom[c],
           nick'[c] = nick[c], room'[c] = room[c]
    PROVE  CopyInv(c)'
<1> SUFFICES ASSUME c \notin quoted' PROVE CopyInv(c)'
  BY DEF CopyInv
<1>0. toClient'[c] = toClient[c]
  OBVIOUS
<1>1. ASSUME Waits(c) PROVE Waits(c)'
  <2>1. CASE toServer'[c] = toServer[c]
    BY <1>0, <1>1, <2>1 DEF Waits
  <2>2. CASE Len(toServer'[c]) < Len(toServer[c]) /\ toServer' \in [Pid -> Seq(Messages)]
    <3>1. toServer[c] \in Seq(Messages) /\ toServer'[c] \in Seq(Messages)
      BY <2>2, There
    <3>2. toServer[c] # <<>> /\ Len(toServer'[c]) <= 1
      BY <1>1, <2>2, <3>1 DEF Waits
    <3>3. QED  BY <1>0, <1>1, <3>2 DEF Waits
  <2>3. QED  BY <2>1, <2>2 DEF NoMoreSent
<1>2. QED  BY <1>0, <1>1 DEF CopyInv

\* Nobody's own nickname is in a notice of an entry or of the return to general.
LEMMA CopyMoved ==
    ASSUME ViewRange, NEW c \in Pid, CopyInv(c), NoMoreSent(c), manner' = manner,
           quoted' = quoted, NEW e \in Note, e.note # "renamed",
           toClient'[c] = Append(toClient[c], e),
           myNick'[c] = myNick[c], myRoom'[c] = myRoom[c], nick'[c] = nick[c],
           e.who # c /\ MovesClient(e) => room[c] # General /\ e.arg = room[c],
           room'[c] # General => IF MovesClient(e) THEN e.arg = room'[c] ELSE room[c] = room'[c]
    PROVE  CopyInv(c)'
<1> SUFFICES ASSUME c \notin quoted PROVE CopyInv(c)'
  BY DEF CopyInv
<1> DEFINE q == toClient[c]
<1>1. q \in Seq(Note)
  BY There
<1>2. NickFollows(Append(q, e), myNick[c], nick[c])
  BY <1>1, NickAdded DEF CopyInv
<1>3. manner = "slow" => RoomFollows(Append(q, e), myRoom[c], room'[c], c)
  BY <1>1, RoomAdded DEF CopyInv
<1>4. Renames(Append(q, e)) = Renames(q)
  BY <1>1, NoRename
<1>5. ASSUME Waits(c) PROVE Waits(c)'
  <2>1. CASE toServer'[c] = toServer[c]
    BY <1>4, <1>5, <2>1 DEF Waits
  <2>2. CASE Len(toServer'[c]) < Len(toServer[c]) /\ toServer' \in [Pid -> Seq(Messages)]
    <3>1. toServer[c] \in Seq(Messages) /\ toServer'[c] \in Seq(Messages)
      BY <2>2, There
    <3>2. toServer[c] # <<>> /\ Len(toServer'[c]) <= 1
      BY <1>5, <2>2, <3>1 DEF Waits
    <3>3. QED  BY <1>4, <1>5, <3>2 DEF Waits
  <2>3. QED  BY <2>1, <2>2 DEF NoMoreSent
<1> HIDE DEF q
<1>6. QED  BY <1>2, <1>3, <1>5 DEF CopyInv, q

\* Joining: a client that enters a room is told twice, the others in it once.
LEMMA JoinKeepsCopies ==
    ASSUME ViewRange, CopiesInv, NEW p \in Pid, ServeJoin(p)
    PROVE  CopiesInv'
<1> DEFINE r == Head(toServer[p]).arg
           e == Notice("entered", r, p)
<1>1. /\ p \in clients /\ toServer[p] # <<>> /\ Head(toServer[p]).cmd = "join" /\ Receive(p)
      /\ UNCHANGED <<manner, myNick, myRoom, last, sent, quoted>>
      /\ \/ JoinRoom(p, r) /\ TellEntry(p, r)
         \/ JoinRefused(p, r) /\ UNCHANGED toClient
  BY DEF ServeJoin
<1>2. ViewTypes /\ TypeOK
  BY DEF ViewRange
<1>3. /\ toServer' \in [Pid -> Seq(Messages)]
      /\ Len(toServer'[p]) < Len(toServer[p])
      /\ \A c \in Pid \ {p} : toServer'[c] = toServer[c]
      /\ Head(toServer[p]) \in Messages
  BY <1>1, <1>2, Received
<1>4. r \in RoomName /\ e \in Note /\ e.note = "entered" /\ e.arg = r /\ e.who = p
  <2>1. r \in RoomName
    BY <1>1, <1>3 DEF Messages
  <2>2. QED  BY <2>1, NoticeTypes DEF Notice
<1> HIDE DEF r, e
<1>5. \A c \in Pid : NoMoreSent(c)
  BY <1>3 DEF NoMoreSent
<1>6. /\ clients' = clients /\ forked' = forked /\ nick' = nick
  BY <1>1 DEF JoinRoom, JoinRefused
<1>7. \A c \in clients : c \in Pid /\ CopyInv(c)
  BY There DEF CopiesInv
<1>8. CASE JoinRefused(p, r) /\ UNCHANGED toClient
  <2>1. UNCHANGED room
    BY <1>8 DEF JoinRefused
  <2>2. \A c \in clients' : CopyInv(c)'
    BY <1>1, <1>5, <1>6, <1>7, <1>8, <2>1, CopyKept
  <2>3. NotThereYet'
    BY <1>1, <1>3, <1>6, <1>8, There, NotThereKept DEF CopiesInv
  <2>4. QED  BY <2>2, <2>3 DEF CopiesInv
<1>9. CASE JoinRoom(p, r) /\ TellEntry(p, r)
  <2>1. \A c \in Pid : toClient'[c] =
            IF c = p THEN Append(Append(toClient[c], e), e)
            ELSE IF c \in Members(r) THEN Append(toClient[c], e)
            ELSE toClient[c]
    BY <1>2, <1>4, <1>9, ToldEntry DEF e
  <2>2. room'[p] = r /\ \A c \in Pid \ {p} : room'[c] = room[c]
    BY <1>2, <1>9 DEF JoinRoom, TypeOK
  <2>3. CopyInv(p)'
    <3> SUFFICES ASSUME p \notin quoted PROVE CopyInv(p)'
      BY <1>1 DEF CopyInv
    <3> DEFINE q == toClient[p]
               q1 == Append(q, e)
    <3>1. q \in Seq(Note) /\ q1 \in Seq(Note)
      BY <1>4, There, Added
    <3> HIDE DEF q1
    <3>2. CopyInv(p)
      BY <1>1, <1>7
    <3>3. NickFollows(q1, myNick[p], nick[p])
      BY <1>4, <3>1, <3>2, NickAdded DEF q1, CopyInv
    <3>4. NickFollows(Append(q1, e), myNick[p], nick[p])
      BY <1>4, <3>1, <3>3, NickAdded
    <3>5. ASSUME manner = "slow" PROVE RoomFollows(Append(q1, e), myRoom[p], r, p)
      <4>1. r # General => MovesClient(e)
        BY <1>4 DEF MovesClient
      <4>2. RoomFollows(q1, myRoom[p], r, p)
        BY <1>4, <3>1, <3>2, <3>5, <4>1, RoomAdded DEF q1, CopyInv
      <4>3. QED  BY <1>4, <3>1, <4>1, <4>2, RoomAdded
    <3>6. Renames(Append(q1, e)) = Renames(q)
      BY <1>4, <3>1, NoRename DEF q1
    <3>7. ASSUME Waits(p) PROVE Waits(p)'
      <4>1. toServer[p] \in Seq(Messages) /\ toServer'[p] \in Seq(Messages)
        BY <1>3, There
      <4>2. toServer'[p] = <<>>
        BY <1>3, <3>7, <4>1 DEF Waits
      <4>3. Len(toServer'[p]) <= 1
        BY <4>2
      <4>4. toClient'[p] = Append(q1, e)
        BY <2>1 DEF q1
      <4>5. QED  BY <3>6, <3>7, <4>2, <4>3, <4>4 DEF Waits
    <3>8. toClient'[p] = Append(q1, e)
      BY <2>1 DEF q1
    <3> HIDE DEF q
    <3>9. QED  BY <1>1, <1>6, <2>2, <3>2, <3>4, <3>5, <3>7, <3>8 DEF CopyInv
  <2>4. ASSUME NEW c \in clients, c # p PROVE CopyInv(c)'
    <3>1. c \in Pid /\ CopyInv(c) /\ room'[c] = room[c]
      BY <1>7, <2>2, <2>4
    <3>2. CASE c \in Members(r)
      <4>1. toClient'[c] = Append(toClient[c], e)
        BY <2>1, <2>4, <3>1, <3>2
      <4>2. room[c] = r
        BY <3>2 DEF Members
      <4>3. MovesClient(e) <=> r # General
        BY <1>4 DEF MovesClient
      <4>4. /\ e.who # c /\ MovesClient(e) => room[c] # General /\ e.arg = room[c]
            /\ room'[c] # General =>
                   IF MovesClient(e) THEN e.arg = room'[c] ELSE room[c] = room'[c]
        BY <1>4, <3>1, <4>2, <4>3
      <4>5. e.note # "renamed" /\ NoMoreSent(c)
        BY <1>4, <1>5, <3>1
      <4>6. UNCHANGED <<manner, quoted, myNick, myRoom, nick>>
        BY <1>1, <1>6
      <4>7. QED  BY <1>4, <3>1, <4>1, <4>4, <4>5, <4>6, CopyMoved
    <3>3. CASE c \notin Members(r)
      <4>1. toClient'[c] = toClient[c]
        BY <2>1, <2>4, <3>1, <3>3
      <4>2. QED  BY <1>1, <1>5, <1>6, <3>1, <4>1, CopyKept
    <3>4. QED  BY <3>2, <3>3
  <2>5. \A c \in Pid \ clients : toClient'[c] = toClient[c]
    BY <1>1, <2>1 DEF Members
  <2>6. NotThereYet'
    BY <1>1, <1>3, <1>6, <2>5, There, NotThereKept DEF CopiesInv
  <2>7. QED  BY <1>6, <2>3, <2>4, <2>6 DEF CopiesInv
<1>10. QED  BY <1>1, <1>8, <1>9

LEMMA LeaveKeepsCopies ==
    ASSUME ViewRange, CopiesInv, NEW p \in Pid, ServeLeave(p)
    PROVE  CopiesInv'
<1> DEFINE e == Notice("moved", General, p)
<1>1. /\ p \in clients /\ toServer[p] # <<>> /\ Receive(p)
      /\ UNCHANGED <<manner, myNick, myRoom, last, sent, quoted>>
      /\ \/ LeaveRoom(p) /\ Tell(p, e)
         \/ UNCHANGED <<vars, toClient>>
  BY DEF ServeLeave
<1>2. ViewTypes /\ TypeOK
  BY DEF ViewRange
<1>3. /\ toServer' \in [Pid -> Seq(Messages)]
      /\ Len(toServer'[p]) < Len(toServer[p])
      /\ \A c \in Pid \ {p} : toServer'[c] = toServer[c]
  BY <1>1, <1>2, Received
<1>4. e \in Note /\ e.note = "moved" /\ e.arg = General /\ e.who = p
  BY NoticeTypes DEF Notice
<1> HIDE DEF e
<1>5. \A c \in Pid : NoMoreSent(c)
  BY <1>3 DEF NoMoreSent
<1>6. clients' = clients /\ forked' = forked /\ nick' = nick
  BY <1>1 DEF LeaveRoom, vars
<1>7. \A c \in clients : c \in Pid /\ CopyInv(c)
  BY There DEF CopiesInv
<1>8. CASE UNCHANGED <<vars, toClient>>
  <2>1. UNCHANGED room
    BY <1>8 DEF vars
  <2>2. \A c \in clients' : CopyInv(c)'
    BY <1>1, <1>5, <1>6, <1>7, <1>8, <2>1, CopyKept
  <2>3. NotThereYet'
    BY <1>1, <1>3, <1>6, <1>8, There, NotThereKept DEF CopiesInv
  <2>4. QED  BY <2>2, <2>3 DEF CopiesInv
<1>9. CASE LeaveRoom(p) /\ Tell(p, e)
  <2>1. \A c \in Pid : toClient'[c] = IF c = p THEN Append(toClient[c], e) ELSE toClient[c]
    BY <1>2, <1>4, <1>9, Told
  <2>2. room'[p] = General /\ \A c \in Pid \ {p} : room'[c] = room[c]
    BY <1>2, <1>9 DEF LeaveRoom, TypeOK
  <2>3. CopyInv(p)'
    <3>1. /\ e.who # p /\ MovesClient(e) => room[p] # General /\ e.arg = room[p]
          /\ room'[p] # General =>
                 IF MovesClient(e) THEN e.arg = room'[p] ELSE room[p] = room'[p]
          /\ e.note # "renamed"
      BY <1>4, <2>2
    <3>2. toClient'[p] = Append(toClient[p], e) /\ CopyInv(p) /\ NoMoreSent(p)
      BY <1>1, <1>5, <1>7, <2>1
    <3>3. UNCHANGED <<manner, quoted, myNick, myRoom, nick>>
      BY <1>1, <1>6
    <3>4. QED  BY <1>4, <3>1, <3>2, <3>3, CopyMoved
  <2>4. \A c \in clients : c # p => CopyInv(c)'
    BY <1>1, <1>5, <1>6, <1>7, <2>1, <2>2, CopyKept
  <2>5. NotThereYet'
    BY <1>1, <1>3, <1>6, <2>1, There, NotThereKept DEF CopiesInv
  <2>6. QED  BY <1>6, <2>3, <2>4, <2>5 DEF CopiesInv
<1>10. QED  BY <1>1, <1>8, <1>9

\* A change of name reaches the record and the queue together.
LEMMA RenameKeepsCopies ==
    ASSUME ViewRange, CopiesInv, NEW p \in Pid, ServeNickname(p)
    PROVE  CopiesInv'
<1> DEFINE m == Head(toServer[p]).arg
           e == Notice("renamed", m, p)
<1>1. /\ p \in clients /\ toServer[p] # <<>> /\ Head(toServer[p]).cmd = "nickname" /\ Receive(p)
      /\ UNCHANGED <<manner, myNick, myRoom, last, sent, quoted>>
      /\ \/ ChangeNickname(p, m) /\ Tell(p, e)
         \/ UNCHANGED <<vars, toClient>>
  BY DEF ServeNickname, RefuseNickname
<1>2. ViewTypes /\ TypeOK
  BY DEF ViewRange
<1>3. /\ toServer' \in [Pid -> Seq(Messages)]
      /\ Len(toServer'[p]) < Len(toServer[p])
      /\ \A c \in Pid \ {p} : toServer'[c] = toServer[c]
      /\ Head(toServer[p]) \in Messages
  BY <1>1, <1>2, Received
<1>4. m \in NickName /\ e \in Note /\ e.note = "renamed" /\ e.arg = m /\ e.who = p
  <2>1. m \in NickName
    BY <1>1, <1>3 DEF Messages
  <2>2. QED  BY <2>1, NoticeTypes DEF Notice
<1> HIDE DEF m, e
<1>5. \A c \in Pid : NoMoreSent(c)
  BY <1>3 DEF NoMoreSent
<1>6. clients' = clients /\ forked' = forked /\ room' = room
  BY <1>1 DEF ChangeNickname, vars
<1>7. \A c \in clients : c \in Pid /\ CopyInv(c)
  BY There DEF CopiesInv
<1>8. CASE UNCHANGED <<vars, toClient>>
  <2>1. UNCHANGED nick
    BY <1>8 DEF vars
  <2>2. \A c \in clients' : CopyInv(c)'
    BY <1>1, <1>5, <1>6, <1>7, <1>8, <2>1, CopyKept
  <2>3. NotThereYet'
    BY <1>1, <1>3, <1>6, <1>8, There, NotThereKept DEF CopiesInv
  <2>4. QED  BY <2>2, <2>3 DEF CopiesInv
<1>9. CASE ChangeNickname(p, m) /\ Tell(p, e)
  <2>1. \A c \in Pid : toClient'[c] = IF c = p THEN Append(toClient[c], e) ELSE toClient[c]
    BY <1>2, <1>4, <1>9, Told
  <2>2. nick'[p] = m /\ \A c \in Pid \ {p} : nick'[c] = nick[c]
    BY <1>2, <1>9 DEF ChangeNickname, TypeOK
  <2>3. CopyInv(p)'
    <3> SUFFICES ASSUME p \notin quoted PROVE CopyInv(p)'
      BY <1>1 DEF CopyInv
    <3> DEFINE q == toClient[p]
    <3>1. q \in Seq(Note) /\ CopyInv(p) /\ toClient'[p] = Append(q, e)
      BY <1>1, <1>7, <2>1, There
    <3> HIDE DEF q
    <3>2. NickFollows(Append(q, e), myNick[p], m)
      BY <1>4, <3>1, NickAdded DEF CopyInv, q
    <3>3. ASSUME manner = "slow" PROVE RoomFollows(Append(q, e), myRoom[p], room[p], p)
      <4>1. ~MovesClient(e)
        BY <1>4 DEF MovesClient
      <4>2. QED  BY <1>4, <3>1, <3>3, <4>1, RoomAdded DEF CopyInv, q
    <3>4. ASSUME Waits(p) PROVE Waits(p)'
      <4>1. toServer[p] \in Seq(Messages) /\ toServer'[p] \in Seq(Messages)
        BY <1>3, There
      <4>2. toServer'[p] = <<>>
        BY <1>3, <3>4, <4>1 DEF Waits
      <4>3. Len(toServer'[p]) <= 1
        BY <4>2
      <4>4. Renames(q) = {}
        BY <1>1, <3>4 DEF Waits, q
      <4>5. Renames(Append(q, e)) \ {Len(q) + 1} = Renames(q)
        BY <1>4, <3>1, ChangesAdded
      <4>6. \A g, h \in Renames(Append(q, e)) : g = h
        BY <4>4, <4>5
      <4>7. QED  BY <3>1, <4>2, <4>3, <4>6 DEF Waits
    <3>5. QED  BY <1>1, <1>6, <2>2, <3>1, <3>2, <3>3, <3>4 DEF CopyInv
  <2>4. \A c \in clients : c # p => CopyInv(c)'
    BY <1>1, <1>5, <1>6, <1>7, <2>1, <2>2, CopyKept
  <2>5. NotThereYet'
    BY <1>1, <1>3, <1>6, <2>1, There, NotThereKept DEF CopiesInv
  <2>6. QED  BY <1>6, <2>3, <2>4, <2>5 DEF CopiesInv
<1>10. QED  BY <1>1, <1>8, <1>9

\* Reading: the only new nickname among the notices is taken over, and from one
\* notice at a time every move.
LEMMA ReadKeepsOwnCopy ==
    ASSUME ViewRange, CopiesInv, NEW p \in Pid, ReadNotices(p), p \notin quoted
    PROVE  CopyInv(p)'
<1> DEFINE q == toClient[p]
<1>1. p \in clients /\ UNCHANGED <<vars, manner, last, sent, toServer, quoted>>
  BY DEF ReadNotices
<1>2. /\ \A c \in Pid \ {p} : /\ toClient'[c] = toClient[c]
                              /\ myNick'[c] = myNick[c] /\ myRoom'[c] = myRoom[c]
      /\ \E j \in 1..Len(q) :
             /\ manner = "slow" => j = 1
             /\ toClient'[p] = SubSeq(q, j + 1, Len(q))
             /\ \/ myNick'[p] = myNick[p] /\ \A h \in 1..j : q[h].note # "renamed"
                \/ \E h \in 1..j : q[h].note = "renamed" /\ myNick'[p] = q[h].arg
             /\ j = 1 => myRoom'[p] = IF MovesClient(q[1]) THEN q[1].arg ELSE myRoom[p]
  BY Applied DEF ViewRange
<1>3. PICK j \in 1..Len(q) :
          /\ manner = "slow" => j = 1
          /\ toClient'[p] = SubSeq(q, j + 1, Len(q))
          /\ \/ myNick'[p] = myNick[p] /\ \A h \in 1..j : q[h].note # "renamed"
             \/ \E h \in 1..j : q[h].note = "renamed" /\ myNick'[p] = q[h].arg
          /\ j = 1 => myRoom'[p] = IF MovesClient(q[1]) THEN q[1].arg ELSE myRoom[p]
  BY <1>2
<1>4. /\ clients' = clients /\ forked' = forked /\ nick' = nick /\ room' = room
      /\ manner' = manner /\ toServer' = toServer
  BY <1>1 DEF vars
<1>5. \A c \in clients : c \in Pid /\ CopyInv(c)
  BY There DEF CopiesInv
<1>6. q \in Seq(Note) /\ Len(q) \in Nat /\ j \in Nat /\ 1 <= j /\ j <= Len(q)
  BY There
<1> HIDE DEF q
<1>7. CopyInv(p) /\ NickFollows(q, myNick[p], nick[p])
  BY <1>1, <1>5 DEF CopyInv, q
<1>8. manner \in {"slow", "patient"}
  BY There
<1>9. Renames(q) = {h \in 1..Len(q) : q[h].note = "renamed"}
      /\ Moves(q) = {h \in 1..Len(q) : MovesClient(q[h])}
  BY DEF Renames, Moves
<1>10. Result(q, Renames(q), j, myNick[p], myNick'[p])
  <2>1. CASE myNick'[p] = myNick[p] /\ \A h \in 1..j : q[h].note # "renamed"
    <3>1. \A h \in Renames(q) : ~(h <= j)
      BY <1>6, <1>9, <2>1
    <3>2. QED  BY <2>1, <3>1 DEF Result
  <2>2. CASE \E h \in 1..j : q[h].note = "renamed" /\ myNick'[p] = q[h].arg
    <3>1. PICK h \in 1..j : q[h].note = "renamed" /\ myNick'[p] = q[h].arg
      BY <2>2
    <3>2. h \in Renames(q) /\ h \in Nat /\ h <= j
      BY <1>6, <1>9, <3>1
    <3>3. ASSUME NEW g \in Renames(q), g <= j PROVE g = h
      <4>1. CASE manner = "slow"
        <5>1. j = 1 /\ g \in Nat /\ g >= 1
          BY <1>3, <1>9, <4>1
        <5>2. QED  BY <3>1, <3>3, <5>1
      <4>2. CASE manner # "slow"
        BY <1>7, <3>2, <4>2 DEF CopyInv, Waits, q
      <4>3. QED  BY <4>1, <4>2
    <3>4. ~ \A g \in Renames(q) : g > j
      BY <1>6, <3>2
    <3>5. QED  BY <3>1, <3>3, <3>4 DEF Result
  <2>3. QED  BY <1>3, <2>1, <2>2
<1>11. NickFollows(toClient'[p], myNick'[p], nick[p])
  BY <1>3, <1>6, <1>7, <1>10, NickRead
<1>12. ASSUME manner = "slow" PROVE RoomFollows(toClient'[p], myRoom'[p], room[p], p)
  <2>1. j = 1 /\ myRoom'[p] = IF MovesClient(q[1]) THEN q[1].arg ELSE myRoom[p]
    BY <1>3, <1>12
  <2>2. Result(q, Moves(q), 1, myRoom[p], myRoom'[p])
    <3>1. CASE MovesClient(q[1])
      <4>1. 1 \in Moves(q)
        BY <1>6, <1>9, <3>1
      <4>2. \A h \in Moves(q) : h <= 1 => h = 1
        BY <1>9
      <4>3. ~ \A h \in Moves(q) : h > 1
        BY <4>1
      <4>4. QED  BY <2>1, <3>1, <4>2, <4>3 DEF Result
    <3>2. CASE ~MovesClient(q[1])
      <4>1. \A h \in Moves(q) : ~(h <= 1)
        BY <1>9, <3>2
      <4>2. QED  BY <2>1, <3>2, <4>1 DEF Result
    <3>3. QED  BY <3>1, <3>2
  <2>3. RoomFollows(q, myRoom[p], room[p], p)
    BY <1>7, <1>12 DEF CopyInv, q
  <2>4. QED  BY <1>3, <1>6, <2>1, <2>2, <2>3, RoomRead
<1>13. ASSUME Waits(p) PROVE Waits(p)'
  <2> DEFINE rest == SubSeq(q, j + 1, Len(q))
  <2>1. \A h \in Renames(rest) : h \in Nat /\ h + j \in Renames(q)
    <3>1. \A h \in Renames(rest) : h \in 1..Len(q) - j /\ h + j \in Renames(q)
      BY <1>6, ChangesLeft
    <3> HIDE DEF rest
    <3>2. QED  BY <3>1
  <2>2. rest = toClient'[p]
    BY <1>3
  <2> HIDE DEF rest
  <2>3. ASSUME NEW g \in Renames(rest), NEW h \in Renames(rest) PROVE g = h
    <3>1. g + j = h + j
      BY <1>13, <2>1 DEF Waits, q
    <3>2. QED  BY <1>6, <2>1, <3>1
  <2>4. toServer[p] # <<>> => Renames(rest) = {}
    BY <1>13, <2>1 DEF Waits, q
  <2>5. QED  BY <1>4, <1>13, <2>2, <2>3, <2>4 DEF Waits
<1>14. CopyInv(p)'
  BY <1>1, <1>4, <1>7, <1>11, <1>12, <1>13 DEF CopyInv
<1>15. QED  BY <1>14

LEMMA ReadKeepsCopies ==
    ASSUME ViewRange, CopiesInv, NEW p \in Pid, ReadNotices(p)
    PROVE  CopiesInv'
<1>1. p \in clients /\ UNCHANGED <<vars, manner, last, sent, toServer, quoted>>
  BY DEF ReadNotices
<1>2. \A c \in Pid \ {p} : /\ toClient'[c] = toClient[c]
                           /\ myNick'[c] = myNick[c] /\ myRoom'[c] = myRoom[c]
  BY Applied DEF ViewRange
<1>3. clients' = clients /\ forked' = forked /\ nick' = nick /\ room' = room
  BY <1>1 DEF vars
<1>4. CopyInv(p)'
  <2>1. CASE p \in quoted
    BY <1>1, <2>1 DEF CopyInv
  <2>2. CASE p \notin quoted
    BY <2>2, ReadKeepsOwnCopy
  <2>3. QED  BY <2>1, <2>2
<1>5. \A c \in clients : c \in Pid /\ CopyInv(c)
  BY There DEF CopiesInv
<1>6. \A c \in clients : c # p => CopyInv(c)'
  BY <1>1, <1>2, <1>3, <1>5, CopyKept DEF NoMoreSent
<1>7. NotThereYet'
  BY <1>1, <1>2, <1>3, There, NotThereKept DEF CopiesInv
<1>8. QED  BY <1>3, <1>4, <1>6, <1>7 DEF CopiesInv

\* Sending: a user who waits has nothing on its way when it sends.
LEMMA SendKeepsCopies ==
    ASSUME ViewRange, CopiesInv, NEW p \in Pid, NEW m \in Messages, MaySend(p), Transmit(p, m)
    PROVE  CopiesInv'
<1>1. /\ p \in clients /\ (manner = "patient" => Quiet(p))
      /\ toServer' = [toServer EXCEPT ![p] = Append(@, m)]
      /\ UNCHANGED <<vars, manner, myNick, myRoom, toClient, quoted>>
  BY DEF MaySend, Transmit
<1>2. clients' = clients /\ forked' = forked /\ nick' = nick /\ room' = room
  BY <1>1 DEF vars
<1>3. toServer \in [Pid -> Seq(Messages)] /\ manner \in {"slow", "patient"}
  BY There
<1>4. /\ toServer'[p] = Append(toServer[p], m)
      /\ \A c \in Pid \ {p} : toServer'[c] = toServer[c]
  BY <1>1, <1>3
<1>5. \A c \in clients : c \in Pid /\ CopyInv(c)
  BY There DEF CopiesInv
<1>6. CopyInv(p)'
  <2>1. ASSUME manner # "slow" PROVE Waits(p)'
    <3>1. toServer[p] = <<>> /\ toClient[p] = <<>>
      BY <1>1, <1>3, <2>1 DEF Quiet
    <3>2. Len(toServer'[p]) = 1
      BY <1>4, <3>1
    <3>3. toClient'[p] = <<>>
      BY <1>1, <3>1
    <3>4. QED  BY <3>2, <3>3, NothingToRead DEF Waits
  <2>2. QED  BY <1>1, <1>2, <1>5, <2>1 DEF CopyInv
<1>7. \A c \in clients : c # p => CopyInv(c)'
  BY <1>1, <1>2, <1>4, <1>5, CopyKept DEF NoMoreSent
<1>8. NotThereYet'
  BY <1>1, <1>2, <1>4, There, NotThereKept DEF CopiesInv
<1>9. QED  BY <1>2, <1>6, <1>7, <1>8 DEF CopiesInv

\* A text misleads only those who have then been sent a quoted notice.
LEMMA TextKeepsCopies ==
    ASSUME ViewRange, CopiesInv, NEW p \in Pid, ServeText(p)
    PROVE  CopiesInv'
<1>1. /\ p \in clients /\ toServer[p] # <<>> /\ Receive(p)
      /\ UNCHANGED <<vars, manner, myNick, myRoom>>
  BY DEF ServeText
<1>2. ViewTypes
  BY DEF ViewRange
<1>3. /\ toServer' \in [Pid -> Seq(Messages)]
      /\ Len(toServer'[p]) < Len(toServer[p])
      /\ \A c \in Pid \ {p} : toServer'[c] = toServer[c]
  BY <1>1, <1>2, Received
<1>4. /\ quoted \subseteq quoted'
      /\ \A c \in Pid \ quoted' : toClient'[c] = toClient[c]
      /\ \A c \in Pid \ clients : toClient'[c] = toClient[c]
  BY <1>2, Passed
<1>5. clients' = clients /\ forked' = forked /\ nick' = nick /\ room' = room
  BY <1>1 DEF vars
<1>6. ASSUME NEW c \in clients PROVE CopyInv(c)'
  <2>1. c \in Pid /\ CopyInv(c) /\ NoMoreSent(c)
    BY <1>3, There DEF CopiesInv, NoMoreSent
  <2>2. QED  BY <1>1, <1>4, <1>5, <2>1, CopyKept
<1>7. NotThereYet'
  BY <1>1, <1>3, <1>4, <1>5, There, NotThereKept DEF CopiesInv
<1>8. QED  BY <1>5, <1>6, <1>7 DEF CopiesInv

\* A new client believes what is recorded of it.
LEMMA ArriveKeepsCopies ==
    ASSUME ViewRange, CopiesInv, Arrive
    PROVE  CopiesInv'
<1>0. forked + 1 \in Pid
  BY LimitAssumption DEF Arrive, AddClient, ViewRange, TypeOK, Pid
<1>new. PICK new \in Pid : new = forked + 1
  BY <1>0
<1>1. /\ forked' = new /\ clients' = clients \cup {new}
      /\ nick' = [nick EXCEPT ![new] = Guest] /\ room' = [room EXCEPT ![new] = General]
      /\ UNCHANGED <<manner, myNick, myRoom, toServer, toClient, quoted>>
  BY <1>new DEF Arrive, AddClient, view
<1>2. /\ forked \in Nat /\ new > forked /\ manner \in {"slow", "patient"}
      /\ \A c \in clients : c \in Pid /\ c # new
  BY <1>new, There
<1>3. nick \in [Pid -> NickName] /\ room \in [Pid -> RoomName]
  BY DEF ViewRange, TypeOK
<1>4. CopyInv(new)'
  <2>1. toClient'[new] = <<>> /\ toServer'[new] = <<>> /\ myNick'[new] = Guest
    BY <1>1, <1>2 DEF CopiesInv, NotThereYet
  <2>2. nick'[new] = Guest /\ room'[new] = General
    BY <1>1, <1>3
  <2>3. Waits(new)'
    BY <2>1, NothingToRead DEF Waits
  <2>4. QED  BY <2>1, <2>2, <2>3, NothingToRead DEF CopyInv
<1>5. ASSUME NEW c \in clients PROVE CopyInv(c)'
  <2>1. nick'[c] = nick[c] /\ room'[c] = room[c] /\ c \in Pid /\ CopyInv(c)
    BY <1>1, <1>2, <1>3 DEF CopiesInv
  <2>2. QED  BY <1>1, <2>1, CopyKept DEF NoMoreSent
<1>6. NotThereYet'
  BY <1>new, <1>1, <1>2, There, NotThereKept DEF CopiesInv
<1>7. QED  BY <1>1, <1>4, <1>5, <1>6 DEF CopiesInv

LEMMA QuitKeepsCopies ==
    ASSUME ViewRange, CopiesInv, NEW p \in Pid, Quit(p)
    PROVE  CopiesInv'
<1>1. /\ p \in clients /\ clients' = clients \ {p} /\ forked' = forked
      /\ nick' = [nick EXCEPT ![p] = Guest] /\ room' = [room EXCEPT ![p] = General]
      /\ toServer' = [toServer EXCEPT ![p] = <<>>]
      /\ toClient' = [toClient EXCEPT ![p] = <<>>]
      /\ quoted' = quoted \ {p}
      /\ UNCHANGED <<manner, myNick, myRoom>>
  BY DEF Quit, RemoveClient
<1>2. nick \in [Pid -> NickName] /\ room \in [Pid -> RoomName]
  BY DEF ViewRange, TypeOK
<1>3. \A c \in Pid \ {p} : /\ nick'[c] = nick[c] /\ room'[c] = room[c]
                           /\ toServer'[c] = toServer[c] /\ toClient'[c] = toClient[c]
  BY <1>1, <1>2, There
<1>4. ASSUME NEW c \in clients' PROVE CopyInv(c)'
  <2>1. c \in Pid \ {p} /\ CopyInv(c)
    BY <1>1, There DEF CopiesInv
  <2>2. QED  BY <1>1, <1>3, <2>1, CopyKept DEF NoMoreSent
<1>5. NotThereYet'
  BY <1>1, <1>3, There, NotThereKept DEF CopiesInv
<1>6. QED  BY <1>4, <1>5 DEF CopiesInv

LEMMA CopiesStep == ViewRange /\ CopiesInv /\ [ViewNext]_viewVars => CopiesInv'
<1> SUFFICES ASSUME ViewRange, CopiesInv, [ViewNext]_viewVars PROVE CopiesInv'
  OBVIOUS
<1>1. ASSUME UNCHANGED <<clients, forked, nick, room, manner, myNick, myRoom, toClient, quoted>>,
             \A c \in Pid : NoMoreSent(c), \A c \in Pid \ clients : toServer'[c] = toServer[c]
      PROVE  CopiesInv'
  <2>1. \A c \in clients : c \in Pid /\ CopyInv(c)
    BY There DEF CopiesInv
  <2>2. \A c \in clients' : CopyInv(c)'
    BY <1>1, <2>1, CopyKept
  <2>3. NotThereYet'
    BY <1>1, There, NotThereKept DEF CopiesInv
  <2>4. QED  BY <2>2, <2>3 DEF CopiesInv
<1>2. CASE UNCHANGED viewVars
  BY <1>1, <1>2 DEF viewVars, view, vars, NoMoreSent
<1>3. ASSUME NEW p \in Pid, NEW m \in Messages, Send(p, m) PROVE CopiesInv'
  BY <1>3, SendKeepsCopies DEF Send
<1>4. ASSUME NEW p \in Pid, Help(p) PROVE CopiesInv'
  <2>1. CASE Transmit(p, last[p])
    <3>1. last[p] \in Messages /\ MaySend(p)
      BY <1>4 DEF Help, ViewRange, ViewTypes
    <3>2. QED  BY <2>1, <3>1, SendKeepsCopies
  <2>2. CASE ~Transmit(p, last[p])
    <3>1. UNCHANGED <<vars, view>>
      BY <1>4, <2>2 DEF Help
    <3>2. QED  BY <1>1, <3>1 DEF vars, view, NoMoreSent
  <2>3. QED  BY <2>1, <2>2
<1>5. ASSUME NEW p \in Pid, ServeOther(p) PROVE CopiesInv'
  <2>1. /\ p \in clients /\ toServer[p] # <<>> /\ Receive(p)
        /\ UNCHANGED <<vars, manner, myNick, myRoom, toClient, quoted>>
    BY <1>5 DEF ServeOther
  <2>2. /\ toServer' \in [Pid -> Seq(Messages)]
        /\ Len(toServer'[p]) < Len(toServer[p])
        /\ \A c \in Pid \ {p} : toServer'[c] = toServer[c]
    BY <2>1, Received DEF ViewRange
  <2>3. QED  BY <1>1, <2>1, <2>2 DEF vars, NoMoreSent
<1>6. ASSUME NEW p \in Pid, NEW x \in TextsOf(p),
             \/ Send(p, Message("chat", myRoom[p], x))
             \/ \E m \in NickName : Send(p, Message("whisper", m, x))
      PROVE  CopiesInv'
  <2>1. /\ Message("chat", myRoom[p], x) \in Messages
        /\ \A m \in NickName : Message("whisper", m, x) \in Messages
    BY CommandTypes, TextsAreText DEF ViewRange, ViewTypes
  <2>2. QED  BY <1>3, <1>6, <2>1
<1>7. QED
  BY <1>2, <1>3, <1>4, <1>5, <1>6, TextKeepsCopies, ArriveKeepsCopies, JoinKeepsCopies, LeaveKeepsCopies,
     RenameKeepsCopies, ReadKeepsCopies, QuitKeepsCopies, CommandTypes DEF ViewNext

\* Once everything has arrived a client that was never sent a quoted notice knows
\* its nickname, for every number of clients, names, messages and quotations and
\* whether it reads its notices one by one or its user waits for each answer.
THEOREM NicknameArrives == ViewSpec => []NicknameKnown
<1>1. QED
  BY ViewRangeInit, ViewRangeStep, CopiesInit, CopiesStep, CopiesEnough, PTL DEF ViewSpec

\* Once everything has arrived a client that reads its notices one by one and was
\* never sent a quoted notice is wrong about its room only when it is recorded in
\* general: others' entries, those of misled clients included, and refused or
\* repeated commands never mislead it elsewhere.
THEOREM RoomArrives == ViewSpec => []StaleOnlyInGeneral
<1>1. QED
  BY ViewRangeInit, ViewRangeStep, CopiesInit, CopiesStep, CopiesEnough, PTL DEF ViewSpec

\* A foreign notice of an entry names the room the client believes to be in by
\* the time it is read.
LEMMA ForeignEntry ==
    ASSUME ViewRange, CopiesInv, NEW p \in clients \ quoted, manner = "slow", ReadNotices(p),
           myRoom'[p] # myRoom[p]
    PROVE  \E h \in DOMAIN toClient[p] :
               toClient[p][h].who = p /\ myRoom'[p] = toClient[p][h].arg
<1> DEFINE q == toClient[p]
<1>1. p \in Pid /\ q \in Seq(Note) /\ CopyInv(p)
  BY There DEF CopiesInv
<1>2. Len(q) >= 1 /\ myRoom'[p] = IF MovesClient(q[1]) THEN q[1].arg ELSE myRoom[p]
  <2>1. ViewTypes
    BY DEF ViewRange
  <2>2. \E j \in 1..Len(q) : j = 1 /\ myRoom'[p] = IF MovesClient(q[1]) THEN q[1].arg
                                                                       ELSE myRoom[p]
    BY <1>1, <2>1, Applied
  <2>3. QED  BY <1>1, <2>2
<1>3. RoomFollows(q, myRoom[p], room[p], p)
  BY <1>1 DEF CopyInv
<1> HIDE DEF q
<1>4. MovesClient(q[1]) /\ myRoom'[p] = q[1].arg /\ 1 \in 1..Len(q)
  BY <1>1, <1>2
<1>5. 1 \in Moves(q) /\ \A h \in Moves(q) : h > 0
  BY <1>4 DEF Moves
<1>6. q[1].who = p
  <2> SUFFICES ASSUME q[1].who # p PROVE FALSE
    OBVIOUS
  <2>1. Result(q, Moves(q), 0, myRoom[p], q[1].arg)
    <3>1. Result(q, Moves(q), 1 - 1, myRoom[p], q[1].arg)
      BY <1>3, <1>5 DEF RoomFollows
    <3>2. 1 - 1 = 0
      OBVIOUS
    <3>3. QED  BY <3>1, <3>2
  <2>2. q[1].arg = myRoom[p]
    BY <1>5, <2>1 DEF Result
  <2>3. QED  BY <1>4, <2>2
<1>7. DOMAIN q = 1..Len(q)
  BY <1>1
<1>8. QED  BY <1>4, <1>6, <1>7 DEF q

\* The notices of other people's entries, which look like those of one's own,
\* never change the room a client that reads them one by one believes in, unless
\* it was sent a text that quotes a notice.
THEOREM OnlyOwnEntryMoves == ViewSpec => OwnEntryOnly
<1>1. ViewRange /\ CopiesInv =>
          [\A p \in clients \ quoted :
               manner = "slow" /\ ReadNotices(p) /\ myRoom'[p] # myRoom[p] =>
                   \E h \in DOMAIN toClient[p] :
                       /\ toClient[p][h].who = p
                       /\ myRoom'[p] = toClient[p][h].arg]_viewVars
  BY ForeignEntry
<1>2. QED
  BY <1>1, ViewRangeInit, ViewRangeStep, CopiesInit, CopiesStep, PTL DEF ViewSpec, OwnEntryOnly
=============================================================================
