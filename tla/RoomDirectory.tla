---------------------------- MODULE RoomDirectory ----------------------------
(***************************************************************************)
(* What the room commands of the chat2 server promise to the people using  *)
(* it, without counters or capacities: whoever is present is in one open   *)
(* room, people start in the hall, a room opens when somebody asks for it  *)
(* or enters it and closes when the last person leaves it or, on request,  *)
(* while nobody is in it.  The hall never closes.                          *)
(***************************************************************************)
CONSTANTS Person, Room, Hall

VARIABLES present, place, open

directory == <<present, place, open>>

Init ==
    /\ present = {}
    /\ place = [p \in Person |-> Hall]
    /\ open = {Hall}

Occupied(r, people) == \E p \in people : place[p] = r

\* The rooms left open when p goes: p's own room closes behind the last one.
OpenWithout(p) ==
    IF place[p] # Hall /\ ~Occupied(place[p], present \ {p})
    THEN open \ {place[p]}
    ELSE open

Arrive(p) ==
    /\ p \notin present
    /\ present' = present \cup {p}
    /\ place' = [place EXCEPT ![p] = Hall]
    /\ UNCHANGED open

Depart(p) ==
    /\ p \in present
    /\ present' = present \ {p}
    /\ place' = [place EXCEPT ![p] = Hall]
    /\ open' = OpenWithout(p)

Move(p, r) ==
    /\ p \in present
    /\ place' = [place EXCEPT ![p] = r]
    /\ open' = OpenWithout(p) \cup {r}
    /\ UNCHANGED present

OpenRoom(r) ==
    /\ r \notin open
    /\ open' = open \cup {r}
    /\ UNCHANGED <<present, place>>

CloseRoom(r) ==
    /\ r \in open \ {Hall}
    /\ ~Occupied(r, present)
    /\ open' = open \ {r}
    /\ UNCHANGED <<present, place>>

Next ==
    \/ \E p \in Person :
        \/ Arrive(p)
        \/ Depart(p)
        \/ \E r \in Room : Move(p, r)
    \/ \E r \in Room : OpenRoom(r) \/ CloseRoom(r)

Spec == Init /\ [][Next]_directory
=============================================================================
