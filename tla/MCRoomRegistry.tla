--------------------------- MODULE MCRoomRegistry ---------------------------
(* Model-checking instances of RoomRegistry: the symmetry of the names that *)
(* the server treats alike, and the registry with a slot for every room.    *)
EXTENDS RoomRegistry, TLC

ASSUME SlotsAssumption == Cardinality(RoomName) <= MaxRooms

Names == Permutations(RoomName \ {General}) \cup Permutations(NickName \ {Guest})

\* The registry's Next without JoinRefused, which is disabled in every state
\* when there is a slot for every room (RoomRegistryProofs!NeverRefused).
RoomyNext ==
    \/ AddClient
    \/ AddClientFull
    \/ \E p \in Pid :
        \/ RemoveClient(p)
        \/ ReapUnrecorded(p)
        \/ LeaveRoom(p)
        \/ \E r \in RoomName : AddRoom(p, r) \/ RemoveRoom(p, r) \/ JoinRoom(p, r)
        \/ \E m \in NickName : ChangeNickname(p, m)

RoomySpec == Init /\ [][RoomyNext]_vars
=============================================================================
