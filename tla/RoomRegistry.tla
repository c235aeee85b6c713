---------------------------- MODULE RoomRegistry ----------------------------
(***************************************************************************)
(* The tables the parent process of chat2/chat_server2.c keeps: the client *)
(* array (clients, client_count) and the room array (chat_rooms,           *)
(* room_count), with every operation that changes them.                    *)
(*                                                                         *)
(* A client is identified by the pid of the child that serves it.  Pids    *)
(* are handed out in increasing order and the array is kept in arrival     *)
(* order (remove_client_from_list shifts it down), so the i-th record of   *)
(* the array is the i-th smallest member of clients.  Room names in        *)
(* chat_rooms are distinct, so the room array is a set of names with a     *)
(* count each.                                                             *)
(*                                                                         *)
(* One action is one call of the main loop or of the SIGCHLD handler that  *)
(* changes the tables.  Calls that only answer with an error leave the     *)
(* tables alone and are stuttering steps here.                             *)
(*                                                                         *)
(* Names have 31 characters at most, as chat2/chat_client.c sees to: the   *)
(* server would cut longer ones off when it records them but compare them  *)
(* whole, so that two users could get the same cut-off name.               *)
(***************************************************************************)
EXTENDS Integers, FiniteSets

CONSTANTS
    RoomName,     \* the names users give to rooms
    General,      \* "general", the room everybody starts in
    NickName,     \* the names users give themselves
    Guest,        \* "guest", the name everybody starts with
    MaxRooms,     \* MAX_ROOMS
    MaxClients,   \* MAX_CLIENTS
    MaxPid,       \* bound: connections accepted in one behaviour
    DriftBound    \* bound: how far refused joins may push a count below zero

ASSUME RoomAssumption  == General \in RoomName /\ IsFiniteSet(RoomName)
ASSUME NickAssumption  == Guest \in NickName
ASSUME LimitAssumption == /\ MaxRooms \in Nat \ {0}
                          /\ MaxClients \in Nat
                          /\ MaxPid \in Nat
                          /\ DriftBound \in Nat

VARIABLES
    forked,   \* number of children forked so far; the newest has this pid
    alive,    \* children that have not been reaped
    clients,  \* pids with a record in the client array
    nick,     \* nickname field of each record
    room,     \* room_name field of each record
    rooms,    \* names in the room array
    count     \* client_count field of each room

vars == <<forked, alive, clients, nick, room, rooms, count>>

Pid == 1..MaxPid

\* The records get_users_in_room_message lists: those whose room_name is r.
Members(r) == {p \in clients : room[p] = r}

Init ==
    /\ forked = 0
    /\ alive = {}
    /\ clients = {}
    /\ nick = [p \in Pid |-> Guest]
    /\ room = [p \in Pid |-> General]
    /\ rooms = {General}
    /\ count = [r \in RoomName |-> 0]

-----------------------------------------------------------------------------
(* Helpers shared by the operations.  Each is preceded by a faulty variant  *)
(* (a bug the code might have had) that the model checker must reject.      *)

KeepsEmptyRoom(r) == rooms

\* The room array and the counts after a member of r was taken out of r:
\* the count drops, and a room other than general whose count reached zero
\* is deleted.  A name that is not in the array is left alone.
RoomsAfterLeaving(r) ==
    IF r # General /\ count[r] = 1 THEN rooms \ {r} ELSE rooms

GeneralNotCountedOut(r) ==
    IF r \in rooms \ {General} THEN [count EXCEPT ![r] = @ - 1] ELSE count

CountAfterLeaving(r) ==
    IF r \in rooms THEN [count EXCEPT ![r] = @ - 1] ELSE count

OneRoomTooMany(r, existing) == r \in existing \/ Cardinality(existing) <= MaxRooms

\* Room r can be entered once the sender is out of the room it was in:
\* it exists, or add_room finds a free slot.
CanEnter(r, existing) == r \in existing \/ Cardinality(existing) < MaxRooms

CreatorNotCounted(r, existing, counted) ==
    [counted EXCEPT ![r] = IF r \in existing THEN @ + 1 ELSE 0]

\* The counts after one more client entered r; a room created for it starts
\* at zero.
CountAfterEntering(r, existing, counted) ==
    [counted EXCEPT ![r] = IF r \in existing THEN @ + 1 ELSE 1]

\* remove_room finds nobody counted in r.
CountedEmpty(r) == count[r] <= 0

FreeInOwnRoom(p, n) ==
    \A q \in clients \ {p} : nick[q] # n \/ room[q] # room[p]

\* No other record has nickname n.
NickFree(p, n) == \A q \in clients \ {p} : nick[q] # n

-----------------------------------------------------------------------------
(* Connections.                                                            *)

\* A connection is accepted, a child forked and its record appended.  The
\* count of general is not touched.
AddClient ==
    /\ forked < MaxPid
    /\ Cardinality(clients) < MaxClients
    /\ forked' = forked + 1
    /\ alive' = alive \cup {forked + 1}
    /\ clients' = clients \cup {forked + 1}
    /\ nick' = [nick EXCEPT ![forked + 1] = Guest]
    /\ room' = [room EXCEPT ![forked + 1] = General]
    /\ UNCHANGED <<rooms, count>>

\* The array is full: the child is forked all the same and gets no record.
AddClientFull ==
    /\ forked < MaxPid
    /\ Cardinality(clients) >= MaxClients
    /\ forked' = forked + 1
    /\ alive' = alive \cup {forked + 1}
    /\ UNCHANGED <<clients, nick, room, rooms, count>>

\* The child of a recorded client exits and the SIGCHLD handler removes the
\* record, taking the client out of its room.
RemoveClient(p) ==
    /\ p \in alive \cap clients
    /\ alive' = alive \ {p}
    /\ clients' = clients \ {p}
    /\ rooms' = RoomsAfterLeaving(room[p])
    /\ count' = CountAfterLeaving(room[p])
    /\ nick' = [nick EXCEPT ![p] = Guest]
    /\ room' = [room EXCEPT ![p] = General]
    /\ UNCHANGED forked

\* A child without a record exits: remove_client_from_list finds nothing.
ReapUnrecorded(p) ==
    /\ p \in alive \ clients
    /\ alive' = alive \ {p}
    /\ UNCHANGED <<forked, clients, nick, room, rooms, count>>

-----------------------------------------------------------------------------
(* Commands of a recorded client p.                                        *)

\* /add r
AddRoom(p, r) ==
    /\ p \in clients
    /\ r \notin rooms
    /\ Cardinality(rooms) < MaxRooms
    /\ rooms' = rooms \cup {r}
    /\ count' = [count EXCEPT ![r] = 0]
    /\ UNCHANGED <<forked, alive, clients, nick, room>>

\* /rm r; a deleted room has no count, which the model keeps at zero.
RemoveRoom(p, r) ==
    /\ p \in clients
    /\ r \in rooms \ {General}
    /\ CountedEmpty(r)
    /\ rooms' = rooms \ {r}
    /\ count' = [count EXCEPT ![r] = 0]
    /\ UNCHANGED <<forked, alive, clients, nick, room>>

\* /join r succeeds: out of the old room, into the new one, which is created
\* when it does not exist (any more).
JoinRoom(p, r) ==
    /\ p \in clients
    /\ CanEnter(r, RoomsAfterLeaving(room[p]))
    /\ rooms' = RoomsAfterLeaving(room[p]) \cup {r}
    /\ count' = CountAfterEntering(r, RoomsAfterLeaving(room[p]),
                                   CountAfterLeaving(room[p]))
    /\ room' = [room EXCEPT ![p] = r]
    /\ UNCHANGED <<forked, alive, clients, nick>>

\* /join r fails in add_room: the sender has been counted out of its old
\* room, and the room may have been deleted, but the record still names it.
JoinRefused(p, r) ==
    /\ p \in clients
    /\ ~CanEnter(r, RoomsAfterLeaving(room[p]))
    /\ count[room[p]] > -DriftBound
    /\ rooms' = RoomsAfterLeaving(room[p])
    /\ count' = CountAfterLeaving(room[p])
    /\ UNCHANGED <<forked, alive, clients, nick, room>>

\* /leave
LeaveRoom(p) ==
    /\ p \in clients
    /\ room[p] # General
    /\ rooms' = RoomsAfterLeaving(room[p])
    /\ count' = [CountAfterLeaving(room[p]) EXCEPT ![General] = @ + 1]
    /\ room' = [room EXCEPT ![p] = General]
    /\ UNCHANGED <<forked, alive, clients, nick>>

\* /nickname n
ChangeNickname(p, n) ==
    /\ p \in clients
    /\ NickFree(p, n)
    /\ nick' = [nick EXCEPT ![p] = n]
    /\ UNCHANGED <<forked, alive, clients, room, rooms, count>>

-----------------------------------------------------------------------------
Next ==
    \/ AddClient
    \/ AddClientFull
    \/ \E p \in Pid :
        \/ RemoveClient(p)
        \/ ReapUnrecorded(p)
        \/ LeaveRoom(p)
        \/ \E r \in RoomName :
            \/ AddRoom(p, r)
            \/ RemoveRoom(p, r)
            \/ JoinRoom(p, r)
            \/ JoinRefused(p, r)
        \/ \E n \in NickName : ChangeNickname(p, n)

Spec == Init /\ [][Next]_vars

-----------------------------------------------------------------------------
(* Properties.                                                             *)

\* The tables have their types, records belong to unreaped children, and
\* neither array holds more than its capacity.
TypeOK ==
    /\ forked \in 0..MaxPid
    /\ alive \subseteq 1..forked
    /\ clients \subseteq alive
    /\ nick \in [Pid -> NickName]
    /\ room \in [Pid -> RoomName]
    /\ rooms \subseteq RoomName
    /\ count \in [RoomName -> Int]
    /\ General \in rooms
    /\ Cardinality(rooms) <= MaxRooms
    /\ Cardinality(clients) <= MaxClients

\* The counter of a room, which /list and /users print, never exceeds the
\* number of records that name the room, whatever joins were refused: every
\* error of join_room and add_client_to_list is on the low side.
NeverOverCounts == \A r \in rooms : count[r] <= Cardinality(Members(r))

\* general's counter stays at or below minus the number of clients in other
\* rooms, because a connection enters general uncounted and leaves it
\* counted: /list never shows a user in general.
GeneralCountsNobody ==
    count[General] <= Cardinality(Members(General)) - Cardinality(clients)

\* Two records share a nickname only if it is the one every client starts
\* with, so the first-match lookup of a whisper is ambiguous for guest only.
SharedNickIsGuest ==
    \A p, q \in clients : p # q /\ nick[p] = nick[q] => nick[p] = Guest

\* As long as the room array cannot fill up, every record names a room that
\* exists, and the counter of each room but general is exact although
\* joining, leaving, disconnecting and the automatic deletion all share it.
RecordsNameOpenRooms == \A p \in clients : room[p] \in rooms

ExactCounts ==
    \A r \in rooms \ {General} : count[r] = Cardinality(Members(r))

-----------------------------------------------------------------------------
(* The directory of rooms the users rely on: a record is a person, its      *)
(* room_name the place.  The counters decide when a room closes, so the     *)
(* implementation is correct only while they are.                           *)
Directory == INSTANCE RoomDirectory WITH
    Person  <- Pid,
    Room    <- RoomName,
    Hall    <- General,
    present <- clients,
    place   <- room,
    open    <- rooms

\* With room for every name the counters implement "is anybody in there": the
\* tables change only as the directory of rooms allows.
ImplementsDirectory == Directory!Spec
=============================================================================
