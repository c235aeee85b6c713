----------------------------- MODULE ClientView -----------------------------
(***************************************************************************)
(* What a chat2 client believes about itself, against what the server      *)
(* recorded.  chat2/chat_client.c keeps its own copies of its nickname and *)
(* room, puts them into every chat message it sends, and updates them from *)
(* the text of the notices it happens to read.  The server's tables and    *)
(* what a command does to them are RoomRegistry.                           *)
(*                                                                         *)
(* A connection is a pair of queues: one hop stands for the socket, the    *)
(* child and the pipe of one direction.  Both directions are byte streams  *)
(* without framing: a read returns several messages at once, the server    *)
(* handles the first and drops the others, the client looks for the first  *)
(* occurrence of each notice it knows, in all of what it has read: a chat  *)
(* line or a whisper that quotes a notice is one to the client.            *)
(*                                                                         *)
(* Only what the client takes for a notice is queued; commands that cause  *)
(* none (/add, /rm, /list, /users) are left to RoomRegistry: what their    *)
(* answers repeat of a user's text, a name of 31 bytes at most, is too     *)
(* short to hold a notice.  A text quotes one notice whole or none, and a  *)
(* read splits no notice (it would have to lie across the 1023rd byte).    *)
(***************************************************************************)
EXTENDS RoomRegistry, Sequences

CONSTANTS
    MaxSend,   \* bound: messages each client sends
    Quoters,   \* bound: clients whose texts may quote notices
    Manners    \* the ways to use the chat that are considered, of
               \* "slow": messages come one at a time, so that every read
               \*   returns one message; users may type ahead
               \* "patient": reads return any number of messages; users wait
               \*   for the answer before they send again

ASSUME ViewAssumption ==
    MaxSend \in Nat /\ Manners \subseteq {"slow", "patient"}

VARIABLES
    manner,    \* the way of this behaviour, which never changes
    myNick,    \* current_nickname of each client
    myRoom,    \* current_room of each client
    last,      \* formatted_message: the message a client sent last
    sent,      \* messages each client has sent
    toServer,  \* messages on their way to the parent
    toClient,  \* notices, real or quoted, on their way to the client
    quoted     \* history: clients to which a quoted notice was sent

view == <<manner, myNick, myRoom, last, sent, toServer, toClient, quoted>>
viewVars == <<vars, view>>

Notice(k, a, p) == [note |-> k, arg |-> a, who |-> p]

\* The notices a user can quote: they are about nobody.
Quotation ==
    {Notice("entered", r, 0) : r \in RoomName}
    \cup {Notice("renamed", m, 0) : m \in NickName}
    \cup {Notice("moved", General, 0)}

\* What the text of a chat message or of a whisper quotes: at most one notice.
Text == {<<>>} \cup {<<e>> : e \in Quotation}

TextsOf(p) == IF p \in Quoters THEN Text ELSE {<<>>}

Message(c, a, text) == [cmd |-> c, arg |-> a, quotes |-> text]
Command(c, a) == Message(c, a, <<>>)
Nothing == Command("none", General)

ViewInit ==
    /\ Init
    /\ manner \in Manners
    /\ myNick = [p \in Pid |-> Guest]
    /\ myRoom = [p \in Pid |-> General]
    /\ last = [p \in Pid |-> Nothing]
    /\ sent = [p \in Pid |-> 0]
    /\ toServer = [p \in Pid |-> <<>>]
    /\ toClient = [p \in Pid |-> <<>>]
    /\ quoted = {}

-----------------------------------------------------------------------------
(* The user and the sending half of the client.                            *)

\* Nothing is on its way from or to p.
Quiet(p) == toServer[p] = <<>> /\ toClient[p] = <<>>

MaySend(p) == p \in clients /\ sent[p] < MaxSend /\ (manner = "patient" => Quiet(p))

Transmit(p, m) ==
    /\ toServer' = [toServer EXCEPT ![p] = Append(@, m)]
    /\ sent' = [sent EXCEPT ![p] = @ + 1]
    /\ UNCHANGED <<vars, manner, myNick, myRoom, toClient, quoted>>

\* A command or a chat message is formatted and sent.  A chat message names
\* the room the client believes to be in.
Send(p, m) ==
    /\ MaySend(p)
    /\ last' = [last EXCEPT ![p] = m]
    /\ Transmit(p, m)

\* /help prints the help and falls through to the write at the end of the
\* branch, which sends what the buffer still holds: the last message again or,
\* before the first one, whatever was on the stack (possibly nothing).
Help(p) ==
    /\ MaySend(p)
    /\ UNCHANGED last
    /\ \/ Transmit(p, last[p])
       \/ last[p] = Nothing /\ UNCHANGED <<vars, view>>

-----------------------------------------------------------------------------
(* The server: one message is handled.                                     *)

\* A read takes the messages at the front of the queue: the first is handled
\* and the others of the same read are lost.
Taken(q) == IF manner = "slow" THEN {1} \cap 1..Len(q) ELSE 1..Len(q)

Receive(p) ==
    \E h \in Taken(toServer[p]) :
        toServer' = [toServer EXCEPT ![p] = SubSeq(@, h + 1, Len(@))]

Tell(p, note) == toClient' = [toClient EXCEPT ![p] = Append(@, note)]

EntryToEverybody(p, r) ==
    LET entry == Notice("entered", r, p)
    IN  toClient' = [q \in Pid |->
            IF q \in clients THEN Append(toClient[q], entry) ELSE toClient[q]]

\* The entry notice goes to the client itself and then to everybody in the
\* room, which it has joined by then.
TellEntry(p, r) ==
    LET entry == Notice("entered", r, p)
    IN  toClient' = [q \in Pid |->
            IF q = p THEN toClient[q] \o <<entry, entry>>
            ELSE IF q \in Members(r) THEN Append(toClient[q], entry)
            ELSE toClient[q]]

ServeJoin(p) ==
    /\ p \in clients
    /\ toServer[p] # <<>> /\ Head(toServer[p]).cmd = "join"
    /\ Receive(p)
    /\ LET r == Head(toServer[p]).arg
       IN  \/ JoinRoom(p, r) /\ TellEntry(p, r)
           \/ JoinRefused(p, r) /\ UNCHANGED toClient
    /\ UNCHANGED <<manner, myNick, myRoom, last, sent, quoted>>

ServeLeave(p) ==
    /\ p \in clients
    /\ toServer[p] # <<>> /\ Head(toServer[p]).cmd = "leave"
    /\ Receive(p)
    /\ \/ LeaveRoom(p) /\ Tell(p, Notice("moved", General, p))
       \/ room[p] = General /\ UNCHANGED <<vars, toClient>>
    /\ UNCHANGED <<manner, myNick, myRoom, last, sent, quoted>>

AnswersAsIfRenamed(p, m) == UNCHANGED vars /\ Tell(p, Notice("renamed", m, p))

\* A nickname somebody else has is refused; the client looks for no such answer.
RefuseNickname(p, m) == UNCHANGED <<vars, toClient>>

ServeNickname(p) ==
    /\ p \in clients
    /\ toServer[p] # <<>> /\ Head(toServer[p]).cmd = "nickname"
    /\ Receive(p)
    /\ LET m == Head(toServer[p]).arg
       IN  \/ ChangeNickname(p, m) /\ Tell(p, Notice("renamed", m, p))
           \/ ~NickFree(p, m) /\ RefuseNickname(p, m)
    /\ UNCHANGED <<manner, myNick, myRoom, last, sent, quoted>>

\* Those who are sent a text: a chat message goes to the room it names, whatever
\* room the sender is in, and a whisper to the first record of the array with
\* that nickname, if there is one.
Addressees(m) ==
    IF m.cmd = "chat" THEN Members(m.arg)
    ELSE {q \in clients : nick[q] = m.arg /\ \A o \in clients : nick[o] = m.arg => q <= o}

\* A whisper is sent back to its sender as well, found or not.
Echoed(p, m) == IF m.cmd = "whisper" THEN {p} ELSE {}

\* A text is passed on with what it quotes.
ServeText(p) ==
    /\ p \in clients
    /\ toServer[p] # <<>> /\ Head(toServer[p]).cmd \in {"chat", "whisper"}
    /\ Receive(p)
    /\ LET m == Head(toServer[p])
           Copy(q, S) == IF q \in S THEN m.quotes ELSE <<>>
       IN  /\ toClient' = [q \in Pid |->
                  toClient[q] \o Copy(q, Addressees(m)) \o Copy(q, Echoed(p, m))]
           /\ quoted' = IF m.quotes = <<>> THEN quoted
                        ELSE quoted \cup Addressees(m) \cup Echoed(p, m)
    /\ UNCHANGED <<vars, manner, myNick, myRoom, last, sent>>

\* A message of no known type is answered with an error.
ServeOther(p) ==
    /\ p \in clients
    /\ toServer[p] # <<>> /\ Head(toServer[p]).cmd = "none"
    /\ Receive(p)
    /\ UNCHANGED <<vars, manner, myNick, myRoom, last, sent, toClient, quoted>>

-----------------------------------------------------------------------------
(* The receiving half of the client.                                       *)

Kinds(batch) == {batch[h].note : h \in DOMAIN batch}

FirstArg(batch, kind) ==
    LET h == CHOOSE h \in DOMAIN batch :
                 /\ batch[h].note = kind
                 /\ \A g \in 1..h - 1 : batch[g].note # kind
    IN  batch[h].arg

TakenFromGeneralOnly(p, r) == IF myRoom[p] = General THEN r ELSE myRoom[p]

\* The room the client believes in after a read that has an entry notice: the
\* one of the first such notice, unless that is general.
RoomAfterEntry(p, r) == IF r = General THEN myRoom[p] ELSE r

\* The client reads a batch of notices and applies the first kind it finds, in
\* this order: a nickname change, an entry, the return to general.
Apply(p, batch) ==
    /\ myNick' = IF "renamed" \in Kinds(batch)
                 THEN [myNick EXCEPT ![p] = FirstArg(batch, "renamed")]
                 ELSE myNick
    /\ myRoom' = IF "renamed" \in Kinds(batch) THEN myRoom
                 ELSE IF "entered" \in Kinds(batch)
                 THEN [myRoom EXCEPT ![p] = RoomAfterEntry(p, FirstArg(batch, "entered"))]
                 ELSE [myRoom EXCEPT ![p] = General]

ReadNotices(p) ==
    /\ p \in clients
    /\ \E h \in Taken(toClient[p]) :
        /\ Apply(p, SubSeq(toClient[p], 1, h))
        /\ toClient' = [toClient EXCEPT ![p] = SubSeq(@, h + 1, Len(@))]
    /\ UNCHANGED <<vars, manner, last, sent, toServer, quoted>>

-----------------------------------------------------------------------------
Arrive == AddClient /\ UNCHANGED view

\* The client quits, and with it everything on its way.
Quit(p) ==
    /\ RemoveClient(p)
    /\ toServer' = [toServer EXCEPT ![p] = <<>>]
    /\ toClient' = [toClient EXCEPT ![p] = <<>>]
    /\ quoted' = quoted \ {p}
    /\ UNCHANGED <<manner, myNick, myRoom, last, sent>>

ViewNext ==
    \/ Arrive
    \/ \E p \in Pid :
        \/ \E r \in RoomName : Send(p, Command("join", r))
        \/ \E m \in NickName : Send(p, Command("nickname", m))
        \/ Send(p, Command("leave", General))
        \/ \E x \in TextsOf(p) :
            \/ Send(p, Message("chat", myRoom[p], x))
            \/ \E m \in NickName : Send(p, Message("whisper", m, x))
        \/ Help(p)
        \/ ServeJoin(p) \/ ServeLeave(p) \/ ServeNickname(p)
        \/ ServeText(p) \/ ServeOther(p)
        \/ ReadNotices(p)
        \/ Quit(p)

ViewSpec == ViewInit /\ [][ViewNext]_viewVars

-----------------------------------------------------------------------------
(* Properties.                                                             *)

ViewTypeOK ==
    /\ TypeOK
    /\ myNick \in [Pid -> NickName]
    /\ myRoom \in [Pid -> RoomName]
    /\ manner \in Manners
    /\ sent \in [Pid -> 0..MaxSend]
    /\ \A p \in Pid : Len(toServer[p]) <= MaxSend
    /\ quoted \subseteq clients

\* A client that was never sent a text quoting a notice, that reads its notices
\* one by one and to which nothing is on its way is wrong about its room only
\* when it is in general: nobody else's entries, misled clients' included, and
\* no refused or repeated command mislead it.
StaleOnlyInGeneral ==
    \A p \in clients \ quoted : manner = "slow" /\ Quiet(p) =>
        myRoom[p] = room[p] \/ room[p] = General

\* Once everything has arrived a client that was never sent a quoted notice knows
\* its nickname.  One whose user waits for each answer does so although it
\* applies only one notice of a read: the others of that read are never its own
\* change of name.
NicknameKnown == \A p \in clients \ quoted : Quiet(p) => myNick[p] = nick[p]

\* The room changes in a client that was never sent a quoted notice only with an
\* entry of its own (or with its return to general), although the entries of
\* others look the same.
OwnEntryOnly ==
    [][\A p \in clients \ quoted :
           manner = "slow" /\ ReadNotices(p) /\ myRoom'[p] # myRoom[p] =>
               \E h \in DOMAIN toClient[p] :
                   /\ toClient[p][h].who = p
                   /\ myRoom'[p] = toClient[p][h].arg]_viewVars
=============================================================================
