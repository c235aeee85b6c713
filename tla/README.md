# A verification project for the chat servers

TLA+ models of the chat programs in this repository, checked with TLC and,
where it says so, proved with TLAPS. The programs are exercises in processes,
pipes, sockets and signals; the largest and most complete is `src/chat2`, a chat
server with rooms, nicknames and one forked child per connection, and it is
where the project starts.

## 1. The system

### Inventory

| Part | State it keeps | Operations | How it interacts | What is hard | What makes it correct |
|---|---|---|---|---|---|
| chat2 server, tables (`chat2/chat_server2.c` 173-358, 405-585) | `clients[]` with nickname and room of each, `client_count`; `chat_rooms[]` with a counter each, `room_count` | add and remove a client; /add /rm /join /leave /nickname; /list, /users, !whisper read only | called by the main loop for each message, by the SIGCHLD handler for each dead child | four functions adjust the same counters; arrays at capacity; joins that fail half done | counters agree with records, rooms close exactly when empty, nicknames unambiguous, capacities |
| chat2 server, processes (134-215, 363-400, 590-820) | the parent's loop indexes, `read_fds`, pipes; the loop of each child | select, accept, fork, read, broadcast; child: read socket, write pipe, drain pipe; handler: reap, remove, shift | two pipes per child, SIGCHLD, the array shared by loop and handler | the handler between any two steps, EINTR, full pipes in both directions, streams without framing, SIGPIPE | every message is read and attributed to its sender, broadcasts reach all, connections are accepted, nothing blocks for ever |
| chat2 client (`chat2/chat_client.c`) | `current_nickname`, `current_room`, `formatted_message` | commands, chat, /help, /quit; read notices | socket to its child; learns its state from the text of notices | notices merged in one read, notices of others, texts that quote notices, typing ahead | its copies agree with the server's records |
| chat2 server v1 (`chat2/chat_server.c`) | as chat2 | as chat2, with a polling loop and the limit tested before the fork | as chat2 | the handler inside `client_count++`; a turn that ends before the pipes are read; command names without the slash the client sends | the loop waits for no user, the limit holds, what children write is read |
| 17 (`17/chat_server.c`, `chat_client.c`, `common.h`) | client slots with pipe pair, nickname, room | accept, SIGUSR1 and SIGCHLD handlers, shutdown, whispers, rooms | child signals the parent after writing its pipe | blocking accept in the loop that also serves messages; blocking writes to pipes nobody reads; signals merge; slots and descriptor numbers reused | messages and the termination request are handled; a slot has one owner; no pipe end is lost |
| chat_ex (`chat_ex/chat_server.c`, `chat_client.c`) | room and client tables, copied into each child by fork; descriptors | accept, pipes, fork; commands that are never reached | pipes and signals through the parent | descriptors lost with every connection; blocking read in a handler; inherited pipe ends | connections go on being answered; children end |
| chat (`chat/chat_server.c`, `chat_client.c`) | rooms with user lists, clients | /add /rm /join /leave /list /users, talk, SIGUSR1, SIGCHLD | pipes, signals; all work is done in a handler | blocking reads in the handler, merged signals, entries of users that are gone, commands without an answer | no message forgotten, nobody waits for ever, a room with users stays |
| chat (`chat/server.c`, `client.c`) | client table, nicknames, a log file | accept, nickname, announcement, broadcast | parent and child alternate | alternation on blocking reads; a counter that only grows; SIGPIPE | messages are read and delivered, at the latest with the next event |
| chat3 (`chat3/chat_server.c`, `chat_client.c`) | one pipe meant for all children, descriptor 2 | accept, fork, SIGUSR1, SIGCHLD, SIGINT | shared pipe, signals | the write end closed and its number reused; blocking read in a handler, blocking write in a child | messages are announced; the server accepts and stops |
| multi_chat (`chat_ex/multi_chat_server.c`) | table of children | accept, fork, select, broadcast, SIGINT | pipes | as `chat/server.c`; SIGINT between fork and record | as `chat/server.c`; SIGINT ends the children |
| echo servers (`chat_ex`, `chat/chat_server2.c`) | none | fork, echo | sockets | one waitpid per signal | - |
| exercises (`0627`, `0628`, `chat_ex/{sn,wait,fork,exec}.c`) | none or one flag | fork, pipe, signal, copy | - | signal before pause | - |

Compiled binaries lie beside the sources and are not modelled.

### chat2 at a glance

A client connects; the parent accepts, makes two pipes and forks a child. The
child passes the client's messages up one pipe and the parent's answers down
the other. The parent selects on the listening socket and the pipes of the
children in its array, handles one message per read, and writes answers and
broadcasts with blocking writes. When a child ends, the SIGCHLD handler runs in
the parent, wherever it is, removes the record, takes the client out of its
room and closes its pipes.

## 2. The modules

| Module | Models | Kind |
|---|---|---|
| `RoomRegistry` | the tables of the chat2 parent and every call that changes them | state machine |
| `RoomDirectory` | what the room commands promise, without counters | abstract specification |
| `ChatServer2` | chat2: parent, children, pipes, SIGCHLD | state machine |
| `PollingServer` | the first version's parent (extends `ChatServer2`) | state machine |
| `ClientView` | chat2: client and server together (extends `RoomRegistry`) | composition |
| `Server17` | 17: parent, children, slots, descriptor numbers and signals | state machine |
| `SharedPipe` | chat3: daemon, shared pipe, signals, children | state machine |
| `ServerEx` | chat_ex: daemon, descriptors, children | state machine |
| `LockstepServers` | `chat/server.c` and `multi_chat_server.c`, which share a skeleton | state machine |
| `SignalServer` | `chat/chat_server.c`: handlers, children, rooms | state machine |
| `RoomRegistryProofs`, `ChatServer2Proofs`, `ClientViewProofs`, `Server17Proofs`, `SharedPipeProofs`, `ServerExProofs`, `LockstepServersProofs`, `SignalServerProofs` | theorems about the module each is named after; `RoomRegistryProofs` also about `RoomDirectory`, `ChatServer2Proofs` also about `PollingServer` | proofs |
| `MCRoomRegistry`, `MCClientView` | symmetry sets, and the next-state relation without refused joins | instances |

Every module but the abstract specification keeps the shape of its program: `pc`
is where the parent is, one step is one system call or one access to what a
handler shares with the code it interrupts, and a signal handler is an action
that is enabled between any two steps. Children are named by their connection.

### RoomRegistry

`clients` is the array, as the set of pids with a record (pids grow, so the
array order is the order of pids); `nick` and `room` are fields of the record;
`rooms` and `count` are `chat_rooms[]`, whose names are distinct; `alive` are
the children that have not been reaped. Actions: `AddClient` /
`AddClientFull` (`add_client_to_list`), `RemoveClient` / `ReapUnrecorded`
(`remove_client_from_list`, called for each reaped child), `AddRoom`,
`RemoveRoom`, `JoinRoom` / `JoinRefused` (`join_room`), `LeaveRoom`,
`ChangeNickname`. Calls that only answer with an error change nothing and are
stuttering steps, except `JoinRefused`, which has counted the sender out
before it fails. A call is one step; the handler between the statements of one
call is not in this module. Names are taken to fit: the server cuts a name off
after 31 characters when it stores it (236, 557) and compares it whole, but the
client of the repository cuts it off first.

`RoomDirectory` has people, places and open rooms. It says that a room closes
when the last person leaves it, and on request only while nobody is in it.
`ImplementsDirectory` maps a record to a person and `room_name` to a place: it
holds only while the counters are right, because the code decides by the
counters.

### ChatServer2

One step is one access to what the handler (`Reap`) changes, so that the handler
comes between any two: a test of `client_count`, a use of `clients[i]`, a system
call. The parent's `pc` follows `parent_main_loop`:

* a connection: `select`, `accept`, `add`, `load`, `store` (`add_client_to_list`,
  whose `client_count++` is a load and a store), `welcome`, `greet`, `announce`;
* the scan: `scan` (the test of the loop, 803), `isset` (`FD_ISSET`, 804), `fetch`
  and `read` (the descriptor of 805, and the read), `got` (the descriptor passed
  on, 808), `lookup` (the sender);
* the answer: `send` and `pick` (the loop in `broadcast_message_in_room`);
* each message sent: `find` (the search for the pid), `aim` (the descriptor of the
  slot found, 366), `write`; `loop` is where the write returns to;
* `dead` (SIGPIPE).

`ReapInSelect` is the signal that interrupts a waiting select; the sets then are
what was passed in. `slot` and `n` are the array and `client_count`, with the
content a shift leaves behind in the last slot. Pipes hold `PipeCap` messages in
either direction, and parent and children wait to write to a full one. Reads
return any number of messages: the parent handles the first of them, a child
passes all on. All clients are in one room and a message is a reply to its sender
or a broadcast. `sent` counts the messages of all clients together and `MaxSend`
bounds it. `told`, `steady` and, once the read has returned, `origin` are history
variables, used by properties only.

Abstracted: descriptor numbers (a pipe pair is named by its child, so reuse of
a closed number is not in the model), contents, failures of pipe() and fork(),
a full client socket. Two things are one step that are several accesses: the
search of the array for a pid or a descriptor, and the fields of a new record
(174-184 evaluate `client_count` for each; a handler in between puts some of the
fields into the slot before).

### ClientView

Extends `RoomRegistry` with one queue per direction and client (socket, child
and pipe taken together) and the client's copies `myNick`, `myRoom` and
`formatted_message` (`last`). The actions of the server call the registry's
(`JoinRoom`, `JoinRefused`, `LeaveRoom`, `ChangeNickname`, `RemoveClient`) and
send the notices the client looks for. A read takes any number of messages from
the front of a queue: the server handles the first, the client applies the first
notice of the first kind it looks for.

The client looks for notices in everything it has read (218-247), so a chat line
or a whisper that quotes one acts as one. The texts of the clients in `Quoters`
may quote any notice (`Quotation`), and `ServeText` passes a text on to those who
are sent it (`Addressees`: the room a chat line names, the first record with the
nickname a whisper names; `Echoed`: the sender of a whisper). `quoted` is the
history of who was ever sent such a text. What the client believes is then
whatever the text said, and it puts that into its own messages: the model has it,
and the properties speak of the clients outside `quoted`, who may well be in a
room with misled ones.

`manner` restricts the environment of a behaviour: "slow" traffic, where every
read returns one message and users may type ahead, or "patient" users, who wait
until nothing is on its way before they type again while reads merge what there
is. With neither restriction a second answer is lost in the read of the first and
no property of the client's copies holds.

Abstracted: a read that splits a notice, a text that quotes several notices or a
part of one, everything else in a text.

### Server17

The server of `src/17` has no select: the parent looks at every slot's pipe once,
waits in accept, sets the connection up, and starts again. `pc` follows
`main`; the setup is cut at every system call (`Accept`, `ChooseSlot`, two
pipes, `Fork`, `CloseChildEnds`, `Record`, `Unname`), because the SIGCHLD handler
(`Reap`, `TellLeft`, `Remove`) runs between any two. `remove_client` closes numbers
that the parent has closed before, so descriptors are modelled as numbers: `fds`
says what each number refers to, a new one is the lowest that is free, and a slot
keeps the numbers it was given (`sock`, `toR`, `toW`, `fromR`, `fromW`). `Fork`
copies what the numbers refer to at that moment: `first` is what the child reads
the nickname from, `source` everything else, and `held` the pipe ends it keeps.
`SetupFails` is a failing pipe or fork.

What is written is modelled too, because the writes wait. `Process` says whom a
line makes the parent write to (its sender, somebody else and its sender, or
everybody in the room), one `send_to_client` is one step (`Answer`, `Broadcast`),
and so is one write of the handler's farewell (`TellLeft`), during which the
parent does nothing else. No child reads the pipe from the parent (but one whose
`source` happens to be that pipe), so once `PipeCap` messages are in it a write
waits until nobody has its read end (`Full`, `ChildCanRead`). The number a message is
written to may belong to another connection by then (`Send`). A read takes at
least one of the `lines` in a pipe; of those it takes the first is handled.

Abstracted: contents; which line gets which answer; what a client's socket holds (a
child reads lines, up to `MaxSend` in all, or the end, at any moment); rooms
beyond the one that `room_idx` 0 names. `remove_client` is one step for a slot.

### PollingServer

The first version has the tables, children, pipes and SIGCHLD handler of
`ChatServer2` and reuses its actions; what is its own is the loop. `PollAccept`
tests the limit before the fork, `PollRefuse` and `PollSetupFails` end the turn
without reading a pipe, `PollEmpty` goes on to the scan, and reads do not wait
(`PollRead`, `PollSkip`). Writes do, as in the second version.

Abstracted: command names and texts. The client of the repository sends
commands with a slash and this version compares them without one (460-556), so
that it answers every command as unknown.

### SharedPipe

`daemonize` closes descriptors 0 to 2, so the pipe "of all children" is 1 and 2,
and the daemon closes 2 after its first fork. `two` is what descriptor 2 is at
each moment (the write end, the socket of a client, nothing) and `out` what each
child inherited under that number: the first child the pipe, later ones their own
client's socket. `sig_usr1` is a wait (`reading`) that `sig_int_term` may suspend
for good, so it is a step to enter the handler and another to read. Pipe writes
wait for room (`PipeCap`), those of a child (`ChildWrite`) and perror's in the
daemon (`Report`), which after the first fork goes to a client's socket instead and may
end the daemon when that client has reset its connection (`ReportKills`). `left`
is history: how many of the messages in the pipe a read had no room for, or the
daemon wrote itself.

Abstracted: contents; the capacity test, which never fires since
`g_client_count` is never increased (for the same reason a broadcast reaches
nobody).

### ServerEx

The daemon of `chat_ex` counts its descriptors (`used`) and keeps the write end
of every child's pipe (`ends`) because its own copy of the table never says that
a slot is in use. Children inherit the ends (`holds`), greet their client, signal
themselves and wait in the handler for the daemon, which writes nothing. A greeting
to a client that has reset its connection may end the child or not. What
follows that wait (`handle_client_message`, the rooms, `client_deinit`) is not
reached while the daemon lives and is not modelled.

### LockstepServers

`program` chooses between the two servers. The parent accepts, forks (a fork
that fails is recorded as a client, `"failed"`), records, and then looks at every
pipe once: `chat/server.c` announces the newcomer (`RecordLog`, `Join`) and reads
without waiting, `multi_chat_server.c` selects for half a second (`Select`) and
reads what is ready. `Relay` writes to everybody else, waits on a full pipe, and
ends the parent by SIGPIPE when the reader is gone. Children alternate (`Talk`,
`Listen`). `Sigint` is the handler of `multi_chat_server.c`. Sockets and pipes are
counted in pieces of at most a buffer: a read takes one or more of them and may
leave a rest, and what is relayed with a nickname in front may be one piece longer.
`heard` and `told` are history, the parity of the reads of each pipe, by which a
property says that something was read.

Abstracted: contents, the log file, what children do when the parent is gone.

### SignalServer

The parent of `chat/chat_server.c` only accepts and records; the SIGUSR1 handler
(`hpc`, `i`, `j`) reads every client's pipe in turn, waiting where there is
nothing, handles what it read as one message and answers, or does not
(`Unanswered`). SIGCHLD (`Reap`) interrupts both and moves the last record into
the gap. `open`, `users` and `home` are the rooms, their user lists, as the number
of entries of each pid, and `current_room`. `early`, `mute`, `heard` and `left` are
history variables. A read leaves what it has no room for (`left`). What a message
asks for is chosen when it is handled.

Abstracted: contents, the nickname (the parent reads it from a socket it has
closed, 283, and so never has one), arrays written past their end, failures of
pipe() and fork(), SIGCHLD between the fields of one record (280-284), and the one
byte by which a message that fills the child's buffer exceeds the parent's (195,
266).

## 3. The runs

### Passing

| Run | Question | Instance |
|---|---|---|
| `RegistryRoomy` | With a slot for every room name, are the counters exact and do the tables implement the directory? | 3 rooms, 3 slots, 3 clients of 5 connections, 3 nicknames |
| `ViewManners` | Do others' notices, refused joins, merged reads or typing ahead mislead a client that is sent no quoted notice about its nickname or room? Do capacities, counters and nicknames hold when joins fail half done? | 2 clients, of which one may quote notices, 2 messages each, 3 rooms, 2 slots |
| `Server2Churn` | Clients quit at any moment and pipes fill up: does a record go away only with its child, does a broadcast reach everybody when no record is removed meanwhile, is what is written to a child read? | 2 slots, 2 clients that may both quit, 2 messages in all, pipes of 1 |
| `Server2Overfull` | More connections than slots, children ending at any moment: are indexes and counters in range, and what can leave a message unread or a connection waiting? | 2 slots, 3 connections, of which the first and the last may quit, 1 message, pipes of 1 |
| `PollingServer` | What can hold the polling loop up, does the limit hold whatever the handler does to the counter, is what children write read? | 2 slots, 3 connections, 2 messages in all, pipes of 1; the first client may quit at any moment |
| `Server17` | Slots are freed at any moment, numbers closed twice, pipes fill up: is a pipe end lost, does every child keep its slot, does the limit hold, does the next connection get lines read and a termination noticed? | 2 slots, 3 connections, 2 lines in all, pipes of 1, setups that fail |
| `SharedPipe` | Who writes to the shared pipe, is a new message in it ever without a signal to come, what holds up new connections and the end of the server? | 2 connections, 2 messages each, a pipe of 1, forks that fail |
| `ServerEx` | Pipes are lost with every connection: is there always a descriptor to refuse with, and when do children end? | 5 connections, descriptors for 2 children and one pipe of a third, forks that fail |
| `LockstepServers` | When is what a child passed on read, when is it delivered, what outlives SIGINT? | both programs, 2 slots, 3 connections, 2 pieces each, pipes of 2, forks that fail |
| `SignalServer` | Do merged signals forget a message, who waits for whom, is a room with somebody in it ever removed? | 2 slots, 3 connections, one of which may quit, 2 clients with 2 messages each, 1 room, 2 entries |

Deadlock is not checked in any run: once the bounded number of connections or
messages is used up the servers rightly wait for ever, and some of them wait for
ever earlier, which is then what a property describes (`StuckOnlyWhenMute`; `Held`
in `ChatServer2`, `WaitsForItself` and `WaitsForRoom` in `SharedPipe`, `WaitsForRoom` in
`Server17`). That they do not stop otherwise is what the liveness properties say.

Every property of a passing run has a mutant: a variant of a definition with a
plausible bug, defined just before it, for which TLC finds the property
violated.

Bounds. Two clients suffice for one to act while the other's message, record or
broadcast is in progress, and for the handler to shift a record that is in use;
`RegistryRoomy` takes three so that a room keeps a member when one of two leaves
and the third is elsewhere. Connections exceed slots so that slots are used
again or a connection is refused; `ServerEx` has five, so that there are two
children, a connection whose second pipe fails, and some for which both fail.
Fewer slots than names makes joins fail; `DriftBound` bounds how often a refused
join is counted (each makes a counter fall by one for good). Pipes hold one message
(two pieces in `LockstepServers`), so that every one fills up and parent and child can
wait for each other; real ones hold 64 KiB, which only makes that rarer. In
`Server2Churn` and `PollingServer` the cycle of full pipes is reached, in
`Server2Overfull`, with its single message, it is not: there the other waits are.
Two lines in all are enough in `Server17` because a first line is answered with
two messages. In `SignalServer` one room, entered at most twice by a client, is
enough for it to be entered again, left with stale entries, removed and made anew;
moving between two rooms is covered by the theorem `RoomsKept`, which holds for any
number. Room names other than general
and nicknames other than guest are interchangeable, which the symmetry sets of
the registry and view runs use; the runs with liveness properties use none.

### Fairness

`FairSpec` (`PollFairSpec` in `PollingServer`) assumes weak fairness of the
parent, of each child and of the delivery of pending signals: the kernel
schedules every process that can run and delivers signals. The steps of a child
are one action for this purpose, and so are those of a parent, so no order
within a process is assumed. Users and operators are never forced to connect,
send, type, quit or stop the server, and nothing is assumed to fail or not to. A
process blocked in accept, a read or a write on a full pipe has no enabled
action, so fairness does not hide blocking. `ServerEx` needs no fairness of
reaping, and `Server17` none of its children, whose steps are those of their users.

### Environment assumptions

`ChatServer2`, `PollingServer` and `Server17` have none: clients quit, children are
reaped and pipes fill up at any point. The cost is that the liveness properties name
the points where the programs do wait for ever. In `ChatServer2` (`Held`) they are:
the read of a pipe nothing was written to (`ReadWaits`: the array was shifted between
`FD_ISSET` and read, or EINTR left every set full), the write to a full pipe
(`WriteWaits`), the accept that EINTR led to (`AcceptWaits`), and the select that
fails on the descriptors of a record left behind by a child reaped while it was
being recorded (`SelectFails`). What the properties say is that nothing else, the
shifts under the scan in particular, leaves a message or a connection behind. In
`Server17` it is the write to a full pipe that no child reads.

`NobodyReaped` in three properties of `SignalServer`: when a record is moved under
the handler's index, clients are skipped and neither turns nor announcements
survive. The properties say what holds until then.

`manner` and `quoted` in `ClientView`, as section 2 explains: a user who types ahead over
a line on which messages merge, or who is sent a text that quotes a notice, is misled.

### Violated

`Server2Misattributed`: `parent_main_loop` reads `clients[i]` for the read (805)
and again for the lookup (808), where the handler may have shifted the array: the
message is handled as the next client's, against the comment at 416, "find the
client that sent it".

`SharedPipeWriters`: comments of chat3 (129, 155, 236) say that all children write to
`child_to_parent_pipe[1]`. After the first fork the daemon closes that descriptor,
accept hands its number out again, and the second child writes to its own client.

More disagreements follow from the same models; no run is kept for them.

In chat2: a join refused for lack of a slot (`chat_server2.c:290`) has already
counted the sender out while its record stays, so its room may be deleted with
somebody in it (`JoinRefused`), where the help says rooms can be deleted "only when
nobody is in it" (`chat_client.c:41`) and 196 deletes a room "without remaining
users". The client ignores an entry notice of general (`chat_client.c:238`), so
after /join general it goes on naming its old room, although it updates its state
from the server's answers (216). /list prints "current users" (338), but general
is entered uncounted (`AddClient`) and counted out of. `MAX_CLIENTS` is called
the maximum number of simultaneous clients (16), but `AddClientFull` forks a child
for the connection over the limit. EINTR from select is taken for readiness
(738), and the parent goes to accept with no connection waiting when a client
without a record quits (`ReapInSelect`). Between `FD_ISSET` and read the array may be
shifted, and the parent waits for a client that has said nothing (`ReadWaits`). The
handler inside `add_client_to_list`, between the load and the store of
`client_count++` (185) for instance, leaves the record of a reaped child, against the
comment at 813, and every select fails from then on (`SelectFails`). A broadcast meant
for all clients (796) skips one when the handler shifts the array under `Announce`
(`steady` excepts it from `BroadcastReachesAll`). Messages are passed on
"keeping the protocol" (614), but two that lie in a pipe are read, and handled, as
one (`Read`, `Handled`). A chat line that quotes "[INFO] ... 님이 방 'x'에 입장했습니다."
moves its readers to room x in their own opinion (`ServeText`), where the client means to
follow the answers of the server (216). /help should display the help (chat_client.c:48), but
it also sends the message buffer (`Help`).

In 17: the child reads its client's lines from `clients[client_idx].sock_fd` (88),
which the parent sets only after the fork; in a slot used for the first time that
is the server's terminal, where the comments say the socket of the client (22,
85). SIGUSR1 is said to wake the main loop (76), but `signal` restarts accept,
so lines and a request to terminate wait for the next connection. That is all they
wait for, as `Server17` shows, unless a pipe to a child is full: no child reads what
the parent answers, although the design says that messages go to the clients through
these pipes (86, 117), and when one has taken all it holds, the parent waits for ever
in the write (128), or its handler does (66), with lines unread and the
request unnoticed (`WaitsForRoom`), at least until that child ends. `remove_client` closes numbers
that belong to other connections by then, whose clients get no more broadcasts
(132) or are not heard any more (`ClosedByRemove`). On shutdown SIGTERM is sent
to "all children" (350) to end them, but they have inherited the handler and go
on. A failed fork is said to clean up its pipes (292), but the slot is not active
and nothing is closed (`SetupFails`): these are the ends that `EndsAreNamed`
exempts.

In chat3: the shutdown is to wait until all children have ended (267), but the
signal that would make the daemon read the pipe is lost or its read suspended, and the
child that waits to write (204) never ends (`WaitsForRoom`). In chat_ex: the child's handler assumes that there is data because
the signal came (436); it is the child's own signal and there never is. In
`multi_chat_server.c` a fork that fails is recorded with pid -1, and SIGINT then
sends SIGTERM to every process of the user (`Sigint`). In `chat/server.c` the first
announcement after a client has left ends the server by SIGPIPE (74), and in
both a full table silences everybody (104, 83; `NothingReadOnceFull`). In
`chat/chat_server.c` users that are gone or have moved on stay in their rooms'
lists, so that /rm is refused for rooms nobody is in.

## 4. The proofs

All proofs are for every value of the constants, from the assumptions the modules
name (`RoomAssumption`, `NickAssumption`, `LimitAssumption`, and one assumption
each in the other modules: limits are positive, bounds are naturals). The types of
every module are theorems; `Server2Overfull` and `ViewManners` also check two of
them on an instance. Every safety invariant and action property of the passing
runs is stated by a theorem. Where a theorem has a hypothesis beyond these
assumptions it is named below, and the run of the property is in its setting.

`RoomRegistry` and `RoomDirectory`:

* `TypeCorrect`: `TypeOK` is inductive by itself, one step per action. The
  capacity of the room array needs that a refused or successful join tests it
  after the old room may have been deleted (`AfterLeaving`, `AfterEntering`).
* `CountersNeverHigh`: `NeverOverCounts` is inductive together with `TypeOK`.
  The lemmas `MembersArrived`, `MembersRemoved`, `MembersMoved` say how the
  members of a room change, `CountedOut` how counters do; the invariant
  survives a refused join because only the counter falls.
* `GeneralNeverCounted`: `GeneralCountsNobody` compares general's counter with
  the clients that are elsewhere; inductive together with `TypeOK`.
* `NicknamesDistinct`: `SharedNickIsGuest`, from the test in /nickname.
* `CountersExact` and `RegistryImplementsDirectory` assume `SlotsForAll` (no more
  room names than slots), under which no join is refused (`NeverRefused`). The
  inductive invariant is `TypeOK`, `RecordsNameOpenRooms` and `ExactCounts`
  together: a counter is exact after a departure only if it was exact before and
  the room was in the array. With it a counter of one means that the last member
  is leaving (`ClosesBehind`), so every step of the registry is one of the
  directory or leaves it unchanged (`DirectoryStep`).

`ChatServer2` and `PollingServer`:

* `TypeCorrect` and `PollTypeCorrect`: `RangeInv` adds to `TypeOK` what it needs in
  the middle of `client_count++`: the slots below the counter, and below the value
  that was loaded, have a pid (`TableOK`), because the store may put back a
  counter that the handler has lowered and expose what its shifts left behind; and
  what is known at each point of the loops about their indexes (`ParentOK`). Both
  loops keep it; the polling loop adds only the test before the fork.
* `RecordsKept` and `PollRecordsKept`: from `RangeInv`. A shift keeps every record but
  the one removed (`RemovalSlots`), the new record goes behind those that are
  counted, and the store of `client_count++` never takes the counter below its
  present value.
* `BroadcastsComplete` and `PollBroadcastsComplete`: `ToldInv`: while no record is
  removed, the slots before the index of the loop have been written to (`Covered`),
  but for the one a write is under way to, and that write goes where the loop
  meant it to: the search may find another slot with the same pid, and so the same
  descriptor, but no other.
* `LimitHolds`: `CountInv` compares the unreaped children with `client_count`, or
  with the loaded value while it is being stored: what the handler takes off the
  counter in between only makes it too high.

`ClientView`:

* `ViewTypeCorrect`: `ViewRange` is `TypeOK` of the tables with the types of queues
  and copies (`ViewTypes`); the parent never has more messages to read than were
  sent.
* `ChatIsOfTables`: every step of client and server together is a step of the
  tables or leaves them alone, so every theorem about `RoomRegistry` holds of a
  chat. `ChatCountsNeverHigh` and `ChatNicknamesDistinct` are two that the run
  checks.
* `NicknameArrives`, `RoomArrives` and `OnlyOwnEntryMoves`: `CopiesInv` says of each
  client what its unread notices will make of its copies. The last renaming among
  them gives the recorded nickname, or, if there is none, the copy does
  (`NickFollows`); the same for the room while it is not general (`RoomFollows`).
  An entry notice of somebody else names the room the client will believe to be in
  when it reads it, which is why it changes nothing. For patient users, whose reads
  merge, at most one message is on its way and, while it is, no renaming is on its
  way back (`Waits`). The lemmas `NickAdded`, `RoomAdded` and `NoRename` say what a
  notice at the end of a queue does to these. All of it holds of the clients outside
  `quoted`, whatever the others, misled ones included, believe and send.

`Server17`:

* `TypeCorrect`: indexes and slots are easy; that the kernel always has a free
  descriptor number to hand out is not. `FdInv` bounds the numbers in use by four
  for each connection set up before, plus what the present setup has opened
  (`UsedBound`), and says that the terminal's number 0 is never closed, because no
  active slot names it. `SetupInv` says which numbers the slot has at which point
  of the setup. `RangeInv` is their conjunction with `TypeOK`, and `RangeStep` its
  preservation; `OneMoreUsed` and `FewerUsed` do the counting.
* `SlotForEachChild`: `SlotInv`: active slots name different children, none of
  them the connection being set up, and children exist only for connections that
  were accepted. The handler frees the slot of the child it reaps and no other
  (`ReapKeepsSlots`, `RemoveKeepsSlots`), and a slot that was chosen is still free when
  it is filled in (`RecordKeepsSlots`). It holds until the server shuts down and
  removes every slot, which is where the property ends as well.
* `LimitOfChildren`: from both, by an injection from the children to the slots
  (`LimitHeld`).
* `NoEndForgotten`: `EndsInv`: an open end of a child other than the one being set
  up is named by an active slot, and one of the latter by the chosen slot.
  The chosen slot needs care: until the pipes are made it holds the numbers of the
  connection that had it before, so `SetupEnds` says which of its numbers count at
  which point. Closing a number twice is harmless to this invariant, since it only
  removes ends; the ends it removes may be another connection's, which then gets
  no more messages (section 3). `EndsKept` is the lemma for every step that opens
  nothing.

`SharedPipe`:

* `TypeCorrect`; `OnlyOneWrites`: `WriterInv` follows descriptor 2: once a child
  has the pipe the daemon's end is closed before the next fork.
* `FreshMessagesAnnounced`: `AnnounceInv`: more messages in the pipe than the last read
  left there mean a pending signal, a read in progress, or a child about to signal,
  unless `sig_int_term` has suspended the read for good. It says nothing of what a
  read left: nobody announces that.

`ServerEx`:

* `TypeCorrect` and `AlwaysRoomToRefuse`: `UsedInv` counts the descriptors at each
  point of the loop.
* `ChildrenEndInReverse`: `HoldInv`: the daemon and every child forked later hold
  the end a child waits for.

`LockstepServers`:

* `TypeCorrect`: `TableInv`: until a connection is refused every accepted
  connection is counted, and after that the parent only accepts.
* `FullTableIsDeaf`: from `TableInv` and `SilentInv` (children that have passed on
  nothing have nothing in their pipe), for every step.
* `NewestAlone`: `CoveredInv`: every child that is up is in the table, but for the
  one just forked.

`SignalServer`:

* `TypeCorrect`: `RangeInv`: records that are counted, or about to be, have a pid,
  also under the handler's index after a record was moved.
* `RoomsKept`: `HomeInv`: the room a client is in exists and lists it, recorded or
  not, which is what makes it survive every interruption.
* The other three speak of the time until a child is reaped, and their invariant
  `CalmInv` does too. `TableInv`: records are only added, all different, with open
  ends, and the handler's index stays on a record.
* `AnnouncedServed`: `AheadInv` is the property; it needs `EarlyInv` (a message of a
  child without a record was announced too early), since such a child gets a
  record later, behind or in front of the index.
* `WaitingOnlyWhenMute`: `WaitInv`: the message of a child that has written is in
  its pipe, in the handler's hands (`BeingAnswered`), or answered, unless the
  handler had nothing to say to it.
* `TurnsTaken`: `TurnInv`: whom the handler has read from since slot g was read from is
  known from the index alone (`ReadSince`): the slots after g up to the index.

Only model-checked:

* liveness, which is out of the proof system's reach since it rests on fairness:
  `MessagesRead`, `NoticesDrained`, `ConnectionsAccepted` (`ChatServer2`),
  `TurnsForever`, `RecordedRead` (`PollingServer`), `ServedByNextConnection`,
  `TerminatesByNextConnection` (`Server17`), `AcceptedOnceWriterLeft`,
  `StopsWithLastClient` (`SharedPipe`), `ChildrenEndAfterDaemon`,
  `ConnectionsAnswered` (`ServerEx`), `ReadAtNextConnection`, `DeliveredToTalkers`
  (`LockstepServers`) and `RoundGoesOn` (`SignalServer`);
* the violated `AttributedToSender` and `AllShareThePipe`: a counterexample is a
  behaviour of one instance.

## 5. What is left

Not modelled:

* chat2: the handler between the statements of `join_room`, `leave_room` and
  `add_room`, between the fields of one record (174-184) and within one search of the
  array, and the locks it may meet in printf; descriptor reuse; names longer than
  the client sends; notices split by a read or quoted in part; SIGPIPE as
  anything but the end of the parent; failures of pipe() and fork() in the second
  version; delivery to a client whose socket is full; parsing.
* chat_ex: `handle_client_message`, the rooms and `client_deinit` of
  `chat_server.c`, because no state of the running program reaches them.
* 17: `remove_client` is one step for a slot, although SIGCHLD may come inside the
  shutdown's call of it; what lines say.
* chat: what lies behind arrays that are written past; SIGCHLD between the fields of
  one record; the log file.
* The clients of 17, chat, chat3 and chat_ex: they keep no state of their own that
  the servers depend on, and are the environment (users who connect, send and
  quit).
* The echo servers and the exercises (0627, 0628, `chat_ex/{sn,wait,fork,exec}.c`):
  one process or independent processes without shared state. The compiled
  binaries.

Next, in this order:

1. The safety half of the liveness properties: which actions are enabled while
   something is owed (a message in a pipe, a connection waiting), as invariants that
   can be proved, so that only the fairness argument is left to TLC.
2. The handler inside the room commands of chat2.
