-------------------------- MODULE SharedPipeProofs --------------------------
(***************************************************************************)
(* Proofs about SharedPipe: the types, and that one child only ever writes *)
(* to the pipe.                                                            *)
(***************************************************************************)
EXTENDS SharedPipe, TLAPS

THEOREM TypeCorrect == Spec => []TypeOK
<1>1. Init => TypeOK
  <2> SUFFICES ASSUME Init PROVE TypeOK
    OBVIOUS
  <2> USE SharedPipeAssumption DEF Init, TypeOK
  <2>1. accepted + backlog <= MaxConn
    OBVIOUS
  <2>2. status \in [Conn -> {"none", "serve", "write", "signal", "zombie", "reaped"}]
    OBVIOUS
  <2>3. pipe \in 0..PipeCap /\ left \in 0..pipe /\ wrote \subseteq 0..MaxConn
    OBVIOUS
  <2>4. /\ out \in [Conn -> {"none", "pipe", "socket"}]
        /\ inbox \in [Conn -> Nat] /\ sent \in [Conn -> Nat]
        /\ conn \in [Conn -> {"open", "closed", "reset"}]
    OBVIOUS
  <2>5. /\ pc \in {"accept", "fork", "report", "close"}
        /\ two \in {"pipe", "socket", "free"}
        /\ signal \in BOOLEAN
        /\ reading \in {"no", "yes", "suspended"}
        /\ stopping \in {"no", "waiting", "ended"}
        /\ backlog \in Nat /\ accepted \in Nat
        /\ pc # "accept" => accepted \in Conn
        /\ pc \in {"fork", "report"} => two # "free"
    OBVIOUS
  <2>6. QED  BY <2>1, <2>2, <2>3, <2>4, <2>5 DEF TypeOK
<1>2. TypeOK /\ [Next]_vars => TypeOK'
  <2> SUFFICES ASSUME TypeOK, [Next]_vars PROVE TypeOK'
    OBVIOUS
  <2> USE SharedPipeAssumption DEF TypeOK, Conn, daemon, channel, children
  <2>1. CASE Main
    <3>1. CASE Accept  BY <3>1 DEF Accept
    <3>2. CASE Fork  BY <3>2 DEF Fork
    <3>3. CASE Close  BY <3>3 DEF Close
    <3>4. CASE Report
      <4>1. pipe' \in 0..PipeCap /\ left' \in 0..pipe' /\ wrote' \subseteq 0..MaxConn
        <5>1. CASE pipe < PipeCap /\ pipe' = pipe + 1 /\ left' = left + 1
                   /\ wrote' = wrote \cup {0}
          <6>1. 0 \in 0..MaxConn
            OBVIOUS
          <6>2. QED  BY <5>1, <6>1
        <5>2. CASE UNCHANGED channel  BY <5>2
        <5>3. QED  BY <3>4, <5>1, <5>2 DEF Report
      <4>2. /\ two' \in {"pipe", "free"} /\ pc' = "accept"
            /\ UNCHANGED <<signal, reading, stopping, backlog, accepted, children>>
        BY <3>4 DEF Report
      <4>3. QED  BY <4>1, <4>2
    <3>5. QED  BY <2>1, <3>1, <3>2, <3>3, <3>4 DEF Main
  <2>2. CASE ForkFails \/ ReportKills  BY <2>2 DEF ForkFails, ReportKills
  <2>3. CASE Handlers
    <3>1. CASE EnterUsr1  BY <3>1 DEF EnterUsr1
    <3>2. CASE Usr1
      <4>1. pipe' \in 0..PipeCap /\ left' \in 0..pipe'
        <5>1. CASE UNCHANGED <<pipe, left>>
          BY <5>1
        <5>2. ASSUME NEW rest \in 0..pipe, pipe' = rest, left' = rest
              PROVE pipe' \in 0..PipeCap /\ left' \in 0..pipe'
          BY <5>2
        <5>3. QED  BY <3>2, <5>1, <5>2 DEF Usr1
      <4>2. reading' = "no" /\
            UNCHANGED <<pc, two, signal, stopping, backlog, accepted, wrote, children>>
        BY <3>2 DEF Usr1
      <4>3. QED  BY <4>1, <4>2
    <3>3. CASE End  BY <3>3 DEF End
    <3>4. QED  BY <2>3, <3>1, <3>2, <3>3 DEF Handlers
  <2>4. CASE Stop  BY <2>4 DEF Stop
  <2>5. CASE Connect  BY <2>5 DEF Connect
  <2>6. ASSUME NEW c \in Conn, Child(c)  PROVE TypeOK'
    <3>1. CASE ChildRead(c)  BY <3>1 DEF ChildRead
    <3>2. CASE ChildReset(c)  BY <3>2 DEF ChildReset
    <3>3. CASE ChildWrite(c)
      <4>1. pipe' \in 0..PipeCap /\ left \in 0..pipe' /\ wrote' \subseteq 0..MaxConn
        <5>1. CASE pipe < PipeCap /\ pipe' = pipe + 1 /\ wrote' = wrote \cup {c}
          <6>1. c \in 0..MaxConn
            OBVIOUS
          <6>2. QED  BY <5>1, <6>1
        <5>2. CASE UNCHANGED <<pipe, wrote>>
          BY <5>2
        <5>3. QED  BY <3>3, <5>1, <5>2 DEF ChildWrite
      <4>2. status' \in [Conn -> {"none", "serve", "write", "signal", "zombie", "reaped"}]
        BY <3>3 DEF ChildWrite
      <4>3. UNCHANGED <<daemon, left, out, inbox, sent, conn>>
        BY <3>3 DEF ChildWrite
      <4>4. QED  BY <4>1, <4>2, <4>3
    <3>4. CASE ChildSignal(c)  BY <3>4 DEF ChildSignal
    <3>5. CASE ChildExit(c)  BY <3>5 DEF ChildExit
    <3>6. CASE ChildBroken(c)  BY <3>6 DEF ChildBroken
    <3>7. QED  BY <2>6, <3>1, <3>2, <3>3, <3>4, <3>5, <3>6 DEF Child
  <2>7. ASSUME NEW c \in Conn,
               Reap(c) \/ ChildKilled(c) \/ ClientSend(c) \/ ClientLeave(c)
        PROVE TypeOK'
    <3>1. CASE Reap(c)  BY <3>1 DEF Reap
    <3>2. CASE ChildKilled(c)  BY <3>2 DEF ChildKilled
    <3>3. CASE ClientSend(c)  BY <3>3 DEF ClientSend
    <3>4. CASE ClientLeave(c)  BY <3>4 DEF ClientLeave
    <3>5. QED  BY <2>7, <3>1, <3>2, <3>3, <3>4
  <2>8. CASE UNCHANGED vars  BY <2>8 DEF vars
  <2>9. QED
    BY <2>1, <2>2, <2>3, <2>4, <2>5, <2>6, <2>7, <2>8 DEF Next
<1>3. QED  BY <1>1, <1>2, PTL DEF Spec

-----------------------------------------------------------------------------
(* Why there is one writer: a child gets the pipe only at a fork that finds *)
(* it in descriptor 2, and the daemon closes it there before the next fork. *)

Owners == {c \in Conn : out[c] = "pipe"}

WriterInv ==
    /\ TypeOK
    /\ \A c, d \in Owners : c = d
    /\ two = "pipe" => Owners = {} \/ pc = "close"
    /\ Owners \subseteq 1..accepted
    /\ pc \in {"fork", "report"} => accepted \notin Owners
    /\ wrote \subseteq {0} \cup Owners

\* Only the first child ever writes to the pipe that all are meant to share.
THEOREM OnlyOneWrites == Spec => []OneWriter
<1>1. Init /\ TypeOK => WriterInv
  <2> SUFFICES ASSUME Init, TypeOK PROVE WriterInv
    OBVIOUS
  <2>1. Owners = {} /\ wrote = {} /\ pc = "accept"
    BY DEF Init, Owners
  <2>2. QED  BY <2>1 DEF WriterInv
<1>2. ASSUME WriterInv, TypeOK', [Next]_vars PROVE WriterInv'
  <2>0. TypeOK
    BY <1>2 DEF WriterInv
  <2>1. CASE Fork
    <3>1. /\ accepted \in Conn /\ out \in [Conn -> {"none", "pipe", "socket"}]
          /\ accepted \in 1..accepted /\ accepted \notin Owners
      BY <1>2, <2>0, <2>1 DEF TypeOK, Fork, Conn, WriterInv
    <3>2. CASE two = "pipe"
      <4>1. Owners = {}
        BY <1>2, <2>1, <3>2 DEF WriterInv, Fork
      <4>2. Owners' = {accepted}
        BY <3>1, <3>2, <2>1, <4>1 DEF Owners, Fork
      <4>3. QED  BY <1>2, <2>1, <3>1, <4>1, <4>2 DEF WriterInv, Fork, channel
    <3>3. CASE two # "pipe"
      <4>1. Owners' = Owners
        BY <3>1, <3>3, <2>1 DEF Owners, Fork
      <4>2. QED  BY <1>2, <2>1, <3>3, <4>1 DEF WriterInv, Fork, channel
    <3>4. QED  BY <3>2, <3>3
  <2>2. CASE Close
    <3>1. /\ Owners' = Owners /\ wrote' = wrote /\ accepted' = accepted
          /\ two' # "pipe" /\ pc' = "accept"
      BY <2>2 DEF Close, Owners, children, channel
    <3>2. QED  BY <1>2, <3>1 DEF WriterInv
  <2>3. CASE Accept
    <3>1. /\ Owners' = Owners /\ wrote' = wrote /\ accepted' = accepted + 1
          /\ two' = "pipe" => two = "pipe" /\ pc # "close"
      BY <2>3 DEF Accept, Owners, children, channel
    <3>2. accepted \in Nat /\ Owners \subseteq 1..accepted
      BY <1>2, <2>0 DEF WriterInv, TypeOK
    <3>3. Owners' \subseteq 1..accepted' /\ accepted' \notin Owners'
      BY <3>1, <3>2
    <3>4. QED  BY <1>2, <3>1, <3>3 DEF WriterInv
  <2>4. CASE ForkFails \/ Report
    <3>1. /\ Owners' = Owners /\ wrote' \subseteq wrote \cup {0}
          /\ accepted' = accepted
          /\ pc' = "report" => pc = "fork"
          /\ pc' # "fork"
          /\ two' = "pipe" => two = "pipe" /\ pc # "close"
      BY <2>4 DEF ForkFails, Report, Owners, children, channel
    <3>2. QED  BY <1>2, <3>1 DEF WriterInv
  <2>5. ASSUME NEW c \in Conn, ChildWrite(c) PROVE WriterInv'
    <3>1. Owners' = Owners /\ two' = two /\ pc' = pc /\ accepted' = accepted
      BY <2>5 DEF ChildWrite, Owners, daemon
    <3>2. wrote' \subseteq wrote \cup Owners
      BY <2>5 DEF ChildWrite, Owners
    <3>3. QED  BY <1>2, <3>1, <3>2 DEF WriterInv
  <2>6. ASSUME two' = two, pc' = pc, out' = out, wrote' = wrote,
               accepted' = accepted
        PROVE WriterInv'
    <3>1. Owners' = Owners
      BY <2>6 DEF Owners
    <3>2. QED  BY <1>2, <2>6, <3>1 DEF WriterInv
  <2>7. CASE Handlers \/ ReportKills \/ Stop \/ Connect
    <3>1. /\ two' = two /\ pc' = pc /\ out' = out /\ wrote' = wrote
          /\ accepted' = accepted
      BY <2>7 DEF Handlers, ReportKills, EnterUsr1, Usr1, End, Stop, Connect, children, channel
    <3>2. QED  BY <2>6, <3>1
  <2>8. ASSUME NEW c \in Conn,
               \/ Reap(c) \/ ChildRead(c) \/ ChildReset(c) \/ ChildSignal(c)
               \/ ChildExit(c) \/ ChildBroken(c) \/ ChildKilled(c)
               \/ ClientSend(c) \/ ClientLeave(c)
        PROVE WriterInv'
    <3>1. /\ two' = two /\ pc' = pc /\ out' = out /\ wrote' = wrote
          /\ accepted' = accepted
      BY <2>8 DEF Reap, ChildRead, ChildReset, ChildSignal, ChildExit, ChildKilled,
                  ChildBroken, ClientSend, ClientLeave, daemon, channel
    <3>2. QED  BY <2>6, <3>1
  <2>9. CASE UNCHANGED vars
    <3>1. /\ two' = two /\ pc' = pc /\ out' = out /\ wrote' = wrote
          /\ accepted' = accepted
      BY <2>9 DEF vars, daemon, channel, children
    <3>2. QED  BY <2>6, <3>1
  <2>10. QED
    BY <1>2, <2>1, <2>2, <2>3, <2>4, <2>5, <2>7, <2>8, <2>9 DEF Next, Main, Child
<1>3. WriterInv => OneWriter
  BY DEF WriterInv, OneWriter
<1>4. QED  BY <1>1, <1>2, <1>3, TypeCorrect, PTL DEF Spec

-----------------------------------------------------------------------------
(* What children write is announced: the property itself is inductive once  *)
(* it is known that the child being forked has not run before.              *)

Announcer(c) == status[c] = "signal" /\ out[c] = "pipe"

AnnounceInv ==
    /\ TypeOK
    /\ MessageAnnounced
    /\ \A c \in Conn : c > accepted => status[c] = "none"
    /\ pc \in {"fork", "report"} => status[accepted] = "none"

\* Although signals merge, what children have written since the last read has a
\* signal or the rest of a read to come, unless sig_int_term has suspended it.
THEOREM FreshMessagesAnnounced == Spec => []MessageAnnounced
<1>1. Init /\ TypeOK => AnnounceInv
  BY DEF Init, AnnounceInv, MessageAnnounced
<1>2. ASSUME AnnounceInv, TypeOK', [Next]_vars PROVE AnnounceInv'
  <2>0. TypeOK /\ MessageAnnounced
    BY <1>2 DEF AnnounceInv
  <2>1. (\A c \in Conn : c > accepted => status[c] = "none")'
        /\ (pc \in {"fork", "report"} => status[accepted] = "none")'
    <3> USE <1>2, <2>0 DEF AnnounceInv, TypeOK, Conn
    <3>1. CASE Accept
      BY <3>1 DEF Accept, children
    <3>2. CASE Fork
      BY <3>2 DEF Fork
    <3>3. CASE Close \/ ForkFails \/ Report
      BY <3>3 DEF Close, ForkFails, Report, children
    <3>4. CASE Handlers \/ ReportKills \/ Stop \/ Connect
      BY <3>4 DEF Handlers, ReportKills, EnterUsr1, Usr1, End, Stop, Connect, children
    <3>5. ASSUME NEW c \in Conn,
                 \/ Reap(c) \/ Child(c) \/ ChildKilled(c)
                 \/ ClientSend(c) \/ ClientLeave(c)
          PROVE (\A d \in Conn : d > accepted => status[d] = "none")'
                /\ (pc \in {"fork", "report"} => status[accepted] = "none")'
      <4>1. accepted' = accepted /\ pc' = pc
        BY <3>5 DEF Reap, Child, ChildRead, ChildReset, ChildWrite, ChildSignal,
                    ChildExit, ChildBroken, ChildKilled, ClientSend, ClientLeave, daemon
      <4>2. \/ status' = status
            \/ status[c] # "none" /\ \E st : status' = [status EXCEPT ![c] = st]
        BY <3>5 DEF Reap, Child, ChildRead, ChildReset, ChildWrite, ChildSignal,
                    ChildExit, ChildBroken, ChildKilled, ClientSend, ClientLeave
      <4>3. QED  BY <4>1, <4>2
    <3>6. CASE UNCHANGED vars
      BY <3>6 DEF vars, daemon, children
    <3>7. QED
      BY <1>2, <3>1, <3>2, <3>3, <3>4, <3>5, <3>6 DEF Next, Main
  <2>2. MessageAnnounced'
    <3> USE <2>0 DEF MessageAnnounced
    <3>1. CASE Fork
      <4>1. accepted \in Conn /\ status[accepted] = "none"
        BY <1>2, <3>1 DEF AnnounceInv, Fork, TypeOK
      <4>2. \A c \in Conn : c # accepted =>
                status'[c] = status[c] /\ out'[c] = out[c]
        BY <3>1 DEF Fork, TypeOK
      <4>3. UNCHANGED <<pipe, left, signal, reading>>
        BY <3>1 DEF Fork, channel
      <4>4. QED  BY <4>1, <4>2, <4>3
    <3>2. CASE Report
      <4>1. pipe' > left' => pipe > left
        BY <3>2 DEF Report, channel, TypeOK
      <4>2. QED  BY <3>2, <4>1 DEF Report, children
    <3>3. CASE Accept \/ Close \/ ForkFails \/ ReportKills \/ Stop \/ Connect
      BY <3>3 DEF Accept, Close, ForkFails, ReportKills, Stop, Connect, channel,
                  children, TypeOK
    <3>4. CASE Handlers
      <4>1. CASE EnterUsr1
        BY <4>1 DEF EnterUsr1
      <4>2. CASE Usr1
        <5>1. ~(pipe' > left')
          <6>1. CASE pipe = 0 /\ UNCHANGED <<pipe, left>>
            BY <6>1 DEF TypeOK
          <6>2. ASSUME NEW rest \in 0..pipe, pipe' = rest, left' = rest
                PROVE ~(pipe' > left')
            BY <6>2 DEF TypeOK
          <6>3. QED  BY <4>2, <6>1, <6>2 DEF Usr1
        <5>2. QED  BY <5>1
      <4>3. CASE End
        BY <4>3 DEF End, channel, children
      <4>4. QED  BY <3>4, <4>1, <4>2, <4>3 DEF Handlers
    <3>5. ASSUME NEW c \in Conn, Child(c) PROVE MessageAnnounced'
      <4>1. CASE ChildWrite(c)
        <5>1. CASE out[c] = "pipe"
          BY <4>1, <5>1 DEF ChildWrite, TypeOK
        <5>2. CASE out[c] # "pipe"
          <6>1. UNCHANGED <<pipe, left, signal, reading, out>>
            BY <4>1, <5>2 DEF ChildWrite, daemon
          <6>2. \A d \in Conn : Announcer(d) => Announcer(d)'
            BY <4>1, <5>2 DEF ChildWrite, Announcer, TypeOK
          <6>3. QED  BY <6>1, <6>2 DEF Announcer
        <5>3. QED  BY <5>1, <5>2
      <4>2. CASE ChildSignal(c)
        BY <4>2 DEF ChildSignal
      <4>3. CASE ChildRead(c) \/ ChildReset(c) \/ ChildExit(c) \/ ChildBroken(c)
        <5>1. UNCHANGED <<pipe, left, signal, reading, out>>
          BY <4>3 DEF ChildRead, ChildReset, ChildExit, ChildBroken, daemon, channel
        <5>2. \A d \in Conn : Announcer(d) => Announcer(d)'
          BY <4>3 DEF ChildRead, ChildReset, ChildExit, ChildBroken, Announcer, TypeOK
        <5>3. QED  BY <5>1, <5>2 DEF Announcer
      <4>4. QED  BY <3>5, <4>1, <4>2, <4>3 DEF Child
    <3>6. ASSUME NEW c \in Conn,
                 Reap(c) \/ ChildKilled(c) \/ ClientSend(c) \/ ClientLeave(c)
          PROVE MessageAnnounced'
      <4>1. UNCHANGED <<pipe, left, signal, reading, out>>
        BY <3>6 DEF Reap, ChildKilled, ClientSend, ClientLeave, daemon, channel
      <4>2. \A d \in Conn : Announcer(d) => Announcer(d)'
        BY <3>6 DEF Reap, ChildKilled, ClientSend, ClientLeave, Announcer, TypeOK
      <4>3. QED  BY <4>1, <4>2 DEF Announcer
    <3>7. CASE UNCHANGED vars
      BY <3>7 DEF vars, daemon, channel, children
    <3>8. QED
      BY <1>2, <3>1, <3>2, <3>3, <3>4, <3>5, <3>6, <3>7 DEF Next, Main
  <2>3. QED  BY <1>2, <2>1, <2>2 DEF AnnounceInv
<1>3. AnnounceInv => MessageAnnounced
  BY DEF AnnounceInv
<1>4. QED  BY <1>1, <1>2, <1>3, TypeCorrect, PTL DEF Spec
=============================================================================
