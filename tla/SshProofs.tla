----------------------------- MODULE SshProofs -----------------------------
(***************************************************************************)
(* Ssh for any amount of data: the type invariant of its state, that       *)
(* connect ends as the system says, that the transport waits for the       *)
(* direction of operation_, which is the one libssh2 is blocked in unless  *)
(* its last transfer was short, and that a write counts what libssh2 took. *)
(***************************************************************************)
EXTENDS Ssh, SequenceTheorems, WellFoundedInduction, TLAPS

Calls == ChannelCalls \cup {"connect", "handshake", "auth", "open"}
Blocks == {"none", "recv", "send"}

(* The members of connect, transport, session and channel.                 *)
TypeOK ==
  /\ backend \in {"epoll", "kqueue"}
  /\ net \in {"none", "pending", "up", "refused", "broken"}
  /\ incoming \in 0 .. MaxIncoming /\ room \in 0 .. Capacity
  /\ registered \subseteq {"recv", "send"}
  /\ call \in Calls
  /\ pc \in {"try", "queue", "suspended", "fired", "resume", "check", "call", "inside", "failed",
             "threw", "idle"}
  /\ connectEc \in BOOLEAN /\ ec \in BOOLEAN
  /\ operation \in Blocks /\ blocked \in Blocks
  /\ short \in BOOLEAN /\ channel \in BOOLEAN
  /\ size \in Nat /\ written \in Nat /\ accepted \in Seq(Nat)

(* What is known of the connection at each place of the connect operation. *)
Connecting ==
  call = "connect" =>
    /\ pc \in {"try", "queue", "suspended", "fired", "resume", "check", "threw"}
    /\ pc = "try" => net = "none" /\ ~ connectEc
    /\ connectEc => net \in {"none", "refused", "broken"}
    /\ pc \in {"queue", "suspended"} /\ ~ connectEc =>
         net \in {"pending", "up", "refused", "broken"}
    /\ pc \in {"fired", "resume"} /\ ~ connectEc => net \in {"up", "refused", "broken"}
    /\ pc = "check" /\ ~ connectEc => net \in {"up", "broken"}
    /\ pc = "threw" => connectEc

Connected == call # "connect" => net \in {"up", "broken"}

(* operation_ is the callback that blocked last.  When libssh2 asks to be  *)
(* called again this is the direction it is left waiting in, or the last   *)
(* transfer was short.                                                     *)
Transport ==
  call # "connect" =>
    /\ pc \notin {"try", "resume"}
    /\ pc = "inside" /\ blocked # "none" => short \/ operation = blocked
    /\ pc \in {"queue", "suspended"} => blocked # "none" /\ (short \/ operation = blocked)

(* libssh2 is called while data is left. *)
Writing ==
  /\ written < 2 * size \/ (size = 0 /\ written = 0)
  /\ pc = "inside" /\ call = "write" => written < size
  /\ pc = "idle" /\ call = "write" => written >= size
  /\ pc # "idle" \/ call # "connect"

Inv == TypeOK /\ Connecting /\ Connected /\ Transport /\ WaitsForBlocked /\ Writing

-----------------------------------------------------------------------------
(* The invariant holds at the start, and every step keeps it.              *)

LEMMA InitInv == Init => Inv
<1> SUFFICES ASSUME Init PROVE Inv
  OBVIOUS
<1>1. accepted \in Seq(Nat)
  BY EmptySeq DEF Init
<1>2. connectEc \in BOOLEAN /\ ec \in BOOLEAN /\ short \in BOOLEAN /\ channel \in BOOLEAN
  BY Zenon DEF Init
<1>3. TypeOK
  BY <1>1, <1>2, SshConstants DEF Init, TypeOK, Calls, Blocks
<1> QED  BY <1>3 DEF Init, Inv, Connecting, Connected, Transport, WaitsForBlocked, Awaited, Writing

(* A connect that is under way is answered.                                *)
LEMMA EstablishInv == Inv /\ Establish => Inv'
<1> SUFFICES ASSUME Inv, Establish PROVE Inv'
  OBVIOUS
<1> USE DEF Establish, system, transport, data
<1>1. TypeOK'
  BY SshConstants DEF Inv, TypeOK
<1>2. Connecting'
  BY DEF Inv, TypeOK, Connecting
<1>3. Connected'
  BY DEF Inv, TypeOK, Connected
<1>4. Transport' /\ WaitsForBlocked' /\ Writing'
  BY DEF Inv, TypeOK, Transport, WaitsForBlocked, Awaited, Writing
<1> QED  BY <1>1, <1>2, <1>3, <1>4 DEF Inv

(* Bytes come in and go out, which the invariant does not mention.         *)
LEMMA ArriveInv == Inv /\ Arrive => Inv'
<1> SUFFICES ASSUME Inv, Arrive PROVE Inv'
  OBVIOUS
<1> USE DEF Arrive, system, transport, data
<1>1. TypeOK'
  BY SshConstants DEF Inv, TypeOK
<1>2. Connecting' /\ Connected' /\ Transport' /\ WaitsForBlocked' /\ Writing'
  BY DEF Inv, TypeOK, Connecting, Connected, Transport, WaitsForBlocked, Awaited, Writing
<1> QED  BY <1>1, <1>2 DEF Inv

LEMMA DrainInv == Inv /\ Drain => Inv'
<1> SUFFICES ASSUME Inv, Drain PROVE Inv'
  OBVIOUS
<1> USE DEF Drain, system, transport, data
<1>1. TypeOK'
  BY SshConstants DEF Inv, TypeOK
<1>2. Connecting' /\ Connected' /\ Transport' /\ WaitsForBlocked' /\ Writing'
  BY DEF Inv, TypeOK, Connecting, Connected, Transport, WaitsForBlocked, Awaited, Writing
<1> QED  BY <1>1, <1>2 DEF Inv

(* A connection that breaks has been one.                                  *)
LEMMA BreakInv == Inv /\ Break => Inv'
<1> SUFFICES ASSUME Inv, Break PROVE Inv'
  OBVIOUS
<1> USE DEF Break, system, transport, data
<1>1. TypeOK'
  BY SshConstants DEF Inv, TypeOK
<1>2. Connecting'
  BY DEF Inv, TypeOK, Connecting
<1>3. Connected'
  BY DEF Inv, TypeOK, Connected
<1>4. Transport' /\ WaitsForBlocked' /\ Writing'
  BY DEF Inv, TypeOK, Transport, WaitsForBlocked, Awaited, Writing
<1> QED  BY <1>1, <1>2, <1>3, <1>4 DEF Inv

(* What fires was waited for, and has come.                                *)
LEMMA FireInv == Inv /\ Fire => Inv'
<1> SUFFICES ASSUME Inv, Fire PROVE Inv'
  OBVIOUS
<1> USE DEF Fire, system, transport, data
<1>1. TypeOK'
  BY SshConstants DEF Inv, TypeOK
<1>2. Connecting'
  BY DEF Inv, TypeOK, Connecting, WaitsForBlocked, Awaited, Ready
<1>3. WaitsForBlocked'
  BY DEF Inv, TypeOK, WaitsForBlocked, Awaited
<1>4. Connected' /\ Transport' /\ Writing'
  BY DEF Inv, TypeOK, Connected, Transport, Writing
<1> QED  BY <1>1, <1>2, <1>3, <1>4 DEF Inv

(* connect: whatever the system says, the members say the same.            *)
LEMMA TryConnectInv == Inv /\ TryConnect => Inv'
<1> SUFFICES ASSUME Inv, TryConnect PROVE Inv'
  OBVIOUS
<1> USE DEF TryConnect, system, transport, data
<1>1. TypeOK'
  BY SshConstants DEF Inv, TypeOK
<1>2. Connecting'
  BY DEF Inv, TypeOK, Connecting
<1>3. Connected'
  BY DEF Inv, TypeOK, Connected
<1>4. Transport' /\ WaitsForBlocked' /\ Writing'
  BY DEF Inv, TypeOK, Transport, WaitsForBlocked, Awaited, Writing
<1> QED  BY <1>1, <1>2, <1>3, <1>4 DEF Inv


LEMMA ResumeConnectInv == Inv /\ ResumeConnect => Inv'
<1> SUFFICES ASSUME Inv, ResumeConnect PROVE Inv'
  OBVIOUS
<1> USE DEF ResumeConnect, system, transport, data
<1>1. TypeOK'
  BY SshConstants DEF Inv, TypeOK
<1>2. Connecting'
  BY DEF Inv, TypeOK, Connecting
<1>3. Connected' /\ Transport' /\ WaitsForBlocked' /\ Writing'
  BY DEF Inv, TypeOK, Connected, Transport, WaitsForBlocked, Awaited, Writing
<1> QED  BY <1>1, <1>2, <1>3 DEF Inv


LEMMA CheckConnectInv == Inv /\ CheckConnect => Inv'
<1> SUFFICES ASSUME Inv, CheckConnect PROVE Inv'
  OBVIOUS
<1> USE DEF CheckConnect, system, transport, data
<1>1. TypeOK'
  BY SshConstants DEF Inv, TypeOK, Calls, ChannelCalls, Blocks
<1>2. Connecting'
  BY DEF Inv, TypeOK, Connecting
<1>3. Connected'
  BY DEF Inv, TypeOK, Connected, Connecting
<1>4. Transport'
  BY DEF Inv, TypeOK, Transport, Connecting
<1>5. Writing'
  BY DEF Inv, TypeOK, Writing
<1>6. WaitsForBlocked'
  BY DEF Inv, TypeOK, WaitsForBlocked, Awaited
<1> QED  BY <1>1, <1>2, <1>3, <1>4, <1>5, <1>6 DEF Inv

(* No wait finds the registration of an earlier one.  It is registered for *)
(* the direction of operation_, or there is none and the wait fails.       *)
LEMMA QueueInv == Inv /\ Queue => Inv'
<1> SUFFICES ASSUME Inv, Queue PROVE Inv'
  OBVIOUS
<1> USE DEF system, transport, data
<1>1. /\ registered = {} /\ Awaited \in Blocks /\ pc = "queue"
      /\ UNCHANGED <<backend, system, call, operation, blocked, short, data>>
  BY DEF Queue, Inv, TypeOK, WaitsForBlocked, Awaited, Blocks
<1>2. CASE Awaited = "none"
  <2>1. /\ call # "connect" /\ pc' = "check"
        /\ ec' = TRUE /\ UNCHANGED <<connectEc, registered>>
    BY <1>1, <1>2 DEF Queue, Awaited
  <2>2. TypeOK'
    BY <1>1, <2>1 DEF Inv, TypeOK
  <2> QED
    BY <1>1, <2>1, <2>2 DEF Inv, Connecting, Connected, Transport, WaitsForBlocked, Awaited,
       Writing
<1>3. CASE Awaited # "none"
  <2>1. pc' = "suspended" /\ registered' = {Awaited} /\ UNCHANGED <<connectEc, ec>>
    BY <1>1, <1>3 DEF Queue
  <2>2. TypeOK'
    BY <1>1, <1>3, <2>1 DEF Inv, TypeOK, Blocks
  <2>3. WaitsForBlocked'
    BY <1>1, <2>1 DEF Inv, WaitsForBlocked, Transport, Awaited
  <2>4. Connecting' /\ Connected' /\ Transport' /\ Writing'
    BY <1>1, <2>1 DEF Inv, Connecting, Connected, Transport, Writing
  <2> QED  BY <2>2, <2>3, <2>4 DEF Inv
<1> QED  BY <1>2, <1>3

(* The event is removed before the coroutine goes on.                      *)
LEMMA DispatchInv == Inv /\ Dispatch => Inv'
<1> SUFFICES ASSUME Inv, Dispatch PROVE Inv'
  OBVIOUS
<1> USE DEF Dispatch, system, transport, data
<1>1. TypeOK'
  BY SshConstants DEF Inv, TypeOK
<1>2. Connecting'
  BY DEF Inv, TypeOK, Connecting
<1>3. Transport'
  BY DEF Inv, TypeOK, Transport
<1>4. WaitsForBlocked'
  BY DEF Inv, TypeOK, WaitsForBlocked, Awaited
<1>5. Connected' /\ Writing'
  BY DEF Inv, TypeOK, Connected, Writing
<1> QED  BY <1>1, <1>2, <1>3, <1>4, <1>5 DEF Inv

(* The loops of the session and of the channel.                            *)
LEMMA CheckTransportInv == Inv /\ CheckTransport => Inv'
<1> SUFFICES ASSUME Inv, CheckTransport PROVE Inv'
  OBVIOUS
<1> USE DEF CheckTransport, system, transport, data
<1>1. TypeOK'
  BY SshConstants DEF Inv, TypeOK
<1>2. Transport'
  BY DEF Inv, TypeOK, Transport
<1>3. Connecting' /\ Connected' /\ WaitsForBlocked' /\ Writing'
  BY DEF Inv, TypeOK, Connecting, Connected, WaitsForBlocked, Awaited, Writing
<1> QED  BY <1>1, <1>2, <1>3 DEF Inv


LEMMA CallLibraryInv == Inv /\ CallLibrary => Inv'
<1> SUFFICES ASSUME Inv, CallLibrary PROVE Inv'
  OBVIOUS
<1> USE DEF CallLibrary, system, transport, data
<1>1. TypeOK'
  BY SshConstants DEF Inv, TypeOK, Blocks
<1>2. Transport'
  BY DEF Inv, TypeOK, Transport
<1>3. Writing'
  BY DEF Inv, TypeOK, Writing
<1>4. Connecting' /\ Connected' /\ WaitsForBlocked'
  BY DEF Inv, TypeOK, Connecting, Connected, WaitsForBlocked, Awaited
<1> QED  BY <1>1, <1>2, <1>3, <1>4 DEF Inv

(* Each callback that blocks leaves its own direction in operation_; one   *)
(* that transfers leaves what was there, and only a short one asks again.  *)
LEMMA OnRecvInv == Inv /\ OnRecv => Inv'
<1> SUFFICES ASSUME Inv, OnRecv PROVE Inv'
  OBVIOUS
<1> USE DEF OnRecv, Transferred, WouldBlock, system, transport, data
<1>1. TypeOK'
  <2>1. short' \in BOOLEAN
    BY Zenon DEF Inv, TypeOK
  <2>2. incoming' \in 0 .. MaxIncoming
    BY SshConstants DEF Inv, TypeOK
  <2>3. operation' \in Blocks /\ blocked' \in Blocks /\ pc' \in {"inside", "failed"}
    BY DEF Inv, TypeOK, Blocks
  <2>4. UNCHANGED <<backend, net, room, registered, call, connectEc, ec, data>>
    OBVIOUS
  <2> HIDE DEF OnRecv, Transferred, WouldBlock
  <2> QED  BY <2>1, <2>2, <2>3, <2>4 DEF Inv, TypeOK
<1>2. Transport'
  BY DEF Inv, TypeOK, Transport
<1>3. Connected'
  BY DEF Inv, TypeOK, Connected
<1>4. Connecting' /\ WaitsForBlocked' /\ Writing'
  BY DEF Inv, TypeOK, Connecting, WaitsForBlocked, Awaited, Writing
<1> QED  BY <1>1, <1>2, <1>3, <1>4 DEF Inv


LEMMA OnSendInv == Inv /\ OnSend => Inv'
<1> SUFFICES ASSUME Inv, OnSend PROVE Inv'
  OBVIOUS
<1> USE DEF OnSend, Transferred, WouldBlock, system, transport, data
<1>1. TypeOK'
  <2>1. short' \in BOOLEAN
    BY Zenon DEF Inv, TypeOK
  <2>2. room' \in 0 .. Capacity
    BY SshConstants DEF Inv, TypeOK
  <2>3. operation' \in Blocks /\ blocked' \in Blocks /\ pc' \in {"inside", "failed"}
    BY DEF Inv, TypeOK, Blocks
  <2>4. UNCHANGED <<backend, net, incoming, registered, call, connectEc, ec, data>>
    OBVIOUS
  <2> HIDE DEF OnSend, Transferred, WouldBlock
  <2> QED  BY <2>1, <2>2, <2>3, <2>4 DEF Inv, TypeOK
<1>2. Transport'
  BY DEF Inv, TypeOK, Transport
<1>3. Connected'
  BY DEF Inv, TypeOK, Connected
<1>4. Connecting' /\ WaitsForBlocked' /\ Writing'
  BY DEF Inv, TypeOK, Connecting, WaitsForBlocked, Awaited, Writing
<1> QED  BY <1>1, <1>2, <1>3, <1>4 DEF Inv


LEMMA AgainInv == Inv /\ Again => Inv'
<1> SUFFICES ASSUME Inv, Again PROVE Inv'
  OBVIOUS
<1> USE DEF Again, system, transport, data
<1>1. TypeOK'
  BY SshConstants DEF Inv, TypeOK
<1>2. Transport'
  BY DEF Inv, TypeOK, Transport, Blocks
<1>3. Connecting'
  BY DEF Inv, TypeOK, Connecting
<1>4. WaitsForBlocked'
  BY DEF Inv, TypeOK, WaitsForBlocked, Awaited
<1>5. Connected' /\ Writing'
  BY DEF Inv, TypeOK, Connected, Writing
<1> QED  BY <1>1, <1>2, <1>3, <1>4, <1>5 DEF Inv


LEMMA FailInv == Inv /\ Fail => Inv'
<1> SUFFICES ASSUME Inv, Fail PROVE Inv'
  OBVIOUS
<1> USE DEF Fail, system, transport, data
<1>1. TypeOK'
  BY SshConstants DEF Inv, TypeOK
<1>2. Connecting'
  BY DEF Inv, TypeOK, Connecting
<1>3. WaitsForBlocked'
  BY DEF Inv, TypeOK, WaitsForBlocked, Awaited
<1>4. Connected' /\ Transport' /\ Writing'
  BY DEF Inv, TypeOK, Connected, Transport, Writing
<1> QED  BY <1>1, <1>2, <1>3, <1>4 DEF Inv

(* The session's steps follow each other.                                  *)
LEMMA DoneInv == Inv /\ Done => Inv'
<1> SUFFICES ASSUME Inv, Done PROVE Inv'
  OBVIOUS
<1> USE DEF Done, system, transport, data
<1>1. TypeOK'
  BY SshConstants DEF Inv, TypeOK, Calls, ChannelCalls, Blocks
<1>2. Writing'
  BY DEF Inv, TypeOK, Writing, Connecting
<1>3. Transport'
  BY DEF Inv, TypeOK, Transport
<1>4. Connecting' /\ Connected' /\ WaitsForBlocked'
  BY DEF Inv, TypeOK, Connecting, Connected, WaitsForBlocked, Awaited
<1> QED  BY <1>1, <1>2, <1>3, <1>4 DEF Inv

(* libssh2 takes at most what a write has left at the start of the call.   *)
LEMMA DoneWriteInv == Inv /\ DoneWrite => Inv'
<1> SUFFICES ASSUME Inv, DoneWrite PROVE Inv'
  OBVIOUS
<1> USE DEF DoneWrite, system, transport, data
<1>1. TypeOK'
  BY SshConstants DEF Inv, TypeOK
<1>2. Writing'
  BY DEF Inv, TypeOK, Writing
<1>3. Connecting' /\ Connected' /\ Transport' /\ WaitsForBlocked'
  BY DEF Inv, TypeOK, Connecting, Connected, Transport, WaitsForBlocked, Awaited
<1> QED  BY <1>1, <1>2, <1>3 DEF Inv


LEMMA EndWriteInv == Inv /\ EndWrite => Inv'
<1> SUFFICES ASSUME Inv, EndWrite PROVE Inv'
  OBVIOUS
<1> USE DEF EndWrite, system, transport, data
<1>1. TypeOK'
  BY SshConstants DEF Inv, TypeOK
<1>2. Writing'
  BY DEF Inv, TypeOK, Writing
<1>3. Connecting' /\ Connected' /\ Transport' /\ WaitsForBlocked'
  BY DEF Inv, TypeOK, Connecting, Connected, Transport, WaitsForBlocked, Awaited
<1> QED  BY <1>1, <1>2, <1>3 DEF Inv

(* The next use of the session starts with a size of its own.              *)
LEMMA UseInv == ASSUME NEW c \in ChannelCalls \cup {"open"}, Inv, Use(c) PROVE Inv'
<1> USE DEF Use, system, transport
<1>1. accepted' \in Seq(Nat)
  BY EmptySeq
<1>2. size' \in Nat \ {0} /\ c # "connect" /\ call # "connect"
  BY SshConstants DEF ChannelCalls, Inv, Connecting, Writing
<1>3. TypeOK'
  BY <1>1, <1>2 DEF Inv, TypeOK, Calls
<1>4. Connecting' /\ Connected' /\ Transport' /\ WaitsForBlocked'
  BY <1>2 DEF Inv, Connecting, Connected, Transport, WaitsForBlocked, Awaited
<1>5. \A n \in Nat \ {0} : 0 < 2 * n
  OBVIOUS
<1>6. Writing'
  BY <1>2, <1>5 DEF Writing
<1> QED  BY <1>3, <1>4, <1>6 DEF Inv

LEMMA StepInv == Inv /\ [Next]_vars => Inv'
<1> SUFFICES ASSUME Inv, [Next]_vars PROVE Inv'
  OBVIOUS
<1>1. CASE Establish \/ Arrive \/ Drain \/ Break
  BY <1>1, EstablishInv, ArriveInv, DrainInv, BreakInv
<1>2. CASE Fire
  BY <1>2, FireInv
<1>3. CASE TryConnect \/ ResumeConnect \/ CheckConnect
  BY <1>3, TryConnectInv, ResumeConnectInv, CheckConnectInv
<1>4. CASE Queue \/ Dispatch \/ CheckTransport
  BY <1>4, QueueInv, DispatchInv, CheckTransportInv
<1>5. CASE CallLibrary \/ OnRecv \/ OnSend \/ Again \/ Fail
  BY <1>5, CallLibraryInv, OnRecvInv, OnSendInv, AgainInv, FailInv
<1>6. CASE Done \/ DoneWrite \/ EndWrite
  BY <1>6, DoneInv, DoneWriteInv, EndWriteInv
<1>7. CASE \E c \in ChannelCalls \cup {"open"} : Use(c)
  BY <1>7, UseInv
<1>8. CASE UNCHANGED vars
  BY <1>8 DEF vars, system, transport, data, Inv, TypeOK, Connecting, Connected, Transport,
              WaitsForBlocked, Awaited, Writing
<1> QED  BY <1>1, <1>2, <1>3, <1>4, <1>5, <1>6, <1>7, <1>8 DEF Next, CoroutineStep

LEMMA Invariance == Spec => []Inv
<1> QED  BY InitInv, StepInv, PTL DEF Spec

-----------------------------------------------------------------------------
(* The members of connect, transport, session and channel keep their       *)
(* types (tcp/socket.cpp 156-217, transport.cpp, session.cpp, channel.cpp).*)
THEOREM TypeCorrect == Spec => []TypeOK
<1>1. Inv => TypeOK
  BY DEF Inv
<1> QED  BY <1>1, Invariance, PTL

(* connect ends without an exception exactly when the system has, or had,  *)
(* a connection (tcp/socket.cpp 156-217).                                  *)
THEOREM ConnectAlwaysTruthful == Spec => []ConnectTruthful
<1>1. Inv => ConnectTruthful
  BY DEF Inv, Connecting, Connected, ConnectTruthful
<1> QED  BY <1>1, Invariance, PTL

(* Whatever libssh2 transfers, in whole or in part, and whatever it        *)
(* refuses: a suspended session is registered for the direction of         *)
(* operation_ and for nothing else, and this is the one libssh2 is blocked *)
(* in unless its last transfer was short; no wait begins while an earlier  *)
(* one is registered (transport.cpp 17-108, event.h 54-61).                *)
THEOREM AlwaysWaitsForBlocked == Spec => []WaitsForBlocked
<1>1. Inv => WaitsForBlocked
  BY DEF Inv
<1> QED  BY <1>1, Invariance, PTL

-----------------------------------------------------------------------------
(* Sums of sequences.  FoldLeft is defined by a function over the sets of  *)
(* positions; that there is one, and what it is for an interval, is shown  *)
(* by a least counterexample.                                              *)

LEMMA LeastNatural ==
  ASSUME NEW T \in SUBSET Nat, T # {}
  PROVE  \E x \in T : \A y \in T : x <= y
<1> DEFINE R == OpToRel(<, Nat)
<1>1. R = {ss \in Nat \X Nat : ss[1] < ss[2]}
  BY DEF OpToRel
<1>2. IsWellFoundedOn(R, Nat)
  BY NatLessThanWellFounded
<1> HIDE DEF R
<1>3. PICK x \in T : \A y \in T : <<y, x>> \notin R
  BY <1>2, WFMin
<1>4. \A y \in T : ~ (y < x)
  BY <1>1, <1>3
<1> QED
  BY <1>4


Total(s) == FoldLeft(+, 0, s)

(* One step of the fold, from the last of a set of positions.              *)
Added(s, f, D) == IF D = {} THEN 0 ELSE f[D \ {Max(D)}] + s[Max(D)]

IsFold(s, f, n) == f = [D \in SUBSET (1 .. n) |-> Added(s, f, D)]

LEMMA MaxOfInterval ==
  ASSUME NEW n \in Nat \ {0}, NEW D \in SUBSET (1 .. n), n \in D
  PROVE  Max(D) = n
<1>1. \A y \in D : n >= y
  OBVIOUS
<1>2. ASSUME NEW x \in D, \A y \in D : x >= y PROVE x = n
  <2>1. x >= n /\ n >= x /\ x \in Nat
    BY <1>1, <1>2
  <2> QED
    BY <2>1
<1> QED
  BY <1>1, <1>2 DEF Max

LEMMA FoldExists == ASSUME NEW s, NEW n \in Nat PROVE \E f : IsFold(s, f, n)
<1> DEFINE Bad == {k \in Nat : ~ \E f : IsFold(s, f, k)}
<1>1. SUFFICES ASSUME Bad # {} PROVE FALSE
  <2>1. n \notin Bad
    BY <1>1
  <2> QED
    BY <2>1
<1>2. PICK k \in Bad : \A l \in Bad : k <= l
  BY <1>1, LeastNatural
<1>3. k # 0
  <2>1. 1 .. 0 = {}
    OBVIOUS
  <2>2. IsFold(s, [D \in SUBSET (1 .. 0) |-> 0], 0)
    BY <2>1 DEF IsFold, Added
  <2> QED
    BY <2>2
<1>4. PICK f : IsFold(s, f, k - 1)
  <2>1. k - 1 \in Nat /\ k - 1 \notin Bad
    BY <1>2, <1>3
  <2> QED
    BY <2>1
<1> DEFINE g == [D \in SUBSET (1 .. k) |-> IF k \in D THEN f[D \ {k}] + s[k] ELSE f[D]]
<1>5. ASSUME NEW D \in SUBSET (1 .. k) PROVE g[D] = Added(s, g, D)
  <2>1. CASE k \in D
    <3>1. D # {} /\ Max(D) = k
      BY <1>3, <2>1, MaxOfInterval
    <3>2. D \ {k} \in SUBSET (1 .. k) /\ k \notin D \ {k}
      OBVIOUS
    <3>3. g[D \ {k}] = f[D \ {k}]
      BY <3>2
    <3>4. g[D] = f[D \ {k}] + s[k]
      BY <2>1
    <3> QED
      BY <3>1, <3>3, <3>4 DEF Added
  <2>2. CASE k \notin D
    <3>1. D \in SUBSET (1 .. k - 1)
      BY <1>3, <2>2
    <3>2. f[D] = Added(s, f, D)
      BY <1>4, <3>1 DEF IsFold
    <3>3. g[D] = f[D]
      BY <2>2
    <3>4. \A x : g[D \ {x}] = f[D \ {x}]
      BY <2>2
    <3> QED
      BY <3>2, <3>3, <3>4 DEF Added
  <2> QED
    BY <2>1, <2>2
<1>6. g = [D \in SUBSET (1 .. k) |-> g[D]]
  OBVIOUS
<1> HIDE DEF g
<1>7. IsFold(s, g, k)
  BY <1>5, <1>6 DEF IsFold
<1> QED
  BY <1>2, <1>7

(* The fold adds one element after the other. *)
LEMMA FoldSteps ==
  ASSUME NEW s, NEW n \in Nat, NEW f, IsFold(s, f, n)
  PROVE  /\ f[{}] = 0
         /\ \A k \in 1 .. n : f[1 .. k] = f[1 .. k - 1] + s[k]
<1>1. \A D \in SUBSET (1 .. n) : f[D] = Added(s, f, D)
  BY DEF IsFold
<1>2. f[{}] = 0
  BY <1>1 DEF Added
<1>3. ASSUME NEW k \in 1 .. n PROVE f[1 .. k] = f[1 .. k - 1] + s[k]
  <2>1. k \in Nat \ {0} /\ k \in 1 .. k /\ 1 .. k \in SUBSET (1 .. n) /\ 1 .. k \in SUBSET (1 .. k)
    OBVIOUS
  <2>2. Max(1 .. k) = k
    BY <2>1, MaxOfInterval
  <2>3. (1 .. k) \ {k} = 1 .. k - 1
    BY <2>1
  <2>4. f[1 .. k] = f[(1 .. k) \ {Max(1 .. k)}] + s[Max(1 .. k)]
    BY <1>1, <2>1 DEF Added
  <2> QED
    BY <2>2, <2>3, <2>4
<1> QED
  BY <1>2, <1>3

LEMMA TotalIs ==
  ASSUME NEW s \in Seq(Nat)
  PROVE  /\ Len(s) \in Nat
         /\ \E f : IsFold(s, f, Len(s)) /\ Total(s) = f[1 .. Len(s)]
<1> DEFINE f == CHOOSE h : IsFold(s, h, Len(s))
<1>1. Len(s) \in Nat /\ DOMAIN s = 1 .. Len(s)
  BY LenProperties
<1>2. IsFold(s, f, Len(s))
  BY <1>1, FoldExists
<1>3. Total(s) = f[1 .. Len(s)]
  BY <1>1 DEF Total, FoldLeft, MapThenFoldSet, Added, IsFold
<1> HIDE DEF f
<1> QED
  BY <1>1, <1>2, <1>3

LEMMA TotalEmpty == Total(<<>>) = 0
<1>1. <<>> \in Seq(Nat) /\ Len(<<>>) = 0 /\ 1 .. 0 = {}
  BY EmptySeq
<1>2. PICK f : IsFold(<<>>, f, 0) /\ Total(<<>>) = f[{}]
  BY <1>1, TotalIs
<1> QED
  BY <1>2, FoldSteps

LEMMA TotalAppend ==
  ASSUME NEW s \in Seq(Nat), NEW n \in Nat
  PROVE  /\ Append(s, n) \in Seq(Nat) /\ Append(s, n) # <<>>
         /\ Total(Append(s, n)) = Total(s) + n
         /\ SubSeq(Append(s, n), 1, Len(Append(s, n)) - 1) = s
<1> DEFINE t == Append(s, n)
<1>1. /\ t \in Seq(Nat) /\ t # <<>>
      /\ Len(t) = Len(s) + 1
      /\ \A i \in 1 .. Len(s) : t[i] = s[i]
      /\ t[Len(s) + 1] = n
  BY AppendProperties
<1> HIDE DEF t
<1>2. PICK k \in Nat : k = Len(s)
  BY TotalIs
<1>3. PICK f : IsFold(s, f, k) /\ Total(s) = f[1 .. k]
  BY <1>2, TotalIs, Zenon
<1>4. PICK g : IsFold(t, g, Len(t)) /\ Total(t) = g[1 .. k + 1]
  BY <1>1, <1>2, TotalIs
<1>5. /\ f[{}] = 0 /\ g[{}] = 0
      /\ \A i \in 1 .. k : f[1 .. i] = f[1 .. i - 1] + s[i]
      /\ \A i \in 1 .. k + 1 : g[1 .. i] = g[1 .. i - 1] + t[i]
  <2>1. f[{}] = 0 /\ \A i \in 1 .. k : f[1 .. i] = f[1 .. i - 1] + s[i]
    BY <1>3, FoldSteps
  <2>2. Len(t) \in Nat
    BY <1>1, LenProperties
  <2>3. PICK m \in Nat : m = Len(t)
    BY <2>2
  <2>4. IsFold(t, g, m)
    BY <1>4, <2>3
  <2>5. g[{}] = 0 /\ \A i \in 1 .. m : g[1 .. i] = g[1 .. i - 1] + t[i]
    BY <2>4, FoldSteps
  <2> QED
    BY <1>1, <1>2, <2>1, <2>3, <2>5
(* What is behind the first elements does not matter to their sum. *)
<1>6. f[1 .. k] = g[1 .. k]
  <2> DEFINE Bad == {i \in Nat : i <= k /\ f[1 .. i] # g[1 .. i]}
  <2> SUFFICES ASSUME Bad # {} PROVE FALSE
    <3>1. Bad = {} => k \notin Bad
      OBVIOUS
    <3> QED
      BY <3>1
  <2>1. PICK i \in Bad : \A l \in Bad : i <= l
    BY LeastNatural
  <2>2. CASE i = 0
    <3>1. 1 .. i = {}
      BY <2>2
    <3> QED
      BY <1>5, <2>1, <3>1
  <2>3. CASE i # 0
    <3>1. i \in 1 .. k /\ i \in 1 .. k + 1 /\ i - 1 \in Nat /\ i - 1 <= k /\ i - 1 \notin Bad
      BY <2>1, <2>3
    <3>2. f[1 .. i - 1] = g[1 .. i - 1]
      BY <3>1
    <3>3. s[i] = t[i]
      BY <1>1, <1>2, <3>1
    <3> QED
      BY <1>5, <2>1, <3>1, <3>2, <3>3
  <2> QED
    BY <2>2, <2>3
<1>7. Total(t) = Total(s) + n
  <2>1. k + 1 \in 1 .. k + 1 /\ (k + 1) - 1 = k
    OBVIOUS
  <2>2. g[1 .. k + 1] = g[1 .. (k + 1) - 1] + t[k + 1]
    BY <1>5, <2>1
  <2> QED
    BY <1>1, <1>2, <1>3, <1>4, <1>6, <2>1, <2>2
<1>8. SubSeq(t, 1, Len(s)) = s
  <2>1. \A i \in 1 .. Len(s) : t[i] = s[i] /\ t[i] \in Nat
    BY <1>1, ElementOfSeq
  <2>2. /\ SubSeq(t, 1, Len(s)) \in Seq(Nat)
        /\ Len(SubSeq(t, 1, Len(s))) = IF 1 <= Len(s) THEN Len(s) - 1 + 1 ELSE 0
        /\ \A i \in 1 .. Len(s) - 1 + 1 : SubSeq(t, 1, Len(s))[i] = t[1 + i - 1]
    BY <1>2, <2>1, SubSeqProperties
  <2>3. Len(SubSeq(t, 1, Len(s))) = Len(s)
    BY <1>2, <2>2
  <2>4. ASSUME NEW i \in 1 .. Len(s) PROVE SubSeq(t, 1, Len(s))[i] = s[i]
    <3>1. i \in 1 .. Len(s) - 1 + 1 /\ 1 + i - 1 = i
      BY <1>2
    <3> QED
      BY <2>1, <2>2, <3>1
  <2> QED
    BY <2>2, <2>3, <2>4, SeqEqual
<1> QED
  BY <1>1, <1>2, <1>7, <1>8 DEF t

(* written is the sum of what libssh2 took since the write began, and each *)
(* piece was taken while the sum was below the size.                       *)
Counted ==
  /\ written = Total(accepted)
  /\ accepted # <<>> => Total(SubSeq(accepted, 1, Len(accepted) - 1)) < size
  /\ call = "write" => size > 0

LEMMA InitCounted == Init => Counted
  BY TotalEmpty DEF Init, Counted

LEMMA DoneWriteCounted == Inv /\ Counted /\ DoneWrite => Counted'
<1> SUFFICES ASSUME Inv, Counted, DoneWrite PROVE Counted'
  OBVIOUS
<1>1. /\ accepted \in Seq(Nat) /\ written \in Nat /\ size \in Nat
      /\ written < size
      /\ size' = size /\ call' = call
  BY DEF Inv, TypeOK, Writing, DoneWrite
<1>2. PICK n \in 0 .. size : /\ written' = written + n
                             /\ accepted' = IF n = 0 THEN accepted ELSE Append(accepted, n)
  BY DEF DoneWrite
<1>3. CASE n = 0
  BY <1>1, <1>2, <1>3 DEF Counted
<1>4. CASE n # 0
  <2>1. n \in Nat /\ accepted' = Append(accepted, n)
    BY <1>1, <1>2, <1>4
  <2>2. /\ Total(accepted') = Total(accepted) + n
        /\ SubSeq(accepted', 1, Len(accepted') - 1) = accepted
    BY <1>1, <2>1, TotalAppend
  <2> QED
    BY <1>1, <1>2, <2>2 DEF Counted
<1> QED
  BY <1>3, <1>4

LEMMA UseCounted == ASSUME NEW c \in ChannelCalls \cup {"open"}, Use(c) PROVE Counted'
<1>1. written' = 0 /\ accepted' = <<>> /\ size' \in Nat \ {0}
  BY SshConstants DEF Use
<1>2. size' > 0
  BY <1>1
<1> QED
  BY <1>1, <1>2, TotalEmpty DEF Counted

LEMMA StepCounted == Inv /\ Counted /\ [Next]_vars => Counted'
<1> SUFFICES ASSUME Inv, Counted, [Next]_vars PROVE Counted'
  OBVIOUS
<1>1. CASE DoneWrite
  BY <1>1, DoneWriteCounted
<1>2. CASE \E c \in ChannelCalls \cup {"open"} : Use(c)
  BY <1>2, UseCounted
<1>3. CASE UNCHANGED <<size, written, accepted>> /\ (call' = "write" => call = "write")
  BY <1>3 DEF Counted
<1>4. CASE \/ Establish \/ Arrive \/ Drain \/ Break \/ Fire \/ UNCHANGED vars
           \/ TryConnect \/ ResumeConnect \/ CheckConnect
           \/ Queue \/ Dispatch \/ CheckTransport
           \/ CallLibrary \/ OnRecv \/ OnSend \/ Again \/ Fail \/ Done \/ EndWrite
  <2>1. UNCHANGED <<size, written, accepted>> /\ (call' = "write" => call = "write")
    BY <1>4 DEF Establish, Arrive, Drain, Break, Fire, vars, TryConnect, ResumeConnect,
       CheckConnect, Queue, Dispatch, CheckTransport, CallLibrary, OnRecv, OnSend, Again, Fail,
       Done, EndWrite, system, transport, data
  <2> QED
    BY <1>3, <2>1
<1> QED
  BY <1>1, <1>2, <1>4 DEF Next, CoroutineStep

(* What write counts is what libssh2 took, and it ends with the piece that *)
(* reaches the size; it never counts twice the size, although it offers    *)
(* all of the data again after a part was taken (channel.cpp 46-61).       *)
THEOREM AlwaysWriteCounted == Spec => []WriteCounted
<1>1. Inv /\ Counted => WriteCounted
  <2> SUFFICES ASSUME Inv, Counted PROVE WriteCounted
    OBVIOUS
  <2>1. ASSUME call = "write", pc = "idle"
        PROVE  /\ written >= size
               /\ Total(SubSeq(accepted, 1, Len(accepted) - 1)) < size
    <3>1. accepted # <<>>
      <4>1. written >= size /\ size > 0
        BY <2>1 DEF Inv, Writing, Counted
      <4>2. written = Total(accepted) /\ size \in Nat
        BY DEF Counted, Inv, TypeOK
      <4> QED
        BY <4>1, <4>2, TotalEmpty
    <3> QED
      BY <2>1, <3>1 DEF Inv, Writing, Counted
  <2>2. written = Total(accepted) /\ (written < 2 * size \/ size = 0)
    BY DEF Inv, Writing, Counted
  <2> QED
    BY <2>1, <2>2 DEF WriteCounted, Total
<1> QED
  BY <1>1, InitCounted, StepCounted, Invariance, PTL DEF Spec
=============================================================================
