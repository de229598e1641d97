-------------------------- MODULE ConnectionProofs --------------------------
(***************************************************************************)
(* TcpSocket and Connection for any buffers, any number of requests and    *)
(* any back end.  First the socket by itself, as Connection has it: its    *)
(* type invariant, the exactness of sends, and that who waits is           *)
(* registered.  Then the coroutines of the connection around it: the       *)
(* responses are whole and in order, no request is lost, the mutex is the  *)
(* first come first served lock, nobody is forgotten while handle() lives, *)
(* and where nothing disturbs recv no response outlives it.                *)
(***************************************************************************)
EXTENDS ConnectionMC, SequenceTheorems, TLAPS

(* What the send has used up of its buffer is what it counted. *)
Progress == data = sent /\ left = size - sent

(* On epoll the descriptor has one registration, and a fired one stays     *)
(* until remove(); on kqueue it is gone.                                   *)
Registrations ==
  /\ Backend = "epoll" => \A d, e \in registered : d = e
  /\ \A d \in Directions :
       op[d] = "fired" => IF Backend = "epoll" THEN registered = {d} ELSE d \notin registered

(* The inductive invariant of the socket. *)
SocketInv ==
  /\ TypeOK /\ Progress
  /\ SendExact /\ WaitsRegistered /\ Registrations

(* What a send puts on the stream. *)
Numbered(n) == [i \in 1 .. n |-> i]

LEMMA NumberedExtends ==
  ASSUME NEW m \in Nat, NEW n \in Nat
  PROVE  Numbered(m) \o [i \in 1 .. n |-> m + i] = Numbered(m + n)
<1> DEFINE s == Numbered(m)
           t == [i \in 1 .. n |-> m + i]
<1>1. s \in Seq(Nat) /\ Len(s) = m /\ t \in Seq(Nat) /\ Len(t) = n
  BY DEF Numbered
<1>2. s \o t \in Seq(Nat) /\ Len(s \o t) = m + n
  BY <1>1
<1>3. Numbered(m + n) \in Seq(Nat) /\ Len(Numbered(m + n)) = m + n
  BY DEF Numbered
<1>4. ASSUME NEW i \in 1 .. m + n PROVE (s \o t)[i] = Numbered(m + n)[i]
  BY <1>1 DEF Numbered
<1> HIDE DEF s, t
<1>5. s \o t = Numbered(m + n)
  BY <1>2, <1>3, <1>4, SeqEqual
<1> QED
  BY <1>5 DEF s, t

LEMMA NumberedTyped ==
  ASSUME NEW n \in Nat, NEW m \in Nat, n <= m
  PROVE  Numbered(n) \in Seq(1 .. m)
BY DEF Numbered

LEMMA SocketInit == Init => SocketInv
<1> SUFFICES ASSUME Init PROVE SocketInv
  OBVIOUS
<1>1. <<>> = [i \in 1 .. 0 |-> i]
  OBVIOUS
<1>2. <<>> \in Seq(1 .. MaxSize)
  BY EmptySeq
<1>3. /\ op \in [Directions -> {"idle", "try", "arm", "armed", "fired", "done"}]
      /\ ec \in [Directions -> {"none", "exists", "failed"}]
  BY DEF Init
<1>4. some \in BOOLEAN
  BY Zenon DEF Init
<1>5. /\ size \in 0 .. MaxSize
      /\ data \in 0 .. size /\ left \in 0 .. size - data /\ sent \in 0 .. size
      /\ arrived \in 0 .. MaxArrived
      /\ room \in 0 .. Capacity
  BY TcpSocketConstants DEF Init
<1>6. TypeOK
  BY <1>2, <1>3, <1>4, <1>5, Zenon DEF Init, TypeOK
<1> QED
  BY <1>1, <1>6, TcpSocketConstants
     DEF Init, SocketInv, Progress, SendExact, WaitsRegistered,
         Registrations, Directions

-----------------------------------------------------------------------------

(* The network only touches the kernel's side. *)
LEMMA NetworkPreserves ==
  ASSUME SocketInv, Arrive \/ Drain \/ PeerEnds
  PROVE  SocketInv'
<1>1. /\ UNCHANGED <<event, sending>>
      /\ arrived' \in 0 .. MaxArrived /\ room' \in 0 .. Capacity
      /\ peer' \in {"open", "eof", "reset", "failed"}
  <2>1. CASE Arrive
    BY <2>1, TcpSocketConstants DEF SocketInv, TypeOK, Arrive
  <2>2. CASE Drain
    BY <2>2, TcpSocketConstants DEF SocketInv, TypeOK, Drain
  <2>3. CASE PeerEnds
    BY <2>3, TcpSocketConstants DEF SocketInv, TypeOK, PeerEnds
  <2> QED
    BY <2>1, <2>2, <2>3
<1>2. TypeOK'
  BY <1>1 DEF SocketInv, TypeOK, event, sending
<1> QED
  BY <1>1, <1>2
     DEF SocketInv, Progress, SendExact, WaitsRegistered, Registrations,
         event, sending

LEMMA RecvPreserves == ASSUME SocketInv, Recv \/ TryRecv PROVE SocketInv'
<1>1. /\ UNCHANGED <<registered, sending, room, peer>>
      /\ op["recv"] \in {"idle", "try"}
      /\ arrived' \in 0 .. MaxArrived
  <2>1. CASE Recv
    BY <2>1 DEF SocketInv, TypeOK, Recv, kernel
  <2>2. CASE TryRecv
    <3>1. op["recv"] = "try" /\ UNCHANGED <<registered, sending, room, peer>>
      BY <2>2, Zenon DEF TryRecv
    <3>2. (\E n \in 1 .. arrived : arrived' = arrived - n) \/ arrived' = arrived
      BY <2>2, Zenon DEF TryRecv
    <3>3. arrived' \in 0 .. MaxArrived
      BY <3>2, TcpSocketConstants DEF SocketInv, TypeOK
    <3> QED
      BY <3>1, <3>3
  <2> QED
    BY <2>1, <2>2
<1>2. \E s \in {"try", "arm", "done"}, c \in {"none", "failed"} :
        /\ op' = [op EXCEPT !["recv"] = s]
        /\ ec' = [ec EXCEPT !["recv"] = c] \/ ec' = ec
  <2>1. CASE Recv
    BY <2>1 DEF Recv
  <2>2. CASE TryRecv
    <3>1. CASE arrived > 0
      BY <2>2, <3>1, Zenon DEF TryRecv
    <3>2. CASE arrived = 0
      BY <2>2, <3>2, Zenon DEF TryRecv
    <3> QED
      BY <2>2, <3>1, <3>2, Zenon DEF TryRecv
  <2> QED
    BY <2>1, <2>2
<1>3. op'["send"] = op["send"] /\ ec'["send"] = ec["send"]
  BY <1>1, <1>2 DEF SocketInv, TypeOK, Directions
<1>4. TypeOK'
  BY <1>1, <1>2 DEF SocketInv, TypeOK, sending, Directions
<1>5. WaitsRegistered' /\ Registrations'
  BY <1>1, <1>3, <1>2
     DEF SocketInv, TypeOK, WaitsRegistered, Registrations, Directions
<1> QED
  BY <1>1, <1>3, <1>4, <1>5 DEF SocketInv, Progress, SendExact, sending

LEMMA SendPreserves ==
  ASSUME SocketInv, NEW n \in 0 .. MaxSize, NEW part \in BOOLEAN, Send(n, part)
  PROVE  SocketInv'
<1>1. TypeOK'
  BY TcpSocketConstants DEF SocketInv, TypeOK, Send, kernel, Directions
<1>2. SendExact' /\ Progress'
  BY TcpSocketConstants
     DEF SocketInv, TypeOK, Send, SendExact, Progress, Directions
<1>3. WaitsRegistered' /\ Registrations'
  BY
     DEF SocketInv, TypeOK, Send, WaitsRegistered, Registrations,
         Directions
<1> QED
  BY <1>1, <1>2, <1>3 DEF SocketInv

LEMMA TrySendPreserves == ASSUME SocketInv, TrySend PROVE SocketInv'
<1>1. /\ op["send"] = "try"
      /\ \E s \in {"arm", "done"} : op' = [op EXCEPT !["send"] = s]
      /\ \E c \in {"none", "failed"} : ec' = [ec EXCEPT !["send"] = c] \/ ec' = ec
      /\ UNCHANGED <<registered, some, size, arrived, peer>>
  BY DEF TrySend
<1>2. WaitsRegistered' /\ Registrations'
  BY <1>1 DEF SocketInv, TypeOK, WaitsRegistered, Registrations, Directions
<1>3. ASSUME NEW n \in 1 .. room, n <= left,
             wire' = wire \o [i \in 1 .. n |-> data + i],
             data' = data + n, left' = left - n, sent' = sent + n, room' = room - n,
             op' = [op EXCEPT !["send"] = IF some \/ n = left THEN "done" ELSE "arm"],
             ec' = ec
      PROVE  SocketInv'
  <2>1. /\ data \in Nat /\ left \in Nat /\ sent \in Nat /\ size \in Nat /\ n \in Nat
        /\ room \in Nat /\ MaxSize \in Nat /\ Capacity \in Nat
        /\ data = sent /\ left = size - sent /\ size <= MaxSize /\ room <= Capacity
    BY TcpSocketConstants DEF SocketInv, TypeOK, Progress
  <2>2. wire' = Numbered(sent')
    BY <1>3, <2>1, NumberedExtends DEF SocketInv, SendExact, Numbered
  <2>3. sent' \in Nat /\ sent' <= size /\ sent' <= MaxSize
    BY <1>3, <2>1
  <2>4. wire' \in Seq(1 .. MaxSize)
    BY <2>1, <2>2, <2>3, NumberedTyped
  <2>5. data' \in 0 .. size /\ left' \in 0 .. size - data' /\ sent' \in 0 .. size
        /\ room' \in 0 .. Capacity
    BY <1>3, <2>1
  <2>6. TypeOK'
    BY <1>1, <1>3, <2>4, <2>5 DEF SocketInv, TypeOK, Directions
  <2>7. Progress'
    BY <1>1, <1>3, <2>1 DEF Progress
  <2>8. op'["send"] = "done" => some \/ n = left
    BY <1>3 DEF SocketInv, TypeOK, Directions
  <2>9. SendExact'
    <3>1. op'["send"] = "done" => sent' = size' \/ (some' /\ sent' > 0)
      BY <1>1, <1>3, <2>1, <2>8
    <3> QED
      BY <2>2, <3>1 DEF SendExact, Numbered
  <2> QED
    BY <1>2, <2>6, <2>7, <2>9 DEF SocketInv
<1>4. ASSUME UNCHANGED <<wire, data, left, sent, room>>,
             op' = [op EXCEPT !["send"] = IF left = 0 \/ Broken THEN "done" ELSE "arm"],
             ec' = [ec EXCEPT !["send"] = IF left > 0 /\ Broken THEN "failed" ELSE "none"]
      PROVE  SocketInv'
  <2>1. TypeOK' /\ Progress'
    BY <1>1, <1>4 DEF SocketInv, TypeOK, Progress, Directions
  <2>2. op'["send"] = "done" /\ ec'["send"] = "none" => left = 0
    BY <1>4 DEF SocketInv, TypeOK, Directions
  <2>3. left = 0 => sent = size
    BY DEF SocketInv, TypeOK, Progress
  <2>4. SendExact'
    BY <1>1, <1>4, <2>2, <2>3 DEF SocketInv, SendExact
  <2> QED
    BY <1>2, <2>1, <2>4 DEF SocketInv
<1> QED
  BY <1>3, <1>4 DEF TrySend

LEMMA ArmPreserves == ASSUME SocketInv, NEW d \in Directions, Arm(d) PROVE SocketInv'
<1>1. UNCHANGED <<sending, kernel>> /\ op[d] = "arm"
  BY DEF Arm
<1>2. CASE Backend = "epoll" /\ registered # {}
  <2>1. /\ ec' = [ec EXCEPT ![d] = "exists"]
        /\ op' = [op EXCEPT ![d] = "done"]
        /\ registered' = registered
    BY <1>2 DEF Arm
  <2>2. TypeOK' /\ Progress'
    BY <1>1, <2>1
       DEF SocketInv, TypeOK, Progress, sending, kernel, Directions
  <2>3. SendExact'
    BY <1>1, <2>1
       DEF SocketInv, TypeOK, SendExact, sending, Directions
  <2>4. WaitsRegistered' /\ Registrations'
    BY <1>1, <2>1
       DEF SocketInv, TypeOK, WaitsRegistered, Registrations, Directions
  <2> QED
    BY <2>2, <2>3, <2>4 DEF SocketInv
<1>3. CASE ~ (Backend = "epoll" /\ registered # {})
  <2>1. /\ op' = [op EXCEPT ![d] = "armed"]
        /\ registered' = registered \cup {d}
        /\ ec' = ec
    BY <1>3 DEF Arm
  <2>2. TypeOK' /\ Progress'
    BY <1>1, <2>1
       DEF SocketInv, TypeOK, Progress, sending, kernel, Directions
  <2>3. SendExact'
    BY <1>1, <2>1
       DEF SocketInv, TypeOK, SendExact, sending, Directions
  <2>4. WaitsRegistered'
    BY <1>1, <2>1 DEF SocketInv, TypeOK, WaitsRegistered, Directions
  <2>5. Registrations'
    BY <1>1, <1>3, <2>1, TcpSocketConstants
       DEF SocketInv, TypeOK, Registrations, Directions
  <2> QED
    BY <2>2, <2>3, <2>4, <2>5 DEF SocketInv
<1> QED
  BY <1>2, <1>3

LEMMA FirePreserves ==
  ASSUME SocketInv, NEW d \in Directions, Fire(d) PROVE SocketInv'
<1>1. /\ UNCHANGED <<ec, sending, kernel>>
      /\ op[d] = "armed" /\ d \in registered
      /\ op' = [op EXCEPT ![d] = "fired"]
      /\ registered' = IF Backend = "kqueue" THEN registered \ {d} ELSE registered
  BY DEF Fire
<1>2. TypeOK' /\ Progress'
  BY <1>1
     DEF SocketInv, TypeOK, Progress, sending, kernel, Directions
<1>3. SendExact'
  BY <1>1 DEF SocketInv, TypeOK, SendExact, sending, Directions
<1>4. WaitsRegistered' /\ Registrations'
  BY <1>1, TcpSocketConstants
     DEF SocketInv, TypeOK, WaitsRegistered, Registrations, Directions
<1> QED
  BY <1>2, <1>3, <1>4 DEF SocketInv

LEMMA DispatchPreserves ==
  ASSUME SocketInv, NEW d \in Directions, Dispatch(d) PROVE SocketInv'
<1>1. /\ UNCHANGED <<ec, sending, kernel>>
      /\ op[d] = "fired"
      /\ op' = [op EXCEPT ![d] = "try"]
      /\ registered' = IF Backend = "epoll" THEN {} ELSE registered
  BY DEF Dispatch
<1>2. TypeOK' /\ Progress'
  BY <1>1
     DEF SocketInv, TypeOK, Progress, sending, kernel, Directions
<1>3. SendExact'
  BY <1>1 DEF SocketInv, TypeOK, SendExact, sending, Directions
<1>4. WaitsRegistered' /\ Registrations'
  BY <1>1, TcpSocketConstants
     DEF SocketInv, TypeOK, WaitsRegistered, Registrations, Directions
<1> QED
  BY <1>2, <1>3, <1>4 DEF SocketInv

LEMMA FinishPreserves ==
  ASSUME SocketInv, NEW d \in Directions, Finish(d) PROVE SocketInv'
<1>1. /\ UNCHANGED <<ec, registered, sending, kernel>>
      /\ op[d] = "done"
      /\ op' = [op EXCEPT ![d] = "idle"]
  BY DEF Finish
<1>2. TypeOK' /\ Progress'
  BY <1>1
     DEF SocketInv, TypeOK, Progress, sending, kernel, Directions
<1>3. SendExact'
  BY <1>1 DEF SocketInv, TypeOK, SendExact, sending, Directions
<1>4. WaitsRegistered' /\ Registrations'
  BY <1>1 DEF SocketInv, TypeOK, WaitsRegistered, Registrations, Directions
<1> QED
  BY <1>2, <1>3, <1>4 DEF SocketInv

LEMMA SocketNext == SocketInv /\ [Next]_vars => SocketInv'
<1> SUFFICES ASSUME SocketInv, [Next]_vars PROVE SocketInv'
  OBVIOUS
<1>1. CASE Arrive \/ Drain \/ PeerEnds
  BY <1>1, NetworkPreserves
<1>2. CASE Recv \/ TryRecv
  BY <1>2, RecvPreserves
<1>3. CASE \E n \in 0 .. MaxSize, part \in BOOLEAN : Send(n, part)
  BY <1>3, SendPreserves
<1>4. CASE TrySend
  BY <1>4, TrySendPreserves
<1>5. CASE \E d \in Directions :
             Arm(d) \/ Fire(d) \/ Dispatch(d) \/ Finish(d)
  BY <1>5, ArmPreserves, FirePreserves, DispatchPreserves, FinishPreserves
<1>6. CASE UNCHANGED vars
  BY <1>6
     DEF SocketInv, TypeOK, Progress, SendExact, WaitsRegistered, Registrations, Directions,
         vars, event, sending, kernel
<1> QED
  BY <1>1, <1>2, <1>3, <1>4, <1>5, <1>6 DEF Next

LEMMA SocketInvariance == Spec => []SocketInv
BY SocketInit, SocketNext, PTL DEF Spec

-----------------------------------------------------------------------------

(* The members of the operations keep their types, and buffer_ never       *)
(* leaves the caller's buffer (tcp/socket.cpp 268-285).                    *)
THEOREM TypeCorrectness == Spec => []TypeOK
<1>1. SocketInv => TypeOK
  BY DEF SocketInv
<1> QED
  BY <1>1, SocketInvariance, PTL

(* A send of any size puts the bytes of its buffer on the stream in order  *)
(* and once, and counts them (tcp/socket.cpp 268-285 and 331-348).         *)
THEOREM SendsExact == Spec => []SendExact
<1>1. SocketInv => SendExact
  BY DEF SocketInv
<1> QED
  BY <1>1, SocketInvariance, PTL

(* A suspended operation is registered and an operation that is not        *)
(* suspended is not, on both back ends (event.cpp 27-70).                  *)
THEOREM WaitersRegistered == Spec => []WaitsRegistered
<1>1. SocketInv => WaitsRegistered
  BY DEF SocketInv
<1> QED
  BY <1>1, SocketInvariance, PTL

-----------------------------------------------------------------------------
(* The connection. *)

(* The members of handle() and respond(), of the mutex, and what the       *)
(* bounds leave of the client.                                             *)
Places ==
  /\ handle \in {"call", "recv", "parse", "finish", "lock", "close", "over"}
  /\ todo \in 0 .. MaxArrived
  /\ respond \in [Requests -> {"none", "lock", "wait", "send", "sending", "unlock",
                               "unlocking", "over"}]
  /\ queue \in Seq(Coroutines)
  /\ stack \in Seq(Coroutines)
  /\ stream \in Seq(Requests)
  /\ asked \in 0 .. MaxRequests

(* close() leaves the events of the socket without a registration.         *)
Socket ==
  IF handle = "over"
  THEN TypeOK /\ registered = {} /\ \A d \in Directions : op[d] # "fired"
  ELSE SocketInv

(* Whoever is below the top of the stack has called or resumed the one     *)
(* above it: handle() only while it starts responses, a response only when *)
(* it unlocks the mutex.                                                   *)
Calls ==
  /\ \A i, j \in 1 .. Len(stack) : stack[i] = stack[j] => i = j
  /\ \A i \in 1 .. Len(stack) - 1 :
       \/ stack[i] = Handle /\ i = 1 /\ handle = "parse"
       \/ stack[i] \in Requests /\ respond[stack[i]] = "unlocking"
  /\ Runs(Handle) =>
       handle = "close" \/ (Len(stack) = 1 /\ handle \in {"call", "recv", "parse", "finish"})
  /\ \A r \in Requests : Runs(r) =>
       respond[r] \in {"lock", "send", "sending", "unlock", "unlocking"}
  /\ handle = "over" =>
       \A i \in 1 .. Len(stack) : stack[i] \in Requests /\ respond[stack[i]] = "unlocking"

(* A new respond() runs at once.                                           *)
Locking == \A r \in Requests : respond[r] = "lock" => Runs(r) /\ handle = "parse"

(* The first f responses are over, the others of the first l wait behind   *)
(* the one that sends, in their order, and handle() behind them.           *)
Order(f, l) ==
  /\ f <= l
  /\ \A r \in Requests :
       /\ r <= f => respond[r] \in {"unlocking", "over"}
       /\ r = f + 1 /\ r <= l => respond[r] \in {"send", "sending", "unlock"}
       /\ f + 1 < r /\ r <= l => respond[r] = "wait"
       /\ r = l + 1 => respond[r] \in {"none", "lock"}
       /\ l + 1 < r => respond[r] = "none"
  /\ f < l =>
       /\ owner = f + 1
       /\ Len(queue) = IF handle = "lock" THEN l - f ELSE l - f - 1
       /\ \A i \in 1 .. l - f - 1 : queue[i] = f + 1 + i
       /\ handle = "lock" => queue[l - f] = Handle
  /\ f = l =>
       /\ owner \in {None, Handle} /\ queue = <<>> /\ handle # "lock"
       /\ owner = Handle => handle \in {"close", "over"}

(* While the connection is good, all of the first f responses are on the   *)
(* stream, and what the one that sends has sent.                           *)
Counted(f) ==
  ~ Broken =>
    Len(stream) = ResponseSize * f +
                  (IF owner \in Requests /\ respond[owner] \in {"sending", "unlock"}
                   THEN sent ELSE 0)

Lined == \E f, l \in 0 .. MaxRequests : Order(f, l) /\ Counted(f)

(* The send is that of the owner of the mutex, and it ends early only when *)
(* the connection is broken.                                               *)
Sends ==
  /\ op["send"] # "idle" =>
       /\ owner \in Requests /\ respond[owner] = "sending"
       /\ some = FALSE /\ size = ResponseSize
  /\ op["send"] \in {"try", "arm", "done"} => Runs(owner)
  /\ ~ Broken =>
       /\ op["send"] = "done" => sent = ResponseSize
       /\ owner \in Requests /\ respond[owner] = "unlock" => sent = ResponseSize

(* On epoll a send never meets the registration of recv, although recv may *)
(* meet that of a send.                                                    *)
Receives ==
  /\ op["recv"] # "idle" => handle = "recv"
  /\ \A d \in Directions : op[d] = "fired" => stack = <<>>
  /\ ~ (op["recv"] = "fired" /\ op["send"] = "fired")
  /\ Backend = "epoll" /\ op["recv"] \in {"armed", "fired"} =>
       op["send"] = "idle" /\ stack = <<>>

(* Every response is to a request that was read.                           *)
Reads ==
  /\ todo + arrived <= asked
  /\ \A r \in Requests : respond[r] # "none" => r + todo + arrived <= asked

(* The inductive invariant of the connection. *)
ConnInv ==
  /\ Places /\ Socket /\ Calls /\ Locking /\ Lined /\ Sends /\ Receives /\ Reads
  /\ ResponsesWhole

(* Without an error of recv, handle() ends with the mutex.                 *)
Quiet ==
  /\ peer # "failed" /\ ec["recv"] = "none"
  /\ handle \in {"close", "over"} => owner = Handle

-----------------------------------------------------------------------------
(* What the proofs need of names, arithmetic and stacks. *)

LEMMA Names ==
  /\ MaxRequests \in Nat /\ ResponseSize \in Nat
  /\ Handle \notin Requests /\ None \notin Requests /\ Handle # None
  /\ None \notin Coroutines /\ Handle \in Coroutines /\ Requests \subseteq Coroutines
BY ConnectionConstants, TcpSocketConstants DEF Coroutines, ResponseSize

LEMMA Popped ==
  ASSUME NEW S, NEW s \in Seq(S), s # <<>>
  PROVE  /\ Front(s) \in Seq(S) /\ Len(Front(s)) = Len(s) - 1
         /\ \A i \in 1 .. Len(s) - 1 : Front(s)[i] = s[i]
         /\ Len(s) \in Nat \ {0} /\ Last(s) = s[Len(s)] /\ Last(s) \in S
         /\ Front(s) = <<>> <=> Len(s) = 1
         /\ Front(s) # <<>> => Last(Front(s)) = s[Len(s) - 1]
<1>1. Len(s) \in Nat \ {0}
  BY EmptySeq
<1>2. /\ Front(s) \in Seq(S) /\ Len(Front(s)) = Len(s) - 1
      /\ \A i \in 1 .. Len(s) - 1 : Front(s)[i] = s[i]
  <2> DEFINE n == Len(s) - 1
  <2>1. n \in Nat /\ Front(s) = SubSeq(s, 1, n)
    BY <1>1 DEF Front
  <2>2. \A i \in 1 .. n : s[i] \in S
    BY <1>1
  <2> HIDE DEF n
  <2>3. /\ SubSeq(s, 1, n) \in Seq(S)
        /\ Len(SubSeq(s, 1, n)) = IF 1 <= n THEN n - 1 + 1 ELSE 0
        /\ \A i \in 1 .. n - 1 + 1 : SubSeq(s, 1, n)[i] = s[1 + i - 1]
    BY <2>1, <2>2, SubSeqProperties
  <2>4. Len(Front(s)) = n /\ Front(s) \in Seq(S) /\ \A i \in 1 .. n : Front(s)[i] = s[i]
    BY <2>1, <2>3
  <2> QED  BY <2>4 DEF n
<1>3. Front(s) = <<>> <=> Len(s) = 1
  BY <1>1, <1>2, EmptySeq
<1>4. Last(s) = s[Len(s)] /\ Last(s) \in S
  BY <1>1 DEF Last
<1>5. Front(s) # <<>> => Last(Front(s)) = s[Len(s) - 1]
  BY <1>1, <1>2, <1>3 DEF Last
<1> QED  BY <1>1, <1>2, <1>3, <1>4, <1>5

LEMMA Pushed ==
  ASSUME NEW S, NEW s \in Seq(S), NEW c \in S
  PROVE  /\ Append(s, c) \in Seq(S) /\ Len(Append(s, c)) = Len(s) + 1
         /\ \A i \in 1 .. Len(s) : Append(s, c)[i] = s[i]
         /\ Append(s, c)[Len(s) + 1] = c /\ Last(Append(s, c)) = c /\ Append(s, c) # <<>>
<1>1. /\ Append(s, c) \in Seq(S) /\ Len(Append(s, c)) = Len(s) + 1
      /\ \A i \in 1 .. Len(s) : Append(s, c)[i] = s[i]
      /\ Append(s, c)[Len(s) + 1] = c
  BY AppendProperties
<1> QED  BY <1>1, EmptySeq DEF Last

(* Who runs is the last on the stack. *)
LEMMA OnTop ==
  ASSUME Places, NEW c, Runs(c)
  PROVE  /\ c \in Coroutines /\ Len(stack) \in Nat \ {0} /\ stack[Len(stack)] = c
         /\ \A d : Runs(d) => d = c
BY Popped DEF Places, Runs

(* A coroutine that goes on, and stays on the thread. *)
LEMMA CallsKept ==
  ASSUME Places, Calls, NEW c, Runs(c), stack' = stack, handle # "over",
         \A r \in Requests \ {c} : respond[r] = "unlocking" => respond'[r] = "unlocking",
         c # Handle => handle' = handle,
         c = Handle => \/ handle' = "close"
                       \/ /\ handle \in {"call", "recv", "parse", "finish"}
                          /\ handle' \in {"call", "recv", "parse", "finish"},
         c \in Requests => respond'[c] \in {"lock", "send", "sending", "unlock", "unlocking"}
  PROVE  Calls'
<1>1. c \in Coroutines /\ Len(stack) \in Nat \ {0} /\ stack[Len(stack)] = c
      /\ Len(stack) \in 1 .. Len(stack) /\ 1 .. Len(stack) - 1 \subseteq 1 .. Len(stack)
  BY OnTop
<1>2. \A d : Runs(d)' => d = c
  BY OnTop DEF Runs
<1>3. ASSUME NEW i \in 1 .. Len(stack) - 1
      PROVE  \/ stack[i] = Handle /\ i = 1 /\ handle' = "parse"
             \/ stack[i] \in Requests /\ respond'[stack[i]] = "unlocking"
  <2>1. stack[i] # c
    BY <1>1 DEF Calls
  <2> QED  BY <2>1 DEF Calls
<1>4. Runs(Handle)' =>
        handle' = "close" \/ (Len(stack) = 1 /\ handle' \in {"call", "recv", "parse", "finish"})
  BY <1>2 DEF Calls
<1>5. handle' # "over"
  BY Names DEF Coroutines
<1> QED  BY <1>2, <1>3, <1>4, <1>5 DEF Calls

(* A coroutine that suspends or ends leaves the thread to the one below. *)
LEMMA CallsPopped ==
  ASSUME Places, Calls, NEW c, Runs(c), stack' = Front(stack),
         \A r \in Requests \ {c} : respond[r] = "unlocking" => respond'[r] = "unlocking",
         \/ handle' = handle
         \/ c = Handle /\ (Len(stack) = 1 \/ handle # "parse")
  PROVE  Calls'
<1>1. c \in Coroutines /\ Len(stack) \in Nat \ {0} /\ stack[Len(stack)] = c
      /\ Len(stack) \in 1 .. Len(stack) /\ 1 .. Len(stack) - 1 \subseteq 1 .. Len(stack)
  BY OnTop
<1>2. /\ Len(stack') = Len(stack) - 1
      /\ \A i \in 1 .. Len(stack) - 1 : stack'[i] = stack[i]
      /\ stack' # <<>> => Last(stack') = stack[Len(stack) - 1] /\ Len(stack) # 1
  BY Popped DEF Places, Runs
<1>3. ASSUME NEW i \in 1 .. Len(stack) - 1
      PROVE  \/ stack[i] = Handle /\ i = 1 /\ handle' = "parse" /\ handle = "parse"
             \/ stack[i] \in Requests /\ respond'[stack[i]] = "unlocking"
  <2>1. stack[i] # c
    BY <1>1 DEF Calls
  <2>2. CASE stack[i] = Handle /\ i = 1 /\ handle = "parse"
    <3>1. Len(stack) # 1
      BY <1>1
    <3> QED  BY <2>1, <2>2, <3>1
  <2>3. CASE stack[i] \in Requests /\ respond[stack[i]] = "unlocking"
    BY <2>1, <2>3
  <2> QED  BY <2>2, <2>3 DEF Calls
<1>4. ASSUME NEW d, Runs(d)' PROVE Len(stack) # 1 /\ d = stack[Len(stack) - 1]
                                   /\ Len(stack) - 1 \in 1 .. Len(stack) - 1
  BY <1>1, <1>2, <1>4 DEF Runs
<1>5. Runs(Handle)' => Len(stack') = 1 /\ handle' = "parse"
  <2>1. Runs(Handle)' => Len(stack) - 1 = 1 /\ handle' = "parse"
    <3> SUFFICES ASSUME Runs(Handle)' PROVE Len(stack) - 1 = 1 /\ handle' = "parse"
      OBVIOUS
    <3>1. Handle = stack[Len(stack) - 1] /\ Len(stack) - 1 \in 1 .. Len(stack) - 1
      BY <1>4
    <3> QED  BY <1>3, <3>1, Names
  <2> QED  BY <2>1, <1>2
<1>6. ASSUME NEW r \in Requests, Runs(r)' PROVE respond'[r] = "unlocking"
  <2>1. r = stack[Len(stack) - 1] /\ Len(stack) - 1 \in 1 .. Len(stack) - 1
    BY <1>4, <1>6
  <2> QED  BY <1>3, <2>1, Names
<1>7. handle' = "over" =>
        \A i \in 1 .. Len(stack') : stack'[i] \in Requests /\ respond'[stack'[i]] = "unlocking"
  BY <1>2, <1>3
<1>8. \A i, j \in 1 .. Len(stack') : stack'[i] = stack'[j] => i = j
  BY <1>1, <1>2 DEF Calls
<1>9. \A i \in 1 .. Len(stack') - 1 :
        \/ stack'[i] = Handle /\ i = 1 /\ handle' = "parse"
        \/ stack'[i] \in Requests /\ respond'[stack'[i]] = "unlocking"
  BY <1>1, <1>2, <1>3
<1> QED  BY <1>5, <1>6, <1>7, <1>8, <1>9 DEF Calls

(* A coroutine that calls or resumes another one. *)
LEMMA CallsPushed ==
  ASSUME Places, Calls, NEW c, Runs(c), handle # "over", handle' # "over",
         NEW e \in Coroutines, stack' = Append(stack, e),
         \A i \in 1 .. Len(stack) : stack[i] # e,
         \A r \in Requests \ {c} : respond[r] = "unlocking" => respond'[r] = "unlocking",
         e # Handle => handle' = handle,
         c = Handle => Len(stack) = 1 /\ handle = "parse",
         c \in Requests => respond'[c] = "unlocking",
         e = Handle => handle' = "close" /\ handle # "parse",
         e \in Requests => respond'[e] \in {"lock", "send"}
  PROVE  Calls'
<1>1. c \in Coroutines /\ Len(stack) \in Nat \ {0} /\ stack[Len(stack)] = c
      /\ Len(stack) \in 1 .. Len(stack) /\ 1 .. Len(stack) - 1 \subseteq 1 .. Len(stack)
  BY OnTop
<1>2. /\ Len(stack') = Len(stack) + 1
      /\ \A i \in 1 .. Len(stack) : stack'[i] = stack[i]
      /\ stack'[Len(stack) + 1] = e /\ Last(stack') = e /\ stack' # <<>>
  BY Pushed DEF Places
<1>3. ASSUME NEW i \in 1 .. Len(stack)
      PROVE  \/ stack[i] = Handle /\ i = 1 /\ handle' = "parse"
             \/ stack[i] \in Requests /\ respond'[stack[i]] = "unlocking"
  <2>1. CASE stack[i] = c
    <3>1. i = Len(stack)
      BY <1>1, <2>1 DEF Calls
    <3> QED  BY <2>1, <3>1, Names, <1>1 DEF Coroutines
  <2>2. CASE stack[i] # c
    <3>1. i \in 1 .. Len(stack) - 1
      BY <1>1, <2>2
    <3>2. CASE stack[i] = Handle /\ i = 1 /\ handle = "parse"
      BY <3>2
    <3>3. CASE stack[i] \in Requests /\ respond[stack[i]] = "unlocking"
      BY <2>2, <3>3
    <3> QED  BY <3>1, <3>2, <3>3 DEF Calls
  <2> QED  BY <2>1, <2>2
<1>4. \A i, j \in 1 .. Len(stack') : stack'[i] = stack'[j] => i = j
  <2>1. \A i \in 1 .. Len(stack') : i \in 1 .. Len(stack) \/ i = Len(stack) + 1
    BY <1>1, <1>2
  <2> QED  BY <2>1, <1>2 DEF Calls
<1>5. \A i \in 1 .. Len(stack') - 1 :
        \/ stack'[i] = Handle /\ i = 1 /\ handle' = "parse"
        \/ stack'[i] \in Requests /\ respond'[stack'[i]] = "unlocking"
  BY <1>1, <1>2, <1>3
<1>6. \A d : Runs(d)' => d = e
  BY <1>2 DEF Runs
<1> QED  BY <1>4, <1>5, <1>6 DEF Calls

(* What the coroutine that runs may be, and that the socket is open then. *)
LEMMA Running ==
  ASSUME ConnInv, NEW c, Runs(c), c = Handle \/ respond[c] # "unlocking"
  PROVE  handle # "over" /\ SocketInv
<1>1. stack[Len(stack)] = c /\ Len(stack) \in 1 .. Len(stack)
  BY OnTop DEF ConnInv
<1>2. handle # "over"
  BY <1>1, Names DEF ConnInv, Calls
<1> QED  BY <1>2 DEF ConnInv, Socket

(* What a step that is no response's does to the order of the responses.   *)
LEMMA LinedKept ==
  ASSUME Lined, UNCHANGED <<respond, owner, queue, stream, sent>>,
         handle' = "lock" <=> handle = "lock",
         handle \in {"close", "over"} => handle' \in {"close", "over"},
         Broken => Broken'
  PROVE  Lined'
<1>1. PICK f, l \in 0 .. MaxRequests : Order(f, l) /\ Counted(f)
  BY DEF Lined
<1>2. Order(f, l)'
  BY <1>1 DEF Order
<1>3. Counted(f)'
  BY <1>1 DEF Counted
<1> QED  BY <1>2, <1>3 DEF Lined

-----------------------------------------------------------------------------
(* The start, the client and the loop. *)

LEMMA ConnInvInit == ConnectionInit => ConnInv
<1> SUFFICES ASSUME ConnectionInit PROVE ConnInv
  OBVIOUS
<1>1. /\ handle = "call" /\ todo = 0 /\ respond = [r \in Requests |-> "none"]
      /\ owner = None /\ queue = <<>> /\ stack = <<Handle>> /\ stream = <<>> /\ asked = 0
      /\ op["recv"] = "idle" /\ op["send"] = "idle" /\ arrived = 0 /\ peer = "open"
      /\ sent = 0
  BY DEF ConnectionInit, Init, Directions
<1>2. Socket
  BY <1>1, SocketInit DEF ConnectionInit, Socket
<1>3. Len(stack) = 1 /\ stack[1] = Handle /\ Last(stack) = Handle /\ stack \in Seq(Coroutines)
  BY <1>1, Names DEF Last
<1>4. queue \in Seq(Coroutines) /\ stream \in Seq(Requests) /\ Len(stream) = 0 /\ Len(queue) = 0
  BY <1>1, EmptySeq
<1>5. Places
  BY <1>1, <1>3, <1>4, TcpSocketConstants, Names DEF Places
<1>6. Calls /\ Locking
  <2>1. \A i, j \in 1 .. Len(stack) : stack[i] = stack[j] => i = j
    BY <1>3
  <2>2. \A r \in Requests : ~ Runs(r)
    BY <1>3, Names DEF Runs
  <2> QED  BY <1>1, <1>3, <2>1, <2>2 DEF Calls, Locking
<1>7. Order(0, 0) /\ Counted(0)
  <2>1. Order(0, 0)
    BY <1>1, <1>4, Names DEF Order, Requests
  <2>2. Counted(0)
    BY <1>1, <1>4, Names DEF Counted
  <2> QED  BY <2>1, <2>2
<1>8. Lined
  BY <1>7, Names DEF Lined
<1>9. Sends /\ Receives /\ Reads
  BY <1>1, Names DEF Sends, Receives, Reads, Directions
<1>10. ResponsesWhole
  BY <1>1, <1>4 DEF ResponsesWhole
<1> QED  BY <1>2, <1>5, <1>6, <1>8, <1>9, <1>10 DEF ConnInv

(* The client does nothing to the coroutines.                              *)
LEMMA ClientPreserves == ASSUME ConnInv, Ask \/ ClientReads \/ ClientEnds PROVE ConnInv'
<1>1. /\ Arrive \/ Drain \/ PeerEnds
      /\ UNCHANGED <<handle, todo, respond, mutex, stack, stream>>
  BY DEF Ask, ClientReads, ClientEnds
<1>2. /\ UNCHANGED <<op, ec, registered, some, size, data, left, sent, wire>>
      /\ Broken => Broken'
  BY <1>1 DEF Arrive, Drain, PeerEnds, event, sending,
              Broken
<1>3. Socket'
  <2>1. CASE handle = "over"
    <3>1. TypeOK /\ MaxArrived \in Nat /\ Capacity \in Nat
      BY <2>1, TcpSocketConstants DEF ConnInv, Socket
    <3>2. arrived' \in 0 .. MaxArrived /\ room' \in 0 .. Capacity
          /\ peer' \in {"open", "eof", "reset", "failed"}
      <4>1. CASE Arrive
        BY <3>1, <4>1 DEF TypeOK, Arrive
      <4>2. CASE Drain
        BY <3>1, <4>2 DEF TypeOK, Drain
      <4>3. CASE PeerEnds
        BY <3>1, <4>3, TcpSocketConstants DEF TypeOK, PeerEnds
      <4> QED  BY <1>1, <4>1, <4>2, <4>3
    <3>3. TypeOK'
      BY <1>2, <3>1, <3>2 DEF TypeOK
    <3> QED  BY <1>1, <1>2, <2>1, <3>3 DEF ConnInv, Socket
  <2>2. CASE handle # "over"
    BY <1>1, <2>2, NetworkPreserves DEF ConnInv, Socket
  <2> QED  BY <2>1, <2>2
<1>4. Places' /\ Reads'
  <2>1. CASE Ask
    <3>1. asked \in Nat /\ asked < MaxRequests /\ asked' = asked + 1 /\ arrived' = arrived + 1
      BY <2>1, Names DEF Ask, ConnInv, Places, Arrive
    <3>2. asked' \in 0 .. MaxRequests
      BY <3>1, Names
    <3>3. todo \in Nat /\ arrived \in Nat
      BY TcpSocketConstants DEF ConnInv, Places, Socket, SocketInv, TypeOK
    <3>4. Places'
      BY <1>1, <3>2 DEF ConnInv, Places, mutex
    <3> QED  BY <1>1, <3>1, <3>3, <3>4 DEF ConnInv, Reads, Requests
  <2>2. CASE ClientReads \/ ClientEnds
    <3>1. UNCHANGED <<asked, arrived>>
      BY <2>2 DEF ClientReads, ClientEnds, Drain, PeerEnds
    <3> QED  BY <1>1, <3>1 DEF ConnInv, Places, Reads, mutex
  <2> QED  BY <2>1, <2>2
<1>5. Calls' /\ Locking' /\ Receives' /\ ResponsesWhole'
  BY <1>1, <1>2 DEF ConnInv, Calls, Locking, Receives, ResponsesWhole, Runs
<1>6. Sends'
  BY <1>1, <1>2 DEF ConnInv, Sends, Runs, mutex
<1>7. Lined'
  BY <1>1, <1>2, LinedKept DEF ConnInv, mutex
<1> QED  BY <1>3, <1>4, <1>5, <1>6, <1>7 DEF ConnInv

(* The thread receives an event while nothing runs.                        *)
LEMMA LoopReceivesKeeps == ASSUME ConnInv, NEW d \in Directions, LoopReceives(d) PROVE ConnInv'
<1>1. /\ stack = <<>> /\ \A e \in Directions : op[e] # "fired"
      /\ Fire(d)
      /\ UNCHANGED <<handle, todo, respond, owner, queue, stack, stream, asked>>
  BY DEF LoopReceives, mutex
<1>2. /\ op[d] = "armed" /\ d \in registered
      /\ op' = [op EXCEPT ![d] = "fired"]
      /\ UNCHANGED <<ec, some, size, data, left, sent, wire, arrived, room, peer>>
  BY <1>1 DEF Fire, sending, kernel
<1>3. handle # "over" /\ SocketInv
  BY <1>2 DEF ConnInv, Socket
<1>4. Socket'
  BY <1>1, <1>3, FirePreserves DEF Socket
<1>5. /\ op \in [Directions -> {"idle", "try", "arm", "armed", "fired", "done"}]
      /\ "recv" \in Directions /\ "send" \in Directions
  BY <1>3 DEF SocketInv, TypeOK, Directions
<1>6. Places' /\ Calls' /\ Locking' /\ ResponsesWhole' /\ Reads'
  BY <1>1, <1>2 DEF ConnInv, Places, Calls, Locking, ResponsesWhole, Runs, Reads
<1>7. Sends'
  <2>1. op'["send"] = op["send"] \/ (op["send"] = "armed" /\ op'["send"] = "fired")
    BY <1>2, <1>5
  <2>2. Broken' = Broken
    BY <1>2 DEF Broken
  <2> QED  BY <1>1, <1>2, <2>1, <2>2 DEF ConnInv, Sends, Runs
<1>8. Receives'
  <2>1. CASE d = "recv"
    <3>1. op'["recv"] = "fired" /\ op'["send"] = op["send"]
      BY <1>2, <1>5, <2>1
    <3> QED  BY <1>1, <1>2, <2>1, <3>1, <1>5 DEF ConnInv, Receives
  <2>2. CASE d = "send"
    <3>1. op'["send"] = "fired" /\ op'["recv"] = op["recv"]
      BY <1>2, <1>5, <2>2
    <3> QED  BY <1>1, <1>2, <2>2, <3>1, <1>5 DEF ConnInv, Receives
  <2> QED  BY <2>1, <2>2 DEF Directions
<1>9. Lined'
  BY <1>1, <1>2, LinedKept DEF ConnInv, Broken
<1> QED  BY <1>4, <1>6, <1>7, <1>8, <1>9 DEF ConnInv

(* The coroutine that waited for the event runs, alone.                    *)
LEMMA LoopDispatchesKeeps ==
  ASSUME ConnInv, NEW d \in Directions, LoopDispatches(d) PROVE ConnInv'
<1>1. /\ stack = <<>> /\ Dispatch(d)
      /\ stack' = <<IF d = "recv" THEN Handle ELSE owner>>
      /\ UNCHANGED <<handle, todo, respond, owner, queue, stream, asked>>
  BY DEF LoopDispatches, mutex
<1>2. /\ op[d] = "fired"
      /\ op' = [op EXCEPT ![d] = "try"]
      /\ UNCHANGED <<ec, some, size, data, left, sent, wire, arrived, room, peer>>
  BY <1>1 DEF Dispatch, sending, kernel
<1>3. handle # "over" /\ SocketInv
  BY <1>2 DEF ConnInv, Socket
<1>4. Socket'
  BY <1>1, <1>3, DispatchPreserves DEF Socket
<1>5. /\ op \in [Directions -> {"idle", "try", "arm", "armed", "fired", "done"}]
      /\ "recv" \in Directions /\ "send" \in Directions
  BY <1>3 DEF SocketInv, TypeOK, Directions
<1>6. PICK c \in Coroutines :
        /\ stack' = <<c>>
        /\ IF d = "recv" THEN c = Handle /\ handle = "recv"
                         ELSE c \in Requests /\ c = owner /\ respond[c] = "sending"
  <2>1. CASE d = "recv"
    BY <1>1, <1>2, <2>1, Names DEF ConnInv, Receives
  <2>2. CASE d = "send"
    BY <1>1, <1>2, <2>2, Names DEF ConnInv, Sends
  <2> QED  BY <2>1, <2>2 DEF Directions
<1>7. /\ Len(stack') = 1 /\ stack'[1] = c /\ Last(stack') = c /\ stack' # <<>>
      /\ stack' \in Seq(Coroutines)
  BY <1>6 DEF Last
<1>8. \A e : Runs(e)' <=> e = c
  BY <1>7 DEF Runs
<1>9. Places'
  BY <1>1, <1>7 DEF ConnInv, Places
<1>10. Calls'
  <2>1. \A i, j \in 1 .. Len(stack') : stack'[i] = stack'[j] => i = j
    BY <1>7
  <2>2. Runs(Handle)' => handle' = "recv"
    BY <1>1, <1>6, <1>8, Names
  <2>3. \A r \in Requests : Runs(r)' => respond'[r] = "sending"
    BY <1>1, <1>6, <1>8, Names
  <2> QED  BY <1>1, <1>3, <1>7, <2>1, <2>2, <2>3 DEF Calls
<1>11. Locking'
  <2>1. \A r \in Requests : respond[r] # "lock"
    BY <1>1 DEF ConnInv, Locking, Runs
  <2> QED  BY <1>1, <2>1 DEF Locking
<1>12. Sends' /\ Receives'
  <2>1. Broken' = Broken
    BY <1>2 DEF Broken
  <2>2. CASE d = "recv"
    <3>1. op'["recv"] = "try" /\ op'["send"] = op["send"]
      BY <1>2, <1>5, <2>2
    <3>2. op["send"] \notin {"try", "arm", "done", "fired"}
      BY <1>1, <1>2, <2>2 DEF ConnInv, Sends, Receives, Runs
    <3>3. Sends'
      BY <1>1, <1>2, <2>1, <3>1, <3>2 DEF ConnInv, Sends
    <3>4. Receives'
      BY <1>1, <1>2, <1>6, <2>2, <3>1, <3>2 DEF ConnInv, Receives, Directions
    <3> QED  BY <3>3, <3>4
  <2>3. CASE d = "send"
    <3>1. op'["send"] = "try" /\ op'["recv"] = op["recv"]
      BY <1>2, <1>5, <2>3
    <3>2. Sends'
      BY <1>1, <1>2, <1>6, <1>8, <2>1, <2>3, <3>1 DEF ConnInv, Sends
    <3>3. Receives'
      BY <1>1, <1>2, <1>6, <2>3, <3>1 DEF ConnInv, Receives, Directions
    <3> QED  BY <3>2, <3>3
  <2> QED  BY <2>2, <2>3 DEF Directions
<1>13. Lined' /\ Reads' /\ ResponsesWhole'
  BY <1>1, <1>2, LinedKept DEF ConnInv, Broken, Reads, ResponsesWhole
<1> QED  BY <1>4, <1>9, <1>10, <1>11, <1>12, <1>13 DEF ConnInv

-----------------------------------------------------------------------------
(* handle() *)

LEMMA AllRead ==
  ASSUME NEW m \in Nat, NEW t \in Nat, NEW a \in 0 .. m, NEW b \in 0 .. a
  PROVE  a - b \in 0 .. m /\ b \in Nat /\ (a - b) + b <= t + a
OBVIOUS

LEMMA FewerLeft ==
  ASSUME NEW t \in Nat, NEW a \in Nat, NEW u \in Nat, NEW b \in Nat, NEW q \in Nat,
         u + b <= t + a
  PROVE  /\ t + a <= q => u + b <= q
         /\ \A r \in Nat : r + t + a <= q => r + u + b <= q
OBVIOUS

(* What holds while handle() runs: no respond() does.                      *)
LEMMA HandleRuns ==
  ASSUME ConnInv, Runs(Handle)
  PROVE  /\ handle \in {"call", "recv", "parse", "finish", "close"} /\ SocketInv
         /\ \A r \in Requests : ~ Runs(r) /\ respond[r] # "lock"
         /\ op["send"] \notin {"try", "arm", "done", "fired"} /\ op["recv"] # "fired"
         /\ /\ op \in [Directions -> {"idle", "try", "arm", "armed", "fired", "done"}]
            /\ "recv" \in Directions /\ "send" \in Directions
         /\ todo \in Nat /\ arrived \in Nat
<1>1. \A d : Runs(d) => d = Handle
  BY OnTop DEF ConnInv
<1>2. handle # "over" /\ SocketInv
  BY Running
<1>3. \A r \in Requests : ~ Runs(r) /\ respond[r] # "lock"
  BY <1>1, Names DEF ConnInv, Locking
<1>4. /\ op \in [Directions -> {"idle", "try", "arm", "armed", "fired", "done"}]
      /\ "recv" \in Directions /\ "send" \in Directions
      /\ arrived \in Nat
  BY <1>2, TcpSocketConstants DEF SocketInv, TypeOK, Directions
<1>5. op["send"] \notin {"try", "arm", "done", "fired"} /\ op["recv"] # "fired"
  BY <1>1, <1>4, Names DEF ConnInv, Sends, Receives, Runs
<1> QED  BY <1>2, <1>3, <1>4, <1>5, TcpSocketConstants DEF ConnInv, Places, Calls

(* A step of handle() that neither suspends it nor calls respond().        *)
LEMMA HandleGoesOn ==
  ASSUME ConnInv, Runs(Handle), SocketInv', handle \in {"call", "recv", "parse", "finish"},
         handle' \in {"call", "recv", "parse", "finish", "close"},
         UNCHANGED <<respond, owner, queue, stack, stream, asked>>,
         UNCHANGED <<some, size, sent, peer>>,
         op'["send"] = op["send"], op'["recv"] \notin {"armed", "fired"},
         op'["recv"] # "idle" => handle' = "recv",
         todo' \in 0 .. MaxArrived, arrived' \in Nat, todo' + arrived' <= todo + arrived
  PROVE  ConnInv'
<1>1. SocketInv /\ \A r \in Requests : ~ Runs(r) /\ respond[r] # "lock"
  BY HandleRuns
<1>2. op["send"] \notin {"try", "arm", "done", "fired"}
  BY HandleRuns
<1>3. Places' /\ Socket' /\ Locking' /\ ResponsesWhole'
  BY <1>1 DEF ConnInv, Places, Socket, Locking, ResponsesWhole
<1>4. Calls'
  BY CallsKept, Names DEF ConnInv
<1>5. Broken' = Broken
  BY DEF Broken
<1>6. Lined'
  BY <1>5, LinedKept DEF ConnInv
<1>7. Sends'
  BY <1>2, <1>5 DEF ConnInv, Sends, Runs
<1>8. Receives'
  BY <1>2 DEF Receives, Directions
<1>9. Reads'
  <2>1. /\ todo \in Nat /\ todo' \in Nat /\ arrived \in Nat /\ asked \in Nat
        /\ Requests \subseteq Nat
    BY HandleRuns, TcpSocketConstants, Names DEF ConnInv, Places, Requests
  <2>2. todo + arrived <= asked
        /\ \A r \in Requests : respond[r] # "none" => r + todo + arrived <= asked
    BY DEF ConnInv, Reads
  <2>3. todo' + arrived' <= asked /\ \A r \in Requests : respond[r] # "none" =>
          r + todo' + arrived' <= asked
    BY <2>1, <2>2, FewerLeft
  <2> QED  BY <2>3 DEF Reads
<1> QED  BY <1>3, <1>4, <1>6, <1>7, <1>8, <1>9 DEF ConnInv

LEMMA HandleRecvKeeps == ASSUME ConnInv, HandleRecv PROVE ConnInv'
<1>1. /\ Runs(Handle) /\ handle = "call" /\ handle' = "recv" /\ Recv
      /\ UNCHANGED <<todo, respond, owner, queue, stack, stream, asked>>
  BY DEF HandleRecv, mutex
<1>2. /\ op' = [op EXCEPT !["recv"] = "try"]
      /\ UNCHANGED <<some, size, sent, peer, arrived>>
  BY <1>1 DEF Recv, sending, kernel
<1>3. SocketInv' /\ op'["recv"] = "try" /\ op'["send"] = op["send"]
  BY <1>1, <1>2, HandleRuns, RecvPreserves
<1>4. todo' \in 0 .. MaxArrived /\ arrived' \in Nat /\ todo' + arrived' <= todo + arrived
  BY <1>1, <1>2, HandleRuns DEF ConnInv, Places
<1> QED  BY <1>1, <1>2, <1>3, <1>4, HandleGoesOn

LEMMA HandleTryKeeps == ASSUME ConnInv, HandleTry PROVE ConnInv'
<1>1. /\ Runs(Handle) /\ handle = "recv" /\ TryRecv /\ todo' = arrived - arrived'
      /\ UNCHANGED <<handle, respond, owner, queue, stack, stream, asked>>
  BY DEF HandleTry, mutex
<1>2. SocketInv /\ arrived \in 0 .. MaxArrived /\ MaxArrived \in Nat
  BY <1>1, HandleRuns, TcpSocketConstants DEF SocketInv, TypeOK
<1>3. /\ UNCHANGED <<some, size, sent, peer>>
      /\ (\E n \in 1 .. arrived : arrived' = arrived - n) \/ arrived' = arrived
      /\ \E s \in {"arm", "done"} : op' = [op EXCEPT !["recv"] = s]
  <2>1. UNCHANGED <<some, size, sent, peer>>
    BY <1>1 DEF TryRecv, sending
  <2>2. (\E n \in 1 .. arrived : arrived' = arrived - n) \/ arrived' = arrived
    BY <1>1, Zenon DEF TryRecv
  <2>3. \E s \in {"arm", "done"} : op' = [op EXCEPT !["recv"] = s]
    BY <1>1 DEF TryRecv
  <2> QED  BY <2>1, <2>2, <2>3
<1>4. SocketInv' /\ op'["recv"] \in {"arm", "done"} /\ op'["send"] = op["send"]
  BY <1>1, <1>3, HandleRuns, RecvPreserves
<1>5. todo \in Nat
  BY <1>1, HandleRuns
<1>6. arrived' \in 0 .. arrived
  BY <1>2, <1>3
<1>7. todo' \in 0 .. MaxArrived /\ arrived' \in Nat /\ todo' + arrived' <= todo + arrived
  <2>1. todo' = arrived - arrived'
    BY <1>1
  <2> QED  BY <1>2, <1>5, <1>6, <2>1, AllRead
<1> QED  BY <1>1, <1>3, <1>4, <1>7, HandleGoesOn

(* On epoll, the directions share a registration: recv suspends only when  *)
(* no send is registered.                                                  *)
LEMMA HandleArmKeeps == ASSUME ConnInv, HandleArm PROVE ConnInv'
<1>1. /\ Runs(Handle) /\ handle = "recv" /\ Arm("recv")
      /\ stack' = IF op'["recv"] = "armed" THEN Front(stack) ELSE stack
      /\ UNCHANGED <<handle, todo, respond, owner, queue, stream, asked>>
  BY DEF HandleArm, mutex
<1>2. /\ SocketInv /\ SocketInv' /\ "recv" \in Directions
      /\ op \in [Directions -> {"idle", "try", "arm", "armed", "fired", "done"}]
  BY <1>1, HandleRuns, ArmPreserves
<1>3. UNCHANGED <<some, size, sent, peer, arrived>>
  BY <1>1 DEF Arm, sending, kernel
<1>4. op'["send"] = op["send"]
  BY <1>1, <1>2 DEF Arm, Directions
<1>5. todo' \in 0 .. MaxArrived /\ arrived' \in Nat /\ todo' + arrived' <= todo + arrived
  BY <1>1, <1>3, HandleRuns DEF ConnInv, Places
<1>6. CASE Backend = "epoll" /\ registered # {}
  <2>1. op'["recv"] = "done"
    BY <1>1, <1>2, <1>6 DEF Arm
  <2>2. stack' = stack
    BY <1>1, <2>1
  <2> QED  BY <1>1, <1>2, <1>3, <1>4, <1>5, <2>1, <2>2, HandleGoesOn
<1>7. CASE ~ (Backend = "epoll" /\ registered # {})
  <2>1. op'["recv"] = "armed" /\ stack' = Front(stack)
    BY <1>1, <1>2, <1>7 DEF Arm
  <2>2. Len(stack) = 1 /\ stack' = <<>> /\ stack' \in Seq(Coroutines)
    <3>1. Len(stack) = 1 /\ stack # <<>> /\ stack \in Seq(Coroutines)
      BY <1>1 DEF ConnInv, Calls, Places, Runs
    <3> QED  BY <2>1, <3>1, Popped
  <2>3. Socket'
    BY <1>1, <1>2 DEF Socket
  <2>4. Calls'
    BY <1>1, <2>1, CallsPopped DEF ConnInv
  <2>5. Locking' /\ Places' /\ ResponsesWhole' /\ Reads'
    BY <1>1, <1>3, <2>2, HandleRuns DEF ConnInv, Locking, Places, ResponsesWhole, Reads
  <2>6. Broken' = Broken
    BY <1>3 DEF Broken
  <2>7. Lined'
    BY <1>1, <1>3, <2>6, LinedKept DEF ConnInv
  <2>8. op["send"] \notin {"try", "arm", "done", "fired"}
    BY <1>1, HandleRuns
  <2>9. Sends'
    BY <1>1, <1>3, <1>4, <2>6, <2>8 DEF ConnInv, Sends
  <2>10. Backend = "epoll" => op["send"] = "idle"
    <3>1. Backend = "epoll" => registered = {}
      BY <1>7
    <3> QED  BY <1>2, <2>8, <3>1, HandleRuns
             DEF SocketInv, WaitsRegistered, Directions
  <2>11. Receives'
    BY <1>1, <1>4, <2>1, <2>2, <2>8, <2>10 DEF Receives, Directions
  <2> QED  BY <2>3, <2>4, <2>5, <2>7, <2>9, <2>11 DEF ConnInv
<1> QED  BY <1>6, <1>7

LEMMA HandleReceivedKeeps == ASSUME ConnInv, HandleReceived PROVE ConnInv'
<1>1. /\ Runs(Handle) /\ handle = "recv" /\ Finish("recv")
      /\ handle' \in {"close", "finish", "parse"}
      /\ UNCHANGED <<todo, respond, owner, queue, stack, stream, asked>>
  BY DEF HandleReceived, mutex
<1>2. /\ op' = [op EXCEPT !["recv"] = "idle"]
      /\ UNCHANGED <<some, size, sent, peer, arrived>>
  BY <1>1 DEF Finish, sending, kernel
<1>3. SocketInv' /\ op'["recv"] = "idle" /\ op'["send"] = op["send"]
  BY <1>1, <1>2, HandleRuns, FinishPreserves
<1>4. todo' \in 0 .. MaxArrived /\ arrived' \in Nat /\ todo' + arrived' <= todo + arrived
  BY <1>1, <1>2, HandleRuns DEF ConnInv, Places
<1> QED  BY <1>1, <1>2, <1>3, <1>4, HandleGoesOn

(* A step that leaves the operations and the kernel alone.                 *)
LEMMA SocketKept ==
  ASSUME Socket, UNCHANGED socket, handle' = "over" <=> handle = "over"
  PROVE  Socket' /\ UNCHANGED <<op, sent, some, size, peer, arrived>>
         /\ Broken' = Broken
<1>1. UNCHANGED <<op, ec, registered, some, size, data, left, sent, wire, arrived, room, peer>>
  BY DEF socket, sending, kernel
<1>2. TypeOK' <=> TypeOK
  BY <1>1 DEF TypeOK
<1>3. SocketInv' <=> SocketInv
  BY <1>1, <1>2 DEF SocketInv, Progress, SendExact, WaitsRegistered, Registrations
<1>4. Broken' = Broken
  BY <1>1 DEF Broken
<1> QED  BY <1>1, <1>2, <1>3, <1>4 DEF Socket

(* The response that is started is the next one.                           *)
LEMMA NextRequest ==
  ASSUME ConnInv, \A r \in Requests : respond[r] # "lock", todo > 0,
         NEW f \in 0 .. MaxRequests, NEW l \in 0 .. MaxRequests, Order(f, l)
  PROVE  /\ l + 1 \in Requests /\ respond[l + 1] = "none"
         /\ l + 1 = CHOOSE r \in Requests :
                      respond[r] = "none" /\ \A s \in 1 .. r - 1 : respond[s] # "none"
<1>1. /\ todo \in Nat \ {0} /\ arrived \in Nat /\ asked \in Nat /\ asked <= MaxRequests
      /\ todo + arrived <= asked /\ MaxRequests \in Nat /\ f \in Nat /\ l \in Nat /\ f <= l
  <2>1. TypeOK
    BY DEF ConnInv, Socket, SocketInv
  <2>2. arrived \in Nat /\ todo \in Nat \ {0} /\ asked \in 0 .. MaxRequests
    BY <2>1, TcpSocketConstants DEF TypeOK, ConnInv, Places
  <2> QED  BY <2>2, Names DEF ConnInv, Reads, Order
<1>2. \A r \in 1 .. l : r \in Requests /\ respond[r] # "none"
  BY <1>1 DEF Order, Requests
<1>3. l + 1 <= MaxRequests
  <2>1. CASE l = 0
    BY <1>1, <2>1
  <2>2. CASE l # 0
    <3>1. l + todo + arrived <= asked
      BY <1>1, <1>2, <2>2 DEF ConnInv, Reads
    <3> QED  BY <1>1, <3>1
  <2> QED  BY <2>1, <2>2
<1>4. l + 1 \in Requests /\ respond[l + 1] = "none"
  BY <1>1, <1>3 DEF Order, Requests
<1>5. \A r \in Requests :
        respond[r] = "none" /\ (\A s \in 1 .. r - 1 : respond[s] # "none") <=> r = l + 1
  <2> TAKE r \in Requests
  <2>1. CASE r <= l
    BY <1>1, <1>2, <2>1 DEF Requests
  <2>2. CASE r = l + 1
    BY <1>1, <1>2, <1>4, <2>2
  <2>3. CASE l + 1 < r
    <3>1. l + 1 \in 1 .. r - 1
      BY <1>1, <2>3 DEF Requests
    <3> QED  BY <1>1, <1>4, <2>3, <3>1
  <2> QED  BY <1>1, <2>1, <2>2, <2>3 DEF Requests
<1> QED  BY <1>4, <1>5

LEMMA HandleParseKeeps == ASSUME ConnInv, HandleParse PROVE ConnInv'
<1>1. /\ Runs(Handle) /\ handle = "parse"
      /\ UNCHANGED <<owner, queue, stream, asked>> /\ UNCHANGED socket
      /\ handle' \in {"parse", "call"}
  BY DEF HandleParse, mutex
<1>2. /\ UNCHANGED <<op, sent, some, size, peer, arrived>> /\ Broken' = Broken
      /\ Socket'
  BY <1>1, SocketKept DEF ConnInv
<1>3. op["recv"] = "idle" /\ op["send"] \notin {"try", "arm", "done", "fired"}
  BY <1>1, HandleRuns DEF ConnInv, Receives
<1>4. CASE todo = 0
  <2>1. handle' = "call" /\ UNCHANGED <<todo, respond, stack>>
    BY <1>4 DEF HandleParse
  <2>2. SocketInv'
    BY <1>2, <2>1 DEF Socket
  <2>3. todo' \in 0 .. MaxArrived /\ arrived' \in Nat /\ todo' + arrived' <= todo + arrived
    BY <1>1, <1>2, <2>1, HandleRuns DEF ConnInv, Places
  <2> QED  BY <1>1, <1>2, <1>3, <2>1, <2>2, <2>3, HandleGoesOn
<1>5. CASE todo > 0
  <2>1. PICK f, l \in 0 .. MaxRequests : Order(f, l) /\ Counted(f)
    BY DEF ConnInv, Lined
  <2>2. \A r \in Requests : ~ Runs(r) /\ respond[r] # "lock"
    BY <1>1, HandleRuns
  <2> DEFINE n == l + 1
  <2>3. /\ n \in Requests /\ respond[n] = "none" /\ todo' = todo - 1
        /\ respond' = [respond EXCEPT ![n] = "lock"] /\ stack' = Append(stack, n)
        /\ handle' = handle
    <3>1. n \in Requests /\ respond[n] = "none"
      BY <1>5, <2>1, <2>2, NextRequest
    <3>2. n = CHOOSE r \in Requests :
                respond[r] = "none" /\ \A s \in 1 .. r - 1 : respond[s] # "none"
      BY <1>5, <2>1, <2>2, NextRequest
    <3> HIDE DEF n
    <3> QED  BY <1>5, <3>1, <3>2 DEF HandleParse
  <2>4. \A r \in Requests : respond'[r] = IF r = n THEN "lock" ELSE respond[r]
    BY <2>3 DEF ConnInv, Places
  <2>5. Socket'
    BY <1>2
  <2>6. /\ Last(stack') = n /\ stack' # <<>> /\ stack' \in Seq(Coroutines)
    BY <2>3, Names, Pushed DEF ConnInv, Places
  <2>7. \A c : Runs(c)' <=> c = n
    BY <2>6 DEF Runs
  <2>8. Places'
    <3>1. todo' \in 0 .. MaxArrived
      BY <1>5, <2>3, TcpSocketConstants DEF ConnInv, Places
    <3> QED  BY <1>1, <2>3, <2>6, <3>1 DEF ConnInv, Places
  <2>9. Calls'
    <3>1. Len(stack) = 1 /\ stack[1] = Handle
      BY <1>1, OnTop DEF ConnInv, Calls
    <3>2. \A i \in 1 .. Len(stack) : stack[i] # n
      BY <2>3, <3>1, Names
    <3> QED  BY <1>1, <2>3, <2>4, <3>1, <3>2, Names, CallsPushed DEF ConnInv
  <2>10. Locking'
    BY <1>1, <2>2, <2>3, <2>4, <2>7 DEF Locking
  <2>11. Lined'
    <3>1. f \in Nat /\ l \in Nat
      OBVIOUS
    <3>2. Order(f, l)'
      BY <1>1, <2>1, <2>3, <2>4, <3>1, Names DEF Order, Requests
    <3>3. owner # n
      BY <2>1, <2>3, <3>1, Names DEF Order
    <3>4. Counted(f)'
      BY <1>1, <1>2, <2>1, <2>4, <3>3 DEF Counted
    <3> QED  BY <3>2, <3>4 DEF Lined
  <2>12. Sends'
    BY <1>1, <1>2, <1>3, <2>3, <2>4 DEF ConnInv, Sends
  <2>13. Receives'
    BY <1>2, <1>3 DEF Receives, Directions
  <2>14. Reads'
    <3>1. /\ todo \in Nat \ {0} /\ arrived \in Nat /\ asked \in Nat /\ l \in Nat
          /\ Requests \subseteq Nat
      BY <1>1, <1>5, HandleRuns DEF ConnInv, Places, Requests
    <3>2. todo + arrived <= asked /\ \A r \in Requests : respond[r] # "none" =>
            r + todo + arrived <= asked
      BY DEF ConnInv, Reads
    <3>3. l = 0 \/ (l \in Requests /\ respond[l] # "none")
      BY <2>1, <2>3, <3>1, Names DEF Order, Requests
    <3>4. todo' = todo - 1 /\ todo' + arrived <= asked
      BY <2>3, <3>1, <3>2
    <3>5. \A r \in Requests : r + todo + arrived <= asked => r + todo' + arrived <= asked
      BY <3>1, <3>4
    <3>6. n + todo' + arrived <= asked
      BY <3>1, <3>2, <3>3, <3>4
    <3> HIDE DEF n
    <3> QED  BY <1>1, <1>2, <2>4, <3>2, <3>4, <3>5, <3>6 DEF Reads
  <2> QED  BY <1>1, <2>5, <2>8, <2>9, <2>10, <2>11, <2>12, <2>13, <2>14
           DEF ConnInv, ResponsesWhole
<1> QED  BY <1>1, <1>4, <1>5, HandleRuns

LEMMA HandleLockKeeps == ASSUME ConnInv, HandleLock PROVE ConnInv'
<1>1. /\ Runs(Handle) /\ handle = "finish"
      /\ UNCHANGED <<todo, respond, stream, asked>> /\ UNCHANGED socket
      /\ handle' \in {"close", "lock"}
  BY DEF HandleLock
<1>2. /\ UNCHANGED <<op, sent, some, size, peer, arrived>> /\ Broken' = Broken
      /\ Socket'
  BY <1>1, SocketKept DEF ConnInv
<1>3. op["recv"] = "idle" /\ op["send"] \notin {"try", "arm", "done", "fired"}
      /\ \A r \in Requests : ~ Runs(r) /\ respond[r] # "lock"
  BY <1>1, HandleRuns DEF ConnInv, Receives
<1>4. Locking' /\ Receives' /\ Reads' /\ ResponsesWhole'
  BY <1>1, <1>2, <1>3 DEF ConnInv, Locking, Receives, Directions, Reads, ResponsesWhole
<1>5. PICK f, l \in 0 .. MaxRequests : Order(f, l) /\ Counted(f)
  BY DEF ConnInv, Lined
<1>6. f \in Nat /\ l \in Nat /\ f <= l
  BY <1>5 DEF Order
<1>7. CASE owner = None
  <2>1. owner' = Handle /\ handle' = "close" /\ UNCHANGED <<queue, stack>>
    BY <1>7 DEF HandleLock
  <2>2. Places'
    BY <1>1, <2>1 DEF ConnInv, Places
  <2>3. Calls'
    BY <1>1, <2>1, CallsKept, Names DEF ConnInv
  <2>4. f = l
    BY <1>5, <1>6, <1>7, Names DEF Order, Requests
  <2>5. Order(f, l)'
    BY <1>1, <1>5, <2>1, <2>4 DEF Order
  <2>6. Counted(f)'
    BY <1>1, <1>2, <1>5, <1>7, <2>1, Names DEF Counted
  <2>7. Sends'
    BY <1>2, <1>3, <1>7, <2>1, Names DEF ConnInv, Sends
  <2> QED  BY <1>2, <1>4, <2>2, <2>3, <2>5, <2>6, <2>7 DEF ConnInv, Lined
<1>8. CASE owner # None
  <2>1. queue' = Append(queue, Handle) /\ handle' = "lock" /\ stack' = Front(stack)
        /\ owner' = owner
    BY <1>8 DEF HandleLock
  <2>2. f < l
    BY <1>1, <1>5, <1>6, <1>8, Names DEF Order
  <2>3. /\ Len(queue') = Len(queue) + 1 /\ queue' \in Seq(Coroutines)
        /\ \A i \in 1 .. Len(queue) : queue'[i] = queue[i]
        /\ queue'[Len(queue) + 1] = Handle
    BY <2>1, Pushed, Names DEF ConnInv, Places
  <2>4. Len(stack) = 1 /\ stack' \in Seq(Coroutines)
    BY <1>1, <2>1, Popped DEF ConnInv, Places, Calls, Runs
  <2>5. Places'
    BY <1>1, <2>1, <2>3, <2>4 DEF ConnInv, Places
  <2>6. Calls'
    BY <1>1, <2>1, <2>4, CallsPopped DEF ConnInv
  <2>7. Order(f, l)'
    <3>1. /\ Len(queue) = l - f - 1 /\ owner = f + 1
          /\ \A i \in 1 .. l - f - 1 : queue[i] = f + 1 + i
      BY <1>1, <1>5, <2>2 DEF Order
    <3>2. Len(queue') = l - f /\ queue'[l - f] = Handle
          /\ \A i \in 1 .. l - f - 1 : queue'[i] = f + 1 + i
      BY <1>6, <2>2, <2>3, <3>1
    <3> QED  BY <1>1, <1>5, <2>1, <2>2, <3>1, <3>2 DEF Order
  <2>8. Counted(f)'
    BY <1>1, <1>2, <1>5, <2>1 DEF Counted
  <2>9. Sends'
    BY <1>1, <1>2, <1>3, <2>1 DEF ConnInv, Sends
  <2> QED  BY <1>2, <1>4, <2>5, <2>6, <2>7, <2>8, <2>9 DEF ConnInv, Lined
<1> QED  BY <1>7, <1>8

LEMMA HandleCloseKeeps == ASSUME ConnInv, HandleClose PROVE ConnInv'
<1>1. /\ Runs(Handle) /\ handle = "close" /\ handle' = "over"
      /\ stack' = Front(stack) /\ registered' = {}
      /\ UNCHANGED <<op, ec, sending, kernel, todo, respond, owner, queue, stream, asked>>
  BY DEF HandleClose, mutex
<1>2. /\ UNCHANGED <<some, size, data, left, sent, wire, arrived, room, peer>>
      /\ Broken' = Broken
  BY <1>1 DEF sending, kernel, Broken
<1>3. op["recv"] = "idle" /\ op["send"] \notin {"try", "arm", "done", "fired"} /\ SocketInv
      /\ \A r \in Requests : ~ Runs(r) /\ respond[r] # "lock"
  BY <1>1, HandleRuns DEF ConnInv, Receives
<1>4. Socket'
  <2>1. TypeOK'
    BY <1>1, <1>2, <1>3 DEF SocketInv, TypeOK
  <2> QED  BY <1>1, <1>3, <2>1 DEF Socket, Directions
<1>5. Places'
  <2>1. stack' \in Seq(Coroutines)
    BY <1>1, Popped DEF ConnInv, Places, Runs
  <2> QED  BY <1>1, <2>1 DEF ConnInv, Places
<1>6. Calls'
  BY <1>1, CallsPopped DEF ConnInv
<1>7. Locking' /\ Receives' /\ Reads' /\ ResponsesWhole'
  BY <1>1, <1>2, <1>3 DEF ConnInv, Locking, Receives, Directions, Reads, ResponsesWhole
<1>8. Sends'
  BY <1>1, <1>2, <1>3 DEF ConnInv, Sends
<1>9. Lined'
  BY <1>1, <1>2, LinedKept DEF ConnInv
<1> QED  BY <1>4, <1>5, <1>6, <1>7, <1>8, <1>9 DEF ConnInv

-----------------------------------------------------------------------------
(* respond() *)

LEMMA DivBounds ==
  ASSUME NEW S \in Nat \ {0}, NEW a \in Nat
  PROVE  a \div S \in Nat /\ S * (a \div S) <= a /\ a < S * (a \div S) + S
OBVIOUS

LEMMA NextMultiple ==
  ASSUME NEW S \in Nat \ {0}, NEW p \in Nat, NEW q \in Nat, p < q
  PROVE  S * p + S <= S * q
OBVIOUS

(* Byte j of the response after the first f belongs to that response.      *)
LEMMA ByteOf ==
  ASSUME NEW S \in Nat \ {0}, NEW f \in Nat, NEW j \in 0 .. S - 1
  PROVE  (S * f + j) \div S = f
<1> DEFINE a == S * f + j
           q == a \div S
<1>1. a \in Nat /\ S * f <= a /\ a < S * f + S
  OBVIOUS
<1>2. q \in Nat /\ S * q <= a /\ a < S * q + S
  BY <1>1, DivBounds
<1> HIDE DEF a, q
<1>3. q < f => S * q + S <= S * f
  BY <1>2, NextMultiple
<1>4. f < q => S * f + S <= S * q
  BY <1>2, NextMultiple
<1>5. S * q \in Int /\ S * f \in Int
  BY <1>2
<1>6. ~ (q < f) /\ ~ (f < q)
  BY <1>1, <1>2, <1>3, <1>4, <1>5
<1> QED  BY <1>2, <1>6 DEF q, a

(* What holds while a respond() runs that has not unlocked the mutex.      *)
LEMMA RespondRuns ==
  ASSUME ConnInv, NEW r \in Requests, Runs(r), respond[r] # "unlocking"
  PROVE  /\ handle # "over" /\ SocketInv
         /\ \A c : Runs(c) => c = r
         /\ \A s \in Requests : respond[s] = "lock" => s = r
         /\ \A d \in Directions : op[d] # "fired"
         /\ Backend = "epoll" => op["recv"] \notin {"armed", "fired"}
         /\ /\ op \in [Directions -> {"idle", "try", "arm", "armed", "fired", "done"}]
            /\ "recv" \in Directions /\ "send" \in Directions
<1>1. handle # "over" /\ SocketInv
  BY Running
<1>2. \A c : Runs(c) => c = r
  BY OnTop DEF ConnInv
<1>3. stack # <<>>
  BY DEF Runs
<1>4. \A s \in Requests : respond[s] = "lock" => s = r
  BY <1>2 DEF ConnInv, Locking
<1> QED  BY <1>1, <1>2, <1>3, <1>4
         DEF ConnInv, Receives, SocketInv, TypeOK, Directions

(* The response that sends is the owner of the mutex.                      *)
LEMMA Sender ==
  ASSUME NEW f \in 0 .. MaxRequests, NEW l \in 0 .. MaxRequests, Order(f, l),
         NEW r \in Requests, respond[r] \in {"send", "sending", "unlock"}
  PROVE  r = f + 1 /\ f < l /\ owner = r
<1>1. f \in Nat /\ l \in Nat /\ r \in Nat /\ f <= l
  BY Names DEF Order, Requests
<1>2. r = f + 1
  BY <1>1 DEF Order
<1>3. r <= l
  BY <1>1, <1>2 DEF Order
<1> QED  BY <1>1, <1>2, <1>3 DEF Order

LEMMA OrderKept ==
  ASSUME NEW f \in 0 .. MaxRequests, NEW l \in 0 .. MaxRequests, Order(f, l),
         NEW r \in Requests, respond[r] \in {"send", "sending", "unlock"},
         \A s \in Requests : s # r => respond'[s] = respond[s],
         respond'[r] \in {"send", "sending", "unlock"},
         UNCHANGED <<owner, queue, handle>>
  PROVE  Order(f, l)'
<1>1. r = f + 1 /\ f < l /\ f \in Nat /\ l \in Nat
  BY Sender, Names
<1> QED  BY <1>1 DEF Order

(* A step of the sender that stays on the thread.                          *)
LEMMA SenderGoesOn ==
  ASSUME ConnInv, NEW r \in Requests, Runs(r), respond[r] \in {"send", "sending", "unlock"},
         \A s \in Requests : s # r => respond'[s] = respond[s],
         respond'[r] \in {"send", "sending", "unlock"},
         UNCHANGED <<handle, todo, owner, queue, asked, arrived, stack>>,
         op'["recv"] = op["recv"], op'["send"] \notin {"armed", "fired"}, SocketInv'
  PROVE  /\ Socket' /\ Reads' /\ Locking' /\ Calls' /\ Receives'
         /\ \A f, l \in 0 .. MaxRequests : Order(f, l) => Order(f, l)'
<1>1. Socket' /\ Locking'
  BY RespondRuns DEF Socket, ConnInv, Locking, Runs
<1>2. Reads'
  BY DEF ConnInv, Reads
<1>3. Calls'
  BY RespondRuns, CallsKept, Names DEF ConnInv
<1>4. Receives'
  BY RespondRuns DEF ConnInv, Receives, Directions
<1> QED  BY <1>1, <1>2, <1>3, <1>4, OrderKept

LEMMA RespondSendKeeps == ASSUME ConnInv, NEW r \in Requests, RespondSend(r) PROVE ConnInv'
<1>1. /\ Runs(r) /\ respond[r] = "send" /\ Send(ResponseSize, FALSE)
      /\ respond' = [respond EXCEPT ![r] = "sending"]
      /\ UNCHANGED <<handle, todo, owner, queue, stack, stream, asked>>
  BY DEF RespondSend, mutex
<1>2. /\ op' = [op EXCEPT !["send"] = "try"]
      /\ some' = FALSE /\ size' = ResponseSize /\ sent' = 0
      /\ UNCHANGED <<arrived, room, peer>>
  BY <1>1 DEF Send, kernel
<1>3. \A s \in Requests : respond'[s] = IF s = r THEN "sending" ELSE respond[s]
  BY <1>1 DEF ConnInv, Places
<1>4. SocketInv'
  <2>1. ResponseSize \in 0 .. MaxSize /\ SocketInv
    BY <1>1, RespondRuns, TcpSocketConstants DEF ResponseSize
  <2>2. FALSE \in BOOLEAN
    OBVIOUS
  <2> QED  BY <1>1, <2>1, <2>2, SendPreserves, Zenon
<1>5. op'["send"] = "try" /\ op'["recv"] = op["recv"]
  BY <1>1, <1>2, RespondRuns
<1>6. Places' /\ ResponsesWhole'
  BY <1>1 DEF ConnInv, Places, ResponsesWhole
<1>7. PICK f, l \in 0 .. MaxRequests : Order(f, l) /\ Counted(f)
  BY DEF ConnInv, Lined
<1>8. owner = r
  BY <1>1, <1>7, Sender
<1>9. Order(f, l)' /\ Socket' /\ Reads' /\ Locking' /\ Calls' /\ Receives'
  BY <1>1, <1>2, <1>3, <1>4, <1>5, <1>7, SenderGoesOn
<1>10. Broken' = Broken
  BY <1>2 DEF Broken
<1>11. Counted(f)'
  BY <1>1, <1>2, <1>3, <1>7, <1>8, <1>10 DEF Counted
<1>12. Sends'
  BY <1>1, <1>2, <1>3, <1>5, <1>8 DEF Sends, Runs
<1> QED  BY <1>6, <1>9, <1>11, <1>12 DEF ConnInv, Lined

LEMMA RespondArmKeeps == ASSUME ConnInv, NEW r \in Requests, RespondArm(r) PROVE ConnInv'
<1>1. /\ Runs(r) /\ respond[r] = "sending" /\ Arm("send")
      /\ stack' = IF op'["send"] = "armed" THEN Front(stack) ELSE stack
      /\ UNCHANGED <<handle, todo, respond, owner, queue, stream, asked>>
  BY DEF RespondArm, mutex
<1>2. /\ SocketInv /\ SocketInv' /\ handle # "over"
      /\ op["send"] = "arm" /\ \A d \in Directions : op[d] # "fired"
      /\ UNCHANGED <<some, size, sent, peer, arrived>>
  BY <1>1, RespondRuns, ArmPreserves DEF Arm, sending, kernel
<1>3. Backend = "epoll" => registered = {}
  BY <1>1, <1>2, RespondRuns
     DEF SocketInv, TypeOK, WaitsRegistered, Directions
<1>4. op' = [op EXCEPT !["send"] = "armed"]
  BY <1>1, <1>3 DEF Arm
<1>5. op'["send"] = "armed" /\ op'["recv"] = op["recv"] /\ stack' = Front(stack)
  BY <1>1, <1>4, RespondRuns
<1>6. Socket'
  BY <1>1, <1>2 DEF Socket
<1>7. Places' /\ ResponsesWhole' /\ Reads'
  <2>1. stack \in Seq(Coroutines) /\ stack # <<>>
    BY <1>1 DEF ConnInv, Places, Runs
  <2>2. stack' \in Seq(Coroutines)
    BY <1>5, <2>1, Popped
  <2> QED  BY <1>1, <1>2, <2>2 DEF ConnInv, Places, ResponsesWhole, Reads
<1>8. Calls'
  BY <1>1, <1>5, CallsPopped, Names DEF ConnInv
<1>9. Locking'
  BY <1>1, RespondRuns DEF Locking
<1>10. Broken' = Broken
  BY <1>2 DEF Broken
<1>11. Lined'
  BY <1>1, <1>2, <1>10, LinedKept DEF ConnInv
<1>12. Sends'
  BY <1>1, <1>2, <1>5, <1>10 DEF ConnInv, Sends
<1>13. Receives'
  BY <1>1, <1>2, <1>5, RespondRuns DEF ConnInv, Receives, Directions
<1> QED  BY <1>6, <1>7, <1>8, <1>9, <1>11, <1>12, <1>13 DEF ConnInv

LEMMA RespondSentKeeps == ASSUME ConnInv, NEW r \in Requests, RespondSent(r) PROVE ConnInv'
<1>1. /\ Runs(r) /\ respond[r] = "sending" /\ Finish("send")
      /\ respond' = [respond EXCEPT ![r] = "unlock"]
      /\ UNCHANGED <<handle, todo, owner, queue, stack, stream, asked>>
  BY DEF RespondSent, mutex
<1>2. /\ op["send"] = "done" /\ op' = [op EXCEPT !["send"] = "idle"]
      /\ UNCHANGED <<some, size, sent, arrived, peer>>
  BY <1>1 DEF Finish, sending, kernel
<1>3. \A s \in Requests : respond'[s] = IF s = r THEN "unlock" ELSE respond[s]
  BY <1>1 DEF ConnInv, Places
<1>4. SocketInv' /\ op'["send"] = "idle" /\ op'["recv"] = op["recv"]
  BY <1>1, <1>2, RespondRuns, FinishPreserves
<1>5. Places' /\ ResponsesWhole'
  BY <1>1 DEF ConnInv, Places, ResponsesWhole
<1>6. PICK f, l \in 0 .. MaxRequests : Order(f, l) /\ Counted(f)
  BY DEF ConnInv, Lined
<1>7. owner = r
  BY <1>1, <1>6, Sender
<1>8. Order(f, l)' /\ Socket' /\ Reads' /\ Locking' /\ Calls' /\ Receives'
  BY <1>1, <1>2, <1>3, <1>4, <1>6, SenderGoesOn
<1>9. Broken' = Broken
  BY <1>2 DEF Broken
<1>10. Counted(f)'
  BY <1>1, <1>2, <1>3, <1>6, <1>7, <1>9 DEF Counted
<1>11. Sends'
  BY <1>1, <1>2, <1>4, <1>9 DEF ConnInv, Sends
<1> QED  BY <1>5, <1>8, <1>10, <1>11 DEF ConnInv, Lined

(* Bytes are added to the stream only by the sender, behind those of the   *)
(* responses before its own and what it has sent.                          *)
LEMMA StreamGrows ==
  ASSUME Places, ResponsesWhole, NEW r \in Requests, NEW f \in Nat, r = f + 1,
         NEW m \in Nat, NEW n \in Nat, m + n <= ResponseSize,
         Len(stream) = ResponseSize * f + m, stream' = stream \o [i \in 1 .. n |-> r]
  PROVE  /\ stream' \in Seq(Requests) /\ Len(stream') = ResponseSize * f + m + n
         /\ ResponsesWhole'
<1> DEFINE k == Len(stream)
           t == [i \in 1 .. n |-> r]
<1>1. stream \in Seq(Requests) /\ k \in Nat /\ t \in Seq(Requests) /\ Len(t) = n
  BY DEF Places
<1>2. /\ stream' \in Seq(Requests) /\ Len(stream') = k + n
      /\ \A i \in 1 .. k + n : stream'[i] = IF i <= k THEN stream[i] ELSE t[i - k]
  <2> HIDE DEF t
  <2>1. stream' = stream \o t
    BY DEF t
  <2>2. /\ stream \o t \in Seq(Requests) /\ Len(stream \o t) = Len(stream) + Len(t)
        /\ \A i \in 1 .. Len(stream) + Len(t) :
             (stream \o t)[i] = IF i <= Len(stream) THEN stream[i] ELSE t[i - Len(stream)]
    BY <1>1, ConcatProperties
  <2> QED  BY <1>1, <2>1, <2>2
<1>3. ASSUME NEW i \in 1 .. k + n PROVE stream'[i] = 1 + (i - 1) \div ResponseSize
  <2>1. CASE i <= k
    <3>1. i \in DOMAIN stream
      BY <1>1, <2>1
    <3> QED  BY <1>2, <2>1, <3>1 DEF ResponsesWhole
  <2>2. CASE ~ (i <= k)
    <3>1. i - k \in 1 .. n
      BY <1>1, <2>2
    <3>2. stream'[i] = r
      BY <1>2, <2>2, <3>1
    <3> DEFINE j == m + (i - k) - 1
               S == ResponseSize
    <3>3. S \in Nat \ {0} /\ j \in 0 .. S - 1
      <4>1. S \in Nat /\ m + n <= S
        BY Names
      <4> HIDE DEF S, k
      <4> QED  BY <3>1, <4>1
    <3>4. i - 1 = S * f + j
      <4>1. S * f \in Nat /\ k = S * f + m
        BY <3>3
      <4> DEFINE x == S * f
      <4> HIDE DEF x, S, k
      <4>2. x \in Nat /\ k = x + m /\ i \in Nat
        BY <4>1, <1>1 DEF x, k
      <4>3. i - 1 = x + j
        BY <4>2
      <4> QED  BY <4>3 DEF x
    <3>5. (S * f + j) \div S = f
      <4> HIDE DEF S, j
      <4> QED  BY <3>3, ByteOf
    <3>6. (i - 1) \div S = f
      BY <3>4, <3>5
    <3> QED  BY <3>2, <3>6
  <2> QED  BY <2>1, <2>2
<1>4. DOMAIN stream' = 1 .. k + n
  BY <1>2
<1>5. ResponsesWhole'
  BY <1>3, <1>4 DEF ResponsesWhole
<1> QED  BY <1>2, <1>5

LEMMA RespondTryKeeps == ASSUME ConnInv, NEW r \in Requests, RespondTry(r) PROVE ConnInv'
<1>1. /\ Runs(r) /\ respond[r] = "sending" /\ TrySend
      /\ stream' = stream \o [i \in 1 .. sent' - sent |-> r]
      /\ UNCHANGED <<handle, todo, respond, owner, queue, stack, asked>>
  BY DEF RespondTry, mutex
<1>2. /\ op["send"] = "try"
      /\ \E s \in {"arm", "done"} : op' = [op EXCEPT !["send"] = s]
      /\ UNCHANGED <<some, size, arrived, peer>>
  BY <1>1 DEF TrySend
<1>3. SocketInv' /\ op'["send"] \in {"arm", "done"} /\ op'["recv"] = op["recv"]
  BY <1>1, <1>2, RespondRuns, TrySendPreserves
<1>4. /\ some = FALSE /\ size = ResponseSize /\ data = sent /\ left = size - sent
      /\ sent \in Nat /\ left \in Nat /\ size \in Nat
  <2>1. SocketInv
    BY <1>1, RespondRuns
  <2>2. data = sent /\ left = size - sent /\ sent \in Nat /\ left \in Nat /\ size \in Nat
    BY <2>1, TcpSocketConstants DEF SocketInv, TypeOK, Progress
  <2> QED  BY <1>2, <2>2 DEF ConnInv, Sends
<1> DEFINE Adds(n) ==
             /\ sent' = sent + n /\ n <= left /\ (Broken => n = 0)
             /\ op'["send"] = "done" => Broken \/ n = left
<1>5. \E n \in Nat : Adds(n)
  <2>1. ASSUME NEW n \in 1 .. room, n <= left, sent' = sent + n, ~ Broken,
               op' = [op EXCEPT !["send"] = IF some \/ n = left THEN "done" ELSE "arm"]
        PROVE  \E k \in Nat : Adds(k)
    <3>1. op'["send"] = IF some \/ n = left THEN "done" ELSE "arm"
      BY <1>1, <2>1, RespondRuns
    <3>2. op'["send"] = "done" => n = left
      BY <1>4, <3>1
    <3>3. n \in Nat
      BY <1>1, RespondRuns, TcpSocketConstants DEF SocketInv, TypeOK
    <3> QED  BY <2>1, <3>2, <3>3
  <2>2. ASSUME UNCHANGED <<wire, data, left, sent, room>>,
               op' = [op EXCEPT !["send"] = IF left = 0 \/ Broken THEN "done" ELSE "arm"]
        PROVE  \E k \in Nat : Adds(k)
    <3>1. op'["send"] = "done" => left = 0 \/ Broken
      BY <1>1, <2>2, RespondRuns
    <3>2. 0 \in Nat /\ sent' = sent + 0 /\ 0 <= left
      BY <1>4, <2>2
    <3> QED  BY <3>1, <3>2
  <2> QED  BY <1>1, <2>1, <2>2 DEF TrySend
<1>6. PICK n \in Nat : Adds(n)
  BY <1>5
<1>7. sent' - sent = n /\ sent + n <= ResponseSize /\ (n = left => sent' = ResponseSize)
  BY <1>4, <1>6
<1>8. PICK f, l \in 0 .. MaxRequests : Order(f, l) /\ Counted(f)
  BY DEF ConnInv, Lined
<1>9. owner = r /\ r = f + 1 /\ f \in Nat
  BY <1>1, <1>8, Sender
<1>10. Order(f, l)' /\ Socket' /\ Reads' /\ Locking' /\ Calls' /\ Receives'
  BY <1>1, <1>2, <1>3, <1>8, SenderGoesOn
<1>11. Broken' = Broken
  BY <1>2 DEF Broken
<1>12. stream' \in Seq(Requests) /\ Counted(f)' /\ ResponsesWhole'
  <2>1. CASE Broken
    <3>1. stream \in Seq(Requests) /\ stream' = stream \o [i \in 1 .. 0 |-> r]
      BY <1>1, <1>6, <1>7, <2>1 DEF ConnInv, Places
    <3>2. [i \in 1 .. 0 |-> r] = <<>>
      OBVIOUS
    <3>3. stream' = stream
      BY <3>1, <3>2, ConcatEmptySeq
    <3> QED  BY <1>11, <2>1, <3>1, <3>3 DEF ConnInv, ResponsesWhole, Counted
  <2>2. CASE ~ Broken
    <3>1. Len(stream) = ResponseSize * f + sent
      BY <1>1, <1>8, <1>9, <2>2 DEF Counted
    <3>2. stream' = stream \o [i \in 1 .. n |-> r]
      BY <1>1, <1>7
    <3>3. /\ stream' \in Seq(Requests) /\ Len(stream') = ResponseSize * f + sent + n
          /\ ResponsesWhole'
      <4>1. Places /\ ResponsesWhole /\ sent \in Nat /\ sent + n <= ResponseSize
        BY <1>4, <1>7 DEF ConnInv
      <4> QED  BY <1>9, <3>1, <3>2, <4>1, StreamGrows
    <3>4. Len(stream') = ResponseSize * f + sent'
      <4>1. ResponseSize * f \in Nat
        BY <1>9, Names
      <4> QED  BY <1>4, <1>6, <3>3, <4>1
    <3> QED  BY <1>1, <1>9, <3>3, <3>4 DEF Counted
  <2> QED  BY <2>1, <2>2
<1>13. Places'
  BY <1>1, <1>12 DEF ConnInv, Places
<1>14. Sends'
  BY <1>1, <1>2, <1>3, <1>4, <1>6, <1>7, <1>9, <1>11 DEF Sends, Runs
<1> QED  BY <1>8, <1>10, <1>12, <1>13, <1>14 DEF ConnInv, Lined

LEMMA RespondReturnKeeps == ASSUME ConnInv, NEW r \in Requests, RespondReturn(r) PROVE ConnInv'
<1>1. /\ Runs(r) /\ respond[r] = "unlocking"
      /\ respond' = [respond EXCEPT ![r] = "over"] /\ stack' = Front(stack)
      /\ UNCHANGED <<handle, todo, owner, queue, stream, asked>> /\ UNCHANGED socket
  BY DEF RespondReturn, mutex
<1>2. /\ Socket' /\ Broken' = Broken
      /\ UNCHANGED <<op, sent, some, size, peer, arrived>>
  BY <1>1, SocketKept DEF ConnInv
<1>3. \A s \in Requests : respond'[s] = IF s = r THEN "over" ELSE respond[s]
  BY <1>1 DEF ConnInv, Places
<1>4. \A c : Runs(c) => c = r
  BY <1>1, OnTop DEF ConnInv
<1>5. Places' /\ ResponsesWhole' /\ Reads'
  <2>1. stack' \in Seq(Coroutines)
    BY <1>1, Popped DEF ConnInv, Places, Runs
  <2> QED  BY <1>1, <1>2, <1>3, <2>1 DEF ConnInv, Places, ResponsesWhole, Reads
<1>6. Calls'
  BY <1>1, <1>3, CallsPopped, Names DEF ConnInv
<1>7. Locking'
  BY <1>1, <1>3, <1>4 DEF ConnInv, Locking
<1>8. Lined'
  <2>1. PICK f, l \in 0 .. MaxRequests : Order(f, l) /\ Counted(f)
    BY DEF ConnInv, Lined
  <2>2. f \in Nat /\ l \in Nat /\ Requests \subseteq Nat
    BY Names DEF Requests
  <2>3. r <= f
    BY <1>1, <2>1, <2>2 DEF Order
  <2>4. Order(f, l)'
    BY <1>1, <1>3, <2>1, <2>2, <2>3 DEF Order
  <2>5. Counted(f)'
    BY <1>1, <1>2, <1>3, <2>1 DEF Counted
  <2> QED  BY <2>4, <2>5 DEF Lined
<1>9. op["send"] \notin {"try", "arm", "done"}
  BY <1>1, <1>4 DEF ConnInv, Sends
<1>10. Sends'
  BY <1>1, <1>2, <1>3, <1>9 DEF ConnInv, Sends
<1>11. Receives'
  <2>1. stack # <<>>
    BY <1>1 DEF Runs
  <2> QED  BY <1>1, <1>2, <2>1 DEF ConnInv, Receives
<1> QED  BY <1>2, <1>5, <1>6, <1>7, <1>8, <1>10, <1>11 DEF ConnInv

LEMMA RespondLockKeeps == ASSUME ConnInv, NEW r \in Requests, RespondLock(r) PROVE ConnInv'
<1>1. /\ Runs(r) /\ respond[r] = "lock"
      /\ UNCHANGED <<handle, todo, stream, asked>> /\ UNCHANGED socket
  BY DEF RespondLock
<1>2. /\ Socket' /\ Broken' = Broken
      /\ UNCHANGED <<op, sent, some, size, peer, arrived>>
  BY <1>1, SocketKept DEF ConnInv
<1>3. /\ handle = "parse" /\ op["recv"] = "idle"
      /\ \A d \in Directions : op[d] # "fired"
      /\ \A s \in Requests : respond[s] = "lock" => s = r
  BY <1>1, RespondRuns DEF ConnInv, Locking, Receives
<1>4. PICK f, l \in 0 .. MaxRequests : Order(f, l) /\ Counted(f)
  BY DEF ConnInv, Lined
<1>5. f \in Nat /\ l \in Nat /\ f <= l /\ r \in Nat /\ Requests \subseteq Nat
  BY <1>4 DEF Order, Requests
<1>6. r = l + 1 /\ l + 1 \in 0 .. MaxRequests
  <2>1. ~ (r <= l) /\ ~ (l + 1 < r)
    BY <1>1, <1>4, <1>5 DEF Order
  <2>2. r = l + 1
    BY <1>5, <2>1
  <2> QED  BY <1>5, <2>2 DEF Requests
<1>7. Receives'
  BY <1>1, <1>2, <1>3 DEF Receives
<1>8. op["send"] \notin {"try", "arm", "done"}
  BY <1>1, RespondRuns DEF ConnInv, Sends
<1>9. CASE owner = None
  <2>1. /\ owner' = r /\ respond' = [respond EXCEPT ![r] = "send"]
        /\ UNCHANGED <<queue, stack>>
    BY <1>9 DEF RespondLock
  <2>2. \A s \in Requests : respond'[s] = IF s = r THEN "send" ELSE respond[s]
    BY <2>1 DEF ConnInv, Places
  <2>3. f = l
    BY <1>4, <1>5, <1>9, Names DEF Order, Requests
  <2>4. Places' /\ ResponsesWhole'
    BY <1>1, <2>1 DEF ConnInv, Places, ResponsesWhole
  <2>5. Reads'
    BY <1>1, <1>2, <2>2 DEF ConnInv, Reads
  <2>6. Calls'
    BY <1>1, <1>3, <2>1, <2>2, CallsKept, Names DEF ConnInv
  <2>7. Locking'
    BY <1>3, <2>2 DEF Locking
  <2>8. Order(f, l + 1)'
    <3>1. queue' = <<>> /\ Len(queue') = 0
      BY <1>4, <2>1, <2>3, EmptySeq DEF Order
    <3> QED  BY <1>1, <1>3, <1>4, <1>5, <1>6, <2>1, <2>2, <2>3, <3>1 DEF Order
  <2>9. Counted(f)'
    BY <1>1, <1>2, <1>4, <1>9, <2>1, <2>2, Names DEF Counted
  <2>10. Sends'
    BY <1>2, <1>9, <2>1, <2>2, Names DEF ConnInv, Sends
  <2> QED  BY <1>2, <1>6, <1>7, <2>4, <2>5, <2>6, <2>7, <2>8, <2>9, <2>10 DEF ConnInv, Lined
<1>10. CASE owner # None
  <2>1. /\ queue' = Append(queue, r) /\ respond' = [respond EXCEPT ![r] = "wait"]
        /\ stack' = Front(stack) /\ owner' = owner
    BY <1>10 DEF RespondLock
  <2>2. \A s \in Requests : respond'[s] = IF s = r THEN "wait" ELSE respond[s]
    BY <2>1 DEF ConnInv, Places
  <2>3. f < l
    BY <1>3, <1>4, <1>5, <1>10 DEF Order
  <2>4. /\ Len(queue') = Len(queue) + 1 /\ queue' \in Seq(Coroutines)
        /\ \A i \in 1 .. Len(queue) : queue'[i] = queue[i]
        /\ queue'[Len(queue) + 1] = r
    BY <2>1, Pushed, Names DEF ConnInv, Places
  <2>5. Places' /\ ResponsesWhole'
    <3>1. stack' \in Seq(Coroutines)
      BY <1>1, <2>1, Popped DEF ConnInv, Places, Runs
    <3> QED  BY <1>1, <2>1, <2>4, <3>1 DEF ConnInv, Places, ResponsesWhole
  <2>6. Reads'
    BY <1>1, <1>2, <2>2 DEF ConnInv, Reads
  <2>7. Calls'
    BY <1>1, <2>1, <2>2, CallsPopped, Names DEF ConnInv
  <2>8. Locking'
    BY <1>3, <2>2 DEF Locking
  <2>9. Order(f, l + 1)'
    <3>1. /\ Len(queue) = l - f - 1 /\ owner = f + 1
          /\ \A i \in 1 .. l - f - 1 : queue[i] = f + 1 + i
      BY <1>3, <1>4, <2>3 DEF Order
    <3>2. Len(queue') = (l + 1) - f - 1 /\ \A i \in 1 .. (l + 1) - f - 1 : queue'[i] = f + 1 + i
      <4>1. Len(queue') = l - f /\ queue'[l - f] = l + 1
        BY <1>5, <1>6, <2>4, <3>1
      <4>2. \A i \in 1 .. l - f - 1 : queue'[i] = f + 1 + i
        BY <2>4, <3>1
      <4>3. \A i \in 1 .. (l + 1) - f - 1 : i \in 1 .. l - f - 1 \/ i = l - f
        BY <1>5, <2>3
      <4> QED  BY <1>5, <4>1, <4>2, <4>3
    <3> QED  BY <1>1, <1>3, <1>4, <1>5, <1>6, <2>1, <2>2, <2>3, <3>1, <3>2 DEF Order
  <2>10. owner # r
    BY <1>4, <1>5, <1>6, <2>3 DEF Order
  <2>11. Counted(f)'
    BY <1>1, <1>2, <1>4, <2>1, <2>2, <2>10 DEF Counted
  <2>12. Sends'
    BY <1>1, <1>2, <1>8, <2>1, <2>2, <2>10 DEF ConnInv, Sends
  <2> QED  BY <1>2, <1>6, <1>7, <2>5, <2>6, <2>7, <2>8, <2>9, <2>11, <2>12 DEF ConnInv, Lined
<1> QED  BY <1>9, <1>10

(* The mutex goes to the next response, or to handle() behind the last.    *)
LEMMA RespondUnlockKeeps == ASSUME ConnInv, NEW r \in Requests, RespondUnlock(r) PROVE ConnInv'
<1>1. /\ Runs(r) /\ respond[r] = "unlock"
      /\ UNCHANGED <<todo, stream, asked>> /\ UNCHANGED socket
  BY DEF RespondUnlock
<1>2. /\ handle # "over" /\ op["send"] = "idle"
      /\ \A d \in Directions : op[d] # "fired"
      /\ \A s \in Requests : Runs(s) <=> s = r
      /\ \A s \in Requests : respond[s] # "lock"
  <2>1. PICK f, l \in 0 .. MaxRequests : Order(f, l)
    BY DEF ConnInv, Lined
  <2>2. owner = r
    BY <1>1, <2>1, Sender
  <2>3. op["send"] = "idle"
    BY <1>1, <2>2 DEF ConnInv, Sends
  <2> QED  BY <1>1, <2>3, RespondRuns
<1>3. PICK f, l \in 0 .. MaxRequests : Order(f, l) /\ Counted(f)
  BY DEF ConnInv, Lined
<1>4. /\ owner = r /\ r = f + 1 /\ f < l /\ f \in Nat /\ l \in Nat /\ Requests \subseteq Nat
      /\ f + 1 \in 0 .. MaxRequests
  <2>1. owner = r /\ r = f + 1 /\ f < l
    BY <1>1, <1>3, Sender
  <2> QED  BY <2>1, Names DEF Requests
<1>5. /\ Len(queue) = IF handle = "lock" THEN l - f ELSE l - f - 1
      /\ \A i \in 1 .. l - f - 1 : queue[i] = f + 1 + i
      /\ handle = "lock" => queue[l - f] = Handle
  BY <1>3, <1>4 DEF Order
<1>6. ~ Broken => Len(stream) = ResponseSize * (f + 1)
  <2>1. ~ Broken => Len(stream) = ResponseSize * f + ResponseSize
    BY <1>1, <1>3, <1>4 DEF ConnInv, Sends, Counted
  <2>2. ResponseSize * (f + 1) = ResponseSize * f + ResponseSize
    BY <1>4, Names
  <2> QED  BY <2>1, <2>2
<1>7. CASE queue = <<>>
  <2>1. /\ owner' = None /\ respond' = [respond EXCEPT ![r] = "over"]
        /\ stack' = Front(stack) /\ UNCHANGED <<handle, queue>>
    BY <1>7 DEF RespondUnlock
  <2>2. \A s \in Requests : respond'[s] = IF s = r THEN "over" ELSE respond[s]
    BY <2>1 DEF ConnInv, Places
  <2>3. handle # "lock" /\ l = f + 1
    BY <1>4, <1>5, <1>7
  <2>4. /\ Socket' /\ Broken' = Broken
        /\ UNCHANGED <<op, sent, some, size, peer, arrived>>
    BY <1>1, <2>1, SocketKept DEF ConnInv
  <2>5. Places' /\ ResponsesWhole'
    <3>1. stack' \in Seq(Coroutines)
      BY <1>1, <2>1, Popped DEF ConnInv, Places, Runs
    <3> QED  BY <1>1, <2>1, <3>1 DEF ConnInv, Places, ResponsesWhole
  <2>6. Reads' /\ Locking'
    <3>1. Reads'
      BY <1>1, <2>2, <2>4 DEF ConnInv, Reads
    <3>2. \A s \in Requests : respond'[s] # "lock"
      BY <1>2, <2>2
    <3> QED  BY <3>1, <3>2 DEF Locking
  <2>7. Calls'
    BY <1>1, <2>1, <2>2, CallsPopped, Names DEF ConnInv
  <2>8. Receives'
    BY <1>1, <1>2, <2>1, <2>4, RespondRuns DEF ConnInv, Receives
  <2>9. Order(f + 1, l)'
    BY <1>3, <1>4, <1>7, <2>1, <2>2, <2>3, Names DEF Order
  <2>10. Counted(f + 1)'
    BY <1>1, <1>4, <1>6, <2>1, <2>4, Names DEF Counted
  <2>11. Sends'
    BY <1>2, <2>1, <2>4, Names DEF Sends
  <2> QED  BY <1>4, <2>4, <2>5, <2>6, <2>7, <2>8, <2>9, <2>10, <2>11 DEF ConnInv, Lined
<1>8. CASE queue # <<>>
  <2> DEFINE c == Head(queue)
  <2>1. /\ owner' = c /\ queue' = Tail(queue) /\ stack' = Append(stack, c)
        /\ handle' = (IF c = Handle THEN "close" ELSE handle)
        /\ respond' = [s \in Requests |->
             IF s = c THEN "send" ELSE IF Runs(s) THEN "unlocking" ELSE respond[s]]
    BY <1>8 DEF RespondUnlock, Resumed
  <2>2. /\ c = queue[1] /\ c \in Coroutines /\ Len(queue) \in Nat \ {0}
        /\ queue' \in Seq(Coroutines) /\ Len(queue') = Len(queue) - 1
        /\ \A i \in 1 .. Len(queue) - 1 : queue'[i] = queue[i + 1]
    <3>1. queue \in Seq(Coroutines)
      BY DEF ConnInv, Places
    <3> QED  BY <1>8, <2>1, <3>1, HeadTailProperties, EmptySeq
  <2>3. \/ c \in Requests /\ c = f + 2 /\ f + 1 < l /\ respond[c] = "wait" /\ c # Handle
        \/ c = Handle /\ handle = "lock" /\ l = f + 1
    <3>1. CASE f + 1 < l
      <4>1. c = f + 2
        BY <1>4, <1>5, <2>2, <3>1
      <4>2. c \in Requests
        BY <1>4, <3>1, <4>1, Names DEF Requests
      <4> QED  BY <1>3, <1>4, <3>1, <4>1, <4>2, Names DEF Order
    <3>2. CASE ~ (f + 1 < l)
      BY <1>4, <1>5, <2>2, <3>2
    <3> QED  BY <3>1, <3>2
  <2> HIDE DEF c
  <2>4. c # r
    BY <1>1, <2>3, Names
  <2>5. \A s \in Requests : respond'[s] =
          IF s = c THEN "send" ELSE IF s = r THEN "unlocking" ELSE respond[s]
    BY <1>2, <2>1 DEF Runs
  <2>6. handle' = "over" <=> handle = "over"
    BY <1>2, <2>1
  <2>7. /\ Socket' /\ Broken' = Broken
        /\ UNCHANGED <<op, sent, some, size, peer, arrived>>
    BY <1>1, <2>6, SocketKept DEF ConnInv
  <2>8. /\ stack' \in Seq(Coroutines) /\ stack' # <<>>
    BY <2>1, <2>2, Pushed DEF ConnInv, Places
  <2>9. Places' /\ ResponsesWhole'
    <3>1. respond' \in [Requests -> {"none", "lock", "wait", "send", "sending", "unlock",
                                     "unlocking", "over"}]
      BY <2>1 DEF ConnInv, Places, Runs
    <3> QED  BY <1>1, <2>1, <2>2, <2>8, <3>1 DEF ConnInv, Places, ResponsesWhole
  <2>10. Locking'
    <3>1. \A s \in Requests : respond'[s] # "lock"
      BY <1>2, <2>5
    <3> QED  BY <3>1 DEF Locking
  <2>11. Reads'
    <3>1. \A s \in Requests : respond'[s] # "none" => respond[s] # "none"
      BY <1>1, <2>3, <2>5, Names
    <3> QED  BY <1>1, <2>7, <3>1 DEF ConnInv, Reads
  <2>12. Calls'
    <3>1. \A i \in 1 .. Len(stack) : stack[i] # c
      <4> TAKE i \in 1 .. Len(stack)
      <4>1. stack[Len(stack)] = r /\ Len(stack) \in Nat
        BY <1>1, OnTop DEF ConnInv
      <4>2. CASE i = Len(stack)
        BY <2>4, <4>1, <4>2
      <4>3. CASE i # Len(stack)
        <5>1. i \in 1 .. Len(stack) - 1
          BY <4>1, <4>3
        <5>2. \/ stack[i] = Handle /\ handle = "parse"
              \/ stack[i] \in Requests /\ respond[stack[i]] = "unlocking"
          BY <5>1 DEF ConnInv, Calls
        <5> QED  BY <2>3, <5>2, Names
      <4> QED  BY <4>2, <4>3
    <3> QED  BY <1>1, <1>2, <2>1, <2>2, <2>3, <2>4, <2>5, <2>6, <3>1, Names, CallsPushed
             DEF ConnInv
  <2>13. Receives'
    <3>1. op["recv"] # "idle" => handle' = "recv"
      BY <2>1, <2>3 DEF ConnInv, Receives
    <3>2. Backend = "epoll" => op["recv"] \notin {"armed", "fired"}
      BY <1>1, RespondRuns
    <3>3. op["recv"] # "fired"
      BY <1>2 DEF Directions
    <3> QED  BY <1>2, <2>7, <3>1, <3>2, <3>3 DEF Receives
  <2>14. Order(f + 1, l)'
    <3>1. CASE f + 1 < l
      <4>1. c \in Requests /\ c = f + 2 /\ c # Handle /\ handle' = handle
        BY <1>4, <2>1, <2>3, <3>1
      <4>2. Len(queue') = IF handle = "lock" THEN l - (f + 1) ELSE l - (f + 1) - 1
        BY <1>4, <1>5, <2>2
      <4>3. \A i \in 1 .. l - (f + 1) - 1 : queue'[i] = (f + 1) + 1 + i
        <5> TAKE i \in 1 .. l - (f + 1) - 1
        <5>1. i + 1 \in 1 .. l - f - 1 /\ i \in 1 .. Len(queue) - 1
          BY <1>4, <1>5
        <5> QED  BY <1>4, <1>5, <2>2, <5>1
      <4>4. handle = "lock" => queue'[l - (f + 1)] = Handle
        <5> SUFFICES ASSUME handle = "lock" PROVE queue'[l - (f + 1)] = Handle
          OBVIOUS
        <5>1. l - (f + 1) \in 1 .. Len(queue) - 1 /\ (l - (f + 1)) + 1 = l - f
          BY <1>4, <1>5, <3>1
        <5> QED  BY <1>5, <2>2, <5>1
      <4> QED  BY <1>3, <1>4, <2>1, <2>5, <3>1, <4>1, <4>2, <4>3, <4>4 DEF Order
    <3>2. CASE ~ (f + 1 < l)
      <4>1. c = Handle /\ handle = "lock" /\ l = f + 1 /\ handle' = "close"
        BY <1>4, <2>1, <2>3, <3>2
      <4>2. Len(queue') = 0
        BY <1>4, <1>5, <2>2, <4>1
      <4>3. queue' = <<>>
        BY <2>2, <4>2, EmptySeq
      <4> QED  BY <1>3, <1>4, <2>1, <2>5, <4>1, <4>3, Names DEF Order
    <3> QED  BY <3>1, <3>2
  <2>15. Counted(f + 1)'
    BY <1>1, <1>6, <2>1, <2>3, <2>5, <2>7, <1>4, Names DEF Counted
  <2>16. Sends'
    BY <1>2, <2>1, <2>5, <2>7 DEF Sends
  <2> QED  BY <1>4, <2>7, <2>9, <2>10, <2>11, <2>12, <2>13, <2>14, <2>15, <2>16
           DEF ConnInv, Lined
<1> QED  BY <1>7, <1>8

-----------------------------------------------------------------------------

LEMMA ConnStep == ConnInv /\ [ConnectionNext]_vars_connection => ConnInv'
<1> SUFFICES ASSUME ConnInv, [ConnectionNext]_vars_connection PROVE ConnInv'
  OBVIOUS
<1>1. CASE HandleStep
  BY <1>1, HandleRecvKeeps, HandleTryKeeps, HandleArmKeeps, HandleReceivedKeeps,
     HandleParseKeeps, HandleLockKeeps, HandleCloseKeeps DEF HandleStep
<1>2. ASSUME NEW r \in Requests, RespondStep(r) PROVE ConnInv'
  BY <1>2, RespondLockKeeps, RespondSendKeeps, RespondTryKeeps, RespondArmKeeps,
     RespondSentKeeps, RespondUnlockKeeps, RespondReturnKeeps DEF RespondStep
<1>3. CASE \E d \in Directions : LoopDispatches(d) \/ LoopReceives(d)
  BY <1>3, LoopDispatchesKeeps, LoopReceivesKeeps
<1>4. CASE Ask \/ ClientReads \/ ClientEnds
  BY <1>4, ClientPreserves
<1>5. CASE UNCHANGED vars_connection
  <2>1. /\ UNCHANGED socket
        /\ UNCHANGED <<handle, todo, respond, owner, queue, stack, stream, asked>>
    BY <1>5 DEF vars_connection, mutex
  <2>2. /\ Socket' /\ Broken' = Broken
        /\ UNCHANGED <<op, sent, some, size, peer, arrived>>
    BY <2>1, SocketKept DEF ConnInv
  <2>3. Lined'
    BY <2>1, <2>2, LinedKept DEF ConnInv
  <2> QED  BY <2>1, <2>2, <2>3 DEF ConnInv, Places, Calls, Locking, Sends, Receives, Reads,
              ResponsesWhole, Runs
<1> QED  BY <1>1, <1>2, <1>3, <1>4, <1>5 DEF ConnectionNext, ThreadStep

LEMMA ConnInvariance == ConnectionSpec => []ConnInv
BY ConnInvInit, ConnStep, PTL DEF ConnectionSpec

(* On every back end, whatever fails and however the sends are cut up,     *)
(* the responses are on the stream one after the other and whole, in the   *)
(* order of the requests (main.cpp 18-25).                                 *)
THEOREM ResponsesAlwaysWhole == ConnectionSpec => []ResponsesWhole
<1>1. ConnInv => ResponsesWhole
  BY DEF ConnInv
<1> QED
  BY <1>1, ConnInvariance, PTL

(* The coroutines of a connection, its mutex and its socket keep their     *)
(* types, and nobody waits for the mutex while it is free (main.cpp 18-54).*)
THEOREM ConnectionTyped == ConnectionSpec => []ConnectionTypeOK
<1>1. ConnInv => ConnectionTypeOK
  <2> SUFFICES ASSUME ConnInv PROVE ConnectionTypeOK
    OBVIOUS
  <2>1. PICK f, l \in 0 .. MaxRequests : Order(f, l)
    BY DEF ConnInv, Lined
  <2>2. owner \in Coroutines \cup {None} /\ (owner = None => queue = <<>>)
    <3>1. CASE f < l
      <4>1. owner = f + 1 /\ f + 1 \in Requests
        BY <2>1, <3>1, Names DEF Order, Requests
      <4> QED  BY <4>1, Names
    <3>2. CASE f = l
      BY <2>1, <3>2, Names DEF Order
    <3> QED  BY <2>1, <3>1, <3>2, Names DEF Order
  <2>3. TypeOK
    BY DEF ConnInv, Socket, SocketInv
  <2> QED  BY <2>2, <2>3 DEF ConnInv, Places, ConnectionTypeOK
<1> QED
  BY <1>1, ConnInvariance, PTL

-----------------------------------------------------------------------------
(* Where recv and send have registrations of their own, and recv does not  *)
(* fail. *)

LEMMA QuietStep ==
  ASSUME Backend = "kqueue", "failed" \notin Ends, ConnInv, Quiet,
         [ConnectionNext]_vars_connection
  PROVE  Quiet'
<1>1. ec["recv"] = "none" /\ peer # "failed"
  BY DEF Quiet
<1>2. CASE HandleStep
  <2>1. Runs(Handle)
    BY <1>2 DEF HandleStep, HandleRecv, HandleTry, HandleArm, HandleReceived, HandleParse,
                HandleLock, HandleClose
  <2>2. /\ ec \in [Directions -> {"none", "exists", "failed"}]
        /\ "recv" \in Directions
    BY <2>1, HandleRuns DEF SocketInv, TypeOK
  <2>3. CASE HandleRecv
    BY <2>2, <2>3, <1>1 DEF HandleRecv, Recv, kernel, Quiet
  <2>4. CASE HandleTry
    <3>1. /\ handle = "recv" /\ UNCHANGED <<handle, peer>>
          /\ ec' = ec \/ ec' = [ec EXCEPT !["recv"] = IF peer = "failed" THEN "failed" ELSE "none"]
      BY <2>4 DEF HandleTry, TryRecv
    <3>2. ec'["recv"] = "none"
      BY <1>1, <2>2, <3>1
    <3> QED  BY <1>1, <3>1, <3>2 DEF Quiet
  <2>5. CASE HandleArm
    <3>1. UNCHANGED <<ec, handle, peer>> /\ handle = "recv"
      BY <2>5 DEF HandleArm, Arm, kernel
    <3> QED  BY <1>1, <3>1 DEF Quiet
  <2>6. CASE HandleReceived
    <3>1. UNCHANGED <<ec, peer>> /\ handle' \in {"finish", "parse"}
      BY <1>1, <2>6 DEF HandleReceived, Finish, kernel
    <3> QED  BY <1>1, <3>1 DEF Quiet
  <2>7. CASE HandleParse
    <3>1. UNCHANGED <<ec, peer>> /\ handle' \in {"parse", "call"}
      BY <2>7 DEF HandleParse, socket, kernel
    <3> QED  BY <1>1, <3>1 DEF Quiet
  <2>8. CASE HandleLock
    <3>1. UNCHANGED <<ec, peer>> /\ (handle' = "lock" \/ owner' = Handle)
      BY <2>8 DEF HandleLock, socket, kernel
    <3> QED  BY <1>1, <3>1 DEF Quiet
  <2>9. CASE HandleClose
    BY <2>9 DEF HandleClose, kernel, mutex, Quiet
  <2> QED  BY <1>2, <2>3, <2>4, <2>5, <2>6, <2>7, <2>8, <2>9 DEF HandleStep
<1>3. ASSUME NEW r \in Requests, RespondStep(r) PROVE Quiet'
  <2>1. CASE RespondLock(r)
    <3>1. UNCHANGED <<ec, peer, handle>> /\ handle = "parse"
      BY <2>1 DEF RespondLock, socket, kernel, ConnInv, Locking
    <3> QED  BY <1>1, <3>1 DEF Quiet
  <2>2. CASE RespondReturn(r)
    BY <2>2 DEF RespondReturn, socket, kernel, mutex, Quiet
  <2>3. CASE RespondSend(r) \/ RespondTry(r) \/ RespondArm(r) \/ RespondSent(r)
    <3>1. Runs(r) /\ respond[r] # "unlocking" /\ UNCHANGED <<handle, owner, peer>>
      BY <2>3 DEF RespondSend, RespondTry, RespondArm, RespondSent, mutex, Send,
                  TrySend, Arm, Finish, kernel
    <3>2. \/ ec' = ec
          \/ \E e \in {"none", "exists", "failed"} : ec' = [ec EXCEPT !["send"] = e]
      BY <2>3 DEF RespondSend, RespondTry, RespondArm, RespondSent, Send,
                  TrySend, Arm, Finish
    <3>3. /\ ec \in [Directions -> {"none", "exists", "failed"}]
          /\ "recv" \in Directions
      BY <3>1, RespondRuns DEF SocketInv, TypeOK
    <3>4. ec'["recv"] = ec["recv"]
      BY <3>2, <3>3
    <3> QED  BY <1>1, <3>1, <3>4 DEF Quiet
  <2>4. CASE RespondUnlock(r)
    <3>1. UNCHANGED <<ec, peer>> /\ Runs(r) /\ respond[r] = "unlock"
      BY <2>4 DEF RespondUnlock, socket, kernel
    <3>2. owner = r
      BY <3>1, Sender DEF ConnInv, Lined
    <3>3. handle \notin {"close", "over"}
      BY <3>2, Names DEF Quiet
    <3>4. handle' = handle \/ owner' = Handle
      BY <2>4 DEF RespondUnlock, Resumed
    <3> QED  BY <1>1, <3>1, <3>3, <3>4 DEF Quiet
  <2> QED  BY <1>3, <2>1, <2>2, <2>3, <2>4 DEF RespondStep
<1>4. CASE \E d \in Directions : LoopDispatches(d) \/ LoopReceives(d)
  BY <1>4 DEF LoopDispatches, LoopReceives, Dispatch, Fire, kernel, mutex, Quiet
<1>5. CASE Ask \/ ClientReads \/ ClientEnds
  BY <1>5 DEF Ask, ClientReads, ClientEnds, Arrive, Drain, PeerEnds,
              event, mutex, Quiet
<1>6. CASE UNCHANGED vars_connection
  BY <1>6 DEF vars_connection, socket, kernel, mutex, Quiet
<1> QED  BY <1>2, <1>3, <1>4, <1>5, <1>6 DEF ConnectionNext, ThreadStep

LEMMA QuietOutlived ==
  ASSUME ConnInv, Quiet
  PROVE  NoneOutlives
<1>1. PICK f, l \in 0 .. MaxRequests : Order(f, l)
  BY DEF ConnInv, Lined
<1>2. f \in Nat /\ l \in Nat /\ Requests \subseteq Nat
  BY DEF Requests
<1> SUFFICES ASSUME handle = "over", NEW r \in Requests
             PROVE  respond[r] \in {"none", "unlocking", "over"}
  BY DEF NoneOutlives
<1>3. owner = Handle
  BY DEF Quiet
<1>4. f = l
  BY <1>1, <1>2, <1>3, Names DEF Order, Requests
<1>5. respond[r] # "lock"
  BY DEF ConnInv, Locking
<1> QED  BY <1>1, <1>2, <1>4, <1>5 DEF Order

(* "wait until all send operations finish" (main.cpp:52) holds on kqueue   *)
(* for any number of requests and any sizes: when the frame of handle() is *)
(* destroyed, no respond() is left with the mutex or the socket.           *)
THEOREM QuietNeverOutlived ==
  ASSUME Backend = "kqueue", "failed" \notin Ends
  PROVE  MCSpec => []QuietNoneOutlives
<1> DEFINE I == kind = "kqueue" => ConnInv /\ Quiet
<1>1. MCInit => I
  <2>1. ConnectionInit => Quiet
    BY DEF ConnectionInit, Init, Directions, Quiet
  <2> QED  BY <2>1, ConnInvInit DEF MCInit
<1>2. I /\ [MCNext]_vars_mc => I'
  <2> SUFFICES ASSUME I, [MCNext]_vars_mc, kind' = "kqueue" PROVE ConnInv' /\ Quiet'
    OBVIOUS
  <2>1. kind = "kqueue" /\ [ConnectionNext]_vars_connection
    BY DEF MCNext, vars_mc
  <2> QED  BY <2>1, ConnStep, QuietStep
<1>3. I => QuietNoneOutlives
  BY QuietOutlived DEF QuietNoneOutlives
<1> HIDE DEF I
<1> QED
  BY <1>1, <1>2, <1>3, PTL DEF MCSpec

-----------------------------------------------------------------------------
(* On every back end, only an error of recv lets a response outlive it. *)

Waited == handle \in {"close", "over"} => owner = Handle \/ ec["recv"] # "none"

LEMMA WaitedStep ==
  ConnInv /\ Waited /\ [ConnectionNext]_vars_connection => Waited'
<1> SUFFICES ASSUME ConnInv, Waited, [ConnectionNext]_vars_connection PROVE Waited'
  OBVIOUS
<1>1. CASE HandleRecv \/ HandleTry \/ HandleArm \/ HandleParse
  <2>1. handle' \in {"recv", "call", "parse"}
    BY <1>1 DEF HandleRecv, HandleTry, HandleArm, HandleParse
  <2> QED  BY <2>1 DEF Waited
<1>2. CASE HandleReceived
  <2>1. UNCHANGED ec /\ (handle' = "close" => ec["recv"] # "none") /\ handle' # "over"
    BY <1>2 DEF HandleReceived, Finish
  <2> QED  BY <2>1 DEF Waited
<1>3. CASE HandleLock
  <2>1. handle' = "lock" \/ owner' = Handle
    BY <1>3 DEF HandleLock
  <2> QED  BY <2>1 DEF Waited
<1>4. CASE HandleClose
  BY <1>4 DEF HandleClose, mutex, Waited
<1>5. ASSUME NEW r \in Requests, RespondStep(r) PROVE Waited'
  <2>1. CASE RespondLock(r)
    <3>1. UNCHANGED handle /\ handle = "parse"
      BY <2>1 DEF RespondLock, ConnInv, Locking
    <3> QED  BY <3>1 DEF Waited
  <2>2. CASE RespondReturn(r)
    BY <2>2 DEF RespondReturn, socket, mutex, Waited
  <2>3. CASE RespondSend(r) \/ RespondTry(r) \/ RespondArm(r) \/ RespondSent(r)
    <3>1. Runs(r) /\ respond[r] # "unlocking" /\ UNCHANGED <<handle, owner>>
      BY <2>3 DEF RespondSend, RespondTry, RespondArm, RespondSent, mutex
    <3>2. \/ ec' = ec
          \/ \E e \in {"none", "exists", "failed"} : ec' = [ec EXCEPT !["send"] = e]
      BY <2>3 DEF RespondSend, RespondTry, RespondArm, RespondSent, Send,
                  TrySend, Arm, Finish
    <3>3. /\ ec \in [Directions -> {"none", "exists", "failed"}]
          /\ "recv" \in Directions
      BY <3>1, RespondRuns DEF SocketInv, TypeOK
    <3>4. ec'["recv"] = ec["recv"]
      BY <3>2, <3>3
    <3> QED  BY <3>1, <3>4 DEF Waited
  <2>4. CASE RespondUnlock(r)
    <3>1. UNCHANGED ec /\ Runs(r) /\ respond[r] = "unlock"
      BY <2>4 DEF RespondUnlock, socket
    <3>2. owner = r
      BY <3>1, Sender DEF ConnInv, Lined
    <3>3. handle \in {"close", "over"} => ec["recv"] # "none"
      BY <3>2, Names DEF Waited
    <3>4. handle' = handle \/ owner' = Handle
      BY <2>4 DEF RespondUnlock, Resumed
    <3> QED  BY <3>1, <3>3, <3>4 DEF Waited
  <2> QED  BY <1>5, <2>1, <2>2, <2>3, <2>4 DEF RespondStep
<1>6. CASE \E d \in Directions : LoopDispatches(d) \/ LoopReceives(d)
  BY <1>6 DEF LoopDispatches, LoopReceives, Dispatch, Fire, mutex, Waited
<1>7. CASE Ask \/ ClientReads \/ ClientEnds
  BY <1>7 DEF Ask, ClientReads, ClientEnds, Arrive, Drain, PeerEnds, event, mutex, Waited
<1>8. CASE UNCHANGED vars_connection
  BY <1>8 DEF vars_connection, socket, mutex, Waited
<1> QED  BY <1>1, <1>2, <1>3, <1>4, <1>5, <1>6, <1>7, <1>8
         DEF ConnectionNext, ThreadStep, HandleStep

(* The wait in main.cpp:52 is passed over only by an exception of recv: on *)
(* both back ends, whatever else fails, a handle() whose recv did not fail *)
(* is not outlived by any response.                                        *)
THEOREM OutlivedOnlyAfterError ==
  ConnectionSpec => [](ec["recv"] = "none" => NoneOutlives)
<1>1. ConnectionInit => Waited
  BY DEF ConnectionInit, Waited
<1>2. ASSUME ConnInv, Waited, ec["recv"] = "none" PROVE NoneOutlives
  <2>1. PICK f, l \in 0 .. MaxRequests : Order(f, l)
    BY <1>2 DEF ConnInv, Lined
  <2> SUFFICES ASSUME handle = "over", NEW r \in Requests
               PROVE  respond[r] \in {"none", "unlocking", "over"}
    BY DEF NoneOutlives
  <2>2. f \in Nat /\ l \in Nat /\ owner = Handle
    BY <1>2 DEF Waited
  <2>3. f = l
    BY <2>1, <2>2, Names DEF Order, Requests
  <2>4. respond[r] # "lock"
    BY <1>2 DEF ConnInv, Locking
  <2> QED  BY <2>1, <2>2, <2>3, <2>4 DEF Order, Requests
<1> QED
  BY <1>1, <1>2, WaitedStep, ConnInvariance, PTL DEF ConnectionSpec

-----------------------------------------------------------------------------
(* The mutex of a connection is the lock that async_mutex implements. *)

Lock == INSTANCE FifoLock WITH Proc <- Coroutines, Nil <- None

(* handle() asks last: at once, or behind the responses.                   *)
LEMMA HandleLocks == ASSUME ConnInv, HandleLock PROVE Lock!Next
<1>1. handle = "finish" /\ Handle \in Coroutines
  BY Names DEF HandleLock
<1>2. PICK f, l \in 0 .. MaxRequests : Order(f, l)
  BY DEF ConnInv, Lined
<1>3. f \in Nat /\ l \in Nat /\ f <= l
  BY <1>2 DEF Order
<1>4. CASE owner = None
  <2>1. Lock!Acquire(Handle)
    BY <1>4 DEF HandleLock, Lock!Acquire
  <2> QED  BY <1>1, <2>1 DEF Lock!Next
<1>5. CASE owner # None
  <2>1. queue' = Append(queue, Handle) /\ owner' = owner
    BY <1>5 DEF HandleLock
  <2>2. f < l
    BY <1>1, <1>2, <1>3, <1>5 DEF Order
  <2>3. /\ owner = f + 1 /\ Len(queue) = l - f - 1
        /\ \A i \in 1 .. l - f - 1 : queue[i] = f + 1 + i
    BY <1>1, <1>2, <2>2 DEF Order
  <2>4. \A i \in 0 .. l - f - 1 : f + 1 + i \in Requests
    BY <1>3, <2>2, Names DEF Requests
  <2>5. owner \in Requests /\ \A i \in DOMAIN queue : queue[i] \in Requests
    <3>1. f + 1 + 0 \in Requests
      BY <1>3, <2>2, <2>4
    <3>2. DOMAIN queue = 1 .. l - f - 1
      BY <2>3 DEF ConnInv, Places
    <3>3. \A i \in 1 .. l - f - 1 : queue[i] \in Requests
      BY <1>3, <2>3, <2>4
    <3> QED  BY <2>3, <3>1, <3>2, <3>3
  <2>6. Handle \notin ToSet(queue)
    BY <2>5, Names DEF ToSet
  <2>7. Lock!Enqueue(Handle)
    BY <1>5, <2>1, <2>5, <2>6, Names DEF Lock!Enqueue, Lock!ToSet, ToSet
  <2> QED  BY <1>1, <2>7 DEF Lock!Next
<1> QED  BY <1>4, <1>5

(* A new respond() neither owns the mutex nor waits for it.                *)
LEMMA RespondLocks == ASSUME ConnInv, NEW r \in Requests, RespondLock(r) PROVE Lock!Next
<1>1. respond[r] = "lock" /\ handle = "parse" /\ r \in Coroutines
  BY Names DEF RespondLock, ConnInv, Locking
<1>2. PICK f, l \in 0 .. MaxRequests : Order(f, l)
  BY DEF ConnInv, Lined
<1>3. f \in Nat /\ l \in Nat /\ f <= l /\ r \in Nat
  BY <1>2 DEF Order, Requests
<1>4. CASE owner = None
  <2>1. Lock!Acquire(r)
    BY <1>4 DEF RespondLock, Lock!Acquire
  <2> QED  BY <1>1, <2>1 DEF Lock!Next
<1>5. CASE owner # None
  <2>1. queue' = Append(queue, r) /\ owner' = owner
    BY <1>5 DEF RespondLock
  <2>2. f < l
    BY <1>1, <1>2, <1>3, <1>5 DEF Order
  <2>3. /\ owner = f + 1 /\ Len(queue) = l - f - 1
        /\ \A i \in 1 .. l - f - 1 : queue[i] = f + 1 + i
    BY <1>1, <1>2, <2>2 DEF Order
  <2>4. l < r
    BY <1>1, <1>2, <1>3 DEF Order
  <2>5. owner # r
    BY <1>3, <2>2, <2>3, <2>4
  <2>6. r \notin ToSet(queue)
    <3>1. DOMAIN queue = 1 .. l - f - 1
      BY <2>3 DEF ConnInv, Places
    <3>2. \A i \in DOMAIN queue : queue[i] # r
      BY <1>3, <2>3, <2>4, <3>1
    <3> QED  BY <3>2 DEF ToSet
  <2>7. Lock!Enqueue(r)
    BY <1>5, <2>1, <2>5, <2>6 DEF Lock!Enqueue, Lock!ToSet, ToSet
  <2> QED  BY <1>1, <2>7 DEF Lock!Next
<1> QED  BY <1>4, <1>5

(* Only the owner unlocks.                                                 *)
LEMMA RespondUnlocks == ASSUME ConnInv, NEW r \in Requests, RespondUnlock(r) PROVE Lock!Next
<1>1. respond[r] = "unlock" /\ r \in Coroutines
  BY Names DEF RespondUnlock
<1>2. owner = r
  BY <1>1, Sender DEF ConnInv, Lined
<1>3. CASE queue = <<>>
  <2>1. Lock!Release(r)
    BY <1>2, <1>3 DEF RespondUnlock, Lock!Release
  <2> QED  BY <1>1, <2>1 DEF Lock!Next
<1>4. CASE queue # <<>>
  <2>1. Lock!HandOver(r)
    BY <1>2, <1>4 DEF RespondUnlock, Lock!HandOver
  <2> QED  BY <1>1, <2>1 DEF Lock!Next
<1> QED  BY <1>3, <1>4

LEMMA LockStep ==
  ConnInv /\ [ConnectionNext]_vars_connection => [Lock!Next]_(Lock!vars)
<1> SUFFICES ASSUME ConnInv, [ConnectionNext]_vars_connection
             PROVE  Lock!Next \/ UNCHANGED <<owner, queue>>
  BY DEF Lock!vars
<1>1. CASE HandleStep
  BY <1>1, HandleLocks
     DEF HandleStep, HandleRecv, HandleTry, HandleArm, HandleReceived, HandleParse,
         HandleClose, mutex
<1>2. ASSUME NEW r \in Requests, RespondStep(r)
      PROVE  Lock!Next \/ UNCHANGED <<owner, queue>>
  BY <1>2, RespondLocks, RespondUnlocks
     DEF RespondStep, RespondSend, RespondTry, RespondArm, RespondSent, RespondReturn, mutex
<1>3. CASE \E d \in Directions : LoopDispatches(d) \/ LoopReceives(d)
  BY <1>3 DEF LoopDispatches, LoopReceives, mutex
<1>4. CASE Ask \/ ClientReads \/ ClientEnds
  BY <1>4 DEF Ask, ClientReads, ClientEnds, mutex
<1>5. CASE UNCHANGED vars_connection
  BY <1>5 DEF vars_connection, mutex
<1> QED  BY <1>1, <1>2, <1>3, <1>4, <1>5 DEF ConnectionNext, ThreadStep

(* respond() and handle() use the mutex as a lock: nobody asks for it who  *)
(* owns it or waits for it already, only its owner unlocks it, and each    *)
(* step of the connection is a step of the first come first served lock    *)
(* that async_mutex implements, or leaves it alone (main.cpp 18-25, 52).   *)
THEOREM MutexIsFifo == ConnectionSpec => Lock!SafeSpec
<1>1. ConnectionInit => Lock!Init
  BY DEF ConnectionInit, Lock!Init
<1> QED
  BY <1>1, LockStep, ConnInvariance, PTL DEF ConnectionSpec, Lock!SafeSpec

-----------------------------------------------------------------------------
(* Nobody is forgotten. *)

(* A coroutine that has not suspended is on the thread, and one that sends *)
(* or receives has an operation.                                           *)
Active ==
  /\ \A r \in Requests :
       /\ respond[r] \in {"send", "unlock"} => Runs(r)
       /\ respond[r] = "sending" => op["send"] # "idle"
  /\ handle \in {"call", "finish", "close"} => Runs(Handle)
  /\ handle = "recv" => Runs(Handle) \/ op["recv"] \in {"armed", "fired"}
  /\ handle = "parse" => stack # <<>> /\ stack[1] = Handle

(* An event that will put a coroutine back on the thread.                  *)
Awaited(d) == op[d] = "fired" \/ (op[d] = "armed" /\ d \in registered)

(* Until the frame of handle() is destroyed, whoever is suspended waits    *)
(* for something that is on its way: handle() for the event of its recv,   *)
(* or behind the responses for the mutex; a response for the event of its  *)
(* send, or for the mutex; and the owner of the mutex, for whom they wait, *)
(* is on the thread or waits for the event of its send (main.cpp 18-54).   *)
NobodyForgotten ==
  handle # "over" =>
    /\ stack = <<>> => handle = "lock" \/ (handle = "recv" /\ Awaited("recv"))
    /\ handle = "lock" => Handle \in ToSet(queue)
    /\ \A r \in Requests :
         /\ respond[r] = "wait" => r \in ToSet(queue)
         /\ respond[r] = "sending" => Runs(r) \/ Awaited("send")
    /\ queue # <<>> => Runs(owner) \/ Awaited("send")

LEMMA ActiveInit == ConnectionInit => Active
<1> SUFFICES ASSUME ConnectionInit PROVE Active
  OBVIOUS
<1>1. stack = <<Handle>> /\ handle = "call" /\ \A r \in Requests : respond[r] = "none"
  BY DEF ConnectionInit
<1>2. Runs(Handle)
  BY <1>1 DEF Runs, Last
<1> QED  BY <1>1, <1>2 DEF Active

(* A step of handle(): the responses are where they were, or a new one is  *)
(* about to run.                                                           *)
LEMMA HandleActive == ASSUME ConnInv, ConnInv', Active, HandleStep PROVE Active'
<1>1. Runs(Handle)
  BY DEF HandleStep, HandleRecv, HandleTry, HandleArm, HandleReceived, HandleParse,
         HandleLock, HandleClose
<1>2. /\ \A r \in Requests : ~ Runs(r) /\ respond[r] # "lock"
      /\ op \in [Directions -> {"idle", "try", "arm", "armed", "fired", "done"}]
      /\ "recv" \in Directions /\ "send" \in Directions
  BY <1>1, HandleRuns
<1>3. \A r \in Requests : respond[r] \notin {"send", "unlock"}
  BY <1>2 DEF Active
<1>4. op'["send"] = op["send"]
  BY <1>2 DEF HandleStep, HandleRecv, HandleTry, HandleArm, HandleReceived, HandleParse,
              HandleLock, HandleClose, Recv, TryRecv, Arm, Finish, socket
<1>5. /\ respond' \in [Requests -> {"none", "lock", "wait", "send", "sending", "unlock",
                                    "unlocking", "over"}]
      /\ \A r \in Requests : respond'[r] = respond[r] \/ respond'[r] = "lock"
  <2>1. respond' = respond \/ \E n : respond' = [respond EXCEPT ![n] = "lock"]
    BY DEF HandleStep, HandleRecv, HandleTry, HandleArm, HandleReceived, HandleParse,
           HandleLock, HandleClose
  <2> QED  BY <2>1 DEF ConnInv, Places
<1>6. \A r \in Requests :
        /\ respond'[r] \notin {"send", "unlock"}
        /\ respond'[r] = "sending" => op'["send"] # "idle"
  BY <1>3, <1>4, <1>5 DEF Active
<1>7. CASE HandleRecv \/ HandleTry \/ HandleReceived
  <2>1. stack' = stack /\ Runs(Handle)'
    BY <1>1, <1>7 DEF HandleRecv, HandleTry, HandleReceived, Runs
  <2>2. handle' \in {"recv", "close", "finish", "parse"}
    BY <1>7 DEF HandleRecv, HandleTry, HandleReceived
  <2>3. handle' = "parse" => Len(stack') = 1
    BY <2>1 DEF ConnInv, Calls
  <2>4. stack'[Len(stack')] = Handle /\ stack' # <<>>
    BY <2>1 DEF Runs, Last
  <2> QED  BY <1>6, <2>1, <2>2, <2>3, <2>4 DEF Active
<1>8. CASE HandleArm
  <2>1. /\ handle' = "recv"
        /\ stack' = IF op'["recv"] = "armed" THEN Front(stack) ELSE stack
    BY <1>8 DEF HandleArm
  <2>2. op'["recv"] = "armed" \/ Runs(Handle)'
    BY <1>1, <2>1 DEF Runs
  <2> QED  BY <1>6, <2>1, <2>2 DEF Active
<1>9. CASE HandleParse
  <2>1. CASE handle' = "call" /\ stack' = stack
    BY <1>1, <1>6, <2>1 DEF Active, Runs
  <2>2. CASE handle' = "parse" /\ \E r \in Requests : stack' = Append(stack, r)
    <3>1. stack \in Seq(Coroutines) /\ stack # <<>> /\ stack[1] = Handle
      BY <1>9 DEF ConnInv, Places, Active, HandleParse
    <3>2. stack' # <<>> /\ stack'[1] = stack[1]
      BY <2>2, <3>1, Pushed, Popped, Names
    <3> QED  BY <1>6, <2>2, <3>1, <3>2 DEF Active
  <2>3. \/ handle' = "call" /\ stack' = stack
        \/ /\ handle' = "parse" /\ todo > 0
           /\ \E n \in Requests : stack' = Append(stack, n)
    <3>1. CASE todo = 0
      BY <1>9, <3>1 DEF HandleParse
    <3>2. CASE todo > 0
      <4> DEFINE n == CHOOSE r \in Requests :
                        respond[r] = "none" /\ \A s \in 1 .. r - 1 : respond[s] # "none"
      <4>1. n \in Requests
        <5>1. PICK f, l \in 0 .. MaxRequests : Order(f, l)
          BY DEF ConnInv, Lined
        <5> QED  BY <1>2, <3>2, <5>1, NextRequest
      <4>2. stack' = Append(stack, n) /\ handle' = handle /\ handle = "parse"
        BY <1>9, <3>2 DEF HandleParse
      <4> HIDE DEF n
      <4> QED  BY <3>2, <4>1, <4>2
    <3>3. todo \in Nat
      BY <1>1, HandleRuns
    <3> QED  BY <3>1, <3>2, <3>3
  <2> QED  BY <2>1, <2>2, <2>3
<1>10. CASE HandleLock
  <2>1. handle' = "lock" \/ (handle' = "close" /\ stack' = stack)
    BY <1>10 DEF HandleLock
  <2> QED  BY <1>1, <1>6, <2>1 DEF Active, Runs
<1>11. CASE HandleClose
  <2>1. handle' = "over"
    BY <1>11 DEF HandleClose
  <2> QED  BY <1>6, <2>1 DEF Active
<1> QED  BY <1>7, <1>8, <1>9, <1>10, <1>11 DEF HandleStep

(* A step of a response that stays on the thread. *)
LEMMA StaysActive ==
  ASSUME ConnInv, Active, NEW r \in Requests, Runs(r), respond[r] # "unlocking",
         UNCHANGED <<handle, stack>>, op'["recv"] = op["recv"],
         \A s \in Requests : s # r => respond'[s] = respond[s] /\ respond[s] # "sending",
         respond'[r] = "sending" => op'["send"] # "idle"
  PROVE  Active'
<1>1. \A c : Runs(c) => c = r
  BY RespondRuns
<1>2. \A c : Runs(c)' <=> Runs(c)
  BY DEF Runs
<1>3. ASSUME NEW s \in Requests
      PROVE  /\ respond'[s] \in {"send", "unlock"} => Runs(s)'
             /\ respond'[s] = "sending" => op'["send"] # "idle"
  <2>1. CASE s = r
    BY <1>2, <2>1
  <2>2. CASE s # r
    BY <1>2, <2>2 DEF Active
  <2> QED  BY <2>1, <2>2
<1>4. /\ handle' \in {"call", "finish", "close"} => Runs(Handle)'
      /\ handle' = "recv" => Runs(Handle)' \/ op'["recv"] \in {"armed", "fired"}
      /\ handle' = "parse" => stack' # <<>> /\ stack'[1] = Handle
  BY <1>2 DEF Active
<1> QED  BY <1>3, <1>4 DEF Active

(* A response leaves the thread, suspended or over; handle() is below it   *)
(* while it starts responses.                                              *)
LEMMA LeavesActive ==
  ASSUME ConnInv, Active, NEW r \in Requests, Runs(r),
         handle' = handle, stack' = Front(stack), op'["recv"] = op["recv"],
         \A s \in Requests : s # r =>
           /\ respond'[s] = respond[s]
           /\ respond[s] = "sending" => op'["send"] = op["send"],
         respond'[r] \notin {"send", "unlock"},
         respond'[r] = "sending" => op'["send"] # "idle"
  PROVE  Active'
<1>1. stack \in Seq(Coroutines) /\ stack # <<>> /\ \A c : Runs(c) => c = r
  BY OnTop DEF ConnInv, Places, Runs
<1>2. ~ Runs(Handle) /\ \A s \in Requests : s # r => ~ Runs(s)
  BY <1>1, Names
<1>3. ASSUME NEW s \in Requests
      PROVE  /\ respond'[s] \notin {"send", "unlock"}
             /\ respond'[s] = "sending" => op'["send"] # "idle"
  <2>1. CASE s # r
    BY <1>2, <2>1 DEF Active
  <2> QED  BY <2>1
<1>4. handle' \notin {"call", "finish", "close"}
      /\ (handle' = "recv" => op'["recv"] \in {"armed", "fired"})
  BY <1>2 DEF Active
<1>5. ASSUME handle' = "parse" PROVE stack' # <<>> /\ stack'[1] = Handle
  <2>1. stack[1] = Handle /\ stack[Len(stack)] = r /\ Len(stack) \in Nat \ {0}
    BY <1>1, <1>5, OnTop DEF Active, ConnInv
  <2>2. Len(stack) # 1
    BY <2>1, Names
  <2>3. /\ stack' # <<>> /\ \A i \in 1 .. Len(stack) - 1 : stack'[i] = stack[i]
    BY <1>1, <2>2, Popped
  <2>4. 1 \in 1 .. Len(stack) - 1
    BY <2>1, <2>2
  <2> QED  BY <2>1, <2>3, <2>4
<1> QED  BY <1>3, <1>4, <1>5 DEF Active

(* Only the owner of the mutex sends.                                      *)
LEMMA OneSends ==
  ASSUME ConnInv, NEW r \in Requests, respond[r] \in {"send", "sending", "unlock"},
         NEW s \in Requests, s # r
  PROVE  respond[s] \notin {"send", "sending", "unlock"}
<1>1. PICK f, l \in 0 .. MaxRequests : Order(f, l)
  BY DEF ConnInv, Lined
<1>2. r = f + 1
  BY <1>1, Sender
<1>3. respond[s] \in {"send", "sending", "unlock"} => s = f + 1
  BY <1>1, Sender
<1> QED  BY <1>2, <1>3

(* unlock() with nobody queued ends the response; else the first in the    *)
(* queue runs, above the response that is in unlock().                     *)
LEMMA UnlockActive ==
  ASSUME ConnInv, Active, NEW r \in Requests, RespondUnlock(r) PROVE Active'
<1>1. /\ Runs(r) /\ respond[r] = "unlock" /\ UNCHANGED op
      /\ respond \in [Requests -> {"none", "lock", "wait", "send", "sending",
                                   "unlock", "unlocking", "over"}]
      /\ stack \in Seq(Coroutines) /\ queue \in Seq(Coroutines)
  BY DEF RespondUnlock, socket, ConnInv, Places
<1>2. /\ \A c : Runs(c) => c = r
      /\ \A s \in Requests : s # r => respond[s] \notin {"send", "sending", "unlock"}
  BY <1>1, RespondRuns, OneSends
<1>3. CASE queue = <<>>
  <2>1. /\ handle' = handle /\ respond' = [respond EXCEPT ![r] = "over"]
        /\ stack' = Front(stack)
    BY <1>3 DEF RespondUnlock
  <2>2. respond'[r] = "over" /\ \A s \in Requests : s # r => respond'[s] = respond[s]
    BY <1>1, <2>1
  <2> QED  BY <1>1, <2>1, <2>2, LeavesActive
<1>4. CASE queue # <<>>
  <2> DEFINE c == Head(queue)
  <2>1. /\ stack' = Append(stack, c)
        /\ handle' = IF c = Handle THEN "close" ELSE handle
        /\ respond' = [s \in Requests |->
                         IF s = c THEN "send"
                         ELSE IF Runs(s) THEN "unlocking" ELSE respond[s]]
    BY <1>4 DEF RespondUnlock, Resumed
  <2>2. c \in Coroutines
    BY <1>1, <1>4, HeadTailProperties
  <2> HIDE DEF c
  <2>3. stack' # <<>> /\ Last(stack') = c /\ stack'[1] = stack[1]
    <3>1. stack # <<>>
      BY <1>1 DEF Runs
    <3>2. 1 \in 1 .. Len(stack)
      BY <1>1, <3>1, Popped
    <3> QED  BY <1>1, <2>1, <2>2, <3>2, Pushed
  <2>4. ASSUME NEW s \in Requests
        PROVE  /\ respond'[s] \in {"send", "unlock"} => Runs(s)'
               /\ respond'[s] # "sending"
    <3>1. CASE s = c
      BY <2>1, <2>3, <3>1 DEF Runs
    <3>2. CASE s # c /\ s = r
      BY <1>1, <2>1, <3>2
    <3>3. CASE s # c /\ s # r
      BY <1>2, <2>1, <3>3
    <3> QED  BY <3>1, <3>2, <3>3
  <2>5. handle' \in {"call", "finish", "close"} => Runs(Handle)'
    <3>1. handle \notin {"call", "finish", "close"}
      BY <1>2, Names DEF Active
    <3> QED  BY <2>1, <2>3, <3>1 DEF Runs
  <2>6. handle' = "recv" => op'["recv"] \in {"armed", "fired"}
    BY <1>1, <1>2, <2>1, Names DEF Active
  <2>7. handle' = "parse" => stack' # <<>> /\ stack'[1] = Handle
    BY <2>1, <2>3 DEF Active
  <2> QED  BY <2>4, <2>5, <2>6, <2>7 DEF Active
<1> QED  BY <1>3, <1>4

(* The loop puts the coroutine of the event on the thread.                 *)
LEMMA DispatchActive ==
  ASSUME ConnInv, Active, NEW d \in Directions, LoopDispatches(d) PROVE Active'
<1>1. /\ stack = <<>> /\ stack' = <<IF d = "recv" THEN Handle ELSE owner>>
      /\ UNCHANGED <<handle, respond>> /\ op[d] = "fired" /\ op' = [op EXCEPT ![d] = "try"]
  BY DEF LoopDispatches, Dispatch
<1>2. /\ op \in [Directions -> {"idle", "try", "arm", "armed", "fired", "done"}]
      /\ "send" \in Directions /\ "recv" \in Directions
  BY DEF ConnInv, Socket, SocketInv, TypeOK, Directions
<1>3. \A c : ~ Runs(c)
  BY <1>1 DEF Runs
<1>4. \A s \in Requests : respond'[s] \notin {"send", "unlock"}
  BY <1>1, <1>3 DEF Active
<1>5. op'["send"] = "idle" => op["send"] = "idle"
  BY <1>1, <1>2 DEF Directions
<1>6. handle' \notin {"call", "finish", "close", "parse"}
  BY <1>1, <1>3 DEF Active
<1>7. handle' = "recv" => Runs(Handle)' \/ op'["recv"] \in {"armed", "fired"}
  <2>1. CASE d = "recv"
    BY <1>1, <2>1 DEF Runs, Last
  <2>2. CASE d = "send"
    BY <1>1, <1>2, <1>3, <2>2 DEF Active
  <2> QED  BY <2>1, <2>2 DEF Directions
<1> QED  BY <1>1, <1>4, <1>5, <1>6, <1>7 DEF Active

LEMMA RespondActive ==
  ASSUME ConnInv, Active, NEW r \in Requests, RespondStep(r) PROVE Active'
<1>1. Runs(r) /\ respond \in [Requests -> {"none", "lock", "wait", "send", "sending",
                                           "unlock", "unlocking", "over"}]
  BY DEF RespondStep, RespondLock, RespondSend, RespondTry, RespondArm, RespondSent,
         RespondUnlock, RespondReturn, ConnInv, Places
<1>2. CASE RespondLock(r)
  <2>1. UNCHANGED <<handle, op>> /\ respond[r] = "lock"
    BY <1>2 DEF RespondLock, socket
  <2>2. CASE owner = None
    <3>1. respond' = [respond EXCEPT ![r] = "send"] /\ stack' = stack
      BY <1>2, <2>2 DEF RespondLock
    <3>2. \A s \in Requests : s # r => respond'[s] = respond[s]
      BY <1>1, <3>1
    <3>3. Runs(r)' /\ (Runs(Handle) => Runs(Handle)')
      BY <1>1, <3>1 DEF Runs
    <3>4. \A s \in Requests : Runs(s)' <=> Runs(s)
      BY <3>1 DEF Runs
    <3>5. respond'[r] = "send"
      BY <1>1, <3>1
    <3>6. \A s \in Requests :
            /\ respond'[s] \in {"send", "unlock"} => Runs(s)'
            /\ respond'[s] = "sending" => op'["send"] # "idle"
      BY <2>1, <3>2, <3>3, <3>4, <3>5 DEF Active
    <3> QED  BY <2>1, <3>1, <3>3, <3>6 DEF Active
  <2>3. CASE owner # None
    <3>1. respond' = [respond EXCEPT ![r] = "wait"] /\ stack' = Front(stack)
      BY <1>2, <2>3 DEF RespondLock
    <3>2. respond'[r] = "wait" /\ \A s \in Requests : s # r => respond'[s] = respond[s]
      BY <1>1, <3>1
    <3> QED  BY <1>1, <2>1, <3>1, <3>2, LeavesActive
  <2> QED  BY <2>2, <2>3
<1>3. CASE RespondSend(r) \/ RespondTry(r) \/ RespondSent(r)
  <2>1. UNCHANGED <<handle, stack>> /\ respond[r] \in {"send", "sending"}
    BY <1>3 DEF RespondSend, RespondTry, RespondSent
  <2>2. op'["recv"] = op["recv"] /\ respond[r] # "unlocking"
        /\ op \in [Directions -> {"idle", "try", "arm", "armed", "fired", "done"}]
        /\ "send" \in Directions
    <3>1. /\ op \in [Directions -> {"idle", "try", "arm", "armed", "fired", "done"}]
          /\ "send" \in Directions /\ "recv" \in Directions
      BY <1>1, <2>1, RespondRuns
    <3>2. \E x : op' = [op EXCEPT !["send"] = x]
      BY <1>3 DEF RespondSend, RespondTry, RespondSent, Send, TrySend, Finish
    <3> QED  BY <2>1, <3>1, <3>2
  <2>3. /\ \A s \in Requests : s # r => respond'[s] = respond[s]
        /\ respond'[r] = "sending" => op'["send"] # "idle"
    <3>1. CASE RespondSend(r)
      BY <1>1, <2>2, <3>1 DEF RespondSend, Send
    <3>2. CASE RespondTry(r)
      BY <1>1, <2>2, <3>2 DEF RespondTry, TrySend
    <3>3. CASE RespondSent(r)
      BY <1>1, <3>3 DEF RespondSent
    <3> QED  BY <1>3, <3>1, <3>2, <3>3
  <2>4. \A s \in Requests : s # r => respond[s] # "sending"
    BY <2>1, OneSends
  <2> QED  BY <1>1, <2>1, <2>2, <2>3, <2>4, StaysActive
<1>4. CASE RespondArm(r)
  <2>1. /\ respond[r] = "sending" /\ UNCHANGED <<handle, respond>>
        /\ stack' = IF op'["send"] = "armed" THEN Front(stack) ELSE stack
    BY <1>4 DEF RespondArm
  <2>2. op'["recv"] = op["recv"] /\ op'["send"] # "idle"
    <3>1. /\ op \in [Directions -> {"idle", "try", "arm", "armed", "fired", "done"}]
          /\ "send" \in Directions /\ "recv" \in Directions
      BY <1>1, <2>1, RespondRuns
    <3>2. \E x \in {"armed", "done"} : op' = [op EXCEPT !["send"] = x]
      BY <1>4 DEF RespondArm, Arm
    <3> QED  BY <3>1, <3>2
  <2>3. \A s \in Requests : s # r => respond'[s] = respond[s] /\ respond[s] # "sending"
    BY <2>1, OneSends
  <2>4. CASE stack' = stack
    BY <1>1, <2>1, <2>2, <2>3, <2>4, StaysActive
  <2>5. CASE stack' = Front(stack)
    BY <1>1, <2>1, <2>2, <2>3, <2>5, LeavesActive
  <2> QED  BY <2>1, <2>4, <2>5
<1>5. CASE RespondReturn(r)
  <2>1. /\ UNCHANGED <<handle, op>> /\ respond' = [respond EXCEPT ![r] = "over"]
        /\ stack' = Front(stack)
    BY <1>5 DEF RespondReturn, socket
  <2>2. respond'[r] = "over" /\ \A s \in Requests : s # r => respond'[s] = respond[s]
    BY <1>1, <2>1
  <2> QED  BY <1>1, <2>1, <2>2, LeavesActive
<1>6. CASE RespondUnlock(r)
  BY <1>6, UnlockActive
<1> QED  BY <1>2, <1>3, <1>4, <1>5, <1>6 DEF RespondStep

LEMMA ActiveStep ==
  ConnInv /\ ConnInv' /\ Active /\ [ConnectionNext]_vars_connection => Active'
<1> SUFFICES ASSUME ConnInv, ConnInv', Active, [ConnectionNext]_vars_connection
             PROVE  Active'
  OBVIOUS
<1>1. CASE HandleStep
  BY <1>1, HandleActive
<1>2. ASSUME NEW r \in Requests, RespondStep(r) PROVE Active'
  BY <1>2, RespondActive
<1>3. ASSUME NEW d \in Directions, LoopDispatches(d) PROVE Active'
  BY <1>3, DispatchActive
<1>4. ASSUME NEW d \in Directions, LoopReceives(d) PROVE Active'
  <2>1. /\ UNCHANGED <<handle, respond, stack>> /\ op[d] = "armed"
        /\ op' = [op EXCEPT ![d] = "fired"]
    BY <1>4 DEF LoopReceives, Fire
  <2>2. \A c : Runs(c)' <=> Runs(c)
    BY <2>1 DEF Runs
  <2>3. /\ op'["send"] = "idle" => op["send"] = "idle"
        /\ op["recv"] \in {"armed", "fired"} => op'["recv"] \in {"armed", "fired"}
    <3>1. /\ op \in [Directions -> {"idle", "try", "arm", "armed", "fired", "done"}]
          /\ "send" \in Directions /\ "recv" \in Directions
      BY DEF ConnInv, Socket, SocketInv, TypeOK, Directions
    <3> QED  BY <2>1, <3>1 DEF Directions
  <2> QED  BY <2>1, <2>2, <2>3 DEF Active
<1>5. CASE Ask \/ ClientReads \/ ClientEnds \/ UNCHANGED vars_connection
  <2>1. UNCHANGED <<handle, respond, stack, op>>
    BY <1>5 DEF Ask, ClientReads, ClientEnds, Arrive, Drain, PeerEnds, event,
                vars_connection, socket
  <2> QED  BY <2>1 DEF Active, Runs
<1> QED  BY <1>1, <1>2, <1>3, <1>4, <1>5 DEF ConnectionNext, ThreadStep

LEMMA ActiveAwaits == ASSUME ConnInv, Active PROVE NobodyForgotten
<1> SUFFICES ASSUME handle # "over"
             PROVE  /\ stack = <<>> => handle = "lock" \/ (handle = "recv" /\ Awaited("recv"))
                    /\ handle = "lock" => Handle \in ToSet(queue)
                    /\ \A r \in Requests :
                         /\ respond[r] = "wait" => r \in ToSet(queue)
                         /\ respond[r] = "sending" => Runs(r) \/ Awaited("send")
                    /\ queue # <<>> => Runs(owner) \/ Awaited("send")
  BY DEF NobodyForgotten
<1>1. PICK f, l \in 0 .. MaxRequests : Order(f, l)
  BY DEF ConnInv, Lined
<1>2. f \in Nat /\ l \in Nat /\ f <= l /\ Requests \subseteq Nat
  BY <1>1 DEF Order, Requests
<1>3. \A d \in Directions : op[d] \in {"armed", "fired"} => Awaited(d)
  BY DEF Awaited, ConnInv, Socket, SocketInv, WaitsRegistered
<1>4. ASSUME stack = <<>> PROVE handle = "lock" \/ (handle = "recv" /\ Awaited("recv"))
  <2>1. ~ Runs(Handle)
    BY <1>4 DEF Runs
  <2>2. handle \in {"recv", "lock"}
    BY <1>4, <2>1 DEF Active, ConnInv, Places
  <2> QED  BY <1>3, <2>1, <2>2 DEF Active, Directions
<1>5. queue # <<>> \/ handle = "lock" \/ (\E r \in Requests : respond[r] = "wait") => f < l
  BY <1>1, <1>2 DEF Order
<1>6. f < l => DOMAIN queue = 1 .. (IF handle = "lock" THEN l - f ELSE l - f - 1)
  BY <1>1 DEF Order, ConnInv, Places
<1>7. ASSUME handle = "lock" PROVE Handle \in ToSet(queue)
  <2>1. queue[l - f] = Handle /\ f < l
    BY <1>1, <1>5, <1>7 DEF Order
  <2>2. l - f \in DOMAIN queue
    BY <1>2, <1>6, <1>7, <2>1
  <2> QED  BY <2>1, <2>2 DEF ToSet
<1>8. ASSUME NEW r \in Requests, respond[r] = "wait" PROVE r \in ToSet(queue)
  <2>1. f + 1 < r /\ r <= l
    BY <1>1, <1>2, <1>8 DEF Order
  <2>2. r - f - 1 \in 1 .. l - f - 1 /\ f + 1 + (r - f - 1) = r
    BY <1>2, <2>1
  <2>3. queue[r - f - 1] = r
    <3>1. \A i \in 1 .. l - f - 1 : queue[i] = f + 1 + i
      BY <1>1, <1>2, <2>1 DEF Order
    <3> QED  BY <2>2, <3>1
  <2>4. r - f - 1 \in DOMAIN queue
    BY <1>2, <1>6, <2>1, <2>2
  <2> QED  BY <2>3, <2>4 DEF ToSet
<1>9. ASSUME NEW r \in Requests, respond[r] = "sending" PROVE Runs(r) \/ Awaited("send")
  <2>1. owner = r
    BY <1>1, <1>9, Sender
  <2>2. op["send"] # "idle"
    BY <1>9 DEF Active
  <2>3. /\ op \in [Directions -> {"idle", "try", "arm", "armed", "fired", "done"}]
        /\ "send" \in Directions
    BY DEF ConnInv, Socket, SocketInv, TypeOK, Directions
  <2>4. CASE op["send"] \in {"try", "arm", "done"}
    BY <2>1, <2>4 DEF ConnInv, Sends
  <2>5. CASE op["send"] \in {"armed", "fired"}
    BY <1>3, <2>3, <2>5
  <2> QED  BY <2>2, <2>3, <2>4, <2>5
<1>10. ASSUME queue # <<>> PROVE Runs(owner) \/ Awaited("send")
  <2>1. f + 1 <= l /\ owner = f + 1
    BY <1>1, <1>2, <1>5, <1>10 DEF Order
  <2>2. f + 1 \in Requests
    BY <1>2, <2>1, Names DEF Requests
  <2>3. respond[f + 1] \in {"send", "sending", "unlock"}
    BY <1>1, <2>1, <2>2 DEF Order
  <2>4. respond[f + 1] \in {"send", "unlock"} => Runs(f + 1)
    BY <2>2 DEF Active
  <2> QED  BY <1>9, <2>1, <2>2, <2>3, <2>4
<1> QED  BY <1>4, <1>7, <1>8, <1>9, <1>10

(* As long as the frame of handle() lives, nobody is suspended for good:   *)
(* what each coroutine waits for is registered with the kernel, or is the  *)
(* mutex behind an owner that goes on.  What the liveness of the runs adds *)
(* is that the loop and the client do (main.cpp 18-54).                    *)
THEOREM NobodyIsForgotten == ConnectionSpec => []NobodyForgotten
<1>1. ConnectionSpec => []Active
  BY ActiveInit, ActiveStep, ConnInvariance, PTL DEF ConnectionSpec
<1> QED
  BY <1>1, ActiveAwaits, ConnInvariance, PTL

-----------------------------------------------------------------------------
(* No request is lost. *)

(* What recv returned is there to be answered until handle() has answered  *)
(* it: no error comes with it, and nothing else is received meanwhile.     *)
Answering ==
  /\ op["recv"] \in {"try", "arm", "armed", "fired"} => ec["recv"] = "none"
  /\ todo > 0 => \/ handle = "parse"
                 \/ handle = "recv" /\ op["recv"] = "done" /\ ec["recv"] = "none"
  /\ \A r \in Requests : r + todo + arrived <= asked => respond[r] # "none"

(* A request waits in the socket, was received and waits for its turn, or  *)
(* has its one respond().                                                  *)
EachRequestOnce ==
  \A r \in Requests : respond[r] # "none" <=> r + todo + arrived <= asked

(* A step that neither receives nor starts a response.                     *)
LEMMA AnsweringKept ==
  ASSUME Answering, UNCHANGED <<todo, arrived, asked>>,
         \A r \in Requests : respond[r] # "none" => respond'[r] # "none",
         handle' = handle \/ todo = 0,
         op'["recv"] = op["recv"] /\ ec'["recv"] = ec["recv"]
  PROVE  Answering'
BY DEF Answering

LEMMA MoreLeft ==
  ASSUME NEW t \in Nat, NEW a \in Nat, NEW u \in Nat, NEW b \in Nat, NEW q \in Nat,
         t + a <= u + b
  PROVE  \A r \in Nat : r + u + b <= q => r + t + a <= q
OBVIOUS

LEMMA HandleAnswering == ASSUME ConnInv, Answering, HandleStep PROVE Answering'
<1>1. Runs(Handle)
  BY DEF HandleStep, HandleRecv, HandleTry, HandleArm, HandleReceived, HandleParse,
         HandleLock, HandleClose
<1>2. /\ op \in [Directions -> {"idle", "try", "arm", "armed", "fired", "done"}]
      /\ "recv" \in Directions /\ op["recv"] # "fired"
      /\ todo \in Nat /\ arrived \in Nat /\ asked \in Nat /\ Requests \subseteq Nat
      /\ ec \in [Directions -> {"none", "exists", "failed"}]
  BY <1>1, HandleRuns DEF ConnInv, Places, SocketInv, TypeOK, Requests
<1>3. todo = 0 \/ handle \in {"parse", "recv"}
  BY <1>2 DEF Answering
<1>4. CASE HandleRecv
  <2>1. /\ todo = 0 /\ UNCHANGED <<todo, arrived, asked, respond>>
        /\ op' = [op EXCEPT !["recv"] = "try"] /\ ec' = [ec EXCEPT !["recv"] = "none"]
    BY <1>3, <1>4 DEF HandleRecv, Recv, kernel
  <2>2. op'["recv"] = "try" /\ ec'["recv"] = "none"
    BY <1>2, <2>1
  <2> QED  BY <2>1, <2>2 DEF Answering
<1>5. CASE HandleTry
  <2>1. /\ handle = "recv" /\ handle' = "recv" /\ op["recv"] = "try" /\ ec["recv"] = "none"
        /\ todo' = arrived - arrived' /\ UNCHANGED <<asked, respond>>
    BY <1>5 DEF HandleTry, TryRecv, Answering
  <2>2. todo = 0
    BY <1>2, <2>1 DEF Answering
  <2>3. \/ arrived' \in 0 .. arrived /\ op'["recv"] = "done" /\ ec'["recv"] = "none"
        \/ arrived' = arrived /\ op'["recv"] = "done"
        \/ arrived' = arrived /\ op'["recv"] = "arm" /\ ec'["recv"] = "none"
    <3>1. CASE arrived > 0
      <4>1. /\ \E n \in 1 .. arrived : arrived' = arrived - n
            /\ op' = [op EXCEPT !["recv"] = "done"] /\ ec' = ec
        BY <1>2, <1>5, <3>1 DEF HandleTry, TryRecv
      <4>2. arrived' \in 0 .. arrived
        BY <1>2, <4>1
      <4> QED  BY <1>2, <2>1, <4>1, <4>2
    <3>2. CASE arrived = 0
      <4>1. /\ arrived' = arrived
            /\ op' = [op EXCEPT !["recv"] = IF peer = "open" THEN "arm" ELSE "done"]
            /\ ec' = [ec EXCEPT !["recv"] = IF peer = "failed" THEN "failed" ELSE "none"]
        BY <1>2, <1>5, <3>2 DEF HandleTry, TryRecv
      <4> QED  BY <1>2, <4>1
    <3>3. arrived > 0 \/ arrived = 0
      BY <1>2
    <3> QED  BY <3>1, <3>2, <3>3
  <2>4. arrived' \in Nat /\ todo' \in Nat /\ todo + arrived <= todo' + arrived'
    BY <1>2, <2>1, <2>2, <2>3
  <2>5. \A r \in Requests : r + todo' + arrived' <= asked => r + todo + arrived <= asked
    <3>1. \A r \in Nat : r + todo' + arrived' <= asked => r + todo + arrived <= asked
      BY <1>2, <2>4, MoreLeft
    <3> QED  BY <1>2, <3>1
  <2>6. todo' > 0 => op'["recv"] = "done" /\ ec'["recv"] = "none"
    BY <1>2, <2>1, <2>3
  <2>7. op'["recv"] # "done" => ec'["recv"] = "none"
    BY <2>3
  <2> QED  BY <2>1, <2>5, <2>6, <2>7 DEF Answering
<1>6. CASE HandleArm
  <2>1. /\ handle = "recv" /\ op["recv"] = "arm"
        /\ UNCHANGED <<todo, arrived, asked, respond>>
        /\ \/ op' = [op EXCEPT !["recv"] = "armed"] /\ ec' = ec
           \/ op' = [op EXCEPT !["recv"] = "done"]
    BY <1>6 DEF HandleArm, Arm, kernel
  <2>2. todo = 0 /\ ec["recv"] = "none"
    BY <1>2, <2>1 DEF Answering
  <2>3. op'["recv"] = "done" \/ (op'["recv"] = "armed" /\ ec'["recv"] = "none")
    BY <1>2, <2>1, <2>2
  <2> QED  BY <2>1, <2>2, <2>3 DEF Answering
<1>7. CASE HandleReceived
  <2>1. /\ handle = "recv" /\ UNCHANGED <<todo, arrived, asked, respond, ec>>
        /\ op' = [op EXCEPT !["recv"] = "idle"]
        /\ handle' = IF ec["recv"] # "none" THEN "close"
                     ELSE IF todo = 0 THEN "finish" ELSE "parse"
    BY <1>7 DEF HandleReceived, Finish, kernel
  <2>2. op'["recv"] = "idle"
    BY <1>2, <2>1
  <2>3. todo > 0 => handle' = "parse"
    BY <1>2, <2>1 DEF Answering
  <2> QED  BY <2>1, <2>2, <2>3 DEF Answering
<1>8. CASE HandleParse
  <2>1. handle = "parse" /\ UNCHANGED <<op, ec, arrived, asked>>
    BY <1>8 DEF HandleParse, socket, kernel
  <2>2. CASE todo = 0
    <3>1. UNCHANGED <<todo, respond>>
      BY <1>8, <2>2 DEF HandleParse
    <3> QED  BY <2>1, <2>2, <3>1, AnsweringKept
  <2>3. CASE todo > 0
    <3>1. PICK f, l \in 0 .. MaxRequests : Order(f, l)
      BY DEF ConnInv, Lined
    <3> DEFINE n == l + 1
    <3>2. /\ n \in Requests /\ l \in Nat
          /\ n = CHOOSE r \in Requests :
                   respond[r] = "none" /\ \A s \in 1 .. r - 1 : respond[s] # "none"
      BY <1>1, <2>3, <3>1, HandleRuns, NextRequest
    <3>3. \A r \in Requests : r <= l => respond[r] # "none"
      BY <3>1, <3>2, <1>2 DEF Order, Requests
    <3>4. respond[n] = "none"
      BY <1>1, <2>3, <3>1, HandleRuns, NextRequest
    <3>5. n + todo + arrived > asked
      BY <3>2, <3>4, <1>2 DEF Answering
    <3>6. \A r \in Requests : r + (todo - 1) + arrived <= asked => r <= n
      BY <1>2, <3>2, <3>5
    <3>7. \A r \in Requests : r <= n => r <= l \/ r = n
      BY <1>2, <3>2
    <3> HIDE DEF n
    <3>8. /\ todo' = todo - 1 /\ handle' = "parse"
          /\ respond' = [respond EXCEPT ![n] = "lock"]
      BY <1>8, <2>1, <2>3, <3>2 DEF HandleParse
    <3>9. \A r \in Requests : r <= l \/ r = n => respond'[r] # "none"
      BY <3>3, <3>8 DEF ConnInv, Places
    <3>10. \A r \in Requests : r + todo' + arrived' <= asked' => respond'[r] # "none"
      BY <2>1, <3>6, <3>7, <3>8, <3>9
    <3> QED  BY <2>1, <3>8, <3>10 DEF Answering
  <2> QED  BY <1>2, <2>2, <2>3
<1>9. CASE HandleLock \/ HandleClose
  <2>1. UNCHANGED <<op, ec, arrived, todo, asked, respond>> /\ handle \notin {"parse", "recv"}
    BY <1>9 DEF HandleLock, HandleClose, socket, kernel
  <2> QED  BY <1>3, <2>1, AnsweringKept
<1> QED  BY <1>4, <1>5, <1>6, <1>7, <1>8, <1>9 DEF HandleStep

(* The mutex goes to handle() only when it waits for it.                   *)
LEMMA ResumedFromLock ==
  ASSUME ConnInv, queue # <<>>, Head(queue) = Handle
  PROVE  handle = "lock"
<1>1. PICK f, l \in 0 .. MaxRequests : Order(f, l)
  BY DEF ConnInv, Lined
<1>2. f \in Nat /\ l \in Nat /\ f < l /\ queue[1] = Handle /\ queue \in Seq(Coroutines)
  BY <1>1 DEF Order, ConnInv, Places
<1>3. ASSUME handle # "lock" PROVE FALSE
  <2>1. Len(queue) = l - f - 1 /\ Len(queue) # 0
    BY <1>1, <1>2, <1>3 DEF Order
  <2>2. 1 \in 1 .. l - f - 1 /\ f + 2 \in Requests
    BY <1>2, <2>1, Names DEF Requests
  <2>3. queue[1] = f + 1 + 1
    BY <1>1, <1>2, <2>2 DEF Order
  <2> QED  BY <1>2, <2>2, <2>3, Names
<1> QED  BY <1>3

LEMMA RespondAnswering ==
  ASSUME ConnInv, Answering, NEW r \in Requests, RespondStep(r) PROVE Answering'
<1>1. /\ UNCHANGED <<todo, asked>>
      /\ respond \in [Requests -> {"none", "lock", "wait", "send", "sending", "unlock",
                                   "unlocking", "over"}]
  BY DEF RespondStep, RespondLock, RespondSend, RespondTry, RespondArm, RespondSent,
         RespondUnlock, RespondReturn, ConnInv, Places
<1>2. arrived' = arrived
  BY DEF RespondStep, RespondLock, RespondSend, RespondTry, RespondArm, RespondSent,
         RespondUnlock, RespondReturn, socket, kernel, Send, TrySend, Arm, Finish
<1>3. /\ op \in [Directions -> {"idle", "try", "arm", "armed", "fired", "done"}]
      /\ ec \in [Directions -> {"none", "exists", "failed"}]
      /\ "recv" \in Directions /\ "send" \in Directions /\ todo \in Nat
  BY TcpSocketConstants DEF ConnInv, Socket, SocketInv, TypeOK, Directions, Places
<1>4. op'["recv"] = op["recv"] /\ ec'["recv"] = ec["recv"]
  <2>1. CASE RespondSend(r)
    BY <1>3, <2>1 DEF RespondSend, Send
  <2>2. CASE RespondTry(r)
    BY <1>3, <2>2 DEF RespondTry, TrySend
  <2>3. CASE RespondArm(r)
    BY <1>3, <2>3 DEF RespondArm, Arm
  <2>4. CASE RespondSent(r)
    BY <1>3, <2>4 DEF RespondSent, Finish
  <2>5. CASE RespondLock(r) \/ RespondUnlock(r) \/ RespondReturn(r)
    BY <2>5 DEF RespondLock, RespondUnlock, RespondReturn, socket
  <2> QED  BY <2>1, <2>2, <2>3, <2>4, <2>5 DEF RespondStep
<1>5. \A s \in Requests : respond[s] # "none" => respond'[s] # "none"
  <2>1. CASE RespondUnlock(r) /\ queue # <<>>
    BY <2>1 DEF RespondUnlock, Resumed
  <2>2. CASE ~ (RespondUnlock(r) /\ queue # <<>>)
    <3>1. \/ respond' = respond
          \/ \E x \in {"send", "wait", "sending", "unlock", "over"} :
               respond' = [respond EXCEPT ![r] = x]
      BY <2>2 DEF RespondStep, RespondLock, RespondSend, RespondTry, RespondArm, RespondSent,
                  RespondUnlock, RespondReturn
    <3> QED  BY <1>1, <3>1
  <2> QED  BY <2>1, <2>2
<1>6. handle' = handle \/ todo = 0
  <2>1. handle' = handle \/ (queue # <<>> /\ Head(queue) = Handle)
    BY DEF RespondStep, RespondLock, RespondSend, RespondTry, RespondArm, RespondSent,
           RespondUnlock, RespondReturn, Resumed
  <2>2. handle = "lock" => todo = 0
    BY <1>3 DEF Answering
  <2> QED  BY <2>1, <2>2, ResumedFromLock
<1> QED  BY <1>1, <1>2, <1>4, <1>5, <1>6, AnsweringKept

LEMMA AnsweringStep ==
  ConnInv /\ Answering /\ [ConnectionNext]_vars_connection => Answering'
<1> SUFFICES ASSUME ConnInv, Answering, [ConnectionNext]_vars_connection PROVE Answering'
  OBVIOUS
<1>1. CASE HandleStep
  BY <1>1, HandleAnswering
<1>2. ASSUME NEW r \in Requests, RespondStep(r) PROVE Answering'
  BY <1>2, RespondAnswering
<1>3. ASSUME NEW d \in Directions, LoopDispatches(d) \/ LoopReceives(d) PROVE Answering'
  <2>1. /\ UNCHANGED <<handle, todo, respond, asked, ec, arrived>>
        /\ op[d] \in {"fired", "armed"}
        /\ \E x \in {"try", "fired"} : op' = [op EXCEPT ![d] = x]
    BY <1>3 DEF LoopDispatches, LoopReceives, Dispatch, Fire, mutex, kernel
  <2>2. /\ op \in [Directions -> {"idle", "try", "arm", "armed", "fired", "done"}]
        /\ "recv" \in Directions /\ todo \in Nat
    BY TcpSocketConstants DEF ConnInv, Socket, SocketInv, TypeOK, Directions, Places
  <2>3. CASE d = "recv"
    <3>1. op["recv"] \in {"fired", "armed"} /\ op'["recv"] # "done" /\ ec'["recv"] = "none"
      BY <2>1, <2>2, <2>3 DEF Answering
    <3> QED  BY <2>1, <3>1 DEF Answering
  <2>4. CASE d # "recv"
    <3>1. op'["recv"] = op["recv"]
      BY <2>1, <2>2, <2>4
    <3> QED  BY <2>1, <3>1, AnsweringKept
  <2> QED  BY <2>3, <2>4
<1>4. CASE Ask
  <2>1. /\ asked' = asked + 1 /\ arrived' = arrived + 1
        /\ UNCHANGED <<handle, todo, respond, op, ec>>
    BY <1>4 DEF Ask, Arrive, event
  <2>2. asked \in Nat /\ arrived \in Nat /\ todo \in Nat /\ Requests \subseteq Nat
    BY TcpSocketConstants DEF ConnInv, Socket, SocketInv, TypeOK, Places, Requests
  <2>3. \A r \in Requests : r + todo' + arrived' <= asked' => r + todo + arrived <= asked
    BY <2>1, <2>2
  <2> QED  BY <2>1, <2>3 DEF Answering
<1>5. CASE ClientReads \/ ClientEnds \/ UNCHANGED vars_connection
  <2>1. UNCHANGED <<handle, todo, respond, op, ec, arrived, asked>>
    BY <1>5 DEF ClientReads, ClientEnds, Drain, PeerEnds, event, vars_connection, socket, kernel
  <2> QED  BY <2>1, AnsweringKept
<1> QED  BY <1>1, <1>2, <1>3, <1>4, <1>5 DEF ConnectionNext, ThreadStep

(* Whatever parts recv is given and however it is suspended, resumed or    *)
(* fails, no request is answered twice and none is passed over: those that *)
(* have a respond() are exactly those that neither wait in the socket nor  *)
(* are left of the last recv (main.cpp 31-48).                             *)
THEOREM NoRequestLost == ConnectionSpec => []EachRequestOnce
<1>1. ConnectionInit => Answering
  <2> SUFFICES ASSUME ConnectionInit PROVE Answering
    OBVIOUS
  <2>1. todo = 0 /\ arrived = 0 /\ asked = 0 /\ op["recv"] = "idle"
    BY DEF ConnectionInit, Init, Directions
  <2> QED  BY <2>1 DEF Answering, Requests
<1>2. ConnInv /\ Answering => EachRequestOnce
  BY DEF ConnInv, Reads, Answering, EachRequestOnce
<1> QED
  BY <1>1, <1>2, AnsweringStep, ConnInvariance, PTL DEF ConnectionSpec

=============================================================================
