------------------------------ MODULE Datagram ------------------------------
(***************************************************************************)
(* recv, send and send_some on one UDP socket                              *)
(* (src/ice/net/udp/socket.cpp, include/ice/net/udp/socket.h), one         *)
(* coroutine for each direction.                                           *)
(*                                                                         *)
(* platform is chosen at the start.  "posix" tries the call, registers the *)
(* event when it would block, and tries again.  "windows" submits an       *)
(* overlapped operation, which completes at once or later.  What arrives,  *)
(* what blocks and what fails is up to the system, which is external; a    *)
(* registration fails when the other direction holds one (see TcpSocket).  *)
(***************************************************************************)
EXTENDS Naturals, Sequences

CONSTANTS Senders,     \* addresses datagrams come from
          None,
          BufferSize,  \* of the buffer recv is given
          MaxLength,   \* bound: bytes in a datagram
          MaxInbox,    \* bound: datagrams that wait to be received
          MaxOut       \* bound: datagrams one send puts on the network

(* OverlappedMC assumes this of its constants. *)
DatagramConstants ==
  /\ {BufferSize, MaxLength, MaxInbox, MaxOut} \subseteq Nat
  /\ None \notin Senders

Directions == {"recv", "send"}
InSize == 16      \* sockaddr_in
Capacity == 128   \* sockaddr_storage
Datagrams == [from : Senders, length : 0 .. MaxLength]

VARIABLES
  platform,
  op,       \* where the operation of each direction is
  ec,       \* its ec_
  bytes,    \* its bytes_
  outcome,  \* what the system says of the completed operation
  got,      \* size_ of the recv, which it returns
  endpoint, \* the caller's, which recv fills
  inbox,    \* datagrams that wait in the socket
  taken,    \* the datagram this recv took
  some,     \* the send is a send_some
  size,     \* bytes the send was asked to send
  left,     \* its buffer_.size
  sent,     \* its size_, which it returns
  out       \* the length of each datagram this send put on the network

status == <<platform, op, ec, bytes, outcome>>
receiving == <<got, endpoint, inbox, taken>>
sending == <<some, size, left, sent, out>>
vars == <<status, receiving, sending>>

NoDatagram == [from |-> None, length |-> 0]

Init ==
  /\ platform \in {"posix", "windows"}
  /\ op = [d \in Directions |-> "idle"]
  /\ ec = [d \in Directions |-> "none"]
  /\ bytes = [d \in Directions |-> 0]
  /\ outcome = [d \in Directions |-> "none"]
  /\ got = 0 /\ endpoint = [from |-> None, size |-> 0]
  /\ inbox = <<>> /\ taken = NoDatagram
  /\ some = FALSE /\ size = 0 /\ left = 0 /\ sent = 0
  /\ out = <<>>

Move(d, s) == op' = [op EXCEPT ![d] = s]
Fail(d) == Move(d, "done") /\ ec' = [ec EXCEPT ![d] = "failed"]
Least(m, n) == IF m <= n THEN m ELSE n

Arrive ==
  /\ Len(inbox) < MaxInbox
  /\ \E g \in Datagrams : inbox' = Append(inbox, g)
  /\ UNCHANGED <<status, got, endpoint, taken, sending>>

-----------------------------------------------------------------------------
(* recv *)

(* The caller's endpoint is a new one, or has been used for an address. *)
Recv ==
  /\ op["recv"] = "idle"
  /\ Move("recv", "try")
  /\ ec' = [ec EXCEPT !["recv"] = "none"]
  /\ bytes' = [bytes EXCEPT !["recv"] = 0]
  /\ got' = 0
  /\ endpoint' \in [from : {None}, size : {0, InSize}]
  /\ taken' = NoDatagram
  /\ UNCHANGED <<platform, outcome, inbox, sending>>

(* The system hands out the oldest datagram, with its sender. *)
Takes(g) ==
  /\ inbox # <<>>
  /\ g = Head(inbox)
  /\ inbox' = Tail(inbox)
  /\ taken' = g
  /\ endpoint' = [from |-> g.from, size |-> InSize]

(* await_ready, and resume, on POSIX: a datagram, cut to the buffer; an    *)
(* ECONNRESET, which counts as an empty one; an error; or nothing yet, as  *)
(* which EINTR counts.                                                     *)
TryRecv ==
  /\ platform = "posix"
  /\ op["recv"] = "try"
  /\ \/ \E g \in Datagrams :
          /\ Takes(g)
          /\ got' = got + Least(g.length, BufferSize)
          /\ Move("recv", "done")
          /\ UNCHANGED ec
     \/ /\ endpoint' = [endpoint EXCEPT !.size = Capacity]
        /\ \/ got' = 0 /\ Move("recv", "done") /\ UNCHANGED ec
           \/ Fail("recv") /\ UNCHANGED got
           \/ Move("recv", "arm") /\ UNCHANGED <<ec, got>>
        /\ UNCHANGED <<inbox, taken>>
  /\ UNCHANGED <<platform, bytes, outcome, sending>>

(* suspend() on Windows: WSARecvFrom is given the endpoint with the size   *)
(* it happens to have, and refuses one that is too small.                  *)
SubmitRecv ==
  /\ platform = "windows"
  /\ op["recv"] = "try"
  /\ \/ \E g \in Datagrams :
          /\ endpoint.size >= InSize
          /\ Takes(g)
          /\ g.length <= BufferSize
          /\ bytes' = [bytes EXCEPT !["recv"] = g.length]
          /\ got' = got + g.length
          /\ Move("recv", "done")
          /\ UNCHANGED ec
     \/ /\ \/ Fail("recv")
           \/ endpoint.size >= InSize /\ Move("recv", "wait") /\ UNCHANGED ec
        /\ UNCHANGED <<bytes, receiving>>
  /\ UNCHANGED <<platform, outcome, sending>>

(* The overlapped operation completes; a datagram that does not fit is an  *)
(* error.                                                                  *)
CompleteRecv ==
  /\ platform = "windows"
  /\ op["recv"] = "wait"
  /\ \/ \E g \in Datagrams :
          /\ Takes(g)
          /\ bytes' = [bytes EXCEPT !["recv"] = Least(g.length, BufferSize)]
          /\ outcome' = [outcome EXCEPT !["recv"] =
                          IF g.length > BufferSize THEN "failed" ELSE "ok"]
     \/ /\ outcome' = [outcome EXCEPT !["recv"] = "failed"]
        /\ UNCHANGED <<bytes, inbox, taken, endpoint>>
  /\ Move("recv", "ready")
  /\ UNCHANGED <<platform, ec, got, sending>>

(* Mutant: the bytes are not added. *)
ResumeRecvEmpty ==
  /\ platform = "windows"
  /\ op["recv"] = "ready"
  /\ Move("recv", "done")
  /\ ec' = [ec EXCEPT !["recv"] = IF outcome["recv"] = "failed" THEN "failed" ELSE "none"]
  /\ UNCHANGED <<platform, bytes, outcome, receiving, sending>>

(* resume() on Windows: GetOverlappedResult; the bytes count in any case. *)
ResumeRecv ==
  /\ platform = "windows"
  /\ op["recv"] = "ready"
  /\ Move("recv", "done")
  /\ ec' = [ec EXCEPT !["recv"] = IF outcome["recv"] = "failed" THEN "failed" ELSE "none"]
  /\ got' = got + bytes["recv"]
  /\ UNCHANGED <<platform, bytes, outcome, endpoint, inbox, taken, sending>>

-----------------------------------------------------------------------------
(* send and send_some *)

Send(n, part) ==
  /\ op["send"] = "idle"
  /\ Move("send", "try")
  /\ ec' = [ec EXCEPT !["send"] = "none"]
  /\ bytes' = [bytes EXCEPT !["send"] = 0]
  /\ some' = part
  /\ size' = n /\ left' = n
  /\ sent' = 0
  /\ out' = <<>>
  /\ UNCHANGED <<platform, outcome, receiving>>

(* await_ready, and resume, on POSIX: the whole buffer is one datagram. *)
TrySend ==
  /\ platform = "posix"
  /\ op["send"] = "try"
  /\ \/ /\ out' = Append(out, left)
        /\ left' = 0
        /\ sent' = sent + left
        /\ Move("send", "done")
        /\ UNCHANGED ec
     \/ /\ \/ Fail("send")
           \/ Move("send", "arm") /\ UNCHANGED ec
        /\ UNCHANGED <<out, left, sent>>
  /\ UNCHANGED <<platform, bytes, outcome, receiving, some, size>>

(* suspend() on Windows: WSASendTo, but no empty datagram for send. *)
SubmitSend ==
  /\ platform = "windows"
  /\ op["send"] = "try"
  /\ \/ /\ left = 0 /\ ~ some
        /\ Move("send", "done")
        /\ UNCHANGED <<ec, bytes, left, sent, out>>
     \/ /\ left > 0 \/ some
        /\ Len(out) < MaxOut
        /\ out' = Append(out, left)
        /\ bytes' = [bytes EXCEPT !["send"] = left]
        /\ left' = 0
        /\ sent' = sent + left
        /\ Move("send", "done")
        /\ UNCHANGED ec
     \/ /\ left > 0 \/ some
        /\ \/ Fail("send")
           \/ Move("send", "wait") /\ UNCHANGED ec
        /\ UNCHANGED <<bytes, left, sent, out>>
  /\ UNCHANGED <<platform, outcome, receiving, some, size>>

CompleteSend ==
  /\ platform = "windows"
  /\ op["send"] = "wait"
  /\ Move("send", "ready")
  /\ \/ /\ Len(out) < MaxOut
        /\ out' = Append(out, left)
        /\ bytes' = [bytes EXCEPT !["send"] = left]
        /\ outcome' = [outcome EXCEPT !["send"] = "ok"]
     \/ /\ outcome' = [outcome EXCEPT !["send"] = "failed"]
        /\ UNCHANGED <<bytes, out>>
  /\ UNCHANGED <<platform, ec, receiving, some, size, left, sent>>

(* Mutant: send_some, too, submits its buffer again. *)
ResumeSendRepeats ==
  /\ platform = "windows"
  /\ op["send"] = "ready"
  /\ \/ /\ outcome["send"] = "failed"
        /\ Fail("send")
        /\ UNCHANGED sent
     \/ /\ outcome["send"] = "ok"
        /\ sent' = sent + bytes["send"]
        /\ Move("send", IF bytes["send"] > 0 /\ left > 0 THEN "try" ELSE "done")
        /\ UNCHANGED ec
  /\ UNCHANGED <<platform, bytes, outcome, receiving, some, size, left, out>>

(* resume() on Windows leaves the buffer as it is, and send submits it     *)
(* again.                                                                  *)
ResumeSend ==
  /\ platform = "windows"
  /\ op["send"] = "ready"
  /\ \/ /\ outcome["send"] = "failed"
        /\ Fail("send")
        /\ UNCHANGED sent
     \/ /\ outcome["send"] = "ok"
        /\ sent' = sent + bytes["send"]
        /\ Move("send", IF ~ some /\ bytes["send"] > 0 /\ left > 0 THEN "try" ELSE "done")
        /\ UNCHANGED ec
  /\ UNCHANGED <<platform, bytes, outcome, receiving, some, size, left, out>>

-----------------------------------------------------------------------------
(* The event *)

(* suspend() on POSIX: queue_recv or queue_send. *)
Arm(d) ==
  /\ op[d] = "arm"
  /\ \/ Move(d, "wait") /\ UNCHANGED ec
     \/ op # [e \in Directions |-> IF e = d THEN "arm" ELSE "idle"] /\ Fail(d)
  /\ UNCHANGED <<platform, bytes, outcome, receiving, sending>>

(* The event fires and is dispatched: event::await_resume. *)
Dispatch(d) ==
  /\ platform = "posix"
  /\ op[d] = "wait"
  /\ Move(d, "try")
  /\ UNCHANGED <<platform, ec, bytes, outcome, receiving, sending>>

(* The coroutine takes the result, or the exception. *)
Finish(d) ==
  /\ op[d] = "done"
  /\ Move(d, "idle")
  /\ UNCHANGED <<platform, ec, bytes, outcome, receiving, sending>>

Next ==
  \/ Arrive \/ Recv \/ TryRecv \/ SubmitRecv \/ CompleteRecv \/ ResumeRecv
  \/ \E n \in 0 .. MaxLength, part \in BOOLEAN : Send(n, part)
  \/ TrySend \/ SubmitSend \/ CompleteSend \/ ResumeSend
  \/ \E d \in Directions : Arm(d) \/ Dispatch(d) \/ Finish(d)

Spec == Init /\ [][Next]_vars

-----------------------------------------------------------------------------
(* Properties *)

(* What recv returns without an error is one datagram: its sender, and as  *)
(* much of it as fits the buffer, however often it was tried before, or on *)
(* POSIX a reset, which reads as nothing from nobody                       *)
(* (udp/socket.cpp 23-75).                                                 *)
DatagramWhole ==
  op["recv"] = "done" /\ ec["recv"] = "none" =>
    \/ /\ endpoint = [from |-> taken.from, size |-> InSize]
       /\ got = Least(taken.length, BufferSize)
       /\ platform = "windows" => got = taken.length
    \/ platform = "posix" /\ taken = NoDatagram /\ got = 0

(* Every datagram of a send is the whole buffer, and size_ counts them     *)
(* all.  Without an error send_some sends exactly one, and on POSIX so     *)
(* does send (udp/socket.cpp 77-201); on Windows send repeats a datagram   *)
(* that had to wait.                                                       *)
DatagramOnce ==
  /\ \A i \in DOMAIN out : out[i] = size
  /\ op["send"] \in {"idle", "done"} => sent = size * Len(out) \/ ec["send"] = "failed"
  /\ op["send"] = "done" /\ ec["send"] = "none" /\ (some \/ platform = "posix") => Len(out) = 1
=============================================================================
