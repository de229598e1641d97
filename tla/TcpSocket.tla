----------------------------- MODULE TcpSocket -----------------------------
(***************************************************************************)
(* recv, send and send_some on one connected TCP socket, on the back ends  *)
(* that wait for readiness (src/ice/net/tcp/socket.cpp, src/ice/event.cpp, *)
(* include/ice/event.h): "epoll" (Linux) and "kqueue" (FreeBSD).           *)
(*                                                                         *)
(* Two coroutines share the socket, one for each direction.  An operation  *)
(* tries its system call (await_ready), registers its event when that      *)
(* would block (suspend), and is dispatched by event::await_resume, which  *)
(* tries again (resume).  On epoll a descriptor has one registration for   *)
(* both directions; it stays, disabled, until remove().  On kqueue each    *)
(* direction has its own, which is gone when it has fired.                 *)
(*                                                                         *)
(* The kernel's side is external: bytes that arrived, room in the send     *)
(* buffer, and the end of the peer's stream.  A call that a signal         *)
(* interrupts is one that would block.                                     *)
(***************************************************************************)
EXTENDS Integers, Sequences

CONSTANTS Backend,    \* "epoll" or "kqueue"
          MaxArrived, \* bound: bytes that wait to be read
          Capacity,   \* the kernel's send buffer
          MaxSize,    \* bound: bytes in one send
          Ends        \* how the peer's stream may end

ASSUME TcpSocketConstants ==
  /\ Backend \in {"epoll", "kqueue"}
  /\ MaxArrived \in Nat \ {0}
  /\ Capacity \in Nat \ {0}
  /\ MaxSize \in Nat
  /\ Ends \subseteq {"eof", "reset", "failed"}

Directions == {"recv", "send"}
Other(d) == IF d = "recv" THEN "send" ELSE "recv"

VARIABLES
  op,         \* where the operation of each direction is
  ec,         \* its ec_
  registered, \* directions whose event the kernel holds
  some,       \* the send is a send_some
  size,       \* bytes the send was asked to send
  data, left, \* its buffer_: bytes behind buffer_.data, buffer_.size
  sent,       \* its size_, which it returns
  wire,       \* the bytes of this send on the stream, by their index
  arrived, room, peer   \* the kernel's socket

event == <<op, ec, registered>>
sending == <<some, size, data, left, sent, wire>>
kernel == <<arrived, room, peer>>
vars == <<event, sending, kernel>>

Init ==
  /\ op = [d \in Directions |-> "idle"]
  /\ ec = [d \in Directions |-> "none"]
  /\ registered = {}
  /\ some = FALSE
  /\ size = 0 /\ data = 0 /\ left = 0 /\ sent = 0
  /\ wire = <<>>
  /\ arrived = 0
  /\ room = Capacity
  /\ peer = "open"

-----------------------------------------------------------------------------
(* The network *)

Arrive ==
  /\ peer = "open"
  /\ arrived < MaxArrived
  /\ arrived' = arrived + 1
  /\ UNCHANGED <<event, sending, room, peer>>

(* The peer reads what is in the send buffer. *)
Drain ==
  /\ room < Capacity
  /\ room' = room + 1
  /\ UNCHANGED <<event, sending, arrived, peer>>

PeerEnds ==
  /\ peer = "open"
  /\ peer' \in Ends
  /\ UNCHANGED <<event, sending, arrived, room>>

Broken == peer \in {"reset", "failed"}

Ready(d) ==
  \/ d = "recv" /\ (arrived > 0 \/ peer # "open")
  \/ d = "send" /\ (room > 0 \/ Broken)

-----------------------------------------------------------------------------
(* recv *)

Recv ==
  /\ op["recv"] = "idle"
  /\ op' = [op EXCEPT !["recv"] = "try"]
  /\ ec' = [ec EXCEPT !["recv"] = "none"]
  /\ UNCHANGED <<registered, sending, kernel>>

(* await_ready, and resume: some of the bytes, the end (a reset is one),   *)
(* an error, or nothing yet.                                               *)
TryRecv ==
  /\ op["recv"] = "try"
  /\ \/ /\ arrived > 0
        /\ \E n \in 1 .. arrived : arrived' = arrived - n
        /\ op' = [op EXCEPT !["recv"] = "done"]
        /\ UNCHANGED ec
     \/ /\ arrived = 0
        /\ op' = [op EXCEPT !["recv"] = IF peer = "open" THEN "arm" ELSE "done"]
        /\ ec' = [ec EXCEPT !["recv"] = IF peer = "failed" THEN "failed" ELSE "none"]
        /\ UNCHANGED arrived
  /\ UNCHANGED <<registered, sending, room, peer>>

-----------------------------------------------------------------------------
(* send and send_some *)

Send(n, part) ==
  /\ op["send"] = "idle"
  /\ op' = [op EXCEPT !["send"] = "try"]
  /\ ec' = [ec EXCEPT !["send"] = "none"]
  /\ some' = part
  /\ size' = n
  /\ data' = 0
  /\ left' = n
  /\ sent' = 0
  /\ wire' = <<>>
  /\ UNCHANGED <<registered, kernel>>

(* Mutant: a partial write is counted, and the buffer stays where it is.   *)
TrySendStays ==
  /\ op["send"] = "try"
  /\ left > 0 /\ ~ Broken /\ room > 0
  /\ \E n \in 1 .. room :
       /\ n <= left
       /\ wire' = wire \o [i \in 1 .. n |-> data + i]
       /\ left' = left - n
       /\ sent' = sent + n
       /\ room' = room - n
       /\ op' = [op EXCEPT !["send"] = IF some \/ n = left THEN "done" ELSE "arm"]
  /\ UNCHANGED <<ec, registered, some, size, data, arrived, peer>>

(* Mutant: the buffer moves on and keeps its size. *)
TrySendKeepsSize ==
  /\ op["send"] = "try"
  /\ left > 0 /\ ~ Broken /\ room > 0
  /\ \E n \in 1 .. room :
       /\ n <= left
       /\ wire' = wire \o [i \in 1 .. n |-> data + i]
       /\ data' = data + n
       /\ sent' = sent + n
       /\ room' = room - n
       /\ op' = [op EXCEPT !["send"] = IF some \/ n = left THEN "done" ELSE "arm"]
  /\ UNCHANGED <<ec, registered, some, size, left, arrived, peer>>

(* await_ready, and resume: a part is written, an empty buffer is done, an *)
(* error, or no room.  send goes on until its buffer is empty.             *)
TrySend ==
  /\ op["send"] = "try"
  /\ \/ /\ left > 0 /\ ~ Broken /\ room > 0
        /\ \E n \in 1 .. room :
             /\ n <= left
             /\ wire' = wire \o [i \in 1 .. n |-> data + i]
             /\ data' = data + n
             /\ left' = left - n
             /\ sent' = sent + n
             /\ room' = room - n
             /\ op' = [op EXCEPT !["send"] = IF some \/ n = left THEN "done" ELSE "arm"]
        /\ UNCHANGED ec
     \/ /\ left = 0 \/ Broken \/ room = 0
        /\ op' = [op EXCEPT !["send"] = IF left = 0 \/ Broken THEN "done" ELSE "arm"]
        /\ ec' = [ec EXCEPT !["send"] = IF left > 0 /\ Broken THEN "failed" ELSE "none"]
        /\ UNCHANGED <<wire, data, left, sent, room>>
  /\ UNCHANGED <<registered, some, size, arrived, peer>>

-----------------------------------------------------------------------------
(* The event *)

(* Mutant: a failed registration cleans up after itself. *)
ArmFailureRemoves(d) ==
  /\ op[d] = "arm"
  /\ IF Backend = "epoll" /\ registered # {}
     THEN /\ ec' = [ec EXCEPT ![d] = "exists"]
          /\ op' = [op EXCEPT ![d] = "done"]
          /\ registered' = {}
     ELSE /\ op' = [op EXCEPT ![d] = "armed"]
          /\ registered' = registered \cup {d}
          /\ UNCHANGED ec
  /\ UNCHANGED <<sending, kernel>>

(* suspend(): queue_recv or queue_send.  EPOLL_CTL_ADD fails with EEXIST   *)
(* when the descriptor is registered, and the coroutine goes on with the   *)
(* error.                                                                  *)
Arm(d) ==
  /\ op[d] = "arm"
  /\ IF Backend = "epoll" /\ registered # {}
     THEN /\ ec' = [ec EXCEPT ![d] = "exists"]
          /\ op' = [op EXCEPT ![d] = "done"]
          /\ UNCHANGED registered
     ELSE /\ op' = [op EXCEPT ![d] = "armed"]
          /\ registered' = registered \cup {d}
          /\ UNCHANGED ec
  /\ UNCHANGED <<sending, kernel>>

(* The one-shot registration fires; a thread of the loop receives it. *)
Fire(d) ==
  /\ op[d] = "armed"
  /\ d \in registered
  /\ Ready(d)
  /\ op' = [op EXCEPT ![d] = "fired"]
  /\ registered' = IF Backend = "kqueue" THEN registered \ {d} ELSE registered
  /\ UNCHANGED <<ec, sending, kernel>>

(* Mutant: the event is dispatched without remove(). *)
DispatchKeeps(d) ==
  /\ op[d] = "fired"
  /\ op' = [op EXCEPT ![d] = "try"]
  /\ UNCHANGED <<ec, registered, sending, kernel>>

(* event::await_resume: remove() deletes the descriptor's registration on  *)
(* epoll; resume() comes next.                                             *)
Dispatch(d) ==
  /\ op[d] = "fired"
  /\ op' = [op EXCEPT ![d] = "try"]
  /\ registered' = IF Backend = "epoll" THEN {} ELSE registered
  /\ UNCHANGED <<ec, sending, kernel>>

(* The coroutine takes the result, or the exception. *)
Finish(d) ==
  /\ op[d] = "done"
  /\ op' = [op EXCEPT ![d] = "idle"]
  /\ UNCHANGED <<ec, registered, sending, kernel>>

RecvStep == TryRecv \/ Arm("recv") \/ Dispatch("recv")
SendStep == TrySend \/ Arm("send") \/ Dispatch("send")

Next ==
  \/ Arrive \/ Drain \/ PeerEnds
  \/ Recv \/ TryRecv
  \/ \E n \in 0 .. MaxSize, part \in BOOLEAN : Send(n, part)
  \/ TrySend
  \/ \E d \in Directions : Arm(d) \/ Fire(d) \/ Dispatch(d) \/ Finish(d)

Spec == Init /\ [][Next]_vars

(* A coroutine with a thread goes on, and what is ready is delivered and   *)
(* dispatched.  Nobody has to send, receive or read.                       *)
Fairness ==
  /\ WF_vars(RecvStep) /\ WF_vars(SendStep)
  /\ \A d \in Directions : WF_vars(Fire(d))

FairSpec == Spec /\ Fairness

-----------------------------------------------------------------------------
(* Properties *)

(* The members of the operations.  buffer_ stays inside the caller's       *)
(* buffer, which is what the assertion in await_ready is for               *)
(* (tcp/socket.cpp 271 and 334).                                           *)
TypeOK ==
  /\ op \in [Directions -> {"idle", "try", "arm", "armed", "fired", "done"}]
  /\ ec \in [Directions -> {"none", "exists", "failed"}]
  /\ registered \subseteq Directions
  /\ some \in BOOLEAN
  /\ size \in 0 .. MaxSize
  /\ data \in 0 .. size /\ left \in 0 .. size - data /\ sent \in 0 .. size
  /\ wire \in Seq(1 .. MaxSize)
  /\ arrived \in 0 .. MaxArrived
  /\ room \in 0 .. Capacity
  /\ peer \in {"open", "eof", "reset", "failed"}

(* However often a send was interrupted and resumed, the bytes on the      *)
(* stream are the first of its buffer, in order and once, and size_ says   *)
(* how many; without an error send has sent them all, and send_some at     *)
(* least one (tcp/socket.cpp 268-285 and 331-348).                         *)
SendExact ==
  /\ wire = [i \in 1 .. sent |-> i]
  /\ op["send"] = "done" /\ ec["send"] = "none" =>
       sent = size \/ (some /\ sent > 0)

(* A suspended operation holds its registration, so the other direction's  *)
(* errors, removals and results never leave it unregistered; and an        *)
(* operation that is dispatched and has to wait again never collides with  *)
(* what it left in the kernel itself (event.cpp 27-70, event.h 54-61).     *)
WaitsRegistered ==
  \A d \in Directions :
    /\ op[d] = "armed" => d \in registered
    /\ d \in registered => op[d] \in {"armed", "fired"}

(* A coroutine that waits in recv is resumed when bytes arrive or the      *)
(* stream ends, whatever the other direction does meanwhile.               *)
ReaderResumed == op["recv"] = "armed" /\ Ready("recv") ~> op["recv"] = "done"
=============================================================================
