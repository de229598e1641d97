----------------------------- MODULE Overlapped -----------------------------
(***************************************************************************)
(* recv, send and send_some on one connected TCP socket on Windows         *)
(* (src/ice/net/tcp/socket.cpp, the ICE_OS_WIN32 parts): overlapped        *)
(* operations that complete at once or through the completion port.        *)
(*                                                                         *)
(* The sockets have FILE_SKIP_COMPLETION_PORT_ON_SUCCESS: what completes   *)
(* at once posts nothing.  await_ready is false; suspend submits;          *)
(* event::await_resume calls resume and, when that wants more, suspend     *)
(* again.  The directions are independent.                                 *)
(*                                                                         *)
(* Which submissions pend, how many bytes an operation transfers and when  *)
(* it fails is up to the system, which is external.                        *)
(***************************************************************************)
EXTENDS Integers, Sequences

CONSTANTS MaxArrived, \* bound: bytes the peer sends
          BufferSize, \* of the buffer recv is given
          MaxSize,    \* bound: bytes in one send
          MaxWire     \* bound: bytes one send puts on the stream

ASSUME OverlappedConstants ==
  /\ MaxArrived \in Nat /\ MaxSize \in Nat /\ MaxWire \in Nat
  /\ BufferSize \in Nat \ {0}

Directions == {"recv", "send"}

VARIABLES
  op,         \* where the operation of each direction is
  ec,         \* its ec_
  bytes,      \* its bytes_
  outcome,    \* what the system says of the completed operation
  got,        \* buffer_.size of the recv, which it returns
  some,       \* the send is a send_some
  size,       \* bytes the send was asked to send
  data, left, \* its buffer_: bytes behind buffer_.data, buffer_.size
  sent,       \* its size_, which it returns
  wire,       \* the bytes of this send on the stream, by their index
  offered,    \* bytes the peer has sent
  arrived,    \* those that nobody has taken yet
  returned,   \* those that recv has returned
  peer

status == <<op, ec, bytes, outcome>>
receiving == <<got, returned>>
sending == <<some, size, data, left, sent, wire>>
network == <<offered, arrived, peer>>
vars == <<status, receiving, sending, network>>

Init ==
  /\ op = [d \in Directions |-> "idle"]
  /\ ec = [d \in Directions |-> "none"]
  /\ bytes = [d \in Directions |-> 0]
  /\ outcome = [d \in Directions |-> "none"]
  /\ got = 0 /\ returned = 0
  /\ some = FALSE
  /\ size = 0 /\ data = 0 /\ left = 0 /\ sent = 0
  /\ wire = <<>>
  /\ offered = 0 /\ arrived = 0
  /\ peer = "open"

Move(d, s) == op' = [op EXCEPT ![d] = s]
Fail(d) == Move(d, "done") /\ ec' = [ec EXCEPT ![d] = "failed"]

-----------------------------------------------------------------------------
(* The peer *)

Arrive ==
  /\ peer = "open"
  /\ offered < MaxArrived
  /\ offered' = offered + 1
  /\ arrived' = arrived + 1
  /\ UNCHANGED <<status, receiving, sending, peer>>

PeerEnds ==
  /\ peer = "open"
  /\ peer' \in {"eof", "reset"}
  /\ UNCHANGED <<status, receiving, sending, offered, arrived>>

(* The system puts n bytes of the buffer in the caller's hands.            *)
Takes(n) == n <= arrived /\ n <= BufferSize /\ arrived' = arrived - n

(* It has n bytes to report: some that arrived, or the end.                *)
Reports(n) == n > 0 \/ (arrived = 0 /\ peer = "eof")

-----------------------------------------------------------------------------
(* recv *)

Recv ==
  /\ op["recv"] = "idle"
  /\ Move("recv", "submit")
  /\ ec' = [ec EXCEPT !["recv"] = "none"]
  /\ bytes' = [bytes EXCEPT !["recv"] = 0]
  /\ got' = BufferSize
  /\ UNCHANGED <<outcome, returned, sending, network>>

(* suspend(): WSARecv *)
SubmitRecv ==
  /\ op["recv"] = "submit"
  /\ \/ \E n \in 0 .. BufferSize :
          /\ Takes(n) /\ Reports(n)
          /\ bytes' = [bytes EXCEPT !["recv"] = n]
          /\ got' = n
          /\ Move("recv", "done")
          /\ UNCHANGED ec
     \/ /\ Move("recv", "pending")
        /\ UNCHANGED <<ec, bytes, got, arrived>>
     \/ /\ peer = "reset"
        /\ Fail("recv")
        /\ UNCHANGED <<bytes, got, arrived>>
  /\ UNCHANGED <<outcome, returned, sending, offered, peer>>

CompleteRecv ==
  /\ op["recv"] = "pending"
  /\ Move("recv", "completed")
  /\ \/ \E n \in 0 .. BufferSize :
          /\ Takes(n) /\ Reports(n)
          /\ bytes' = [bytes EXCEPT !["recv"] = n]
          /\ outcome' = [outcome EXCEPT !["recv"] = "ok"]
     \/ /\ peer = "reset"
        /\ outcome' = [outcome EXCEPT !["recv"] = "failed"]
        /\ UNCHANGED <<bytes, arrived>>
  /\ UNCHANGED <<ec, receiving, sending, offered, peer>>

(* Mutant: the size of the buffer stays what it was. *)
ResumeRecvStale ==
  /\ op["recv"] = "completed"
  /\ IF outcome["recv"] = "failed"
     THEN Fail("recv")
     ELSE Move("recv", "done") /\ UNCHANGED ec
  /\ UNCHANGED <<bytes, outcome, receiving, sending, network>>

(* resume(): GetOverlappedResult *)
ResumeRecv ==
  /\ op["recv"] = "completed"
  /\ IF outcome["recv"] = "failed"
     THEN Fail("recv")
     ELSE Move("recv", "done") /\ UNCHANGED ec
  /\ got' = bytes["recv"]
  /\ UNCHANGED <<bytes, outcome, returned, sending, network>>

(* The coroutine takes the result, or the exception. *)
FinishRecv ==
  /\ op["recv"] = "done"
  /\ Move("recv", "idle")
  /\ returned' = IF ec["recv"] = "none" THEN returned + got ELSE returned
  /\ UNCHANGED <<ec, bytes, outcome, got, sending, network>>

-----------------------------------------------------------------------------
(* send and send_some *)

Send(n, part) ==
  /\ op["send"] = "idle"
  /\ Move("send", "submit")
  /\ ec' = [ec EXCEPT !["send"] = "none"]
  /\ bytes' = [bytes EXCEPT !["send"] = 0]
  /\ some' = part
  /\ size' = n
  /\ data' = 0
  /\ left' = n
  /\ sent' = 0
  /\ wire' = <<>>
  /\ UNCHANGED <<outcome, receiving, network>>

(* The system puts n bytes of the buffer on the stream.                    *)
Transfers(n) ==
  /\ n <= left
  /\ n > 0 \/ left = 0
  /\ Len(wire) + n <= MaxWire
  /\ wire' = wire \o [i \in 1 .. n |-> data + i]
  /\ bytes' = [bytes EXCEPT !["send"] = n]

(* Mutant: what completes at once does not move the buffer on. *)
SubmitSendStays ==
  /\ op["send"] = "submit"
  /\ left > 0 \/ some
  /\ \E n \in 0 .. left :
       /\ Transfers(n)
       /\ left' = left - n
       /\ sent' = sent + n
       /\ Move("send", IF some \/ n = 0 \/ n = left THEN "done" ELSE "submit")
  /\ UNCHANGED <<ec, outcome, receiving, some, size, data, network>>

(* suspend(): WSASend.  send goes on while operations complete at once,    *)
(* and submits nothing when its buffer is empty.                           *)
SubmitSend ==
  /\ op["send"] = "submit"
  /\ \/ /\ left = 0 /\ ~ some
        /\ Move("send", "done")
        /\ UNCHANGED <<ec, bytes, data, left, sent, wire>>
     \/ /\ left > 0 \/ some
        /\ \E n \in 0 .. left :
             /\ Transfers(n)
             /\ data' = data + n
             /\ left' = left - n
             /\ sent' = sent + n
             /\ Move("send", IF some \/ n = 0 \/ n = left THEN "done" ELSE "submit")
        /\ UNCHANGED ec
     \/ /\ left > 0 \/ some
        /\ Move("send", "pending")
        /\ UNCHANGED <<ec, bytes, data, left, sent, wire>>
     \/ /\ left > 0 \/ some
        /\ peer = "reset"
        /\ Fail("send")
        /\ UNCHANGED <<bytes, data, left, sent, wire>>
  /\ UNCHANGED <<outcome, receiving, some, size, network>>

CompleteSend ==
  /\ op["send"] = "pending"
  /\ Move("send", "completed")
  /\ \/ /\ \E n \in 0 .. left : Transfers(n)
        /\ outcome' = [outcome EXCEPT !["send"] = "ok"]
     \/ /\ peer = "reset"
        /\ outcome' = [outcome EXCEPT !["send"] = "failed"]
        /\ UNCHANGED <<wire, bytes>>
  /\ UNCHANGED <<ec, receiving, some, size, data, left, sent, network>>

(* resume(): GetOverlappedResult.  bytes_ is added to buffer_.data and     *)
(* subtracted from it again, and buffer_.size is left as it is; send       *)
(* submits its buffer once more, unless nothing was transferred.           *)
ResumeSend ==
  /\ op["send"] = "completed"
  /\ \/ /\ outcome["send"] = "failed"
        /\ Fail("send")
        /\ UNCHANGED sent
     \/ /\ outcome["send"] = "ok"
        /\ sent' = sent + bytes["send"]
        /\ Move("send", IF ~ some /\ bytes["send"] > 0 /\ left > 0 THEN "submit" ELSE "done")
        /\ UNCHANGED ec
  /\ UNCHANGED <<bytes, outcome, receiving, some, size, data, left, wire, network>>

FinishSend ==
  /\ op["send"] = "done"
  /\ Move("send", "idle")
  /\ UNCHANGED <<ec, bytes, outcome, receiving, sending, network>>

Next ==
  \/ Arrive \/ PeerEnds
  \/ Recv \/ SubmitRecv \/ CompleteRecv \/ ResumeRecv \/ FinishRecv
  \/ \E n \in 0 .. MaxSize, part \in BOOLEAN : Send(n, part)
  \/ SubmitSend \/ CompleteSend \/ ResumeSend \/ FinishSend

Spec == Init /\ [][Next]_vars

-----------------------------------------------------------------------------
(* Properties *)

(* The members of the operations (tcp/socket.h 91-190).  The buffer that   *)
(* is handed to WSASend stays inside the caller's.                         *)
TypeOK ==
  /\ op \in [Directions -> {"idle", "submit", "pending", "completed", "done"}]
  /\ ec \in [Directions -> {"none", "failed"}]
  /\ bytes \in [Directions -> Nat]
  /\ outcome \in [Directions -> {"none", "ok", "failed"}]
  /\ got \in 0 .. BufferSize
  /\ some \in BOOLEAN
  /\ size \in 0 .. MaxSize
  /\ data \in 0 .. size /\ left \in 0 .. size - data
  /\ sent \in 0 .. MaxWire
  /\ wire \in Seq(1 .. MaxSize)
  /\ {offered, arrived, returned} \subseteq 0 .. MaxArrived
  /\ peer \in {"open", "eof", "reset"}

(* Reported(d): bytes a completed operation has yet to count.              *)
Reported(d) ==
  IF op[d] = "completed" /\ outcome[d] = "ok" THEN bytes[d] ELSE 0

(* Whether it completes at once or through the port, a recv returns every  *)
(* byte it took from the stream, once (tcp/socket.cpp 237-266).            *)
RecvCounted ==
  LET held == IF op["recv"] = "done" /\ ec["recv"] = "none" THEN got ELSE 0
  IN  returned + held + Reported("recv") + arrived = offered

(* size_ counts what is on the stream, on both ways; and what is there     *)
(* are the first bytes of the buffer, in order and once, for send_some,    *)
(* and for a send that never had to wait (tcp/socket.cpp 287-330, 350-384).*)
SendCounted ==
  /\ sent + Reported("send") = Len(wire)
  /\ some \/ left + Len(wire) = size => wire = [i \in 1 .. Len(wire) |-> i]

(* What respond() expects of send (main.cpp:21): without an exception, it  *)
(* has sent as many bytes as it was asked to.                              *)
SentIsRequested ==
  op["send"] = "done" /\ ec["send"] = "none" /\ ~ some => sent = size
=============================================================================
