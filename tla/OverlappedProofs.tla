-------------------------- MODULE OverlappedProofs --------------------------
(***************************************************************************)
(* Overlapped and Datagram for buffers of any size: no byte of a TCP       *)
(* stream is lost or counted twice, and no datagram is cut, mixed up or    *)
(* miscounted.                                                             *)
(***************************************************************************)
EXTENDS OverlappedMC, SequenceTheorems, TLAPS

(* The TCP socket.  ec_ is set last; what the system has taken from the    *)
(* stream is in bytes_ until resume().                                     *)
RecvInv ==
  /\ op["recv"] \in {"submit", "pending", "completed"} => ec["recv"] = "none"
  /\ op["recv"] = "completed" => outcome["recv"] # "none"
  /\ bytes["recv"] <= BufferSize
  /\ RecvCounted

Numbered(n) == [i \in 1 .. n |-> i]

(* An operation that pended has left the buffer where it was: the stream   *)
(* is ahead of it, and repeats it, from then on.                           *)
SendInv ==
  /\ data + left = size
  /\ data <= Len(wire) /\ Len(wire) <= MaxWire
  /\ some /\ op["send"] \in {"submit", "pending"} => Len(wire) = 0
  /\ sent + Reported("send") = Len(wire)
  /\ some \/ Len(wire) = data => wire = Numbered(Len(wire))

TcpInv == TypeOK /\ RecvInv /\ SendInv

(* The UDP socket. *)
UdpTyped ==
  /\ platform \in {"posix", "windows"}
  /\ op \in [Directions -> {"idle", "try", "arm", "wait", "ready", "done"}]
  /\ ec \in [Directions -> {"none", "failed"}]
  /\ bytes \in [Directions -> Nat]
  /\ outcome \in [Directions -> {"none", "ok", "failed"}]
  /\ inbox \in Seq(Udp!Datagrams)
  /\ endpoint \in [from : Senders \cup {None}, size : {0, Udp!InSize, Udp!Capacity}]
  /\ {got, size, left, sent} \subseteq Nat
  /\ some \in BOOLEAN
  /\ out \in Seq(Nat)

(* Until it is done the recv has nothing, or the one datagram that the     *)
(* operation completed with.                                               *)
UdpRecvInv ==
  /\ op["recv"] \in {"try", "arm", "wait"} => got = 0 /\ taken = Udp!NoDatagram
  /\ op["recv"] = "ready" => platform = "windows" /\ got = 0 /\ outcome["recv"] # "none"
  /\ op["recv"] = "ready" /\ outcome["recv"] = "ok" =>
       /\ endpoint = [from |-> taken.from, size |-> Udp!InSize]
       /\ bytes["recv"] = taken.length
       /\ taken.length \in 0 .. DatagramSize
  /\ Udp!DatagramWhole

(* Until it is done the send has its whole buffer.  What send_some, or a   *)
(* send on POSIX, puts on the network ends it.                             *)
UdpSendInv ==
  /\ op["send"] \in {"try", "arm", "wait", "ready"} => left = size
  /\ op["send"] \in {"try", "arm", "wait"} =>
       /\ sent = size * Len(out)
       /\ some \/ platform = "posix" => Len(out) = 0
  /\ op["send"] = "ready" =>
       /\ platform = "windows"
       /\ outcome["send"] = "ok" =>
            /\ sent + bytes["send"] = size * Len(out)
            /\ some => Len(out) = 1
  /\ Udp!DatagramOnce

UdpInv == UdpTyped /\ UdpRecvInv /\ UdpSendInv

Inv ==
  /\ protocol \in {"tcp", "udp"}
  /\ protocol = "tcp" => TcpInv
  /\ protocol = "udp" => UdpInv

(* What is numbered from 1 and goes on with its next n is numbered.        *)
LEMMA NumberedOn ==
  ASSUME NEW m \in Nat, NEW n \in Nat
  PROVE  Numbered(m) \o [i \in 1 .. n |-> m + i] = Numbered(m + n)
<1> DEFINE s == Numbered(m)
           t == [i \in 1 .. n |-> m + i]
<1>1. s \in Seq(Nat) /\ Len(s) = m /\ t \in Seq(Nat) /\ Len(t) = n
  BY DEF Numbered
<1>2. s \o t \in Seq(Nat) /\ Len(s \o t) = m + n
  BY <1>1
<1>3. Numbered(m + n) \in Seq(Nat) /\ Len(Numbered(m + n)) = m + n
  BY DEF Numbered
<1>4. ASSUME NEW i \in 1 .. m + n PROVE (s \o t)[i] = Numbered(m + n)[i]
  BY <1>1 DEF Numbered
<1> HIDE DEF s, t
<1>5. s \o t = Numbered(m + n)
  BY <1>2, <1>3, <1>4, SeqEqual
<1> QED
  BY <1>5 DEF s, t

-----------------------------------------------------------------------------
(* The TCP socket *)

(* What the system transfers lies in the buffer, and goes to the end of    *)
(* the stream.                                                             *)
LEMMA TransferTyped ==
  ASSUME TcpInv, NEW n \in 0 .. left, Transfers(n)
  PROVE  /\ wire' \in Seq(1 .. MaxSize)
         /\ Len(wire') = Len(wire) + n /\ Len(wire') <= MaxWire
         /\ Len(wire) = data /\ wire = Numbered(Len(wire)) => wire' = Numbered(Len(wire) + n)
         /\ n > 0 \/ left = 0
         /\ bytes' = [bytes EXCEPT !["send"] = n]
<1> DEFINE t == [i \in 1 .. n |-> data + i]
<1>1. /\ data \in Nat /\ left \in Nat /\ n \in Nat /\ n <= left /\ data + left <= MaxSize
      /\ MaxSize \in Nat /\ wire \in Seq(1 .. MaxSize) /\ Len(wire) \in Nat
  BY OverlappedConstants, LenProperties DEF TcpInv, TypeOK
<1>2. t \in Seq(1 .. MaxSize) /\ Len(t) = n
  BY <1>1
<1>3. wire' = wire \o t /\ Len(wire) + n <= MaxWire /\ (n > 0 \/ left = 0)
      /\ bytes' = [bytes EXCEPT !["send"] = n]
  BY DEF Transfers
<1>4. Len(wire) = data /\ wire = Numbered(Len(wire)) => wire' = Numbered(Len(wire) + n)
  BY <1>1, <1>3, NumberedOn
<1> HIDE DEF t
<1>5. wire' \in Seq(1 .. MaxSize) /\ Len(wire') = Len(wire) + n
  BY <1>1, <1>2, <1>3, ConcatProperties
<1> QED
  BY <1>3, <1>4, <1>5

LEMMA TcpInitInv == Init => TcpInv
<1> SUFFICES ASSUME Init PROVE TcpInv
  OBVIOUS
<1> USE OverlappedConstants
<1>1. wire \in Seq(1 .. MaxSize) /\ Len(wire) = 0 /\ wire = Numbered(0)
  <2>1. <<>> = Numbered(0)
    BY DEF Numbered
  <2> QED
    BY <2>1, EmptySeq DEF Init
<1>2. TypeOK
  <2>1. some \in BOOLEAN
    BY Zenon DEF Init
  <2> QED
    BY <1>1, <2>1 DEF Init, TypeOK, Directions
<1>3. RecvInv
  BY DEF Init, RecvInv, RecvCounted, Reported, Directions
<1>4. SendInv
  BY <1>1 DEF Init, SendInv, Reported, Directions
<1> QED
  BY <1>2, <1>3, <1>4 DEF TcpInv

(* The actions of one direction leave the other's half alone. *)
LEMMA SendAside ==
  ASSUME TcpInv, UNCHANGED sending, op'["send"] = op["send"],
         bytes'["send"] = bytes["send"], outcome'["send"] = outcome["send"]
  PROVE  SendInv'
BY DEF TcpInv, SendInv, Reported, sending

LEMMA RecvAside ==
  ASSUME TcpInv, UNCHANGED <<receiving, network>>, op'["recv"] = op["recv"],
         ec'["recv"] = ec["recv"],
         bytes'["recv"] = bytes["recv"], outcome'["recv"] = outcome["recv"]
  PROVE  RecvInv'
BY DEF TcpInv, RecvInv, RecvCounted, Reported, receiving, network

LEMMA PeerPreserves == ASSUME TcpInv, Arrive \/ PeerEnds PROVE TcpInv'
<1> USE OverlappedConstants
<1>1. /\ UNCHANGED <<status, receiving, sending>>
      /\ \/ offered < MaxArrived /\ offered' = offered + 1 /\ arrived' = arrived + 1
         \/ UNCHANGED <<offered, arrived>>
      /\ peer' \in {"open", "eof", "reset"}
  <2>1. CASE Arrive
    BY <2>1 DEF Arrive, TcpInv, TypeOK
  <2>2. CASE PeerEnds
    BY <2>2 DEF PeerEnds, TcpInv, TypeOK
  <2> QED
    BY <2>1, <2>2
<1>2. RecvInv'
  <2>1. UNCHANGED <<op, ec, bytes, outcome, got, returned>>
    BY <1>1 DEF status, receiving
  <2>2. returned \in Nat /\ arrived \in Nat /\ offered \in Nat
    BY DEF TcpInv, TypeOK
  <2> DEFINE h == IF op["recv"] = "done" /\ ec["recv"] = "none" THEN got ELSE 0
             r == Reported("recv")
  <2>3. r \in Nat /\ h \in Nat /\ r' = r /\ h' = h
    BY <2>1 DEF TcpInv, TypeOK, Reported, Directions
  <2>4. returned + h + r + arrived = offered
    BY DEF TcpInv, RecvInv, RecvCounted
  <2> HIDE DEF h, r
  <2>5. returned' + h' + r' + arrived' = offered'
    BY <1>1, <2>1, <2>2, <2>3, <2>4
  <2> QED
    BY <2>1, <2>5 DEF TcpInv, RecvInv, RecvCounted, h, r
<1>3. SendInv'
  BY <1>1, SendAside DEF status
<1>4. arrived <= offered
  BY DEF TcpInv, TypeOK, RecvInv, RecvCounted, Reported, Directions
<1>5. TypeOK'
  BY <1>1, <1>4 DEF TcpInv, TypeOK, status, receiving, sending
<1> QED
  BY <1>2, <1>3, <1>5 DEF TcpInv

LEMMA RecvPreserves ==
  ASSUME TcpInv, Recv \/ SubmitRecv \/ CompleteRecv \/ ResumeRecv \/ FinishRecv
  PROVE  TcpInv'
<1> USE OverlappedConstants DEF Move, Fail, Takes, Directions
<1>1. CASE Recv
  <2>1. /\ op' \in [Directions -> {"idle", "submit", "pending", "completed", "done"}]
        /\ ec' \in [Directions -> {"none", "failed"}]
        /\ bytes' \in [Directions -> Nat] /\ got' \in 0 .. BufferSize
    BY <1>1 DEF Recv, TcpInv, TypeOK
  <2>2. TypeOK'
    BY <1>1, <2>1 DEF Recv, TcpInv, TypeOK, sending, network
  <2>3. RecvInv'
    <3>1. /\ op["recv"] = "idle" /\ op'["recv"] = "submit" /\ ec'["recv"] = "none"
          /\ bytes'["recv"] = 0 /\ UNCHANGED <<outcome, returned, offered, arrived>>
      BY <1>1 DEF Recv, TcpInv, TypeOK, network
    <3> QED
      BY <3>1 DEF TcpInv, TypeOK, RecvInv, RecvCounted, Reported
  <2>4. SendInv'
    BY <1>1, SendAside DEF Recv, TcpInv, TypeOK
  <2> QED
    BY <2>2, <2>3, <2>4 DEF TcpInv
<1>2. CASE SubmitRecv
  <2>1. TypeOK'
    BY <1>2 DEF SubmitRecv, TcpInv, TypeOK, sending
  <2>2. RecvInv'
    BY <1>2 DEF SubmitRecv, TcpInv, TypeOK, RecvInv, RecvCounted, Reported
  <2>3. SendInv'
    BY <1>2, SendAside DEF SubmitRecv, TcpInv, TypeOK
  <2> QED
    BY <2>1, <2>2, <2>3 DEF TcpInv
<1>3. CASE CompleteRecv
  <2>1. TypeOK'
    BY <1>3 DEF CompleteRecv, TcpInv, TypeOK, sending, receiving
  <2>2. RecvInv'
    BY <1>3 DEF CompleteRecv, TcpInv, TypeOK, RecvInv, RecvCounted, Reported, receiving
  <2>3. SendInv'
    BY <1>3, SendAside DEF CompleteRecv, TcpInv, TypeOK
  <2> QED
    BY <2>1, <2>2, <2>3 DEF TcpInv
<1>4. CASE ResumeRecv
  <2>1. TypeOK'
    BY <1>4 DEF ResumeRecv, TcpInv, TypeOK, RecvInv, sending, network
  <2>2. RecvInv'
    <3>1. /\ op["recv"] = "completed" /\ ec["recv"] = "none" /\ op'["recv"] = "done"
          /\ got' = bytes["recv"] /\ bytes' = bytes
          /\ ec'["recv"] = IF outcome["recv"] = "failed" THEN "failed" ELSE "none"
          /\ UNCHANGED <<returned, offered, arrived>>
      BY <1>4 DEF ResumeRecv, TcpInv, TypeOK, RecvInv, network
    <3>2. outcome["recv"] \in {"ok", "failed"}
      BY <3>1 DEF TcpInv, TypeOK, RecvInv
    <3> QED
      BY <3>1, <3>2 DEF TcpInv, TypeOK, RecvInv, RecvCounted, Reported
  <2>3. SendInv'
    BY <1>4, SendAside DEF ResumeRecv, TcpInv, TypeOK
  <2> QED
    BY <2>1, <2>2, <2>3 DEF TcpInv
<1>5. CASE FinishRecv
  <2>1. TypeOK'
    <3>1. op' \in [Directions -> {"idle", "submit", "pending", "completed", "done"}]
      BY <1>5 DEF FinishRecv, TcpInv, TypeOK
    <3>2. returned' \in 0 .. MaxArrived
      BY <1>5 DEF FinishRecv, TcpInv, TypeOK, RecvInv, RecvCounted, Reported
    <3> QED
      BY <1>5, <3>1, <3>2 DEF FinishRecv, TcpInv, TypeOK, sending, network
  <2>2. RecvInv'
    BY <1>5 DEF FinishRecv, TcpInv, TypeOK, RecvInv, RecvCounted, Reported, network
  <2>3. SendInv'
    BY <1>5, SendAside DEF FinishRecv, TcpInv, TypeOK
  <2> QED
    BY <2>1, <2>2, <2>3 DEF TcpInv
<1> QED
  BY <1>1, <1>2, <1>3, <1>4, <1>5

LEMMA SendPreserves ==
  ASSUME TcpInv, NEW n \in 0 .. MaxSize, NEW part \in BOOLEAN, Send(n, part)
  PROVE  TcpInv'
<1> USE OverlappedConstants DEF Move, Directions
<1>1. wire' \in Seq(1 .. MaxSize) /\ Len(wire') = 0 /\ wire' = Numbered(0)
  <2>1. <<>> = Numbered(0)
    BY DEF Numbered
  <2> QED
    BY <2>1, EmptySeq DEF Send
<1>2. TypeOK'
  BY <1>1 DEF Send, TcpInv, TypeOK, receiving, network
<1>3. RecvInv'
  BY RecvAside DEF Send, TcpInv, TypeOK
<1>4. SendInv'
  BY <1>1 DEF Send, TcpInv, TypeOK, SendInv, Reported
<1> QED
  BY <1>2, <1>3, <1>4 DEF TcpInv

LEMMA SubmitSendPreserves == ASSUME TcpInv, SubmitSend PROVE TcpInv'
<1> USE OverlappedConstants DEF Move, Fail, Directions
<1>1. op["send"] = "submit" /\ UNCHANGED <<outcome, receiving, some, size, network>>
  BY DEF SubmitSend
<1>2. RecvInv'
  BY RecvAside DEF SubmitSend, Transfers, TcpInv, TypeOK
<1>3. ASSUME UNCHANGED <<bytes, data, left, sent, wire>>,
             \/ /\ op' = [op EXCEPT !["send"] = "done"]
                /\ ec' = ec \/ ec' = [ec EXCEPT !["send"] = "failed"]
             \/ op' = [op EXCEPT !["send"] = "pending"] /\ ec' = ec
      PROVE  TcpInv'
  <2>1. TypeOK'
    BY <1>1, <1>3 DEF TcpInv, TypeOK, receiving, network
  <2>2. SendInv'
    BY <1>1, <1>3 DEF TcpInv, TypeOK, SendInv, Reported
  <2> QED
    BY <1>2, <2>1, <2>2 DEF TcpInv
<1>4. ASSUME NEW n \in 0 .. left, Transfers(n),
             data' = data + n, left' = left - n, sent' = sent + n, ec' = ec,
             op' = [op EXCEPT !["send"] =
                      IF some \/ n = 0 \/ n = left THEN "done" ELSE "submit"]
      PROVE  TcpInv'
  <2>1. /\ wire' \in Seq(1 .. MaxSize)
        /\ Len(wire') = Len(wire) + n /\ Len(wire') <= MaxWire
        /\ Len(wire) = data /\ wire = Numbered(Len(wire)) => wire' = Numbered(Len(wire) + n)
        /\ bytes' = [bytes EXCEPT !["send"] = n]
    BY <1>4, TransferTyped
  <2>2. /\ data \in Nat /\ left \in Nat /\ n \in Nat /\ n <= left /\ sent \in Nat
        /\ Len(wire) \in Nat /\ size \in Nat /\ MaxSize \in Nat /\ size <= MaxSize
        /\ data + left = size /\ data <= Len(wire) /\ sent = Len(wire)
        /\ some => Len(wire) = 0
        /\ some \/ Len(wire) = data => wire = Numbered(Len(wire))
    BY <1>1, LenProperties DEF TcpInv, TypeOK, SendInv, Reported
  <2>3. op'["send"] \in {"done", "submit"} /\ (some => op'["send"] = "done")
    BY <1>4 DEF TcpInv, TypeOK
  <2>4. TypeOK'
    <3>1. /\ op' \in [Directions -> {"idle", "submit", "pending", "completed", "done"}]
          /\ ec' \in [Directions -> {"none", "failed"}]
          /\ bytes' \in [Directions -> Nat]
      BY <1>1, <1>4, <2>1, <2>2 DEF TcpInv, TypeOK
    <3>2. data' \in 0 .. size /\ left' \in 0 .. size - data' /\ sent' \in 0 .. MaxWire
      BY <1>1, <1>4, <2>1, <2>2
    <3> QED
      BY <1>1, <1>4, <2>1, <3>1, <3>2 DEF TcpInv, TypeOK, receiving, network
  <2>5. some' \/ Len(wire') = data' => wire' = Numbered(Len(wire'))
    BY <1>1, <1>4, <2>1, <2>2
  <2>6. SendInv'
    BY <1>1, <1>4, <2>1, <2>2, <2>3, <2>5 DEF SendInv, Reported
  <2> QED
    BY <1>2, <2>4, <2>6 DEF TcpInv
<1> QED
  BY <1>3, <1>4 DEF SubmitSend

LEMMA CompleteSendPreserves == ASSUME TcpInv, CompleteSend PROVE TcpInv'
<1> USE OverlappedConstants DEF Move, Directions
<1>1. /\ op["send"] = "pending" /\ op' = [op EXCEPT !["send"] = "completed"]
      /\ UNCHANGED <<ec, receiving, some, size, data, left, sent, network>>
  BY DEF CompleteSend
<1>2. RecvInv'
  BY RecvAside DEF CompleteSend, Transfers, TcpInv, TypeOK
<1>3. ASSUME NEW n \in 0 .. left, Transfers(n),
             outcome' = [outcome EXCEPT !["send"] = "ok"]
      PROVE  TcpInv'
  <2>1. /\ wire' \in Seq(1 .. MaxSize)
        /\ Len(wire') = Len(wire) + n /\ Len(wire') <= MaxWire
        /\ Len(wire) = data /\ wire = Numbered(Len(wire)) => wire' = Numbered(Len(wire) + n)
        /\ n > 0 \/ left = 0
        /\ bytes' = [bytes EXCEPT !["send"] = n]
    BY <1>3, TransferTyped
  <2>2. /\ data \in Nat /\ left \in Nat /\ n \in Nat /\ n <= left /\ sent \in Nat
        /\ Len(wire) \in Nat /\ size \in Nat
        /\ data + left = size /\ data <= Len(wire) /\ sent = Len(wire)
        /\ some => Len(wire) = 0
        /\ some \/ Len(wire) = data => wire = Numbered(Len(wire))
    BY <1>1, LenProperties DEF TcpInv, TypeOK, SendInv, Reported
  <2>3. TypeOK'
    BY <1>1, <1>3, <2>1 DEF TcpInv, TypeOK, receiving, network
  <2>4. Reported("send")' = n
    BY <1>1, <1>3, <2>1 DEF TcpInv, TypeOK, Reported
  <2>5. some' \/ Len(wire') = data' => wire' = Numbered(Len(wire'))
    BY <1>1, <2>1, <2>2
  <2>6. op'["send"] = "completed"
    BY <1>1 DEF TcpInv, TypeOK
  <2>7. SendInv'
    <3>1. sent' + Reported("send")' = Len(wire')
      BY <1>1, <2>1, <2>2, <2>4
    <3> QED
      BY <1>1, <2>1, <2>2, <2>5, <2>6, <3>1 DEF SendInv
  <2> QED
    BY <1>2, <2>3, <2>7 DEF TcpInv
<1>4. ASSUME outcome' = [outcome EXCEPT !["send"] = "failed"], UNCHANGED <<wire, bytes>>
      PROVE  TcpInv'
  <2>1. TypeOK'
    BY <1>1, <1>4 DEF TcpInv, TypeOK, receiving, network
  <2>2. SendInv'
    BY <1>1, <1>4 DEF TcpInv, TypeOK, SendInv, Reported
  <2> QED
    BY <1>2, <2>1, <2>2 DEF TcpInv
<1> QED
  BY <1>3, <1>4 DEF CompleteSend

LEMMA ResumeSendPreserves == ASSUME TcpInv, ResumeSend \/ FinishSend PROVE TcpInv'
<1> USE OverlappedConstants DEF Move, Fail, Directions
<1>1. CASE ResumeSend
  <2>1. /\ op["send"] = "completed" /\ sent \in Nat
        /\ UNCHANGED <<bytes, outcome, receiving, some, size, data, left, wire, network>>
        /\ sent' = sent + Reported("send")
        /\ \E s \in {"submit", "done"}, c \in {"none", "failed"} :
             /\ op' = [op EXCEPT !["send"] = s]
             /\ ec' = ec \/ ec' = [ec EXCEPT !["send"] = c]
             /\ s = "submit" => ~ some
    BY <1>1 DEF ResumeSend, TcpInv, TypeOK, Reported
  <2>2. RecvInv'
    BY <2>1, RecvAside DEF TcpInv, TypeOK
  <2>3. SendInv'
    BY <2>1, LenProperties DEF TcpInv, TypeOK, SendInv, Reported
  <2>4. sent' \in 0 .. MaxWire
    <3>1. Len(wire) \in Nat /\ Len(wire) <= MaxWire /\ sent + Reported("send") = Len(wire)
      BY LenProperties DEF TcpInv, TypeOK, SendInv
    <3> QED
      BY <2>1, <3>1
  <2>5. /\ op' \in [Directions -> {"idle", "submit", "pending", "completed", "done"}]
        /\ ec' \in [Directions -> {"none", "failed"}]
    BY <2>1 DEF TcpInv, TypeOK
  <2>6. TypeOK'
    BY <2>1, <2>4, <2>5 DEF TcpInv, TypeOK, receiving, network
  <2> QED
    BY <2>2, <2>3, <2>6 DEF TcpInv
<1>2. CASE FinishSend
  <2>1. TypeOK'
    BY <1>2 DEF FinishSend, TcpInv, TypeOK, receiving, sending, network
  <2>2. RecvInv'
    BY <1>2, RecvAside DEF FinishSend, TcpInv, TypeOK
  <2>3. SendInv'
    BY <1>2 DEF FinishSend, TcpInv, TypeOK, SendInv, Reported, sending
  <2> QED
    BY <2>1, <2>2, <2>3 DEF TcpInv
<1> QED
  BY <1>1, <1>2

-----------------------------------------------------------------------------
(* The UDP socket *)

LEMMA UdpNames ==
  /\ DatagramSize \in Nat /\ MaxLength \in Nat /\ MaxOut \in Nat
  /\ None \notin Senders
BY UdpConstants DEF Udp!DatagramConstants

LEMMA UdpInitInv == Udp!Init => UdpInv
<1> SUFFICES ASSUME Udp!Init PROVE UdpInv
  OBVIOUS
<1> USE UdpNames DEF Udp!Init, Udp!Directions, Directions
<1>1. some \in BOOLEAN
  BY Zenon
<1>2. inbox \in Seq(Udp!Datagrams) /\ out \in Seq(Nat) /\ Len(out) = 0 /\ DOMAIN out = {}
  BY EmptySeq
<1>3. UdpTyped
  BY <1>1, <1>2 DEF UdpTyped
<1>4. UdpRecvInv
  BY DEF UdpRecvInv, Udp!DatagramWhole
<1>5. UdpSendInv
  BY <1>2 DEF UdpSendInv, Udp!DatagramOnce
<1> QED
  BY <1>3, <1>4, <1>5 DEF UdpInv

LEMMA UdpSendAside ==
  ASSUME UdpInv, UNCHANGED Udp!sending, platform' = platform,
         op'["send"] = op["send"], ec'["send"] = ec["send"],
         bytes'["send"] = bytes["send"], outcome'["send"] = outcome["send"]
  PROVE  UdpSendInv'
BY DEF UdpInv, UdpSendInv, Udp!DatagramOnce, Udp!sending

LEMMA UdpRecvAside ==
  ASSUME UdpInv, UNCHANGED <<got, endpoint, taken>>, platform' = platform,
         op'["recv"] = op["recv"], ec'["recv"] = ec["recv"],
         bytes'["recv"] = bytes["recv"], outcome'["recv"] = outcome["recv"]
  PROVE  UdpRecvInv'
BY DEF UdpInv, UdpRecvInv, Udp!DatagramWhole

(* What the system hands out is a datagram of some sender.                 *)
LEMMA TakesTyped ==
  ASSUME UdpInv, NEW g \in Udp!Datagrams, Udp!Takes(g)
  PROVE  /\ inbox' \in Seq(Udp!Datagrams) /\ taken' = g
         /\ endpoint' = [from |-> g.from, size |-> Udp!InSize]
         /\ endpoint' \in [from : Senders \cup {None}, size : {0, Udp!InSize, Udp!Capacity}]
         /\ g.length \in Nat
BY HeadTailProperties, UdpNames DEF Udp!Takes, UdpInv, UdpTyped, Udp!Datagrams

LEMMA UdpArrivePreserves == ASSUME UdpInv, Udp!Arrive PROVE UdpInv'
<1>1. /\ UNCHANGED <<platform, op, ec, bytes, outcome, got, endpoint, taken>>
      /\ UNCHANGED <<some, size, left, sent, out>>
      /\ inbox' \in Seq(Udp!Datagrams)
  BY AppendProperties DEF Udp!Arrive, Udp!status, Udp!sending, UdpInv, UdpTyped
<1>2. UdpTyped'
  BY <1>1 DEF UdpInv, UdpTyped
<1>3. UdpRecvInv'
  BY <1>1, UdpRecvAside
<1>4. UdpSendInv'
  BY <1>1, UdpSendAside DEF Udp!sending
<1> QED
  BY <1>2, <1>3, <1>4 DEF UdpInv

LEMMA UdpRecvPreserves ==
  ASSUME UdpInv,
         Udp!Recv \/ Udp!TryRecv \/ Udp!SubmitRecv \/ Udp!CompleteRecv \/ Udp!ResumeRecv
  PROVE  UdpInv'
<1> USE UdpNames
    DEF Udp!Move, Udp!Fail, Udp!Least, Udp!Directions, Directions
<1>1. CASE Udp!Recv
  <2>1. UdpTyped'
    BY <1>1 DEF Udp!Recv, UdpInv, UdpTyped, Udp!sending
  <2>2. UdpRecvInv'
    BY <1>1 DEF Udp!Recv, UdpInv, UdpTyped, UdpRecvInv, Udp!DatagramWhole
  <2>3. UdpSendInv'
    BY <1>1, UdpSendAside DEF Udp!Recv, UdpInv, UdpTyped
  <2> QED
    BY <2>1, <2>2, <2>3 DEF UdpInv
<1>2. CASE Udp!TryRecv
  <2>1. /\ platform = "posix" /\ op["recv"] = "try" /\ got = 0 /\ taken = Udp!NoDatagram
        /\ UNCHANGED <<platform, bytes, outcome, some, size, left, sent, out>>
    BY <1>2 DEF Udp!TryRecv, Udp!sending, UdpInv, UdpRecvInv
  <2>2. UdpSendInv'
    BY <1>2, UdpSendAside DEF Udp!TryRecv, UdpInv, UdpTyped
  <2>3. ASSUME NEW g \in Udp!Datagrams, Udp!Takes(g), ec' = ec,
               got' = got + (IF g.length <= DatagramSize THEN g.length ELSE DatagramSize),
               op' = [op EXCEPT !["recv"] = "done"]
        PROVE  UdpInv'
    <3>1. /\ inbox' \in Seq(Udp!Datagrams) /\ taken' = g
          /\ endpoint' = [from |-> g.from, size |-> Udp!InSize]
          /\ endpoint' \in [from : Senders \cup {None}, size : {0, Udp!InSize, Udp!Capacity}]
          /\ g.length \in Nat
      BY <2>3, TakesTyped
    <3>2. UdpTyped'
      BY <2>1, <2>3, <3>1 DEF UdpInv, UdpTyped
    <3>3. UdpRecvInv'
      BY <2>1, <2>3, <3>1 DEF UdpInv, UdpTyped, UdpRecvInv, Udp!DatagramWhole
    <3> QED
      BY <2>2, <3>2, <3>3 DEF UdpInv
  <2>4. ASSUME endpoint' = [endpoint EXCEPT !.size = Udp!Capacity],
               UNCHANGED <<inbox, taken>>,
               \/ got' = 0 /\ op' = [op EXCEPT !["recv"] = "done"] /\ ec' = ec
               \/ /\ op' = [op EXCEPT !["recv"] = "done"]
                  /\ ec' = [ec EXCEPT !["recv"] = "failed"] /\ got' = got
               \/ op' = [op EXCEPT !["recv"] = "arm"] /\ ec' = ec /\ got' = got
        PROVE  UdpInv'
    <3>1. /\ op' \in [Directions -> {"idle", "try", "arm", "wait", "ready", "done"}]
          /\ ec' \in [Directions -> {"none", "failed"}]
          /\ got' \in Nat
      BY <2>1, <2>4 DEF UdpInv, UdpTyped
    <3>2. endpoint' \in [from : Senders \cup {None}, size : {0, Udp!InSize, Udp!Capacity}]
      BY <2>4 DEF UdpInv, UdpTyped
    <3>3. UdpTyped'
      BY <2>1, <2>4, <3>1, <3>2 DEF UdpInv, UdpTyped
    <3>4. UdpRecvInv'
      BY <2>1, <2>4 DEF UdpInv, UdpTyped, UdpRecvInv, Udp!DatagramWhole
    <3> QED
      BY <2>2, <3>3, <3>4 DEF UdpInv
  <2> QED
    BY <1>2, <2>3, <2>4 DEF Udp!TryRecv
<1>3. CASE Udp!SubmitRecv
  <2>1. /\ platform = "windows" /\ op["recv"] = "try" /\ got = 0 /\ taken = Udp!NoDatagram
        /\ UNCHANGED <<platform, outcome, some, size, left, sent, out>>
    BY <1>3 DEF Udp!SubmitRecv, Udp!sending, UdpInv, UdpRecvInv
  <2>2. UdpSendInv'
    BY <1>3, UdpSendAside DEF Udp!SubmitRecv, UdpInv, UdpTyped
  <2>3. ASSUME NEW g \in Udp!Datagrams, Udp!Takes(g), ec' = ec, g.length <= DatagramSize,
               bytes' = [bytes EXCEPT !["recv"] = g.length], got' = got + g.length,
               op' = [op EXCEPT !["recv"] = "done"]
        PROVE  UdpInv'
    <3>1. /\ inbox' \in Seq(Udp!Datagrams) /\ taken' = g
          /\ endpoint' = [from |-> g.from, size |-> Udp!InSize]
          /\ endpoint' \in [from : Senders \cup {None}, size : {0, Udp!InSize, Udp!Capacity}]
          /\ g.length \in Nat
      BY <2>3, TakesTyped
    <3>2. UdpTyped'
      BY <2>1, <2>3, <3>1 DEF UdpInv, UdpTyped
    <3>3. UdpRecvInv'
      BY <2>1, <2>3, <3>1 DEF UdpInv, UdpTyped, UdpRecvInv, Udp!DatagramWhole
    <3> QED
      BY <2>2, <3>2, <3>3 DEF UdpInv
  <2>4. ASSUME UNCHANGED <<bytes, got, endpoint, inbox, taken>>,
               \/ /\ op' = [op EXCEPT !["recv"] = "done"]
                  /\ ec' = [ec EXCEPT !["recv"] = "failed"]
               \/ op' = [op EXCEPT !["recv"] = "wait"] /\ ec' = ec
        PROVE  UdpInv'
    <3>1. UdpTyped'
      BY <2>1, <2>4 DEF UdpInv, UdpTyped
    <3>2. UdpRecvInv'
      BY <2>1, <2>4 DEF UdpInv, UdpTyped, UdpRecvInv, Udp!DatagramWhole
    <3> QED
      BY <2>2, <3>1, <3>2 DEF UdpInv
  <2> QED
    BY <1>3, <2>3, <2>4 DEF Udp!SubmitRecv, Udp!receiving
<1>4. CASE Udp!CompleteRecv
  <2>1. /\ platform = "windows" /\ op["recv"] = "wait" /\ got = 0
        /\ op' = [op EXCEPT !["recv"] = "ready"]
        /\ UNCHANGED <<platform, ec, got, some, size, left, sent, out>>
    BY <1>4 DEF Udp!CompleteRecv, Udp!sending, UdpInv, UdpRecvInv
  <2>2. UdpSendInv'
    BY <1>4, UdpSendAside DEF Udp!CompleteRecv, UdpInv, UdpTyped
  <2>3. ASSUME NEW g \in Udp!Datagrams, Udp!Takes(g),
               bytes' = [bytes EXCEPT !["recv"] =
                           IF g.length <= DatagramSize THEN g.length ELSE DatagramSize],
               outcome' = [outcome EXCEPT !["recv"] =
                             IF g.length > DatagramSize THEN "failed" ELSE "ok"]
        PROVE  UdpInv'
    <3>1. /\ inbox' \in Seq(Udp!Datagrams) /\ taken' = g
          /\ endpoint' = [from |-> g.from, size |-> Udp!InSize]
          /\ endpoint' \in [from : Senders \cup {None}, size : {0, Udp!InSize, Udp!Capacity}]
          /\ g.length \in Nat
      BY <2>3, TakesTyped
    <3>2. UdpTyped'
      BY <2>1, <2>3, <3>1 DEF UdpInv, UdpTyped
    <3>3. UdpRecvInv'
      BY <2>1, <2>3, <3>1 DEF UdpInv, UdpTyped, UdpRecvInv, Udp!DatagramWhole
    <3> QED
      BY <2>2, <3>2, <3>3 DEF UdpInv
  <2>4. ASSUME UNCHANGED <<bytes, endpoint, inbox, taken>>,
               outcome' = [outcome EXCEPT !["recv"] = "failed"]
        PROVE  UdpInv'
    <3>1. UdpTyped'
      BY <2>1, <2>4 DEF UdpInv, UdpTyped
    <3>2. UdpRecvInv'
      BY <2>1, <2>4 DEF UdpInv, UdpTyped, UdpRecvInv, Udp!DatagramWhole
    <3> QED
      BY <2>2, <3>1, <3>2 DEF UdpInv
  <2> QED
    BY <1>4, <2>3, <2>4 DEF Udp!CompleteRecv
<1>5. CASE Udp!ResumeRecv
  <2>1. UdpTyped'
    BY <1>5 DEF Udp!ResumeRecv, UdpInv, UdpTyped, Udp!sending
  <2>2. UdpRecvInv'
    BY <1>5 DEF Udp!ResumeRecv, UdpInv, UdpTyped, UdpRecvInv, Udp!DatagramWhole
  <2>3. UdpSendInv'
    BY <1>5, UdpSendAside DEF Udp!ResumeRecv, UdpInv, UdpTyped
  <2> QED
    BY <2>1, <2>2, <2>3 DEF UdpInv
<1> QED
  BY <1>1, <1>2, <1>3, <1>4, <1>5

LEMMA OneMore == ASSUME NEW m \in Nat, NEW n \in Nat PROVE m * (n + 1) = m * n + m /\ m * n \in Nat
  OBVIOUS

(* A datagram of the whole buffer is put on the network. *)
LEMMA OutOn ==
  ASSUME UdpInv, left = size, out' = Append(out, left)
  PROVE  /\ out' \in Seq(Nat) /\ Len(out') = Len(out) + 1
         /\ size * Len(out') = size * Len(out) + size
         /\ \A i \in DOMAIN out' : out'[i] = size
<1>1. out \in Seq(Nat) /\ Len(out) \in Nat /\ DOMAIN out = 1 .. Len(out) /\ size \in Nat
  BY LenProperties DEF UdpInv, UdpTyped
<1>2. /\ out' \in Seq(Nat) /\ Len(out') = Len(out) + 1
      /\ \A i \in 1 .. Len(out) : out'[i] = out[i]
      /\ out'[Len(out) + 1] = size
  BY <1>1, AppendProperties
<1>3. DOMAIN out' = 1 .. Len(out) + 1
  BY <1>2, LenProperties
<1>4. \A i \in DOMAIN out : out[i] = size
  BY DEF UdpInv, UdpSendInv, Udp!DatagramOnce
<1>5. \A i \in DOMAIN out' : out'[i] = size
  BY <1>1, <1>2, <1>3, <1>4
<1> QED
  BY <1>1, <1>2, <1>5, OneMore

LEMMA UdpSendPreserves ==
  ASSUME UdpInv, NEW n \in 0 .. MaxLength, NEW part \in BOOLEAN, Udp!Send(n, part)
  PROVE  UdpInv'
<1> USE UdpNames DEF Udp!Move, Udp!Directions, Directions
<1>1. out' \in Seq(Nat) /\ Len(out') = 0 /\ DOMAIN out' = {} /\ n * 0 = 0 /\ n \in Nat
  BY EmptySeq DEF Udp!Send
<1>2. UdpTyped'
  BY <1>1 DEF Udp!Send, UdpInv, UdpTyped, Udp!receiving
<1>3. UdpRecvInv'
  BY UdpRecvAside DEF Udp!Send, UdpInv, UdpTyped, Udp!receiving
<1>4. UdpSendInv'
  BY <1>1 DEF Udp!Send, UdpInv, UdpTyped, UdpSendInv, Udp!DatagramOnce
<1> QED
  BY <1>2, <1>3, <1>4 DEF UdpInv

LEMMA UdpTrySendPreserves == ASSUME UdpInv, Udp!TrySend PROVE UdpInv'
<1> USE UdpNames DEF Udp!Move, Udp!Fail, Udp!Directions, Directions
<1>1. /\ platform = "posix" /\ op["send"] = "try"
      /\ left = size /\ sent = size * Len(out) /\ Len(out) = 0
      /\ UNCHANGED <<platform, bytes, outcome, got, endpoint, inbox, taken, some, size>>
  BY DEF Udp!TrySend, Udp!receiving, UdpInv, UdpSendInv
<1>2. UdpRecvInv'
  BY <1>1, UdpRecvAside DEF Udp!TrySend, UdpInv, UdpTyped
<1>3. ASSUME out' = Append(out, left), left' = 0, sent' = sent + left, ec' = ec,
             op' = [op EXCEPT !["send"] = "done"]
      PROVE  UdpInv'
  <2>1. /\ out' \in Seq(Nat) /\ Len(out') = Len(out) + 1
        /\ size * Len(out') = size * Len(out) + size
        /\ \A i \in DOMAIN out' : out'[i] = size
    BY <1>1, <1>3, OutOn
  <2>2. UdpTyped'
    BY <1>1, <1>3, <2>1 DEF UdpInv, UdpTyped
  <2>3. UdpSendInv'
    BY <1>1, <1>3, <2>1 DEF UdpInv, UdpTyped, UdpSendInv, Udp!DatagramOnce
  <2> QED
    BY <1>2, <2>2, <2>3 DEF UdpInv
<1>4. ASSUME UNCHANGED <<out, left, sent>>,
             \/ /\ op' = [op EXCEPT !["send"] = "done"]
                /\ ec' = [ec EXCEPT !["send"] = "failed"]
             \/ op' = [op EXCEPT !["send"] = "arm"] /\ ec' = ec
      PROVE  UdpInv'
  <2>1. UdpTyped'
    BY <1>1, <1>4 DEF UdpInv, UdpTyped
  <2>2. UdpSendInv'
    BY <1>1, <1>4 DEF UdpInv, UdpTyped, UdpSendInv, Udp!DatagramOnce
  <2> QED
    BY <1>2, <2>1, <2>2 DEF UdpInv
<1> QED
  BY <1>3, <1>4 DEF Udp!TrySend

LEMMA UdpSubmitSendPreserves == ASSUME UdpInv, Udp!SubmitSend PROVE UdpInv'
<1> USE UdpNames DEF Udp!Move, Udp!Fail, Udp!Directions, Directions
<1>1. /\ platform = "windows" /\ op["send"] = "try"
      /\ left = size /\ sent = size * Len(out) /\ (some => Len(out) = 0)
      /\ UNCHANGED <<platform, outcome, got, endpoint, inbox, taken, some, size>>
  BY DEF Udp!SubmitSend, Udp!receiving, UdpInv, UdpSendInv
<1>2. UdpRecvInv'
  BY <1>1, UdpRecvAside DEF Udp!SubmitSend, UdpInv, UdpTyped
<1>3. ASSUME out' = Append(out, left), left' = 0, sent' = sent + left, ec' = ec,
             bytes' = [bytes EXCEPT !["send"] = left],
             op' = [op EXCEPT !["send"] = "done"]
      PROVE  UdpInv'
  <2>1. /\ out' \in Seq(Nat) /\ Len(out') = Len(out) + 1
        /\ size * Len(out') = size * Len(out) + size
        /\ \A i \in DOMAIN out' : out'[i] = size
    BY <1>1, <1>3, OutOn
  <2>2. UdpTyped'
    BY <1>1, <1>3, <2>1 DEF UdpInv, UdpTyped
  <2>3. op'["send"] = "done" /\ sent' = size * Len(out')
    <3>1. op'["send"] = "done"
      BY <1>3 DEF UdpInv, UdpTyped
    <3> QED
      BY <1>1, <1>3, <2>1, <3>1
  <2>4. some => Len(out') = 1
    BY <1>1, <2>1, LenProperties DEF UdpInv, UdpTyped
  <2>5. UdpSendInv'
    BY <1>1, <1>3, <2>1, <2>3, <2>4 DEF UdpSendInv, Udp!DatagramOnce
  <2> QED
    BY <1>2, <2>2, <2>5 DEF UdpInv
<1>4. ASSUME UNCHANGED <<bytes, out, left, sent>>,
             \/ op' = [op EXCEPT !["send"] = "done"] /\ ~ some /\ ec' = ec
             \/ /\ op' = [op EXCEPT !["send"] = "done"]
                /\ ec' = [ec EXCEPT !["send"] = "failed"]
             \/ op' = [op EXCEPT !["send"] = "wait"] /\ ec' = ec
      PROVE  UdpInv'
  <2>1. UdpTyped'
    BY <1>1, <1>4 DEF UdpInv, UdpTyped
  <2>2. UdpSendInv'
    BY <1>1, <1>4 DEF UdpInv, UdpTyped, UdpSendInv, Udp!DatagramOnce
  <2> QED
    BY <1>2, <2>1, <2>2 DEF UdpInv
<1> QED
  BY <1>3, <1>4 DEF Udp!SubmitSend

LEMMA UdpCompleteSendPreserves == ASSUME UdpInv, Udp!CompleteSend PROVE UdpInv'
<1> USE UdpNames DEF Udp!Move, Udp!Directions, Directions
<1>1. /\ platform = "windows" /\ op["send"] = "wait"
      /\ op' = [op EXCEPT !["send"] = "ready"]
      /\ left = size /\ sent = size * Len(out) /\ (some => Len(out) = 0)
      /\ UNCHANGED <<platform, ec, got, endpoint, inbox, taken, some, size, left, sent>>
  BY DEF Udp!CompleteSend, Udp!receiving, UdpInv, UdpSendInv
<1>2. UdpRecvInv'
  BY <1>1, UdpRecvAside DEF Udp!CompleteSend, UdpInv, UdpTyped
<1>3. ASSUME out' = Append(out, left),
             bytes' = [bytes EXCEPT !["send"] = left],
             outcome' = [outcome EXCEPT !["send"] = "ok"]
      PROVE  UdpInv'
  <2>1. /\ out' \in Seq(Nat) /\ Len(out') = Len(out) + 1
        /\ size * Len(out') = size * Len(out) + size
        /\ \A i \in DOMAIN out' : out'[i] = size
    BY <1>1, <1>3, OutOn
  <2>2. UdpTyped'
    BY <1>1, <1>3, <2>1 DEF UdpInv, UdpTyped
  <2>3. /\ op'["send"] = "ready" /\ outcome'["send"] = "ok" /\ bytes'["send"] = size
        /\ sent' + size = size * Len(out')
    BY <1>1, <1>3, <2>1 DEF UdpInv, UdpTyped
  <2>4. some => Len(out') = 1
    BY <1>1, <2>1, LenProperties DEF UdpInv, UdpTyped
  <2>5. UdpSendInv'
    BY <1>1, <2>1, <2>3, <2>4 DEF UdpSendInv, Udp!DatagramOnce
  <2> QED
    BY <1>2, <2>2, <2>5 DEF UdpInv
<1>4. ASSUME outcome' = [outcome EXCEPT !["send"] = "failed"], UNCHANGED <<bytes, out>>
      PROVE  UdpInv'
  <2>1. UdpTyped'
    BY <1>1, <1>4 DEF UdpInv, UdpTyped
  <2>2. UdpSendInv'
    BY <1>1, <1>4 DEF UdpInv, UdpTyped, UdpSendInv, Udp!DatagramOnce
  <2> QED
    BY <1>2, <2>1, <2>2 DEF UdpInv
<1> QED
  BY <1>3, <1>4 DEF Udp!CompleteSend

LEMMA UdpResumeSendPreserves == ASSUME UdpInv, Udp!ResumeSend PROVE UdpInv'
<1> USE UdpNames DEF Udp!Move, Udp!Fail, Udp!Directions, Directions
<1>1. /\ platform = "windows" /\ op["send"] = "ready"
      /\ UNCHANGED <<platform, bytes, outcome, got, endpoint, inbox, taken>>
      /\ UNCHANGED <<some, size, left, out>>
  BY DEF Udp!ResumeSend, Udp!receiving
<1>2. UdpTyped'
  BY <1>1 DEF Udp!ResumeSend, UdpInv, UdpTyped
<1>3. UdpRecvInv'
  BY <1>1, UdpRecvAside DEF Udp!ResumeSend, UdpInv, UdpTyped
<1>4. UdpSendInv'
  BY <1>1 DEF Udp!ResumeSend, UdpInv, UdpTyped, UdpSendInv, Udp!DatagramOnce
<1> QED
  BY <1>2, <1>3, <1>4 DEF UdpInv

LEMMA UdpEventPreserves ==
  ASSUME UdpInv, NEW d \in Udp!Directions, Udp!Arm(d) \/ Udp!Dispatch(d) \/ Udp!Finish(d)
  PROVE  UdpInv'
<1> USE UdpNames DEF Udp!Directions, Directions
<1>1. /\ UNCHANGED <<platform, bytes, outcome, got, endpoint, inbox, taken>>
      /\ UNCHANGED <<some, size, left, sent, out>>
      /\ \/ /\ op[d] = "arm" /\ op' = [op EXCEPT ![d] = "wait"] /\ ec' = ec
         \/ /\ op[d] = "arm" /\ op' = [op EXCEPT ![d] = "done"]
            /\ ec' = [ec EXCEPT ![d] = "failed"]
         \/ op[d] = "wait" /\ op' = [op EXCEPT ![d] = "try"] /\ ec' = ec
         \/ op[d] = "done" /\ op' = [op EXCEPT ![d] = "idle"] /\ ec' = ec
  BY DEF Udp!Arm, Udp!Dispatch, Udp!Finish, Udp!Move, Udp!Fail, Udp!receiving, Udp!sending
<1>2. UdpTyped'
  BY <1>1 DEF UdpInv, UdpTyped
<1>3. CASE d = "recv"
  <2>1. UdpRecvInv'
    BY <1>1, <1>3 DEF UdpInv, UdpTyped, UdpRecvInv, Udp!DatagramWhole
  <2>2. UdpSendInv'
    BY <1>1, <1>3, UdpSendAside DEF UdpInv, UdpTyped, Udp!sending
  <2> QED
    BY <1>2, <2>1, <2>2 DEF UdpInv
<1>4. CASE d = "send"
  <2>1. UdpRecvInv'
    BY <1>1, <1>4, UdpRecvAside DEF UdpInv, UdpTyped
  <2>2. UdpSendInv'
    BY <1>1, <1>4 DEF UdpInv, UdpTyped, UdpSendInv, Udp!DatagramOnce
  <2> QED
    BY <1>2, <2>1, <2>2 DEF UdpInv
<1> QED
  BY <1>3, <1>4

-----------------------------------------------------------------------------
LEMMA TcpStep == ASSUME TcpInv, [Next]_vars PROVE TcpInv'
<1>1. CASE UNCHANGED vars
  BY <1>1 DEF vars, status, receiving, sending, network, TcpInv, TypeOK, RecvInv, RecvCounted,
              SendInv, Reported
<1>2. ASSUME NEW n \in 0 .. MaxSize, NEW part \in BOOLEAN, Send(n, part)
      PROVE  TcpInv'
  BY <1>2, SendPreserves
<1> QED
  BY <1>1, <1>2, PeerPreserves, RecvPreserves, SubmitSendPreserves, CompleteSendPreserves,
     ResumeSendPreserves DEF Next

LEMMA UdpStep == ASSUME UdpInv, Udp!Next PROVE UdpInv'
<1>1. ASSUME NEW n \in 0 .. MaxLength, NEW part \in BOOLEAN, Udp!Send(n, part)
      PROVE  UdpInv'
  BY <1>1, UdpSendPreserves
<1>2. ASSUME NEW d \in Udp!Directions, Udp!Arm(d) \/ Udp!Dispatch(d) \/ Udp!Finish(d)
      PROVE  UdpInv'
  BY <1>2, UdpEventPreserves
<1> QED
  BY <1>1, <1>2, UdpArrivePreserves, UdpRecvPreserves, UdpTrySendPreserves,
     UdpSubmitSendPreserves, UdpCompleteSendPreserves, UdpResumeSendPreserves DEF Udp!Next

LEMMA StepInv == Inv /\ [MCNext]_vars_mc => Inv'
<1> SUFFICES ASSUME Inv, [MCNext]_vars_mc PROVE Inv'
  OBVIOUS
<1>1. CASE protocol = "tcp" /\ Next /\ UNCHANGED <<udpOnly, protocol>>
  BY <1>1, TcpStep DEF Inv
<1>2. CASE protocol = "udp" /\ Udp!Next /\ UNCHANGED <<tcpOnly, protocol>>
  BY <1>2, UdpStep DEF Inv
<1>3. CASE UNCHANGED vars_mc
  <2>1. UNCHANGED <<vars, platform, endpoint, inbox, taken, out, protocol>>
    BY <1>3 DEF vars_mc, udpOnly
  <2>2. TcpInv => TcpInv'
    BY <2>1, TcpStep
  <2>3. UdpInv => UdpInv'
    BY <2>1 DEF vars, status, receiving, sending, network, UdpInv, UdpTyped, UdpRecvInv,
                UdpSendInv, Udp!DatagramWhole, Udp!DatagramOnce
  <2> QED
    BY <2>1, <2>2, <2>3 DEF Inv
<1> QED
  BY <1>1, <1>2, <1>3 DEF MCNext

LEMMA MCInitInv == MCInit => Inv
  BY TcpInitInv, UdpInitInv DEF MCInit, Inv

(* The operations of the TCP socket (tcp/socket.h 91-190) keep the buffer  *)
(* they hand to the system inside the caller's.                            *)
THEOREM TcpTypeCorrect == Spec => []TypeOK
<1>1. Init => TcpInv
  BY TcpInitInv
<1>2. TcpInv /\ [Next]_vars => TcpInv'
  BY TcpStep
<1>3. TcpInv => TypeOK
  BY DEF TcpInv
<1> QED
  BY <1>1, <1>2, <1>3, PTL DEF Spec

(* tcp/socket.cpp 237-384: recv and send count every byte of the stream    *)
(* once, whether an operation completes at once or through the port.       *)
THEOREM StreamAlwaysCounted == MCSpec => []StreamCounted
<1>1. Inv => StreamCounted
  BY DEF Inv, TcpInv, TypeOK, RecvInv, SendInv, StreamCounted, SendCounted, Numbered
<1> QED
  BY <1>1, MCInitInv, StepInv, PTL DEF MCSpec

(* The operations of the UDP socket (udp/socket.h 32-116) keep their       *)
(* types, and a send that is not done still has its whole buffer.          *)
THEOREM UdpTypeCorrect ==
  MCSpec => [](protocol = "udp" =>
                 /\ UdpTyped
                 /\ op["send"] \in {"try", "arm", "wait", "ready"} => left = size)
<1>1. Inv => (protocol = "udp" =>
                /\ UdpTyped
                /\ op["send"] \in {"try", "arm", "wait", "ready"} => left = size)
  BY DEF Inv, UdpInv, UdpSendInv
<1> QED
  BY <1>1, MCInitInv, StepInv, PTL DEF MCSpec

(* udp/socket.cpp 23-75: a recv that ends without an error has one         *)
(* datagram, with its sender, or on POSIX none.                            *)
THEOREM DatagramAlwaysWhole == MCSpec => []DatagramWhole
<1>1. Inv => DatagramWhole
  BY DEF Inv, UdpInv, UdpRecvInv, DatagramWhole
<1> QED
  BY <1>1, MCInitInv, StepInv, PTL DEF MCSpec

(* udp/socket.cpp 77-201: every datagram of a send is the whole buffer,    *)
(* and is counted; send_some, and send on POSIX, send exactly one.         *)
THEOREM DatagramAlwaysOnce == MCSpec => []DatagramOnce
<1>1. Inv => DatagramOnce
  BY DEF Inv, UdpInv, UdpSendInv, DatagramOnce
<1> QED
  BY <1>1, MCInitInv, StepInv, PTL DEF MCSpec
=============================================================================
