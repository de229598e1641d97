---------------------------- MODULE OverlappedMC ----------------------------
(***************************************************************************)
(* Overlapped and Datagram for TLC: a TCP socket on Windows, and a UDP     *)
(* socket on either platform, of which a behavior has one.  The members    *)
(* with the same names are the same variables.                             *)
(***************************************************************************)
EXTENDS Overlapped

CONSTANTS Senders, None, MaxLength, MaxInbox, MaxOut,
          DatagramSize  \* of the buffer the UDP socket's recv is given
VARIABLES protocol, platform, endpoint, inbox, taken, out

Udp == INSTANCE Datagram WITH BufferSize <- DatagramSize

ASSUME UdpConstants == Udp!DatagramConstants

tcpOnly == <<data, wire, network, returned>>
udpOnly == <<platform, endpoint, inbox, taken, out>>
vars_mc == <<vars, udpOnly, protocol>>

MCInit ==
  /\ Init /\ Udp!Init
  /\ protocol \in {"tcp", "udp"}
  /\ protocol = "tcp" => platform = "windows"

MCNext ==
  \/ protocol = "tcp" /\ Next /\ UNCHANGED <<udpOnly, protocol>>
  \/ protocol = "udp" /\ Udp!Next /\ UNCHANGED <<tcpOnly, protocol>>

MCSpec == MCInit /\ [][MCNext]_vars_mc

(* Every byte of the stream is counted once, by recv and by send, whether  *)
(* an operation completes at once or through the port                      *)
(* (tcp/socket.cpp 237-384).                                               *)
StreamCounted == protocol = "tcp" => RecvCounted /\ SendCounted

(* What recv returns without an error is one datagram                      *)
(* (udp/socket.cpp 23-75).                                                 *)
DatagramWhole == protocol = "udp" => Udp!DatagramWhole

(* Every datagram of a send is the whole buffer, and is counted            *)
(* (udp/socket.cpp 77-201).                                                *)
DatagramOnce == protocol = "udp" => Udp!DatagramOnce
=============================================================================
