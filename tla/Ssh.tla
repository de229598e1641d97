--------------------------------- MODULE Ssh ---------------------------------
(***************************************************************************)
(* One coroutine that uses an SSH session on POSIX: the connect operation  *)
(* (src/ice/net/tcp/socket.cpp), session::connect and open                 *)
(* (src/ice/net/ssh/session.cpp), channel::exec, read and write            *)
(* (src/ice/net/ssh/channel.cpp), and the transport whose callbacks        *)
(* libssh2 calls and which is the event they all wait for                  *)
(* (src/ice/net/ssh/transport.cpp).                                        *)
(*                                                                         *)
(* libssh2 is external.  A call of it receives and sends as it likes       *)
(* through the callbacks.  It asks to be called again after a callback     *)
(* that would have blocked, and after one that transferred only a part of  *)
(* what libssh2 needed; it may be done, or fail, after any.  Whether       *)
(* connect succeeds is up to the system; the length it is given is that of *)
(* a copied endpoint, 0 (see Server), which a system may refuse.           *)
(*                                                                         *)
(* backend is chosen at the start: "epoll" or "kqueue".                    *)
(***************************************************************************)
EXTENDS Naturals, Sequences, SequencesExt

CONSTANTS MaxIncoming,  \* bound: bytes that wait to be received
          Capacity,     \* room in the send buffer
          Sizes         \* of the data given to write

ASSUME SshConstants ==
  /\ MaxIncoming \in Nat /\ Capacity \in Nat
  /\ Sizes \subseteq Nat \ {0}

ChannelCalls == {"exec", "read", "write"}

VARIABLES
  backend,
  net,        \* the connection, as the system has it
  incoming, room,
  registered, \* directions the socket is registered for
  call,       \* the step of the session that runs
  pc,         \* where the coroutine is in it
  connectEc,  \* ec_ of the connect operation
  ec,         \* ec_ of the transport
  operation,  \* operation_ of the transport
  blocked,    \* direction in which libssh2 was left waiting by its last callback
  short,      \* that callback transferred a part, it did not block
  channel,    \* the session has opened one
  size,       \* of the data of a write
  written,    \* its local
  accepted    \* the first bytes of data that each call took

system == <<net, incoming, room>>
transport == <<ec, operation, blocked, short>>
data == <<channel, size, written, accepted>>
vars == <<backend, system, registered, call, pc, connectEc, transport, data>>

Init ==
  /\ backend \in {"epoll", "kqueue"}
  /\ net = "none"
  /\ incoming = 0 /\ room = Capacity
  /\ registered = {}
  /\ call = "connect" /\ pc = "try"
  /\ connectEc = FALSE
  /\ ec = FALSE /\ operation = "none" /\ blocked = "none" /\ short = FALSE
  /\ channel = FALSE
  /\ size = 0 /\ written = 0 /\ accepted = <<>>

-----------------------------------------------------------------------------
(* The system *)

Establish ==
  /\ net = "pending"
  /\ net' \in {"up", "refused"}
  /\ UNCHANGED <<backend, incoming, room, registered, call, pc, connectEc, transport, data>>

Arrive ==
  /\ net = "up" /\ incoming < MaxIncoming
  /\ incoming' = incoming + 1
  /\ UNCHANGED <<backend, net, room, registered, call, pc, connectEc, transport, data>>

Drain ==
  /\ net = "up" /\ room < Capacity
  /\ room' = room + 1
  /\ UNCHANGED <<backend, net, incoming, registered, call, pc, connectEc, transport, data>>

Break ==
  /\ net = "up"
  /\ net' = "broken"
  /\ UNCHANGED <<backend, incoming, room, registered, call, pc, connectEc, transport, data>>

(* A socket that is not connected hangs up on epoll; kqueue does not       *)
(* report it.                                                              *)
Ready(d) ==
  \/ net \in {"refused", "broken"}
  \/ net = "none" /\ backend = "epoll"
  \/ net = "up" /\ IF d = "recv" THEN incoming > 0 ELSE room > 0

Fire ==
  /\ pc = "suspended"
  /\ \E d \in registered : Ready(d)
  /\ registered' = IF backend = "kqueue" THEN {} ELSE registered
  /\ pc' = "fired"
  /\ UNCHANGED <<backend, system, call, connectEc, transport, data>>

-----------------------------------------------------------------------------
(* The connect operation *)

(* await_ready: an error, too, is waited upon. *)
TryConnect ==
  /\ call = "connect" /\ pc = "try"
  /\ \/ net' = "up" /\ pc' = "check" /\ UNCHANGED connectEc
     \/ net' = "pending" /\ pc' = "queue" /\ UNCHANGED connectEc
     \/ net' = "none" /\ pc' = "queue" /\ connectEc' = TRUE
  /\ UNCHANGED <<backend, incoming, room, registered, call, transport, data>>

(* Mutant: resume() does not ask for SO_ERROR. *)
ResumeConnectTrusts ==
  /\ call = "connect" /\ pc = "resume"
  /\ pc' = "check"
  /\ UNCHANGED <<backend, system, registered, call, connectEc, transport, data>>

(* resume(): SO_ERROR replaces ec_ only when there is one. *)
ResumeConnect ==
  /\ call = "connect" /\ pc = "resume"
  /\ connectEc' = (connectEc \/ net \in {"refused", "broken"})
  /\ pc' = "check"
  /\ UNCHANGED <<backend, system, registered, call, transport, data>>

CheckConnect ==
  /\ call = "connect" /\ pc = "check"
  /\ IF connectEc THEN pc' = "threw" /\ UNCHANGED call
                  ELSE pc' = "call" /\ call' = "handshake"
  /\ UNCHANGED <<backend, system, registered, connectEc, transport, data>>

-----------------------------------------------------------------------------
(* Waiting for an event: the connect operation or the transport *)

Awaited == IF call = "connect" THEN "send" ELSE operation

(* suspend(): queue_recv or queue_send; EPOLL_CTL_ADD fails for a socket   *)
(* that is still registered.  A transport none of whose callbacks has ever *)
(* blocked is an error.                                                    *)
Queue ==
  /\ pc = "queue"
  /\ \/ /\ Awaited = "none" \/ (backend = "epoll" /\ registered # {})
        /\ IF call = "connect" THEN connectEc' = TRUE /\ UNCHANGED ec
                               ELSE ec' = TRUE /\ UNCHANGED connectEc
        /\ pc' = "check"
        /\ UNCHANGED registered
     \/ /\ Awaited # "none" /\ (backend = "kqueue" \/ registered = {})
        /\ registered' = registered \cup {Awaited}
        /\ pc' = "suspended"
        /\ UNCHANGED <<connectEc, ec>>
  /\ UNCHANGED <<backend, system, call, operation, blocked, short, data>>

(* Mutant: the event stays registered. *)
DispatchKeeps ==
  /\ pc = "fired"
  /\ pc' = IF call = "connect" THEN "resume" ELSE "check"
  /\ UNCHANGED <<backend, system, registered, call, connectEc, transport, data>>

(* event::await_resume: remove() on epoll; the transport's resume() does   *)
(* nothing.                                                                *)
Dispatch ==
  /\ pc = "fired"
  /\ registered' = {}
  /\ pc' = IF call = "connect" THEN "resume" ELSE "check"
  /\ UNCHANGED <<backend, system, call, connectEc, transport, data>>

(* await_resume of the transport: its ec_ is never reset. *)
CheckTransport ==
  /\ call # "connect" /\ pc = "check"
  /\ pc' = IF ec THEN "threw" ELSE "call"
  /\ UNCHANGED <<backend, system, registered, call, connectEc, transport, data>>

-----------------------------------------------------------------------------
(* The loops around libssh2 *)

CallLibrary ==
  /\ pc = "call"
  /\ call # "write" \/ written < size
  /\ pc' = "inside"
  /\ blocked' = "none" /\ short' = FALSE
  /\ UNCHANGED <<backend, system, registered, call, connectEc, ec, operation, data>>

(* A callback that transfers leaves operation_ alone, whether libssh2 has  *)
(* got what it needs then or only a part of it.                            *)
Transferred(d) ==
  /\ blocked' \in {"none", d}
  /\ short' = (blocked' = d)
  /\ UNCHANGED operation

WouldBlock(d) == operation' = d /\ blocked' = d /\ short' = FALSE

(* on_recv: bytes, EAGAIN, or the end, which is no error here, or an error.*)
OnRecv ==
  /\ pc = "inside"
  /\ \/ /\ net = "up" /\ incoming > 0
        /\ incoming' \in 0 .. incoming - 1
        /\ Transferred("recv")
        /\ UNCHANGED pc
     \/ /\ net = "up" /\ incoming = 0
        /\ WouldBlock("recv")
        /\ UNCHANGED <<incoming, pc>>
     \/ /\ net = "broken"
        /\ operation' \in {operation, "recv"}
        /\ pc' = "failed"
        /\ UNCHANGED <<incoming, blocked, short>>
  /\ UNCHANGED <<backend, net, room, registered, call, connectEc, ec, data>>

(* Mutant: operation_ is left as it was. *)
OnSendForgets ==
  /\ pc = "inside"
  /\ \/ /\ net = "up" /\ room > 0
        /\ room' \in 0 .. room - 1
        /\ Transferred("send")
        /\ UNCHANGED pc
     \/ /\ net = "up" /\ room = 0
        /\ blocked' = "send" /\ short' = FALSE
        /\ UNCHANGED <<room, pc, operation>>
  /\ UNCHANGED <<backend, net, incoming, registered, call, connectEc, ec, data>>

(* on_send: bytes, an error, or EAGAIN. *)
OnSend ==
  /\ pc = "inside"
  /\ \/ /\ net = "up" /\ room > 0
        /\ room' \in 0 .. room - 1
        /\ Transferred("send")
        /\ UNCHANGED pc
     \/ /\ net = "up" /\ room = 0
        /\ WouldBlock("send")
        /\ UNCHANGED <<room, pc>>
     \/ /\ net = "broken"
        /\ operation' = "send"
        /\ pc' = "failed"
        /\ UNCHANGED <<room, blocked, short>>
  /\ UNCHANGED <<backend, net, incoming, registered, call, connectEc, ec, data>>

(* LIBSSH2_ERROR_EAGAIN: co_await transport. *)
Again ==
  /\ pc = "inside" /\ blocked # "none"
  /\ pc' = "queue"
  /\ UNCHANGED <<backend, system, registered, call, connectEc, transport, data>>

(* Another error is an exception: that of a callback, or one of libssh2    *)
(* itself, which refuses the key, the password, the channel or its use on  *)
(* a connection that is up.                                                *)
Fail ==
  /\ pc \in {"inside", "failed"}
  /\ pc' = "threw"
  /\ UNCHANGED <<backend, system, registered, call, connectEc, transport, data>>

(* LIBSSH2_ERROR_NONE, a channel, or 0 and more bytes. *)
Done ==
  /\ pc = "inside" /\ call # "write"
  /\ \/ call = "handshake" /\ call' = "auth" /\ pc' = "call"
     \/ call = "auth" /\ call' = "open" /\ pc' = "call"
     \/ call \notin {"handshake", "auth"} /\ pc' = "idle" /\ UNCHANGED call
  /\ channel' = (channel \/ call = "open")
  /\ UNCHANGED <<backend, system, registered, connectEc, transport, size, written, accepted>>

(* Mutant: the last result is what was written. *)
DoneWriteAssigns ==
  /\ pc = "inside" /\ call = "write"
  /\ \E n \in 0 .. size :
       /\ written' = n
       /\ accepted' = IF n = 0 THEN accepted ELSE Append(accepted, n)
  /\ pc' = "call"
  /\ Len(accepted) <= size
  /\ UNCHANGED <<backend, system, registered, call, connectEc, transport, channel, size>>

(* libssh2_channel_write_ex took n bytes of data, from its beginning. *)
DoneWrite ==
  /\ pc = "inside" /\ call = "write"
  /\ \E n \in 0 .. size :
       /\ written' = written + n
       /\ accepted' = IF n = 0 THEN accepted ELSE Append(accepted, n)
  /\ pc' = "call"
  /\ UNCHANGED <<backend, system, registered, call, connectEc, transport, channel, size>>

EndWrite ==
  /\ pc = "call" /\ call = "write" /\ written >= size
  /\ pc' = "idle"
  /\ UNCHANGED <<backend, system, registered, call, connectEc, transport, data>>

(* The caller opens a channel or uses one; after an exception, too, which  *)
(* leaves the session and the transport as they are.  It connects once.    *)
Use(c) ==
  /\ pc = "idle" \/ (pc = "threw" /\ call # "connect")
  /\ c = "open" \/ channel
  /\ call' = c
  /\ pc' = "call"
  /\ size' \in Sizes
  /\ written' = 0 /\ accepted' = <<>>
  /\ UNCHANGED <<backend, system, registered, connectEc, transport, channel>>

CoroutineStep ==
  \/ TryConnect \/ ResumeConnect \/ CheckConnect
  \/ Queue \/ Dispatch \/ CheckTransport
  \/ CallLibrary \/ OnRecv \/ OnSend \/ Again \/ Fail
  \/ Done \/ DoneWrite \/ EndWrite

Next ==
  \/ CoroutineStep \/ Fire
  \/ \E c \in ChannelCalls \cup {"open"} : Use(c)
  \/ Establish \/ Arrive \/ Drain \/ Break

Spec == Init /\ [][Next]_vars

(* The kernel delivers what is ready.  The peer owes nothing. *)
FairSpec == Spec /\ WF_vars(CoroutineStep) /\ WF_vars(Fire)

-----------------------------------------------------------------------------
(* Properties *)

(* connect ends without an exception exactly when the system has a         *)
(* connection, or had one, however it was refused (tcp/socket.cpp 156-217).*)
ConnectTruthful ==
  /\ call # "connect" => net \in {"up", "broken"}
  /\ call = "connect" /\ pc = "threw" => net # "up"

(* A session waits for the direction of operation_, whatever it waited for *)
(* before.  This is the one in which libssh2 is blocked, although a call   *)
(* tries both and other calls have blocked in between, except that after a *)
(* callback that transferred a part it is the one that blocked before.     *)
(* No wait begins while an earlier one is still registered, that of the    *)
(* connect included (transport.cpp 17-108, event.h 54-61).                 *)
WaitsForBlocked ==
  /\ pc = "suspended" =>
       /\ registered = {Awaited}
       /\ call # "connect" => blocked # "none" /\ (short \/ registered = {blocked})
  /\ pc \notin {"suspended", "fired"} => registered = {}

(* What the suspended coroutine needs has come: an answer to its connect,  *)
(* or bytes or room in the direction in which libssh2 is blocked.  Two     *)
(* waits are left out that nothing has to end: on kqueue that for a        *)
(* connect that failed at once, and that for another direction than        *)
(* libssh2 needs after it has transferred a part.                          *)
CanGoOn ==
  /\ pc = "suspended"
  /\ IF call = "connect" THEN net # "pending" /\ (backend = "epoll" \/ ~ connectEc)
                         ELSE Ready(blocked) /\ (short => operation = blocked)

(* It is resumed then (transport.cpp 17-61, session.cpp 58-94,             *)
(* channel.cpp 15-61).                                                     *)
GoesOn == CanGoOn ~> pc # "suspended"

(* written counts the bytes libssh2 took, over any number of waits between *)
(* them, and write ends as soon as they are enough.  What it took is the   *)
(* data if it took it in one piece; after a part the beginning is sent     *)
(* again, and written may pass the size (channel.cpp 46-61).               *)
WriteCounted ==
  LET Sum(s) == FoldLeft(+, 0, s)
  IN  /\ written = Sum(accepted)
      /\ written < 2 * size \/ size = 0
      /\ call = "write" /\ pc = "idle" =>
           /\ written >= size
           /\ Sum(SubSeq(accepted, 1, Len(accepted) - 1)) < size
=============================================================================
