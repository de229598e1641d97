----------------------------- MODULE Connection -----------------------------
(***************************************************************************)
(* One connection of the server program (src/main.cpp): handle(), which    *)
(* reads requests, and the respond() coroutines it starts, which send one  *)
(* response each under an async_mutex.  It extends TcpSocket, each step of  *)
(* which is a step of one of them, of the loop or of the client, and has   *)
(* a first come first served lock, which AsyncMutex is shown to implement. *)
(*                                                                         *)
(* main() calls context::run() once: there is one thread.  stack holds the *)
(* coroutines that run on it, each called or resumed by the one before; it *)
(* is empty while the thread waits in the loop.                            *)
(*                                                                         *)
(* A byte that arrives stands for a request, and all that matters of a     *)
(* response is its size.  The responses are numbered as they are started.  *)
(***************************************************************************)
EXTENDS TcpSocket, SequencesExt

CONSTANTS MaxRequests,   \* bound: requests a client sends
          Handle,        \* the coroutine handle()
          None

Requests == 1 .. MaxRequests
ResponseSize == MaxSize

ASSUME ConnectionConstants ==
  /\ MaxRequests \in Nat
  /\ {Handle, None} \cap Requests = {} /\ Handle # None

VARIABLES
  handle,    \* where handle() is
  todo,      \* requests of the last recv it has yet to answer
  respond,   \* where each respond() is
  owner,     \* of the mutex
  queue,     \* coroutines that wait for it
  stack,     \* the coroutines on the thread
  stream,    \* for each byte sent, whose response it belongs to
  asked      \* requests the client has sent

socket == <<op, ec, registered, sending, kernel>>
mutex == <<owner, queue>>
vars_connection == <<socket, handle, todo, respond, mutex, stack, stream, asked>>

ConnectionInit ==
  /\ Init
  /\ handle = "call"
  /\ todo = 0
  /\ respond = [r \in Requests |-> "none"]
  /\ owner = None
  /\ queue = <<>>
  /\ stack = <<Handle>>
  /\ stream = <<>>
  /\ asked = 0

Runs(c) == stack # <<>> /\ Last(stack) = c

-----------------------------------------------------------------------------
(* handle() *)

HandleRecv ==
  /\ Runs(Handle) /\ handle = "call"
  /\ Recv
  /\ handle' = "recv"
  /\ UNCHANGED <<todo, respond, mutex, stack, stream, asked>>

HandleTry ==
  /\ Runs(Handle) /\ handle = "recv"
  /\ TryRecv
  /\ todo' = arrived - arrived'
  /\ UNCHANGED <<handle, respond, mutex, stack, stream, asked>>

(* handle() suspends, or goes on with an error. *)
HandleArm ==
  /\ Runs(Handle) /\ handle = "recv"
  /\ Arm("recv")
  /\ stack' = IF op'["recv"] = "armed" THEN Front(stack) ELSE stack
  /\ UNCHANGED <<handle, todo, respond, mutex, stream, asked>>

(* An error leaves handle() at once; the end of the stream leaves the loop.*)
HandleReceived ==
  /\ Runs(Handle) /\ handle = "recv"
  /\ Finish("recv")
  /\ handle' = IF ec["recv"] # "none" THEN "close"
               ELSE IF todo = 0 THEN "finish" ELSE "parse"
  /\ UNCHANGED <<todo, respond, mutex, stack, stream, asked>>

(* respond() is called for a request, and runs at once; after the last     *)
(* request handle() receives again.                                        *)
HandleParse ==
  /\ Runs(Handle) /\ handle = "parse"
  /\ \/ /\ todo > 0
        /\ todo' = todo - 1
        /\ LET r == CHOOSE r \in Requests :
                      respond[r] = "none" /\ \A s \in 1 .. r - 1 : respond[s] # "none"
           IN  /\ respond' = [respond EXCEPT ![r] = "lock"]
               /\ stack' = Append(stack, r)
        /\ UNCHANGED handle
     \/ /\ todo = 0
        /\ handle' = "call"
        /\ UNCHANGED <<todo, respond, stack>>
  /\ UNCHANGED <<socket, mutex, stream, asked>>

(* Mutant: handle() does not wait for its sends. *)
HandleLockSkips ==
  /\ Runs(Handle) /\ handle = "finish"
  /\ handle' = "close"
  /\ UNCHANGED <<socket, todo, respond, mutex, stack, stream, asked>>

(* The last lock_async(). *)
HandleLock ==
  /\ Runs(Handle) /\ handle = "finish"
  /\ \/ /\ owner = None
        /\ owner' = Handle
        /\ handle' = "close"
        /\ UNCHANGED <<queue, stack>>
     \/ /\ owner # None
        /\ queue' = Append(queue, Handle)
        /\ handle' = "lock"
        /\ stack' = Front(stack)
        /\ UNCHANGED owner
  /\ UNCHANGED <<socket, todo, respond, stream, asked>>

(* The frame of handle() is destroyed, with the mutex and the socket;      *)
(* close() takes the descriptor out of the kernel's queue.                 *)
HandleClose ==
  /\ Runs(Handle) /\ handle = "close"
  /\ handle' = "over"
  /\ stack' = Front(stack)
  /\ registered' = {}
  /\ UNCHANGED <<op, ec, sending, kernel, todo, respond, mutex, stream, asked>>

-----------------------------------------------------------------------------
(* respond() *)

RespondLock(r) ==
  /\ Runs(r) /\ respond[r] = "lock"
  /\ \/ /\ owner = None
        /\ owner' = r
        /\ respond' = [respond EXCEPT ![r] = "send"]
        /\ UNCHANGED <<queue, stack>>
     \/ /\ owner # None
        /\ queue' = Append(queue, r)
        /\ respond' = [respond EXCEPT ![r] = "wait"]
        /\ stack' = Front(stack)
        /\ UNCHANGED owner
  /\ UNCHANGED <<socket, handle, todo, stream, asked>>

RespondSend(r) ==
  /\ Runs(r) /\ respond[r] = "send"
  /\ Send(ResponseSize, FALSE)
  /\ respond' = [respond EXCEPT ![r] = "sending"]
  /\ UNCHANGED <<handle, todo, mutex, stack, stream, asked>>

RespondTry(r) ==
  /\ Runs(r) /\ respond[r] = "sending"
  /\ TrySend
  /\ stream' = stream \o [i \in 1 .. sent' - sent |-> r]
  /\ UNCHANGED <<handle, todo, respond, mutex, stack, asked>>

RespondArm(r) ==
  /\ Runs(r) /\ respond[r] = "sending"
  /\ Arm("send")
  /\ stack' = IF op'["send"] = "armed" THEN Front(stack) ELSE stack
  /\ UNCHANGED <<handle, todo, respond, mutex, stream, asked>>

(* An error, too, leaves through the destructor of the lock. *)
RespondSent(r) ==
  /\ Runs(r) /\ respond[r] = "sending"
  /\ Finish("send")
  /\ respond' = [respond EXCEPT ![r] = "unlock"]
  /\ UNCHANGED <<handle, todo, mutex, stack, stream, asked>>

(* c, which waited for the mutex, goes on inside unlock(). *)
Resumed(c) ==
  /\ handle' = IF c = Handle THEN "close" ELSE handle
  /\ respond' = [r \in Requests |->
                   IF r = c THEN "send" ELSE IF Runs(r) THEN "unlocking" ELSE respond[r]]

(* Mutant: the mutex is freed although coroutines wait. *)
RespondUnlockFrees(r) ==
  /\ Runs(r) /\ respond[r] = "unlock"
  /\ owner' = None
  /\ respond' = [respond EXCEPT ![r] = "over"]
  /\ stack' = Front(stack)
  /\ UNCHANGED <<socket, handle, queue, todo, stream, asked>>

(* Mutant: the last to wait is served first. *)
RespondUnlockLifo(r) ==
  /\ Runs(r) /\ respond[r] = "unlock"
  /\ \/ /\ queue = <<>>
        /\ owner' = None
        /\ respond' = [respond EXCEPT ![r] = "over"]
        /\ stack' = Front(stack)
        /\ UNCHANGED <<handle, queue>>
     \/ /\ queue # <<>>
        /\ owner' = Last(queue)
        /\ queue' = Front(queue)
        /\ stack' = Append(stack, owner')
        /\ Resumed(owner')
  /\ UNCHANGED <<socket, todo, stream, asked>>

(* unlock(), and the end of respond() when nobody waits. *)
RespondUnlock(r) ==
  /\ Runs(r) /\ respond[r] = "unlock"
  /\ \/ /\ queue = <<>>
        /\ owner' = None
        /\ respond' = [respond EXCEPT ![r] = "over"]
        /\ stack' = Front(stack)
        /\ UNCHANGED <<handle, queue>>
     \/ /\ queue # <<>>
        /\ owner' = Head(queue)
        /\ queue' = Tail(queue)
        /\ stack' = Append(stack, owner')
        /\ Resumed(owner')
  /\ UNCHANGED <<socket, todo, stream, asked>>

(* unlock() returns, after which respond() ends. *)
RespondReturn(r) ==
  /\ Runs(r) /\ respond[r] = "unlocking"
  /\ respond' = [respond EXCEPT ![r] = "over"]
  /\ stack' = Front(stack)
  /\ UNCHANGED <<socket, handle, todo, mutex, stream, asked>>

-----------------------------------------------------------------------------
(* The loop and the client *)

(* The thread waits and receives one event, the size of run()'s default    *)
(* buffer.                                                                 *)
LoopReceives(d) ==
  /\ stack = <<>>
  /\ \A e \in Directions : op[e] # "fired"
  /\ Fire(d)
  /\ UNCHANGED <<handle, todo, respond, mutex, stack, stream, asked>>

(* It dispatches the event. *)
LoopDispatches(d) ==
  /\ stack = <<>>
  /\ Dispatch(d)
  /\ stack' = <<IF d = "recv" THEN Handle ELSE owner>>
  /\ UNCHANGED <<handle, todo, respond, mutex, stream, asked>>

Ask ==
  /\ asked < MaxRequests
  /\ asked' = asked + 1
  /\ Arrive
  /\ UNCHANGED <<handle, todo, respond, mutex, stack, stream>>

ClientReads ==
  /\ Drain
  /\ UNCHANGED <<handle, todo, respond, mutex, stack, stream, asked>>

ClientEnds ==
  /\ PeerEnds
  /\ UNCHANGED <<handle, todo, respond, mutex, stack, stream, asked>>

HandleStep ==
  \/ HandleRecv \/ HandleTry \/ HandleArm \/ HandleReceived
  \/ HandleParse \/ HandleLock \/ HandleClose

RespondStep(r) ==
  \/ RespondLock(r) \/ RespondSend(r) \/ RespondTry(r) \/ RespondArm(r)
  \/ RespondSent(r) \/ RespondUnlock(r) \/ RespondReturn(r)

ThreadStep ==
  \/ HandleStep
  \/ \E r \in Requests : RespondStep(r)
  \/ \E d \in Directions : LoopDispatches(d)

ConnectionNext ==
  \/ ThreadStep
  \/ \E d \in Directions : LoopReceives(d)
  \/ Ask \/ ClientReads \/ ClientEnds

ConnectionSpec == ConnectionInit /\ [][ConnectionNext]_vars_connection

(* The thread runs and receives what is ready, and the client reads what  *)
(* it is sent.  It does not have to ask, nor to end the connection.        *)
ConnectionFairness ==
  /\ WF_vars_connection(ThreadStep)
  /\ \A d \in Directions : WF_vars_connection(LoopReceives(d))
  /\ WF_vars_connection(ClientReads)

ConnectionFairSpec == ConnectionSpec /\ ConnectionFairness

-----------------------------------------------------------------------------
(* Properties *)

Coroutines == Requests \cup {Handle}

(* The places of the two coroutine bodies (main.cpp 18-54), and a mutex    *)
(* that nobody waits for while it is free.                                 *)
ConnectionTypeOK ==
  /\ TypeOK
  /\ handle \in {"call", "recv", "parse", "finish", "lock", "close", "over"}
  /\ todo \in 0 .. MaxArrived
  /\ respond \in [Requests -> {"none", "lock", "wait", "send", "sending", "unlock",
                               "unlocking", "over"}]
  /\ owner \in Coroutines \cup {None}
  /\ queue \in Seq(Coroutines)
  /\ owner = None => queue = <<>>
  /\ stack \in Seq(Coroutines)
  /\ stream \in Seq(Requests)
  /\ asked \in 0 .. MaxRequests

(* "wait until all send operations finish" (main.cpp:52): when handle()    *)
(* destroys the mutex and the socket, no respond() waits for the mutex or  *)
(* has bytes to send.                                                      *)
NoneOutlives ==
  handle = "over" => \A r \in Requests : respond[r] \in {"none", "unlocking", "over"}

(* The responses come one after the other, each whole before the next      *)
(* begins, in the order of the requests, however the sends are cut up and  *)
(* whatever fails (main.cpp 18-25).                                        *)
ResponsesWhole ==
  \A i \in DOMAIN stream : stream[i] = 1 + (i - 1) \div ResponseSize

(* When the client ends the connection its coroutine ends, with the socket *)
(* and the mutex: neither waits for the other for ever (main.cpp 31-54).   *)
ConnectionEnds == peer # "open" ~> handle = "over"
=============================================================================
