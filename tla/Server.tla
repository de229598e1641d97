------------------------------- MODULE Server -------------------------------
(***************************************************************************)
(* The server program around its connections (src/main.cpp): main() calls  *)
(* server(), which opens a socket and accepts connections for ever, and    *)
(* then context::run(); each connection is handed to a handle() coroutine. *)
(* With it come the accept operation (src/ice/net/tcp/socket.cpp), the     *)
(* handles that own the descriptors (include/ice/handle.h) and the copies  *)
(* of the endpoints (src/ice/net/endpoint.cpp).                            *)
(*                                                                         *)
(* There is one thread; stack holds the coroutines that run on it, each    *)
(* called or resumed by the one before.  What handle() does with its       *)
(* connection is the module Connection: here it waits, or ends.            *)
(*                                                                         *)
(* platform is chosen at the start: "posix" tries accept4 and waits for    *)
(* readiness, "windows" submits AcceptEx with a socket made beforehand.    *)
(***************************************************************************)
EXTENDS Integers, Sequences, SequencesExt, FiniteSets

CONSTANTS Peers,        \* clients; each connects once
          Descriptors,  \* what the process may have open
          Invalid,      \* the value of an empty handle
          Free, Unused, \* of a descriptor: nothing, a socket without peer
          Listener,     \* server()'s socket
          Client,       \* the client_ of the accept operation
          Param,        \* handle()'s argument
          Server,       \* the coroutine server()
          Local, None   \* the address it binds; no address

Handles == Peers \cup {Listener, Client, Param}

ASSUME ServerConstants ==
  /\ IsFiniteSet(Peers) /\ IsFiniteSet(Descriptors)
  /\ Descriptors # {} /\ Invalid \notin Descriptors
  /\ {Free, Unused, Listener, Client, Param, Server, Local, None} \cap Peers = {}
  /\ Cardinality({Listener, Client, Param}) = 3
  /\ Cardinality({Free, Unused, Listener}) = 3

VARIABLES
  platform,
  main,      \* where main() is
  stop, wake, \* the context's flag, and an interrupt that nobody has seen
  stack,     \* the coroutines on the thread
  server,    \* where server() is, in its accept operation too
  ec,        \* the operation failed
  outcome,   \* what the system says of the completed AcceptEx
  value,     \* of each handle
  endpoint,  \* of each socket
  conn,      \* the handle() of each peer
  table,     \* the process's descriptors
  listens,   \* the listening socket takes connections
  backlog,   \* connections that wait to be accepted
  aborted    \* peers that gave up while they waited

context == <<main, stop, wake>>
accept == <<server, ec, outcome>>
sockets == <<value, endpoint, table>>
network == <<listens, backlog, aborted>>
vars == <<platform, context, stack, accept, sockets, conn, network>>

Capacity == 128   \* sockaddr_storage
InSize == 16      \* sockaddr_in

(* endpoint::endpoint(), the address and size_.                            *)
NoEndpoint == [addr |-> None, size |-> 0]

(* endpoint("127.0.0.1", 8080) *)
LocalEndpoint == [addr |-> Local, size |-> InSize]

Init ==
  /\ platform \in {"posix", "windows"}
  /\ main = "calls"
  /\ stop = FALSE /\ wake = FALSE
  /\ stack = <<Server>>
  /\ server = "create"
  /\ ec = FALSE
  /\ outcome = "none"
  /\ value = [h \in Handles |-> Invalid]
  /\ endpoint = [h \in Handles |-> NoEndpoint]
  /\ conn = [p \in Peers |-> "none"]
  /\ table = [d \in Descriptors |-> Free]
  /\ listens = FALSE /\ backlog = <<>>
  /\ aborted = {}

Runs(c) == stack # <<>> /\ Last(stack) = c

-----------------------------------------------------------------------------
(* handle and endpoint *)

(* Mutant: the move leaves the value where it was. *)
MoveConstructCopies(v, from, to) == [v EXCEPT ![to] = v[from]]

(* handle(handle&&): other.release(). *)
MoveConstruct(v, from, to) == [v EXCEPT ![to] = v[from], ![from] = Invalid]

(* reset() and ~handle(): a valid descriptor is closed.  close() is tried  *)
(* again after EINTR, when the descriptor may be gone: nobody else on this *)
(* thread can have been given its number in between.                       *)
Closed(t, h) == [d \in Descriptors |-> IF d = value[h] THEN Free ELSE t[d]]

(* The copy constructor takes the address and leaves size_ 0; the          *)
(* assignment keeps the size_ that was there.                              *)
Copied(e) == [addr |-> e.addr, size |-> 0]
Assigned(to, e) == [to EXCEPT !.addr = e.addr]

(* host() and port() depend on size_. *)
Named(e) == IF e.size = InSize THEN e.addr ELSE None

FreeDescriptors == {d \in Descriptors : table[d] = Free}

-----------------------------------------------------------------------------
(* server() *)

(* The constructor of the socket; when a call after the first fails the    *)
(* member handle_ is destroyed with what it has.                           *)
Create ==
  /\ Runs(Server) /\ server = "create"
  /\ \/ /\ server' = "unwind"
        /\ UNCHANGED <<value, table>>
     \/ \E d \in FreeDescriptors :
          /\ server' = "bind"
          /\ value' = [value EXCEPT ![Listener] = d]
          /\ table' = [table EXCEPT ![d] = Listener]
  /\ UNCHANGED <<platform, context, stack, ec, outcome, endpoint, conn, network>>

(* bind(), which keeps the address as the socket's endpoint. *)
Bind ==
  /\ Runs(Server) /\ server = "bind"
  /\ \/ /\ server' = "unwind"
        /\ UNCHANGED endpoint
     \/ /\ server' = "listen"
        /\ endpoint' = [endpoint EXCEPT ![Listener] = Assigned(@, LocalEndpoint)]
  /\ UNCHANGED <<platform, context, stack, ec, outcome, value, table, conn, network>>

Listen ==
  /\ Runs(Server) /\ server = "listen"
  /\ server' \in {"unwind", "accept"}
  /\ listens' = (server' = "accept")
  /\ UNCHANGED <<platform, context, stack, ec, outcome, sockets, conn, backlog, aborted>>

(* socket.accept(): on Windows the constructor, which is noexcept, makes   *)
(* the client's socket.                                                    *)
Accept ==
  /\ Runs(Server) /\ server = "accept"
  /\ ec' = FALSE
  /\ endpoint' = [endpoint EXCEPT ![Client] = NoEndpoint]
  /\ \/ /\ platform = "posix"
        /\ server' = "try"
        /\ UNCHANGED <<main, stack, value, table>>
     \/ /\ platform = "windows"
        /\ \E d \in FreeDescriptors :
             /\ value' = [value EXCEPT ![Client] = d]
             /\ table' = [table EXCEPT ![d] = Unused]
        /\ server' = "try"
        /\ UNCHANGED <<main, stack>>
     \/ /\ platform = "windows"
        /\ FreeDescriptors = {}
        /\ main' = "terminated"
        /\ stack' = <<>>
        /\ UNCHANGED <<server, value, table>>
  /\ UNCHANGED <<platform, stop, wake, outcome, conn, network>>

(* accept::await_ready on POSIX, also as resume(): a connection, none yet, *)
(* or an error, such as no free descriptor or an aborted connection.       *)
TryAccept ==
  /\ platform = "posix"
  /\ Runs(Server) /\ server = "try"
  /\ \/ \E d \in FreeDescriptors :
          /\ backlog # <<>>
          /\ value' = [value EXCEPT ![Client] = d]
          /\ table' = [Closed(table, Client) EXCEPT ![d] = Head(backlog)]
          /\ endpoint' = [endpoint EXCEPT ![Client] = [addr |-> Head(backlog), size |-> InSize]]
          /\ backlog' = Tail(backlog)
          /\ server' = "take"
          /\ UNCHANGED ec
     \/ /\ endpoint' = [endpoint EXCEPT ![Client].size = Capacity]
        /\ \/ /\ backlog = <<>>
              /\ server' = "arm"
              /\ UNCHANGED <<ec, backlog>>
           \/ /\ FreeDescriptors = {} \/ (backlog # <<>> /\ Head(backlog) \in aborted)
              /\ ec' = TRUE
              /\ server' = "take"
              /\ backlog' = IF backlog # <<>> /\ Head(backlog) \in aborted
                            THEN Tail(backlog) ELSE backlog
        /\ UNCHANGED <<value, table>>
  /\ UNCHANGED <<platform, context, stack, outcome, conn, listens, aborted>>

(* Mutant: the coroutine is suspended without an event. *)
ArmNothing ==
  /\ platform = "posix"
  /\ Runs(Server) /\ server = "arm"
  /\ server' = "suspended"
  /\ stack' = Front(stack)
  /\ UNCHANGED <<platform, context, ec, outcome, sockets, conn, network>>

(* accept::suspend on POSIX. *)
Arm ==
  /\ platform = "posix"
  /\ Runs(Server) /\ server = "arm"
  /\ server' = "armed"
  /\ stack' = Front(stack)
  /\ UNCHANGED <<platform, context, ec, outcome, sockets, conn, network>>

(* accept::suspend on Windows: AcceptEx takes a connection at once, which  *)
(* leaves the endpoint as it is, or pends, or fails; it is repeated for a  *)
(* connection that was reset.                                              *)
Submit ==
  /\ platform = "windows"
  /\ Runs(Server) /\ server = "try"
  /\ \/ /\ backlog # <<>>
        /\ backlog' = Tail(backlog)
        /\ IF Head(backlog) \in aborted
           THEN UNCHANGED <<server, table>>
           ELSE /\ table' = [table EXCEPT ![value[Client]] = Head(backlog)]
                /\ server' = "take"
        /\ UNCHANGED <<stack, ec>>
     \/ /\ server' = "armed"
        /\ stack' = Front(stack)
        /\ UNCHANGED <<ec, table, backlog>>
     \/ /\ ec' = TRUE
        /\ server' = "take"
        /\ UNCHANGED <<stack, table, backlog>>
  /\ UNCHANGED <<platform, context, outcome, value, endpoint, conn, listens, aborted>>

(* The listening socket is readable, or AcceptEx has completed. *)
Fire ==
  /\ server = "armed"
  /\ backlog # <<>>
  /\ server' = "fired"
  /\ IF platform = "posix"
     THEN UNCHANGED <<outcome, table, backlog>>
     ELSE LET p == Head(backlog) IN
          /\ backlog' = Tail(backlog)
          /\ outcome' = IF p \in aborted THEN "reset" ELSE "ok"
          /\ table' = IF p \in aborted THEN table ELSE [table EXCEPT ![value[Client]] = p]
  /\ UNCHANGED <<platform, context, stack, ec, value, endpoint, conn, listens, aborted>>

(* AcceptEx has completed with an error of another kind. *)
FireFails ==
  /\ platform = "windows"
  /\ server = "armed"
  /\ server' = "fired"
  /\ outcome' = "failed"
  /\ UNCHANGED <<platform, context, stack, ec, sockets, conn, network>>

(* run() dispatches the event. *)
Dispatch ==
  /\ stack = <<>> /\ main = "run"
  /\ server = "fired"
  /\ server' = IF platform = "posix" THEN "try" ELSE "resume"
  /\ stack' = <<Server>>
  /\ UNCHANGED <<platform, context, ec, outcome, sockets, conn, network>>

(* accept::resume on Windows: a reset connection is one to wait past,      *)
(* another error ends the operation.                                       *)
Resume ==
  /\ Runs(Server) /\ server = "resume"
  /\ \/ /\ outcome = "reset"
        /\ server' = "try"
        /\ UNCHANGED <<ec, endpoint>>
     \/ /\ outcome = "failed"
        /\ server' = "take"
        /\ ec' = TRUE
        /\ UNCHANGED endpoint
     \/ /\ outcome = "ok"
        /\ server' = "take"
        /\ endpoint' = [endpoint EXCEPT ![Client] =
                          [addr |-> table[value[Client]], size |-> InSize]]
        /\ UNCHANGED ec
  /\ outcome' = "none"
  /\ UNCHANGED <<platform, context, stack, value, table, conn, network>>

(* accept::await_resume: an exception, or the client's socket is moved out *)
(* of the operation, its endpoint by the copy constructor.                 *)
Take ==
  /\ Runs(Server) /\ server = "take"
  /\ \/ /\ ec
        /\ server' = "unwind"
        /\ table' = Closed(table, Client)
        /\ value' = [value EXCEPT ![Client] = Invalid]
        /\ UNCHANGED endpoint
     \/ /\ ~ ec
        /\ server' = "call"
        /\ value' = MoveConstruct(value, Client, Param)
        /\ endpoint' = [endpoint EXCEPT ![Param] = Copied(endpoint[Client])]
        /\ UNCHANGED table
  /\ UNCHANGED <<platform, context, stack, ec, outcome, conn, network>>

(* handle() is called: its argument is moved into its frame, and it runs. *)
Call ==
  /\ Runs(Server) /\ server = "call"
  /\ LET p == table[value[Param]] IN
     /\ value' = MoveConstruct(value, Param, p)
     /\ endpoint' = [endpoint EXCEPT ![p] = Copied(endpoint[Param])]
     /\ conn' = [conn EXCEPT ![p] = "running"]
     /\ stack' = Append(stack, p)
  /\ server' = "called"
  /\ UNCHANGED <<platform, context, ec, outcome, table, network>>

(* It returns when it waits or ends: the temporaries are destroyed, and    *)
(* the loop goes round.                                                    *)
Return ==
  /\ Runs(Server) /\ server = "called"
  /\ table' = Closed(Closed(table, Client), Param)
  /\ value' = [value EXCEPT ![Client] = Invalid, ![Param] = Invalid]
  /\ server' = "accept"
  /\ UNCHANGED <<platform, context, stack, ec, outcome, endpoint, conn, network>>

(* Mutant: stop() sets the flag and does not interrupt. *)
UnwindSilent ==
  /\ Runs(Server) /\ server = "unwind"
  /\ table' = Closed(table, Listener)
  /\ value' = [value EXCEPT ![Listener] = Invalid]
  /\ stop' = TRUE
  /\ server' = "over"
  /\ stack' = Front(stack)
  /\ listens' = FALSE
  /\ UNCHANGED <<platform, main, wake, ec, outcome, endpoint, conn, backlog, aborted>>

(* An exception leaves server(): the socket is closed, and the scope guard *)
(* calls context.stop().                                                   *)
Unwind ==
  /\ Runs(Server) /\ server = "unwind"
  /\ table' = Closed(table, Listener)
  /\ value' = [value EXCEPT ![Listener] = Invalid]
  /\ stop' = TRUE /\ wake' = TRUE
  /\ server' = "over"
  /\ stack' = Front(stack)
  /\ listens' = FALSE
  /\ UNCHANGED <<platform, main, ec, outcome, endpoint, conn, backlog, aborted>>

-----------------------------------------------------------------------------
(* handle(), run() and the clients *)

HandleWaits(p) ==
  /\ Runs(p)
  /\ conn' = [conn EXCEPT ![p] = "waiting"]
  /\ stack' = Front(stack)
  /\ UNCHANGED <<platform, context, accept, sockets, network>>

(* The frame goes away, and its socket with it. *)
HandleEnds(p) ==
  /\ Runs(p)
  /\ conn' = [conn EXCEPT ![p] = "over"]
  /\ stack' = Front(stack)
  /\ table' = Closed(table, p)
  /\ value' = [value EXCEPT ![p] = Invalid]
  /\ UNCHANGED <<platform, context, accept, endpoint, network>>

(* run() dispatches an event of the connection. *)
HandleResumed(p) ==
  /\ stack = <<>> /\ main = "run"
  /\ conn[p] = "waiting"
  /\ conn' = [conn EXCEPT ![p] = "running"]
  /\ stack' = <<p>>
  /\ UNCHANGED <<platform, context, accept, sockets, network>>

(* server() has returned to main(), suspended or ended. *)
Run ==
  /\ stack = <<>> /\ main = "calls"
  /\ main' = "run"
  /\ UNCHANGED <<platform, stop, wake, stack, accept, sockets, conn, network>>

(* run() receives the interrupt, and looks at the flag.                    *)
Interrupted ==
  /\ stack = <<>> /\ main = "run"
  /\ wake
  /\ wake' = FALSE
  /\ main' = IF stop THEN "returned" ELSE "run"
  /\ UNCHANGED <<platform, stop, stack, accept, sockets, conn, network>>

Connect(p) ==
  /\ conn[p] = "none" /\ p \notin ToSet(backlog) \cup aborted
  /\ \A d \in Descriptors : table[d] # p
  /\ listens
  /\ backlog' = Append(backlog, p)
  /\ UNCHANGED <<platform, context, stack, accept, sockets, conn, listens, aborted>>

(* A client gives up before it is accepted: the system forgets it, or      *)
(* reports it.                                                             *)
Abort(p) ==
  /\ p \in ToSet(backlog) \ aborted
  /\ aborted' = aborted \cup {p}
  /\ \/ \E i \in DOMAIN backlog : backlog[i] = p /\ backlog' = RemoveAt(backlog, i)
     \/ UNCHANGED backlog
  /\ UNCHANGED <<platform, context, stack, accept, sockets, conn, listens>>

ServerStep ==
  \/ Create \/ Bind \/ Listen
  \/ Accept \/ TryAccept \/ Arm \/ Submit \/ Resume
  \/ Take \/ Call \/ Return \/ Unwind

ThreadStep ==
  \/ ServerStep \/ Run
  \/ \E p \in Peers : HandleWaits(p) \/ HandleEnds(p)

Next ==
  \/ ThreadStep \/ Fire \/ FireFails \/ Dispatch \/ Interrupted
  \/ \E p \in Peers : HandleResumed(p) \/ Connect(p) \/ Abort(p)

Spec == Init /\ [][Next]_vars

(* The thread runs, and the kernel returns what is ready in the order in   *)
(* which it became so: connections that are always busy do not keep the    *)
(* listening socket or the interrupt from their turn.                      *)
FairSpec ==
  /\ Spec
  /\ WF_vars(ThreadStep) /\ WF_vars(Fire)
  /\ SF_vars(Dispatch) /\ SF_vars(Interrupted)

-----------------------------------------------------------------------------
(* Properties *)

(* The places of server() and main() (main.cpp 56-78) and the members of   *)
(* the accept operation (tcp/socket.h 36-69).                              *)
TypeOK ==
  /\ platform \in {"posix", "windows"}
  /\ main \in {"calls", "run", "returned", "terminated"}
  /\ {stop, wake, ec, listens} \subseteq BOOLEAN
  /\ stack \in Seq(Peers \cup {Server})
  /\ server \in {"create", "bind", "listen", "accept", "try", "arm", "armed", "fired", "resume", "take",
                 "call", "called", "unwind", "over"}
  /\ outcome \in {"none", "ok", "reset", "failed"}
  /\ value \in [Handles -> Descriptors \cup {Invalid}]
  /\ endpoint \in [Handles -> [addr : Peers \cup {Local, None}, size : {0, InSize, Capacity}]]
  /\ conn \in [Peers -> {"none", "running", "waiting", "over"}]
  /\ table \in [Descriptors -> Peers \cup {Free, Unused, Listener}]
  /\ backlog \in Seq(Peers)
  /\ aborted \subseteq Peers

(* Every open descriptor has one handle, and every valid handle has an     *)
(* open descriptor, that of its own connection: none leaks and none is     *)
(* closed twice, or under another owner, on the way from accept4 or        *)
(* AcceptEx to handle()'s frame, whatever fails on it (handle.h 130-172,   *)
(* main.cpp:64).                                                           *)
OwnedOnce ==
  /\ \A d \in Descriptors :
       IF table[d] = Free THEN \A h \in Handles : value[h] # d
                          ELSE \E h \in Handles : \A g \in Handles : value[g] = d <=> g = h
  /\ \A p \in Peers :
       IF conn[p] \in {"running", "waiting"} THEN value[p] # Invalid /\ table[value[p]] = p
                                             ELSE value[p] = Invalid

(* A client that connects and stays gets its handle(), however the others  *)
(* come, abort or are served, as long as server() runs (main.cpp 63-65).   *)
EachHandled ==
  \A p \in Peers : p \in ToSet(backlog)
    ~> conn[p] # "none" \/ p \in aborted \/ server = "over" \/ main = "terminated"

(* An error of bind, listen or accept ends the program: run() returns,     *)
(* also when it is entered after the stop, and although connections are    *)
(* open (main.cpp:57).                                                     *)
FailureEnds == server = "unwind" ~> main = "returned"

(* What net/socket.h:94 says of endpoint(): "Local endpoint on bound       *)
(* sockets.  Remote endpoint on connected or accepted sockets."            *)
EndpointKnown ==
  \A p \in Peers : conn[p] \in {"running", "waiting"} => Named(endpoint[p]) = p
=============================================================================
