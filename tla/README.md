# A TLA+ verification of ice

ice is a C++ coroutine library (Coroutines TS) with an event loop on Windows
completion ports, Linux epoll and FreeBSD kqueue, TCP and UDP sockets, an SSH
layer over libssh2, and a small HTTP server as its program. This directory
holds TLA+ modules translated from the source, TLC configurations that check
them on small instances, and TLAPS proofs of the most important properties for
every value of the constants.

## 1. Inventory

| component | source | state | operations |
|---|---|---|---|
| async_mutex | `include/ice/async.h` 985-1129 | one atomic word `m_state` (not locked, locked, or the newest waiting operation), the owner's list `m_waiters`, `m_next` in every operation | `try_lock`, `lock_async`, `scoped_lock_async`, `unlock` |
| async<T> task | `async.h` 256-585 | the frame, `m_state` (flag of a handshake), `m_continuation`, the result | create, `co_await`, return or throw, destroy |
| async_generator | `async.h` 587-983 | `m_state` (five values), `m_currentValue`, the two frames | `co_yield`, `begin`/`++`, end, cancel, destroy |
| generator | `async.h` 85-254 | one frame | `begin`, `++`, destroy |
| basic_task | `async.h` 33-83 | a frame that owns itself | start, end |
| context | `src/ice/context.cpp`, `include/ice/context.h` | the descriptor, `state_` (stop flag and thread counter), the registration of posts | `run`, `interrupt`, `stop`, `schedule` |
| event | `include/ice/event.h`, `src/ice/event.cpp` | awaiter, the descriptor it registered, `ec_` | `await_suspend`, `await_resume`, `queue_recv/send/note`, `remove` |
| TCP operations | `src/ice/net/tcp/socket.cpp`, `.h` | `buffer_`, `size_`, `ec_` of an operation | accept, connect, recv, send, send_some |
| UDP operations | `src/ice/net/udp/socket.cpp`, `.h` | the same, with an endpoint | recv, send, send_some |
| socket base, endpoint | `src/ice/net/socket.cpp`, `endpoint.cpp` | the descriptor; an address and its size | create, bind, move, close, shutdown; copy, assign, `host`, `port` |
| option, buffer, types | `src/ice/net/*.cpp` | values for system calls | get, set |
| SSH transport, session, channel | `src/ice/net/ssh/*.cpp` | one transport event per session with its `operation_`, libssh2 handles | connect, authenticate, open, exec, read, write |
| handle | `include/ice/handle.h` | one descriptor | reset, release, close |
| thread_local_storage, scope, utility | `utility.cpp`, `.h`, `scope.h` | per thread pointer | get, set, guards |
| server program | `src/main.cpp` | per connection: socket, buffer, mutex, responses under way | `server`, `handle`, `respond`, `main` |
| errors, configuration, examples, benchmark | | none | |

How they interact. A coroutine runs on the thread that called or resumed it,
and *inside* that call: the caller goes on only when it suspends or ends. This
nesting is where the hard behaviour is, and every module keeps it. An operation
that would block registers its `event` with the context and suspends; `run()`
takes events from the kernel in batches and calls `event::await_resume`, which
tries the operation again and resumes the coroutine. Tasks, generators and the
mutex resume one another directly through atomic words, without the loop.

What is hard in this code:

* lock-free handshakes between a side that suspends and a side that completes
  on another thread (task, generator, mutex);
* a pointer into a frame (a lock operation, a yielded value, an event) that must
  not be used once the frame is gone or runs;
* one posted wake-up that must reach every thread of `run()`;
* one registration per descriptor on epoll that serves both directions;
* sends cut into parts by the kernel, interleaved with errors of the other
  direction;
* objects (`mutex`, `client` in `handle()`) that other coroutines refer to and
  that leave scope with the coroutine that owns them;
* a descriptor that passes through four owners before its coroutine runs;
* libraries that call back, and one word that says what the last callback was
  blocked on.

`PROJECT.json` lists the hazards line by line, each with the properties that
would catch it.

What makes each component correct:

* **async_mutex**: one owner; every published operation is resumed once, in the
  order of publication; nothing in the lists has a dead frame; unlock() ends.
* **context**: a stop ends every run(); what is dispatched is a suspended
  coroutine, once; no pending event is lost; the thread counter is exact.
* **async<T>**: the awaiter goes on exactly once, after its child has ended, and
  is not forgotten.
* **async_generator**: each value once and in order; the producer stands still
  while its value is in use; no side resumes a running one; no deadlock; the
  frame is freed after cancellation.
* **TCP operations**: what is on the stream is what the buffer held and what the
  result says; who waits is registered.
* **connect, accept**: they report what the system did, and the descriptor they make
  has one owner on every way.
* **UDP operations**: what recv returns is one datagram and its sender; what send
  puts on the network is its buffer.
* **SSH**: a session waits for what libssh2 is blocked on, goes on when that comes
  (both fail after a short transfer, see section 3), and counts what was written.
* **server**: responses do not mix; every request is answered; a connection
  ends, and nothing refers to it afterwards; every client is handled; when accept
  fails the program ends.

## 2. Modules

| module | models | abstract counterpart |
|---|---|---|
| `AsyncMutex` | `async_mutex`, at the grain of its atomic instructions | `FifoLock` |
| `Context` | `context`, `schedule`, the dispatch part of `event` | |
| `AsyncTask` | `async<T>`: a chain of calls on any threads | `CallStack` |
| `AsyncGenerator` | `async_generator` with one producer and one consumer | `Stream` |
| `TcpSocket` | recv, send, send_some and the registrations of one socket, on epoll and kqueue | |
| `Overlapped` | the same operations on Windows, as overlapped operations | |
| `Datagram` | recv, send, send_some of a UDP socket, on POSIX and Windows | |
| `Connection` | `handle()` and `respond()`; extends `TcpSocket`, has a first come first served lock | |
| `Server` | `server()` and `main()` with all their connections, accept, handles, endpoints | |
| `Ssh` | connect, and a session with its channels, over the transport and an external libssh2 | |

The `...MC` modules hold the definitions the configurations need and the refinement
mappings. Three of them put instances of a component with different constants, or
two components of one kind, side by side, of which a behavior runs one:
`ContextMC` (three loops), `ConnectionMC` (two back ends), `OverlappedMC`
(`Overlapped` and `Datagram`). The eight `...Proofs` modules hold the theorems, one
module for each component; those of `TcpSocket` are in `ConnectionProofs`, because
`Connection` extends it, and those of `Datagram` in `OverlappedProofs`. A proof about what the run itself checks (a refinement, the three
loops, the two back ends) extends the `...MC` module. Operators named
with the words "Mutant:" in their comment are plausible mistakes in the action
that follows them; no specification uses them, and `PROJECT.json` says which
property finds which.

### AsyncMutex

`pc` says where a coroutine is in `lock_async` or `unlock`; `m_state`,
`m_waiters`, `m_next` are the members; `oldState`, `waitersHead`, `next` are the
locals that outlive one atomic instruction. Every action is one atomic
instruction with the local code up to the next. `unlock()` that finds a waiter
resumes it in place: `resumer[w]` is the coroutine inside `m_awaiter.resume()`,
and it goes on only when `w` suspends or ends (`GiveBackThread`).
`compare_exchange_weak` may fail spuriously; that is a retry (`LockRetry`).
Memory orders are not modelled: the atomics are sequentially consistent here.

### Context

`ready` is the kernel's queue. On "iocp" `PostQueuedCompletionStatus` appends an
entry. On "epoll" (the eventfd of Linux; EVFILT_USER on FreeBSD has the same
shape) all posts share one registration: `noteData` is the pointer it carries,
and a later post replaces it. `batch[t]` is what thread t has still to dispatch,
`interrupted[t]` its local flag. `Stop` and `StopInterrupt` are the two halves
of `stop()`. A coroutine is "scheduled" (posted by `schedule`), "armed" (waits
for a socket), "signalled" (its event is ready), and `host[c]` is the thread of
the loop it runs on.

### AsyncTask

Coroutine 0 calls tasks 1..Depth; `starter[i]` is the place in the awaiter's
`await_suspend` and `finisher[i]` the place in the child's `final_awaitable`, so
the two halves of the handshake on `m_state` race as in the code. A coroutine may
wait for an event between any two steps and be resumed by another thread.

### AsyncGenerator

`m_state` has the five values of the code. `ppc`/`cpc` are the places of producer
and consumer in the yield and advance operations, `pSaw`/`cSaw` the states they
read and use again later, `pNested`/`cNested` say that a side runs inside the
other's `resume()`. A destroyed generator may be followed by a new one, when the
old frame is gone: one frame at a time.

### TcpSocket

For each direction `op` is "try" (await_ready or resume), "arm" (suspend),
"armed", "fired" (in the hands of a thread of the loop) and "done" (await_resume
returns or throws). `registered` is what the kernel holds. On epoll
`EPOLL_CTL_ADD` of a registered descriptor fails with EEXIST whichever direction
registered it; `event::await_resume` removes it. On kqueue the directions are
independent and one-shot. The kernel's buffers and the peer are external.

### Overlapped

`op` is "submit" (suspend), "pending", "completed" (the packet is in the port),
"done". The system chooses whether a WSARecv or WSASend completes at once, with how
many bytes, or fails; what completes at once posts no packet
(FILE_SKIP_COMPLETION_PORT_ON_SUCCESS, `net/socket.cpp:40`). `bytes`, `got`, `data`,
`left`, `sent` are `bytes_`, the recv's `buffer_.size`, the send's `buffer_` and
`size_`. `MaxWire` bounds how often a send repeats itself.

### Datagram

The same places as in `TcpSocket` ("try", "arm", "wait") and `Overlapped` ("ready").
A datagram is a sender and a length. `endpoint` is the caller's, to which the
operation holds a reference, with the size that recvfrom and WSARecvFrom take and set:
on POSIX it is set to the capacity first, on Windows not. What a registration does to
the other direction's is left to `TcpSocket`; here `Arm` may fail when the other
direction is busy. `out` has the length of each datagram of the current send.

### Connection

It extends `TcpSocket`: a step of the socket is part of a step of `handle()`, of a
`respond()`, of the loop or of the client, and its own specification is
`ConnectionSpec`. `stack` is the one thread of `main()`: the coroutines called or
resumed inside one another. The mutex is the first come first served lock that
`AsyncMutex` implements; on one thread its atomic steps do not interleave. A byte
stands for a request: the CR LF parser is not modelled, nor the two newlines a request
needs. All responses have the same size, as `g_response` has.

### Server

`stack` is again the one thread. `server` is the place in `server()` and in the
accept operation it awaits; an exception from creation, bind, listen or accept is
"unwind", where the socket closes and the scope guard calls `context.stop()`.
`table` is the process's descriptors with the peer each is connected to, `value`
every handle: of the listening socket, of accept's `client_`, of `handle()`'s argument
and of each connection's frame, so a descriptor's way is four moves. `endpoint` is
what each socket says of its address; `Copied` and `Assigned` lose or keep `size_` as
`endpoint.cpp` does. The context is its stop flag and one pending interrupt, as
`Context` justifies for one thread. What a connection does between two waits is
`Connection`'s subject: here `handle()` waits or ends. Descriptors, and therefore
failures of accept4 and of the socket made for AcceptEx, are bounded. AcceptEx itself may
fail at once or when it completes (`FireFails`); a reset connection is waited past.

### Ssh

One coroutine runs `connect`, the handshake, the authentication and then any sequence
of `open`, `exec`, `read` and `write`, also after an exception of one of them. All are
the same loop around a call of libssh2. `CallLibrary` enters it; `OnRecv` and `OnSend`
are its callbacks, any number in any order; `Again` is LIBSSH2_ERROR_EAGAIN. libssh2
returns it after a callback that would have blocked, and after one that transferred only
a part of what it needed (`short`). `blocked` is the direction it was left waiting in,
which the library knows and the transport has to guess from `operation_`; a callback
that transferred something leaves `operation_` as it was. Other errors (`Fail`) come from
a broken connection or, at any time, from libssh2 on one that is up: a refused password,
channel or command. The session and its channels can be used after each (`Use`), with
the transport as it was left; only `connect` is called once. `registered` spans the
connect operation and the transport: they are two events of one socket. The length that
connect(2) is given is that of a copied endpoint, so the system may refuse at once.

## 3. Runs

| run | instance | what it shows |
|---|---|---|
| `async_mutex` | 4 coroutines, fair unlock | exclusion, lists without dead entries, the assertions of `unlock()`; refinement of the fair abstract lock: who published an operation gets the lock, in order |
| `context` | 2 threads, 2 coroutines, 1 stop or interrupt each, on three loops: a completion port with buffers of 1 and 2; an eventfd where one thread's wait fails; an eventfd whose posts replace one another | stops end every run(), also past a failing thread; what is queued is resumed; no socket event is lost even where schedules are |
| `async_task` | 4 nested calls | resumed once, never under a running child, never forgotten; `ImplementsCallStack` |
| `async_generator` | 3 values, cancellation and a new generator | the protocol, the frame freed; `ImplementsStream`: each value once, in order, and no deadlock |
| `tcp_socket` | epoll, 2 bytes to read, room for 2, sends of 0 to 3 | exact sends, no waiter without registration, readers resumed |
| `overlapped` | TCP on Windows: 3 bytes to read into a buffer of 2, sends of 0 to 3, up to 6 bytes on the stream; UDP: two senders, datagrams of 0 to 2 bytes, a buffer of 1 (`DatagramSize`) | every byte of the stream is counted once, whichever way an operation completes; datagrams are received whole with their sender, and sent whole |
| `overlapped_sent` | TCP on Windows | **violated**: see the findings |
| `connection` | 3 requests, responses of 3 bytes, room for 2; on kqueue ended by EOF or reset, on epoll by hard errors too | responses whole and in order; on kqueue nothing outlives the connection; requests are answered; the end of the stream ends `handle()`, whatever failed |
| `connection_epoll_wait` | epoll, EOF | **violated**: see the findings |
| `server` | 3 clients, 3 descriptors, POSIX and Windows | every descriptor has one owner; every client that stays is handled; a failure ends the program |
| `server_endpoint` | the same | **violated**: see the findings |
| `ssh` | epoll and kqueue, 2 bytes to read, room for 2, writes of 1 and 3 | connect tells the truth; each wait is for `operation_`, which is what blocks unless the last transfer was short; the session goes on when that is ready; writes are counted |

Why the bounds are enough. Four coroutines give an owner, a list of two that is
being reversed and one that pushes; the lists have no other shapes, and the proofs
hold for any number. Two threads
with buffers of one and two entries give a wake-up at either end of a batch, a
thread that is leaving and one that waits. A link between a task and its awaiter
only depends on its two neighbours, and four tasks contain every combination. Three values
reach each protocol state again after each other one. A send of three bytes
through a buffer of two is always cut; three requests make a queue of two behind
the sender. Three clients need four descriptors with the listening socket, and there
are three: accept runs out of them while others are served and closed. An SSH write of
three bytes can be taken in one, two or three parts, with room for two to block on.
`MaxCalls`, `MaxYields`, `Depth`, `MaxArrived`, `MaxSize`, `MaxWire`, `MaxRequests`,
`MaxLength`, `MaxInbox`, `MaxOut` and `MaxIncoming` are the bounds; the proofs hold for
all values of those of their modules.

Where deadlock is not checked the system may stop: every thread has left
`run()`, or nobody asks any more.

Fairness. A thread inside a library function goes on (weak fairness of the steps
of `unlock`, the task handshake, yield and advance operations, `run()`), which is
what the operating system gives. A coroutine that owns the mutex unlocks it, and
a coroutine that has a thread of the loop suspends or ends: without these no
promise of the library is possible, and the runs that need them say so. The
kernel delivers what is ready (`Fire`). In `Connection` the client reads what it
is sent (`ClientReads`), or a response could wait for ever; it need not ask or close.
In `Server` the dispatch of the listening socket and of the interrupt are strongly fair:
other events come between, but epoll, kqueue and the port return what is ready in the
order in which it became so, one at a time into `main()`'s buffer of one. `Ssh` needs
only that the coroutine goes on and the kernel delivers; the peer owes nothing.
Nothing else is fair: nobody has to lock, call, enter `run()`, stop or send.

Findings.

* `connection_epoll_wait`. `main.cpp:52` locks the mutex to "wait until all send
  operations finish". On epoll, when a response waits for room in the send buffer
  and the next recv has to wait too, `EPOLL_CTL_ADD` fails with EEXIST
  (`event.cpp:32`), `co_await client.recv` throws and `handle()` ends without the
  wait: mutex and socket are destroyed while `respond()` holds the lock and has
  bytes to send. A recv that fails with an error of its own skips the wait in the
  same way on every back end; `QuietNoneOutlives` therefore is about kqueue, with only
  those ends that recv reports as the end of the stream.
* `overlapped_sent`. On Windows `send::resume()` (`tcp/socket.cpp:318`) adds the
  transferred bytes to the data pointer and subtracts them again, where `suspend()`
  takes them off the size. A send that completes through the port submits its whole
  buffer once more, and returns more than it was asked to send; `main.cpp:21` takes
  that for a response that could not be sent. `StreamCounted` says what does hold: the
  result counts what is on the stream, and send_some, or a send that completes at
  once, is exact.
* `server_endpoint`. `net/socket.h:94` says that `endpoint()` is the "Remote endpoint on
  connected or accepted sockets". `endpoint`'s copy constructor and assignment
  (`endpoint.cpp:22`, `:26`) do not copy `size_`, on which `host()` and `port()` depend:
  the first move of an accepted socket loses it, and so do `bind()` and the copy that
  `tcp::connect` keeps. With the length 0 Linux refuses connect(2) with EINVAL; the UDP
  operations hold references and are not affected.

Not contradictions of any document, but to be known:

* A connect that fails at once still waits for its socket (`tcp/socket.cpp:172`). epoll
  reports an unconnected socket as hung up, and the error comes out; kqueue reports
  nothing, and the wait does not end. `GoesOn` excludes that case.
* `on_recv` and `on_send` set `operation_` only when they would block (`transport.cpp:80`,
  `105`). When libssh2 asks to be called again because a call transferred a part,
  `operation_` is still what blocked before: after a short send the session may wait to
  receive what the peer does not send, although it could go on as soon as there is room.
  When nothing has blocked before, the wait is refused with invalid_argument, and as
  `ec_` of the transport is never reset, so is each later one when it ends
  (`transport.cpp:46`). `WaitsForBlocked` and `GoesOn` except these waits by
  `short`, and are false without it; no document of the repository speaks of them.
* After libssh2 took a part of the data `channel::write` passes all of it again
  (`channel.cpp:50`): the beginning is sent twice and `written` may pass the size.
  `WriteCounted` does not speak of that: it says that what is counted is what libssh2
  took, and that a write taken in one piece is exact.
* On Windows a UDP send that had to wait sends its datagram again
  (`udp/socket.cpp:132`), as the TCP one; `udp/socket.h:10` says "Work in progress. Do
  not use!". A receive into a new endpoint is refused there (`udp/socket.cpp:49`: size 0).
* On Windows an accept that finds no descriptor ends in `std::terminate`
  (`tcp/socket.h:39` is noexcept, the socket it makes throws); on POSIX `server()` ends.
* On epoll and kqueue a
  `schedule()` after stop()'s interrupt replaces it, and no thread may see the
  stop; an interrupt or another schedule replaces a pending schedule, whose
  coroutine is then never resumed. `StopNeverForgotten` and `NobodyForgotten` state
  the conditions under which the promise holds, and fail without them.

## 4. Proofs

Every invariant that a passing run checks is a theorem, for all values of the
constants, and so is the safety of the three refinements that the runs check, and of a
fourth that no run states. Each `...Proofs` module proves its inductive invariant from
`Init`, `[Next]_vars` and the named assumptions on the constants, with a lemma for each
action; the theorems then follow by temporal logic.

The assumptions: words and locations are distinct, sizes and bounds are natural numbers,
the sets of coroutines (`FiniteProc`), of threads, of clients and of descriptors are
finite where a list or a counter of them is meant. Three theorems have a hypothesis of
their own:

* `StopKept` that posts cannot replace one another (`PostsSurvive`: a completion port, or
  no `schedule()`): on an eventfd with `schedule()` it is false, by the hazard at
  `context.cpp:175`;
* `LoopsForgetNobody` that `Backend` is "iocp", which is what `ContextMC` calls its first
  loop;
* `QuietNeverOutlived` that `Backend` is "kqueue" and that `Ends` does not contain
  "failed", which is the instance of the run: on epoll the property is false (the finding
  `connection_epoll_wait`).

* **AsyncMutexProofs** (any set of coroutines): types, exclusion, no barging, only
  suspended operations listed, each listed once, the assertions of `unlock()`.
  None is inductive alone. That the reversal meets no running coroutine needs
  that no operation is reachable by two ways; that needs what the owner's lists
  are in each step of `unlock()` (`ReverseSafe`); and a resume needs that the
  coroutine inside it stays there (`Nested`).
  `FirstComeFirstServed` is the refinement of `FifoLock`, for any finite set of
  coroutines. Its invariant `Lists` says that the pointers make three finite lists
  without a common member: what the owner has in order, what it has still to reverse,
  and the stack. `Line` puts them together to the abstract queue, and a lemma for each
  action says what it does to that: a push appends, the exchange and each turn of the
  reversal leave it alone, a handoff takes its first.
  `NoWakeupLost` says on top of `Line` that a coroutine is suspended exactly while it is
  in that queue, and that nobody is queued on a free lock.
* **ContextProofs** (any threads, coroutines, buffers, both back ends): types, the
  exact thread count, and that what is dispatched is suspended. `Entries` says it
  slot by slot of the queue and of the batches, which is what a step changes;
  `Tidy` says that batches belong to dispatching threads and the eventfd is listed
  once. `StopKept` proves that a stop always has a wake-up on its way, where posts
  cannot replace one another (`PostsSurvive`: a completion port, or no schedule()).
  `NobodyLost` and `LoopsForgetNobody`: `Remembered(S)` follows the coroutines in the
  states of S through queue and batches. On an eventfd only those that wait for a socket
  are in S, so a lost post breaks nothing; the lemmas hold for each of the three loops.
* **AsyncTaskProofs** (any depth): every link of the chain is at rest or in one
  of three phases, starting, meeting and registered; a step of a coroutine changes
  its two links. Types, one resumption, child at rest and nobody forgotten follow.
  `TasksAreCalls` is the refinement of `CallStack`: the innermost call is
  characterised by its neighbours (`Top`), not by a maximum, and is unique because all
  above it are called and none below it is at rest.
* **AsyncGeneratorProofs** (any number of values): one phase for every value of
  `m_state` and the positions of the two sides in it (`Offered`, `Handing`,
  `Asked`, `Waiting`, `Abandoned`). The six assertions of the code, each value once,
  a stable value, only suspended sides resumed, no mutual wait, and that the
  producer never runs past its end or after cancellation follow. `StreamOnDemand` is
  the refinement of `Stream`: each phase fixes the abstract state.
* **ConnectionProofs** (any sizes, both back ends). About the socket: `Progress` ties
  pointer and remaining size of the buffer to what was sent, without which a second
  partial write could be anything; `Registrations` says who holds the registration of
  the descriptor when an event has fired. Types, exact sends and registered waiters
  follow. About the connection: `ResponsesAlwaysWhole` needs that only the owner of
  the lock has a send under way, that what the socket has sent of it is the last and
  only unfinished response, and that the queue of the mutex has nobody twice;
  `QuietNeverOutlived` needs in addition that `handle()` ends after it had the lock
  with nobody else in the queue. `OutlivedOnlyAfterError` is what remains of it on epoll,
  or when the connection fails: without an error of recv nothing outlives `handle()`.
  `MutexIsFifo` shows that `owner` and `queue` are the
  variables of a `FifoLock` for the coroutines of the connection, so that what
  `AsyncMutex` is shown to implement is what `Connection` assumes. `NobodyIsForgotten`
  adds `Active`, which says who must be on the thread at each place of the two bodies,
  and concludes that everyone else waits for a registered event or behind an owner that
  does. `NoRequestLost` adds `Answering`: what recv returned comes without an error and
  is answered before the next recv, so that the count of what was asked is exact.
* **ServerProofs** (any clients, any number of descriptors): types, and `OwnedByOne`:
  every open descriptor has one owner among accept, the handle that moves and the frames
  of the connections. It needs what each place of `server()` and of accept holds, that the
  frame on the stack is one that runs, and that who waits to be accepted waits once and
  has nothing yet. `ClosedByItsHandle` is an action property from the same invariant:
  no step but the end of its own `handle()` closes a client's descriptor or gives it
  away. `ServerNeverAsleep` adds `Thread`: where `server()` is when it has the thread,
  lies below a `handle()` or is away, and that its end leaves a wake-up for `run()`.
* **OverlappedProofs** (any sizes): types, and that every byte of a TCP stream is
  counted by one result although a completed send submits its buffer again: the
  invariant relates the bytes on the stream to those of the results and of the
  operations that are not done. For UDP, that what recv returns is one datagram with
  its sender, and what send reports went out whole and as one datagram, with the types
  of both.
* **SshProofs** (any amount of data): types, a truthful connect,
  `WaitsForBlocked`, and `WriteCounted`. The first two need what the system may still say
  at each place of connect (`Connecting`); the wait needs that whenever libssh2 asks
  again, `operation_` is the direction it is left waiting in or its last transfer was
  short (`Transport`). The sum in `WriteCounted` is a fold of the community
  modules.

What a recursive function computes is proved by a least counterexample. The library's
induction theorems take a predicate as parameter, which the provers cannot instantiate,
but its theorem that < is well founded on the naturals gives the least member of any set
of them (`LeastNatural`), and the set of counterexamples to one given formula is such a
set. So `ChainIs` shows that the walk along the links in `AsyncMutexMC` finds the list,
and `TotalAppend` that `FoldLeft` adds one element after the other.

Some theorems state what no run lists. Of `ResumesOnce` (each operation listed once),
`CountCorrect` (the thread count), `NoValueLost`, `NoDeadlock` and `NobodyLost` a run
property shows the consequences on the small instance; the theorems on refinement are the
safety of run properties that ask for fairness as well. `NoRequestLost`,
`OutlivedOnlyAfterError`, `MutexIsFifo` and `ClosedByItsHandle` are proved only. Three are
the safety on which liveness rests, and leave to fairness that what is enabled is taken:
`NobodyIsForgotten` for `AnsweredWhileOpen` and `ConnectionEnds`, `ServerNeverAsleep` for
`EachHandled` and `FailureEnds`, `NoWakeupLost` for the fairness of the lock.

Only model-checked is what needs fairness: `StopEndsRun`, `LoopResumesQueued`,
`Released`, `ReaderResumed`, `AnsweredWhileOpen`, `ConnectionEnds`, `EachHandled`,
`FailureEnds`, `GoesOn`, and the fairness of the three refinements. Weak fairness speaks
of ENABLED, which the provers do not know.

## 5. Not modelled, and the plan

Left out for good: error tables, build configuration, benchmark and examples,
output; options, buffers and protocol numbers, which are values for one system call
each; the synchronous generator, which has one caller and no state but a coroutine
handle. Memory orders weaker than sequential consistency are out of reach of an
interleaving model. SIGPIPE (a send on a reset connection would raise it, and the
program does not ignore it) is taken as ignored. `run()` is called once by each
thread. Failures of the system calls that post are not modelled.

Left out because the repository does not determine them:

* The Windows SSH transport. `ready_` is consumed by whichever callback libssh2 makes
  next (`transport.cpp:66`); whether bytes received can be taken for bytes sent depends
  on the order of the callbacks inside libssh2.
* The destruction of a session: `socket_` closes before `libssh2_session_free`
  (`session.h:61`), and what that call still sends is libssh2's business.
* Several coroutines on one session: one transport event has one `awaiter_`
  (`event.h:50`), so the second replaces the first. Nothing in the repository uses it so.

Left out so far: connect on Windows; several threads in `run()` with sockets whose
descriptors are closed and reused (`net/socket.cpp:25`).

What proofs could still add: the steps on which `GoesOn`, `ReaderResumed` and `Released`
rest, as invariants.
