------------------------------ MODULE Context ------------------------------
(***************************************************************************)
(* ice::context and ice::schedule (include/ice/context.h,                  *)
(* src/ice/context.cpp), with the part of ice::event that run() calls      *)
(* (include/ice/event.h): threads that dispatch the entries of one kernel  *)
(* queue, coroutines that suspend into it, stop() and interrupt().         *)
(*                                                                         *)
(* Two back ends differ where it matters.  "iocp" (Windows) queues one     *)
(* packet per post.  "epoll" (Linux) has one registration, of an eventfd   *)
(* that is always writable: interrupt() and every schedule re-arm it with  *)
(* EPOLL_CTL_MOD, which replaces the pointer it carries.  FreeBSD's        *)
(* EVFILT_USER filter with ident 0 is a single registration too.           *)
(*                                                                         *)
(* A coroutine and the event in its frame have one name.  A coroutine that *)
(* runs has a host: the loop thread that resumed it, or Nil for a thread   *)
(* outside run(), such as main() before it calls run().                    *)
(***************************************************************************)
EXTENDS Naturals, Sequences, SequencesExt, FiniteSets

CONSTANTS Threads,      \* threads that may call run()
          Coroutines,   \* coroutines that use the context
          Schedulers,   \* those that may co_await schedule()
          Backend,      \* "iocp" or "epoll"
          BufferSize,   \* run()'s event_buffer_size, per thread
          MaxCalls,     \* bound: stop() and interrupt() calls per coroutine
          Nil,          \* the null pointer in an entry; no thread
          Note          \* epoll's eventfd registration in the ready list

ASSUME ContextConstants ==
  /\ IsFiniteSet(Threads)
  /\ Schedulers \subseteq Coroutines
  /\ Backend \in {"iocp", "epoll"}
  /\ BufferSize \in [Threads -> Nat]
  /\ MaxCalls \in Nat
  /\ Nil \notin Threads \cup Coroutines
  /\ Note \notin Coroutines \cup {Nil}

Entry == Coroutines \cup {Nil}

VARIABLES
  stopRequested,  \* stop_requested_flag of state_
  threadCount,    \* state_ / thread_count_increment
  ready,          \* the kernel's queue of what a wait can return, oldest first
  noteData,       \* epoll: the pointer the eventfd registration carries
  pc,             \* where each thread is in run()
  batch,          \* entries a thread received and has yet to dispatch
  interrupted,    \* run()'s local
  co,             \* what each coroutine does
  host,           \* the thread that runs it
  calls           \* stop() and interrupt() calls it made

kernel == <<ready, noteData>>
loop == <<threadCount, pc, batch, interrupted>>
vars == <<stopRequested, kernel, loop, co, host, calls>>

Init ==
  /\ stopRequested = FALSE
  /\ threadCount = 0
  /\ ready = <<>>
  /\ noteData = Nil
  /\ pc = [t \in Threads |-> "outside"]
  /\ batch = [t \in Threads |-> <<>>]
  /\ interrupted = [t \in Threads |-> FALSE]
  /\ co = [c \in Coroutines |-> "running"]
  /\ host = [c \in Coroutines |-> Nil]
  /\ calls = [c \in Coroutines |-> 0]

-----------------------------------------------------------------------------
(* The kernel *)

(* PostQueuedCompletionStatus, or EPOLL_CTL_MOD of the eventfd: a queued   *)
(* registration keeps its place and takes the new pointer.                 *)
Post(e) ==
  \/ /\ Backend = "iocp"
     /\ ready' = Append(ready, e)
     /\ UNCHANGED noteData
  \/ /\ Backend = "epoll"
     /\ noteData' = e
     /\ ready' = IF Note \in ToSet(ready) THEN ready ELSE Append(ready, Note)

(* A socket operation that c suspended on becomes ready or completes. *)
IoReady(c) ==
  /\ co[c] = "armed"
  /\ co' = [co EXCEPT ![c] = "signalled"]
  /\ ready' = Append(ready, c)
  /\ UNCHANGED <<stopRequested, noteData, loop, host, calls>>

-----------------------------------------------------------------------------
(* Threads in run() *)

(* Mutant: the thread forgets to count itself. *)
EnterUncounted(t) ==
  /\ pc[t] = "outside"
  /\ pc' = [pc EXCEPT ![t] = "wait"]
  /\ UNCHANGED <<stopRequested, threadCount, kernel, batch, interrupted, co, host, calls>>

(* index_.set(this) and the increment of state_. *)
Enter(t) ==
  /\ pc[t] = "outside"
  /\ threadCount' = threadCount + 1
  /\ pc' = [pc EXCEPT ![t] = "wait"]
  /\ UNCHANGED <<stopRequested, kernel, batch, interrupted, co, host, calls>>

(* The wait returns some of the oldest entries.  (A wait interrupted by a  *)
(* signal returns none and is repeated.)                                   *)
Wait(t) ==
  \E n \in 1 .. BufferSize[t] :
    /\ pc[t] = "wait"
    /\ n <= Len(ready)
    /\ batch' = [batch EXCEPT ![t] =
                   [i \in 1 .. n |-> IF ready[i] = Note THEN noteData ELSE ready[i]]]
    /\ ready' = SubSeq(ready, n + 1, Len(ready))
    /\ pc' = [pc EXCEPT ![t] = "dispatch"]
    /\ UNCHANGED <<stopRequested, threadCount, noteData, interrupted, co, host, calls>>

(* The wait rejects an empty buffer, and run() breaks with the error. *)
WaitFails(t) ==
  /\ pc[t] = "wait"
  /\ BufferSize[t] = 0
  /\ pc' = [pc EXCEPT ![t] = "leave"]
  /\ UNCHANGED <<stopRequested, threadCount, kernel, batch, interrupted, co, host, calls>>

(* Mutant: the rest of the batch is dropped at an entry without event. *)
DispatchInterruptBreaks(t) ==
  /\ pc[t] = "dispatch"
  /\ batch[t] # <<>>
  /\ Head(batch[t]) = Nil
  /\ interrupted' = [interrupted EXCEPT ![t] = TRUE]
  /\ batch' = [batch EXCEPT ![t] = <<>>]
  /\ UNCHANGED <<stopRequested, threadCount, kernel, pc, co, host, calls>>

(* An entry without event. *)
DispatchInterrupt(t) ==
  /\ pc[t] = "dispatch"
  /\ batch[t] # <<>>
  /\ Head(batch[t]) = Nil
  /\ interrupted' = [interrupted EXCEPT ![t] = TRUE]
  /\ batch' = [batch EXCEPT ![t] = Tail(@)]
  /\ UNCHANGED <<stopRequested, threadCount, kernel, pc, co, host, calls>>

(* Mutant: "interrupted" speaks of the last entry only. *)
DispatchResumeForgets(t) ==
  LET c == Head(batch[t]) IN
  /\ pc[t] = "dispatch"
  /\ batch[t] # <<>>
  /\ c # Nil
  /\ batch' = [batch EXCEPT ![t] = Tail(@)]
  /\ interrupted' = [interrupted EXCEPT ![t] = FALSE]
  /\ co' = [co EXCEPT ![c] = "running"]
  /\ host' = [host EXCEPT ![c] = t]
  /\ pc' = [pc EXCEPT ![t] = "resuming"]
  /\ UNCHANGED <<stopRequested, threadCount, kernel, calls>>

(* event::await_resume when resume() is true, or when suspending again     *)
(* failed: the coroutine goes on inside the call, on this thread.          *)
DispatchResume(t) ==
  LET c == Head(batch[t]) IN
  /\ pc[t] = "dispatch"
  /\ batch[t] # <<>>
  /\ c # Nil
  /\ batch' = [batch EXCEPT ![t] = Tail(@)]
  /\ co' = [co EXCEPT ![c] = "running"]
  /\ host' = [host EXCEPT ![c] = t]
  /\ pc' = [pc EXCEPT ![t] = "resuming"]
  /\ UNCHANGED <<stopRequested, threadCount, kernel, interrupted, calls>>

(* event::await_resume when the operation would block again: resume() is   *)
(* false and suspend() arms it once more (on Linux after remove()).        *)
DispatchRearm(t) ==
  LET c == Head(batch[t]) IN
  /\ pc[t] = "dispatch"
  /\ batch[t] # <<>>
  /\ c # Nil
  /\ co[c] = "signalled"
  /\ batch' = [batch EXCEPT ![t] = Tail(@)]
  /\ co' = [co EXCEPT ![c] = "armed"]
  /\ UNCHANGED <<stopRequested, threadCount, kernel, pc, interrupted, host, calls>>

(* The end of the batch: only a thread that saw an entry without event     *)
(* looks at the flag.                                                      *)
EndBatch(t) ==
  /\ pc[t] = "dispatch"
  /\ batch[t] = <<>>
  /\ pc' = [pc EXCEPT ![t] = IF interrupted[t] /\ stopRequested THEN "leave" ELSE "wait"]
  /\ interrupted' = [interrupted EXCEPT ![t] = FALSE]
  /\ UNCHANGED <<stopRequested, threadCount, kernel, batch, co, host, calls>>

(* The thread is no longer counted ... *)
Leave(t) ==
  /\ pc[t] = "leave"
  /\ threadCount' = threadCount - 1
  /\ pc' = [pc EXCEPT ![t] = "interrupt"]
  /\ UNCHANGED <<stopRequested, kernel, batch, interrupted, co, host, calls>>

(* Mutant: a thread that leaves wakes nobody. *)
PassOnNothing(t) ==
  /\ pc[t] = "interrupt"
  /\ pc' = [pc EXCEPT ![t] = "returned"]
  /\ UNCHANGED <<stopRequested, threadCount, kernel, batch, interrupted, co, host, calls>>

(* ... when it wakes the next one. *)
PassOn(t) ==
  /\ pc[t] = "interrupt"
  /\ Post(Nil)
  /\ pc' = [pc EXCEPT ![t] = "returned"]
  /\ UNCHANGED <<stopRequested, threadCount, batch, interrupted, co, host, calls>>

ThreadStep(t) ==
  \/ Wait(t)
  \/ WaitFails(t)
  \/ DispatchInterrupt(t)
  \/ DispatchResume(t)
  \/ DispatchRearm(t)
  \/ EndBatch(t)
  \/ Leave(t)
  \/ PassOn(t)

-----------------------------------------------------------------------------
(* Coroutines *)

(* c suspends or ends, and the call that resumed it returns to the loop. *)
GiveBackThread(c, state) ==
  /\ co' = [co EXCEPT ![c] = state]
  /\ host' = [host EXCEPT ![c] = Nil]
  /\ pc' = [t \in Threads |-> IF t = host[c] THEN "dispatch" ELSE pc[t]]

(* Mutant: suspend() reports failure after it has posted. *)
ScheduleRunsOn(c) ==
  /\ c \in Schedulers
  /\ co[c] = "running"
  /\ Post(c)
  /\ UNCHANGED <<stopRequested, loop, co, host, calls>>

(* co_await schedule(): always when queued, else only outside run(). *)
Schedule(c) ==
  /\ c \in Schedulers
  /\ co[c] = "running"
  /\ Post(c)
  /\ GiveBackThread(c, "scheduled")
  /\ UNCHANGED <<stopRequested, threadCount, batch, interrupted, calls>>

(* co_await of a socket operation that would block. *)
AwaitIo(c) ==
  /\ co[c] = "running"
  /\ GiveBackThread(c, "armed")
  /\ UNCHANGED <<stopRequested, threadCount, kernel, batch, interrupted, calls>>

(* The coroutine's body ends. *)
Finish(c) ==
  /\ co[c] = "running"
  /\ GiveBackThread(c, "finished")
  /\ UNCHANGED <<stopRequested, threadCount, kernel, batch, interrupted, calls>>

(* stop(): first the flag ... *)
Stop(c) ==
  /\ co[c] = "running"
  /\ calls[c] < MaxCalls
  /\ stopRequested' = TRUE
  /\ co' = [co EXCEPT ![c] = "stopping"]
  /\ calls' = [calls EXCEPT ![c] = @ + 1]
  /\ UNCHANGED <<kernel, loop, host>>

(* ... then interrupt(). *)
StopInterrupt(c) ==
  /\ co[c] = "stopping"
  /\ Post(Nil)
  /\ co' = [co EXCEPT ![c] = "running"]
  /\ UNCHANGED <<stopRequested, loop, host, calls>>

(* interrupt() by itself. *)
Interrupt(c) ==
  /\ co[c] = "running"
  /\ calls[c] < MaxCalls
  /\ Post(Nil)
  /\ calls' = [calls EXCEPT ![c] = @ + 1]
  /\ UNCHANGED <<stopRequested, loop, co, host>>

CoroutineStep(c) ==
  \/ Schedule(c)
  \/ AwaitIo(c)
  \/ Finish(c)
  \/ Stop(c)
  \/ StopInterrupt(c)
  \/ Interrupt(c)

Next ==
  \/ \E t \in Threads : Enter(t) \/ ThreadStep(t)
  \/ \E c \in Coroutines : CoroutineStep(c) \/ IoReady(c)

Spec == Init /\ [][Next]_vars

(* A thread in run() is scheduled by the operating system; a coroutine that *)
(* has a thread suspends or ends.  Nobody has to enter run(), and the       *)
(* network owes nothing.                                                    *)
Fairness ==
  /\ \A t \in Threads : WF_vars(ThreadStep(t))
  /\ \A c \in Coroutines : WF_vars(CoroutineStep(c))

FairSpec == Spec /\ Fairness

-----------------------------------------------------------------------------
(* Properties *)

(* The values of context's members and run()'s locals (context.cpp 95-168):*)
(* the thread counter in state_ is never decremented below zero.           *)
TypeOK ==
  /\ stopRequested \in BOOLEAN
  /\ threadCount \in Nat
  /\ ready \in Seq(Entry \cup {Note})
  /\ noteData \in Entry
  /\ pc \in [Threads -> {"outside", "wait", "dispatch", "resuming", "leave", "interrupt", "returned"}]
  /\ batch \in [Threads -> Seq(Entry)]
  /\ interrupted \in [Threads -> BOOLEAN]
  /\ co \in [Coroutines -> {"running", "stopping", "scheduled", "armed", "signalled", "finished"}]
  /\ host \in [Coroutines -> Threads \cup {Nil}]
  /\ calls \in [Coroutines -> 0 .. MaxCalls]

(* Entry i of the queue will hand out e. *)
Carries(i, e) == ready[i] = e \/ (ready[i] = Note /\ noteData = e)

Queued(e) == \E i \in DOMAIN ready : Carries(i, e)

(* Thread t is dispatching a batch in which e is still to come. *)
Held(t, e) ==
  /\ pc[t] \in {"dispatch", "resuming"}
  /\ \E i \in DOMAIN batch[t] : batch[t][i] = e

(* A thread is about to see the stop: an entry without event is queued or  *)
(* in a batch, was seen, or will be posted by a thread that leaves or by   *)
(* the caller of stop().                                                   *)
WakeInFlight ==
  \/ Queued(Nil)
  \/ \E t \in Threads :
       \/ Held(t, Nil)
       \/ pc[t] \in {"dispatch", "resuming"} /\ interrupted[t]
       \/ pc[t] \in {"leave", "interrupt"}
  \/ \E c \in Coroutines : co[c] = "stopping"

(* Once stop() has set the flag a wake-up is always in flight, whoever     *)
(* consumes it: it is swallowed only by a thread that leaves and posts the *)
(* next (context.cpp 156-164 and 183-187).  So no thread that is in run(), *)
(* or enters it later, sleeps through the stop.                            *)
StopNeverForgotten == stopRequested => WakeInFlight

(* No entry carries a coroutine that is not suspended, and no two carry    *)
(* the same: run() never calls await_resume on an event whose coroutine    *)
(* runs on another thread or has gone on from it (context.cpp 136-153).    *)
(* That a coroutine destroys the event of another one is not modelled.     *)
EntriesSuspended ==
  \A c \in Coroutines :
    /\ Queued(c) \/ (\E t \in Threads : Held(t, c)) => co[c] \in {"scheduled", "signalled"}
    /\ ~ (Queued(c) /\ \E t \in Threads : Held(t, c))
    /\ \A i, j \in DOMAIN ready : Carries(i, c) /\ Carries(j, c) => i = j
    /\ \A t, u \in Threads : \A i \in DOMAIN batch[t], j \in DOMAIN batch[u] :
         batch[t][i] = c /\ batch[u][j] = c => t = u /\ i = j

(* A completed socket operation always has its entry, even while threads   *)
(* leave: run() dispatches its whole batch before it looks at the flag     *)
(* (context.cpp 136-160).  So does a scheduled coroutine where each post   *)
(* has a packet of its own.                                                *)
NobodyForgotten ==
  \A c \in Coroutines :
    co[c] = "signalled" \/ (co[c] = "scheduled" /\ Backend = "iocp")
      => Queued(c) \/ \E t \in Threads : Held(t, c)

Counted == {t \in Threads : pc[t] \in {"wait", "dispatch", "resuming", "leave"}}

(* state_ counts the threads between the increment and the decrement, and  *)
(* a coroutine that a thread of the loop runs is the only one it runs and  *)
(* keeps that thread among them: stop() is told "no thread" (the value of  *)
(* context.cpp:187) only while no coroutine runs inside the loop.          *)
CountCoversRunning ==
  /\ threadCount = Cardinality(Counted)
  /\ \A c \in Coroutines :
       host[c] # Nil =>
         /\ pc[host[c]] = "resuming"
         /\ \A d \in Coroutines : host[d] = host[c] => d = c

(* stop() ends every run(), also one that is called after it.              *)
StopEndsRun ==
  \A t \in Threads : stopRequested /\ pc[t] # "outside" ~> pc[t] = "returned"

(* As long as a thread stays in run(), a coroutine whose event is queued   *)
(* is resumed or armed again.                                              *)
QueuedResumed ==
  \A c \in Coroutines :
    co[c] \in {"scheduled", "signalled"} /\ threadCount > 0
      ~> co[c] \in {"running", "armed"} \/ threadCount = 0
=============================================================================
