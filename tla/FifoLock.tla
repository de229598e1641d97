------------------------------ MODULE FifoLock ------------------------------
(***************************************************************************)
(* What ice::async_mutex promises: a lock owned by at most one coroutine,  *)
(* granted in the order in which the coroutines asked for it while it was  *)
(* owned, and never left free while someone is queued.  AsyncMutex, the    *)
(* lock-free implementation in include/ice/async.h, is shown to implement  *)
(* this specification.                                                     *)
(***************************************************************************)
EXTENDS Sequences, SequencesExt

CONSTANTS Proc,   \* the coroutines that use the mutex
          Nil     \* "no coroutine"

VARIABLES owner,  \* the coroutine that owns the lock, or Nil
          queue   \* the coroutines waiting for it, first come first

vars == <<owner, queue>>

Init == owner = Nil /\ queue = <<>>

(* lock_async or try_lock on a free mutex *)
Acquire(p) ==
  /\ owner = Nil
  /\ owner' = p
  /\ UNCHANGED queue

(* lock_async on an owned mutex: the coroutine suspends in the queue *)
Enqueue(p) ==
  /\ owner \notin {Nil, p}
  /\ p \notin ToSet(queue)
  /\ queue' = Append(queue, p)
  /\ UNCHANGED owner

(* unlock with nobody queued *)
Release(p) ==
  /\ owner = p
  /\ queue = <<>>
  /\ owner' = Nil
  /\ UNCHANGED queue

(* unlock with waiters: ownership passes straight to the first of them *)
HandOver(p) ==
  /\ owner = p
  /\ queue # <<>>
  /\ owner' = Head(queue)
  /\ queue' = Tail(queue)

Next ==
  \E p \in Proc : Acquire(p) \/ Enqueue(p) \/ Release(p) \/ HandOver(p)

SafeSpec == Init /\ [][Next]_vars

(* Every owner leaves its critical section and unlocks. *)
Fairness == \A p \in Proc : WF_vars(Release(p) \/ HandOver(p))

Spec == SafeSpec /\ Fairness
=============================================================================
