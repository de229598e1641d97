----------------------------- MODULE AsyncMutex -----------------------------
(***************************************************************************)
(* ice::async_mutex (include/ice/async.h, taken from cppcoro), at the      *)
(* grain of its atomic instructions.                                       *)
(*                                                                         *)
(* m_state is not_locked (1), locked_no_waiters (0), or a pointer to the   *)
(* newest of a stack of lock operations linked through m_next.  m_waiters  *)
(* is a second list, in first come first served order, that only the       *)
(* owner of the lock touches: unlock() takes the whole stack and reverses  *)
(* it there when that list is empty.  A lock operation lives in the frame  *)
(* of the coroutine that awaits it, so a coroutine and its operation have  *)
(* one name.  The null pointer and locked_no_waiters are the same word.    *)
(*                                                                         *)
(* unlock() resumes the next owner with a nested call, on the caller's     *)
(* stack: resumer[q] is the coroutine inside whose unlock() q is running,  *)
(* and that coroutine goes on when q suspends or ends.                     *)
(*                                                                         *)
(* A local goes back to its initial value where its scope ends.            *)
(***************************************************************************)
EXTENDS Naturals

CONSTANTS Proc,        \* the coroutines that use the mutex
          Nil,         \* the null pointer, and async_mutex::locked_no_waiters
          NotLocked    \* async_mutex::not_locked

ASSUME WordsDistinct == Nil \notin Proc /\ NotLocked \notin Proc /\ Nil # NotLocked

Ptr == Proc \cup {Nil}

VARIABLES m_state,      \* the atomic word
          m_waiters,    \* the owner's list of operations to resume
          m_next,       \* link of each coroutine's lock operation
          pc,           \* where each coroutine is
          oldState,     \* await_suspend's local: m_state as last seen
          waitersHead,  \* unlock's local: head of the list it builds
          next,         \* unlock's local: rest of the stack it reverses
          resumer       \* the coroutine whose unlock() runs this one, or Nil

vars == <<m_state, m_waiters, m_next, pc, oldState, waitersHead, next, resumer>>

Locations ==
  {"running",   \* outside the mutex
   "cas",       \* in the loop of await_suspend
   "waiting",   \* suspended, its operation published
   "holding",   \* owns the lock, in its critical section
   "release",   \* unlock: about to try locked_no_waiters -> not_locked
   "steal",     \* unlock: about to take the whole stack
   "reverse",   \* unlock: in the reversing loop
   "handoff",   \* unlock: about to pop waitersHead and resume it
   "resuming"}  \* unlock: inside m_awaiter.resume()

Owning == {"holding", "release", "steal", "reverse", "handoff"}

Init ==
  /\ m_state = NotLocked
  /\ m_waiters = Nil
  /\ m_next = [p \in Proc |-> Nil]
  /\ pc = [p \in Proc |-> "running"]
  /\ oldState = [p \in Proc |-> NotLocked]
  /\ waitersHead = [p \in Proc |-> Nil]
  /\ next = [p \in Proc |-> Nil]
  /\ resumer = [p \in Proc |-> Nil]

-----------------------------------------------------------------------------
(* p gives its thread back: it is at "at", and the unlock() that ran p, if *)
(* there is one, returns to its caller.                                    *)
GiveBackThread(p, at) ==
  /\ pc' = [q \in Proc |-> IF q = p THEN at
                           ELSE IF q = resumer[p] THEN "running" ELSE pc[q]]
  /\ resumer' = [resumer EXCEPT ![p] = Nil]

(* p suspends on something other than the mutex, or its body ends. *)
Leave(p) ==
  /\ pc[p] \in {"running", "holding"}
  /\ resumer[p] # Nil
  /\ GiveBackThread(p, pc[p])
  /\ UNCHANGED <<m_state, m_waiters, m_next, oldState, waitersHead, next>>

(* try_lock: one strong compare and exchange; a failure changes nothing. *)
TryLock(p) ==
  /\ pc[p] = "running"
  /\ m_state = NotLocked
  /\ m_state' = Nil
  /\ pc' = [pc EXCEPT ![p] = "holding"]
  /\ UNCHANGED <<m_waiters, m_next, oldState, waitersHead, next, resumer>>

(* co_await lock_async(): await_suspend loads m_state. *)
LockLoad(p) ==
  /\ pc[p] = "running"
  /\ oldState' = [oldState EXCEPT ![p] = m_state]
  /\ pc' = [pc EXCEPT ![p] = "cas"]
  /\ UNCHANGED <<m_state, m_waiters, m_next, waitersHead, next, resumer>>

(* compare_exchange_weak fails, maybe spuriously, and reloads oldState.    *)
(* (The m_next of a failed turn is written again before anyone can see it.) *)
LockRetry(p) ==
  /\ pc[p] = "cas"
  /\ oldState' = [oldState EXCEPT ![p] = m_state]
  /\ UNCHANGED <<m_state, m_waiters, m_next, pc, waitersHead, next, resumer>>

(* Mutant: a check of the loaded word, then a plain store. *)
LockAcquireUnchecked(p) ==
  /\ pc[p] = "cas"
  /\ oldState[p] = NotLocked
  /\ m_state' = Nil
  /\ pc' = [pc EXCEPT ![p] = "holding"]
  /\ UNCHANGED <<m_waiters, m_next, oldState, waitersHead, next, resumer>>

(* not_locked -> locked_no_waiters: the coroutine does not suspend. *)
LockAcquire(p) ==
  /\ pc[p] = "cas"
  /\ oldState[p] = NotLocked
  /\ m_state = oldState[p]
  /\ m_state' = Nil
  /\ pc' = [pc EXCEPT ![p] = "holding"]
  /\ oldState' = [oldState EXCEPT ![p] = NotLocked]
  /\ UNCHANGED <<m_waiters, m_next, waitersHead, next, resumer>>

(* Mutant: the loaded word is taken for a pointer without a look. *)
LockPushUnchecked(p) ==
  /\ pc[p] = "cas"
  /\ m_state = oldState[p]
  /\ m_next' = [m_next EXCEPT ![p] = oldState[p]]
  /\ m_state' = p
  /\ GiveBackThread(p, "waiting")
  /\ UNCHANGED <<m_waiters, oldState, waitersHead, next>>

(* The operation is linked in front of the stack and published.  From here *)
(* the owner may resume the coroutine: await_suspend only returns.         *)
LockPush(p) ==
  /\ pc[p] = "cas"
  /\ oldState[p] # NotLocked
  /\ m_state = oldState[p]
  /\ m_next' = [m_next EXCEPT ![p] = oldState[p]]
  /\ m_state' = p
  /\ GiveBackThread(p, "waiting")
  /\ oldState' = [oldState EXCEPT ![p] = NotLocked]
  /\ UNCHANGED <<m_waiters, waitersHead, next>>

(* unlock: read the owner's list. *)
Unlock(p) ==
  /\ pc[p] = "holding"
  /\ waitersHead' = [waitersHead EXCEPT ![p] = m_waiters]
  /\ pc' = [pc EXCEPT ![p] = IF m_waiters = Nil THEN "release" ELSE "handoff"]
  /\ UNCHANGED <<m_state, m_waiters, m_next, oldState, next, resumer>>

(* Mutant: compare_exchange_weak, which may fail with nobody queued. *)
UnlockReleaseWeak(p) ==
  /\ pc[p] = "release"
  /\ \/ /\ m_state = Nil
        /\ m_state' = NotLocked
        /\ pc' = [pc EXCEPT ![p] = "running"]
     \/ /\ pc' = [pc EXCEPT ![p] = "steal"]
        /\ UNCHANGED m_state
  /\ UNCHANGED <<m_waiters, m_next, oldState, waitersHead, next, resumer>>

(* unlock: the list is empty; free the lock unless the stack is not empty. *)
UnlockRelease(p) ==
  /\ pc[p] = "release"
  /\ IF m_state = Nil
     THEN /\ m_state' = NotLocked
          /\ pc' = [pc EXCEPT ![p] = "running"]
     ELSE /\ pc' = [pc EXCEPT ![p] = "steal"]
          /\ UNCHANGED m_state
  /\ UNCHANGED <<m_waiters, m_next, oldState, waitersHead, next, resumer>>

(* Mutant: the stack is served without being reversed. *)
UnlockStealLifo(p) ==
  /\ pc[p] = "steal"
  /\ waitersHead' = [waitersHead EXCEPT ![p] = m_state]
  /\ m_state' = Nil
  /\ pc' = [pc EXCEPT ![p] = "handoff"]
  /\ UNCHANGED <<m_waiters, m_next, oldState, next, resumer>>

(* unlock: take the whole stack and keep the lock. *)
UnlockSteal(p) ==
  /\ pc[p] = "steal"
  /\ next' = [next EXCEPT ![p] = m_state]
  /\ m_state' = Nil
  /\ pc' = [pc EXCEPT ![p] = "reverse"]
  /\ UNCHANGED <<m_waiters, m_next, oldState, waitersHead, resumer>>

(* unlock: one turn of the do loop that reverses the stack. *)
UnlockReverse(p) ==
  LET n == next[p] IN
  /\ pc[p] = "reverse"
  /\ m_next' = [m_next EXCEPT ![n] = waitersHead[p]]
  /\ waitersHead' = [waitersHead EXCEPT ![p] = n]
  /\ next' = [next EXCEPT ![p] = m_next[n]]
  /\ pc' = [pc EXCEPT ![p] = IF m_next[n] = Nil THEN "handoff" ELSE "reverse"]
  /\ UNCHANGED <<m_state, m_waiters, oldState, resumer>>

(* Mutant: the waiter that is resumed stays in the list. *)
UnlockHandoffNoPop(p) ==
  LET w == waitersHead[p] IN
  /\ pc[p] = "handoff"
  /\ m_waiters' = w
  /\ pc' = [pc EXCEPT ![p] = "resuming", ![w] = "holding"]
  /\ resumer' = [resumer EXCEPT ![w] = p]
  /\ waitersHead' = [waitersHead EXCEPT ![p] = Nil]
  /\ UNCHANGED <<m_state, m_next, oldState, next>>

(* unlock: pop the first waiter and resume it as the owner, in p's thread. *)
(* Its co_await returns, which ends the life of its lock operation.        *)
UnlockHandoff(p) ==
  LET w == waitersHead[p] IN
  /\ pc[p] = "handoff"
  /\ m_waiters' = m_next[w]
  /\ pc' = [pc EXCEPT ![p] = "resuming", ![w] = "holding"]
  /\ resumer' = [resumer EXCEPT ![w] = p]
  /\ m_next' = [m_next EXCEPT ![w] = Nil]
  /\ waitersHead' = [waitersHead EXCEPT ![p] = Nil]
  /\ UNCHANGED <<m_state, oldState, next>>

UnlockStep(p) ==
  \/ Unlock(p)
  \/ UnlockRelease(p)
  \/ UnlockSteal(p)
  \/ UnlockReverse(p)
  \/ UnlockHandoff(p)

Step(p) ==
  \/ Leave(p)
  \/ TryLock(p)
  \/ LockLoad(p)
  \/ LockRetry(p)
  \/ LockAcquire(p)
  \/ LockPush(p)
  \/ UnlockStep(p)

Next == \E p \in Proc : Step(p)

Spec == Init /\ [][Next]_vars

(* A critical section ends and a thread inside unlock() goes on.  Nothing  *)
(* is assumed of the coroutines that are not owners: they may never ask.   *)
Fairness == \A p \in Proc : WF_vars(UnlockStep(p))

FairSpec == Spec /\ Fairness

-----------------------------------------------------------------------------
(* Properties *)

(* What the words of async_mutex and of a lock operation can hold          *)
(* (async.h 1005-1008 and 1052-1053): in particular an operation is never  *)
(* linked to not_locked, the word await_suspend casts only when it is a    *)
(* pointer.                                                                *)
TypeOK ==
  /\ m_state \in Ptr \cup {NotLocked}
  /\ m_waiters \in Ptr
  /\ m_next \in [Proc -> Ptr]
  /\ pc \in [Proc -> Locations]
  /\ oldState \in [Proc -> Ptr \cup {NotLocked}]
  /\ waitersHead \in [Proc -> Ptr]
  /\ next \in [Proc -> Ptr]
  /\ resumer \in [Proc -> Ptr]

(* At most one coroutine is between the return of its co_await (or a       *)
(* successful try_lock) and the moment unlock() frees the lock or resumes  *)
(* its successor (async.h 1087-1129).                                      *)
MutualExclusion ==
  \A p, q \in Proc : pc[p] \in Owning /\ pc[q] \in Owning => p = q

(* m_state is not_locked exactly while nobody owns the lock, whoever loaded *)
(* it when: a lock handed to a waiter never passes through not_locked, so  *)
(* neither try_lock nor lock_async can overtake the queue.                 *)
FreeIffUnowned == m_state = NotLocked <=> \A p \in Proc : pc[p] \notin Owning

(* The places of the code that can lead unlock() to a lock operation.  A   *)
(* link counts while its coroutine is suspended; m_waiters does not count  *)
(* between its load and the store that replaces it (1089-1108).            *)
Slots ==
  ({"m_state", "m_waiters"} \X {Nil}) \cup ({"waitersHead", "next", "m_next"} \X Proc)

Leads(s, w) ==
  \/ s = <<"m_state", Nil>> /\ m_state = w
  \/ /\ s = <<"m_waiters", Nil>>
     /\ m_waiters = w
     /\ \A p \in Proc : pc[p] # "handoff"
  \/ /\ s[1] = "waitersHead"
     /\ pc[s[2]] \in {"reverse", "handoff"}
     /\ waitersHead[s[2]] = w
  \/ s[1] = "next" /\ pc[s[2]] = "reverse" /\ next[s[2]] = w
  \/ s[1] = "m_next" /\ pc[s[2]] = "waiting" /\ m_next[s[2]] = w

(* Every operation the lists lead to belongs to a suspended coroutine: it  *)
(* is alive (its frame cannot be gone) and resume() at async.h:1109 is     *)
(* never called on a coroutine that runs.                                  *)
OnlySuspendedListed == \A s \in Slots, w \in Proc : Leads(s, w) => pc[w] = "waiting"

(* No operation is in the lists twice, even when a push raced the exchange *)
(* that takes the stack or compared equal to a pointer that left the stack *)
(* and came back (ABA): nobody is resumed twice for one co_await.          *)
ListedOnce ==
  \A s, t \in Slots, w \in Proc : Leads(s, w) /\ Leads(t, w) => s = t

(* The three assertions of unlock() (async.h:1088, 1098 and 1107).         *)
Assertions ==
  \A p \in Proc :
    /\ pc[p] = "holding" => m_state # NotLocked
    /\ pc[p] = "steal" => m_state \notin {Nil, NotLocked}
    /\ pc[p] = "handoff" => waitersHead[p] # Nil

(* The reversing loop (async.h:1100-1105) dereferences a real operation on *)
(* every turn, and starts from an empty list, so that the store to         *)
(* m_waiters at 1108 forgets nobody.                                       *)
ReverseSafe ==
  \A p \in Proc :
    /\ pc[p] = "reverse" => next[p] # Nil
    /\ pc[p] \in {"release", "steal", "reverse"} => m_waiters = Nil
    /\ pc[p] \in {"release", "steal"} => waitersHead[p] = Nil

=============================================================================
