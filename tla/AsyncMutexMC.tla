---------------------------- MODULE AsyncMutexMC ----------------------------
(***************************************************************************)
(* AsyncMutex for TLC, with the mapping under which it implements FifoLock *)
(***************************************************************************)
EXTENDS AsyncMutex, SequencesExt, FiniteSets

(* A program has finitely many coroutines: every list of them ends. *)
ASSUME FiniteProc == IsFiniteSet(Proc)

(* The operations linked from x, x first. *)
Chain(links, x) ==
  LET walk[n \in 0 .. Cardinality(Proc)] ==
        [y \in Ptr |-> IF n = 0 \/ y = Nil THEN <<>> ELSE <<y>> \o walk[n - 1][links[y]]]
  IN  IF x \in Ptr THEN walk[Cardinality(Proc)][x] ELSE <<>>

Owner == IF \E p \in Proc : pc[p] \in Owning
         THEN CHOOSE p \in Proc : pc[p] \in Owning
         ELSE Nil

(* What the owner has already put in order: its list, or the one it is     *)
(* building in unlock().                                                   *)
Ordered ==
  IF Owner # Nil /\ pc[Owner] = "handoff" THEN Chain(m_next, waitersHead[Owner])
  ELSE IF Owner # Nil /\ pc[Owner] = "reverse"
       THEN Reverse(Chain(m_next, next[Owner])) \o Chain(m_next, waitersHead[Owner])
       ELSE Chain(m_next, m_waiters)

(* Who waits, in the order of service. *)
WaitQueue == Ordered \o Reverse(Chain(m_next, m_state))

Lock == INSTANCE FifoLock WITH owner <- Owner, queue <- WaitQueue

(* Every step of the mutex acquires, queues, releases or hands over the    *)
(* abstract lock, or leaves it alone; so grants are first come first       *)
(* served from the moment compare_exchange_weak publishes the operation    *)
(* (async.h:1124-1126), across the stack, its reversal and m_waiters.      *)
(* With fair owners the abstract lock's owner always passes it on: no      *)
(* unlock() (async.h 1087-1110) can be kept from finishing by the pushes   *)
(* of others.                                                              *)
ImplementsFairFifoLock == Lock!Spec
=============================================================================
