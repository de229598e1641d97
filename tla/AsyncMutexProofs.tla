-------------------------- MODULE AsyncMutexProofs --------------------------
(***************************************************************************)
(* The safety of ice::async_mutex for every set of coroutines, and that it *)
(* implements the first come first served lock and loses no wakeup.        *)
(***************************************************************************)
EXTENDS AsyncMutexMC, SequenceTheorems, FiniteSetTheorems, TLAPS

(* A coroutine named by resumer is inside m_awaiter.resume(), and runs     *)
(* only one other.                                                         *)
Nested ==
  \A p \in Proc :
    resumer[p] # Nil =>
      /\ pc[resumer[p]] = "resuming"
      /\ \A q \in Proc : resumer[q] = resumer[p] => p = q

Inv ==
  /\ TypeOK
  /\ MutualExclusion
  /\ FreeIffUnowned
  /\ Nested
  /\ Assertions
  /\ ReverseSafe
  /\ OnlySuspendedListed
  /\ ListedOnce

LEMMA InitInv == Init => Inv
<1> SUFFICES ASSUME Init PROVE Inv
  OBVIOUS
<1> USE WordsDistinct DEF Init, Ptr, Locations, Owning
<1>1. TypeOK
  BY DEF TypeOK
<1>2. MutualExclusion /\ FreeIffUnowned /\ Nested /\ Assertions /\ ReverseSafe
  BY DEF MutualExclusion, FreeIffUnowned, Nested, Assertions, ReverseSafe
<1>3. \A s \in Slots, w \in Proc : ~Leads(s, w)
  BY DEF Slots, Leads
<1>4. QED
  BY <1>1, <1>2, <1>3 DEF Inv, OnlySuspendedListed, ListedOnce

LEMMA LeavePreserves == ASSUME Inv, NEW p \in Proc, Leave(p) PROVE Inv'
<1> USE WordsDistinct DEF Inv, Leave, GiveBackThread, TypeOK, Ptr, Locations
<1>0. pc[resumer[p]] = "resuming"
  BY DEF Nested
<1>1. TypeOK'
  OBVIOUS
<1>2. MutualExclusion' /\ FreeIffUnowned'
  BY <1>0 DEF MutualExclusion, FreeIffUnowned, Owning
<1>3. Nested'
  BY <1>0 DEF Nested
<1>4. Assertions' /\ ReverseSafe'
  BY <1>0 DEF Assertions, ReverseSafe
<1>5. \A s \in Slots, w \in Proc : Leads(s, w)' => Leads(s, w)
  BY <1>0 DEF Slots, Leads
<1>6. OnlySuspendedListed'
  BY <1>0, <1>5 DEF OnlySuspendedListed
<1>7. ListedOnce'
  BY <1>5 DEF ListedOnce
<1>8. QED
  BY <1>1, <1>2, <1>3, <1>4, <1>6, <1>7

LEMMA PushPreserves == ASSUME Inv, NEW p \in Proc, LockPush(p) PROVE Inv'
<1> USE WordsDistinct DEF Inv, LockPush, GiveBackThread, TypeOK, Ptr, Locations
<1>0. resumer[p] # Nil => pc[resumer[p]] = "resuming"
  BY DEF Nested
<1>1. TypeOK'
  OBVIOUS
<1>2. MutualExclusion' /\ FreeIffUnowned'
  BY <1>0 DEF MutualExclusion, FreeIffUnowned, Owning
<1>3. Nested'
  BY <1>0 DEF Nested
<1>4. Assertions' /\ ReverseSafe'
  BY <1>0 DEF Assertions, ReverseSafe
(* The word now leads to p, which nothing led to; the old word is p's link. *)
<1> DEFINE Before(s) == IF s = <<"m_next", p>> THEN <<"m_state", Nil>> ELSE s
<1>5. \A s \in Slots : ~Leads(s, p)
  BY DEF OnlySuspendedListed
<1>6. \A s \in Slots, w \in Proc :
        Leads(s, w)' => \/ s = <<"m_state", Nil>> /\ w = p
                        \/ /\ s # <<"m_state", Nil>>
                           /\ Before(s) \in Slots
                           /\ Leads(Before(s), w)
  BY <1>0 DEF Slots, Leads
<1>7. OnlySuspendedListed'
  BY <1>0, <1>6 DEF OnlySuspendedListed
<1>8. ListedOnce'
  BY <1>5, <1>6 DEF ListedOnce, Slots
<1>9. QED
  BY <1>1, <1>2, <1>3, <1>4, <1>7, <1>8

(* try_lock, the acquiring compare and exchange, the load and the retry:   *)
(* no list changes.                                                        *)
LEMMA EnterPreserves ==
  ASSUME Inv, NEW p \in Proc,
         TryLock(p) \/ LockLoad(p) \/ LockRetry(p) \/ LockAcquire(p)
  PROVE  Inv'
<1> USE WordsDistinct DEF Inv, TryLock, LockLoad, LockRetry, LockAcquire, TypeOK, Ptr, Locations
<1>1. TypeOK'
  OBVIOUS
<1>2. MutualExclusion' /\ FreeIffUnowned'
  BY DEF MutualExclusion, FreeIffUnowned, Owning
<1>3. Nested' /\ Assertions' /\ ReverseSafe'
  BY DEF Nested, Assertions, ReverseSafe, FreeIffUnowned, Owning
<1>4. \A s \in Slots, w \in Proc : Leads(s, w)' => Leads(s, w)
  BY DEF Slots, Leads
<1>5. OnlySuspendedListed' /\ ListedOnce'
  BY <1>4 DEF OnlySuspendedListed, ListedOnce
<1>6. QED
  BY <1>1, <1>2, <1>3, <1>5

LEMMA UnlockPreserves == ASSUME Inv, NEW p \in Proc, Unlock(p) PROVE Inv'
<1> USE WordsDistinct DEF Inv, Unlock, TypeOK, Ptr, Locations
<1>1. TypeOK'
  OBVIOUS
<1>2. MutualExclusion' /\ FreeIffUnowned'
  BY DEF MutualExclusion, FreeIffUnowned, Owning
<1>3. Nested' /\ Assertions' /\ ReverseSafe'
  BY DEF Nested, Assertions, ReverseSafe, MutualExclusion, Owning
(* m_waiters, unless it is empty, moves to waitersHead. *)
<1> DEFINE Before(s) == IF s = <<"waitersHead", p>> THEN <<"m_waiters", Nil>> ELSE s
<1>4. \A s \in Slots, w \in Proc :
        Leads(s, w)' => Before(s) \in Slots /\ Leads(Before(s), w)
  BY DEF Slots, Leads, MutualExclusion, Owning
<1>5. \A w \in Proc :
        ~(Leads(<<"waitersHead", p>>, w)' /\ Leads(<<"m_waiters", Nil>>, w)')
  BY DEF Leads
<1>6. OnlySuspendedListed'
  BY <1>4 DEF OnlySuspendedListed
<1>7. ListedOnce'
  BY <1>4, <1>5 DEF ListedOnce
<1>8. QED
  BY <1>1, <1>2, <1>3, <1>6, <1>7

LEMMA ReleasePreserves == ASSUME Inv, NEW p \in Proc, UnlockRelease(p) PROVE Inv'
<1> USE WordsDistinct DEF Inv, UnlockRelease, TypeOK, Ptr, Locations
<1>1. TypeOK'
  OBVIOUS
<1>2. MutualExclusion' /\ FreeIffUnowned'
  BY DEF MutualExclusion, FreeIffUnowned, Owning
<1>3. Nested' /\ Assertions' /\ ReverseSafe'
  BY DEF Nested, Assertions, ReverseSafe, MutualExclusion, FreeIffUnowned, Owning
<1>4. \A s \in Slots, w \in Proc : Leads(s, w)' => Leads(s, w)
  BY DEF Slots, Leads
<1>5. OnlySuspendedListed' /\ ListedOnce'
  BY <1>4 DEF OnlySuspendedListed, ListedOnce
<1>6. QED
  BY <1>1, <1>2, <1>3, <1>5

LEMMA StealPreserves == ASSUME Inv, NEW p \in Proc, UnlockSteal(p) PROVE Inv'
<1> USE WordsDistinct DEF Inv, UnlockSteal, TypeOK, Ptr, Locations
<1>1. TypeOK'
  BY DEF Assertions
<1>2. MutualExclusion' /\ FreeIffUnowned'
  BY DEF MutualExclusion, FreeIffUnowned, Assertions, Owning
<1>3. Nested' /\ Assertions' /\ ReverseSafe'
  BY DEF Nested, Assertions, ReverseSafe, MutualExclusion, Owning
(* The stack moves from m_state to next; the list to build is empty.       *)
<1> DEFINE Before(s) == IF s = <<"next", p>> THEN <<"m_state", Nil>> ELSE s
<1>4. \A s \in Slots, w \in Proc :
        Leads(s, w)' => /\ Before(s) \in Slots
                        /\ Leads(Before(s), w)
                        /\ s # <<"m_state", Nil>>
  BY DEF Slots, Leads, ReverseSafe
<1>5. OnlySuspendedListed'
  BY <1>4 DEF OnlySuspendedListed
<1>6. ListedOnce'
  BY <1>4 DEF ListedOnce
<1>7. QED
  BY <1>1, <1>2, <1>3, <1>5, <1>6

LEMMA ReversePreserves == ASSUME Inv, NEW p \in Proc, UnlockReverse(p) PROVE Inv'
<1> USE WordsDistinct DEF Inv, UnlockReverse, TypeOK, Ptr, Locations
<1>0. next[p] \in Proc /\ pc[next[p]] = "waiting"
  <2>1. next[p] \in Proc
    BY DEF ReverseSafe
  <2>2. <<"next", p>> \in Slots /\ Leads(<<"next", p>>, next[p])
    BY DEF Slots, Leads
  <2>3. QED
    BY <2>1, <2>2 DEF OnlySuspendedListed
<1>1. TypeOK'
  BY <1>0
<1>2. MutualExclusion' /\ FreeIffUnowned'
  BY DEF MutualExclusion, FreeIffUnowned, Owning
<1>3. Nested' /\ Assertions' /\ ReverseSafe'
  BY <1>0 DEF Nested, Assertions, ReverseSafe
(* next, its link and waitersHead change places. *)
<1> DEFINE Before(s) == IF s = <<"waitersHead", p>> THEN <<"next", p>>
                          ELSE IF s = <<"next", p>> THEN <<"m_next", next[p]>>
                          ELSE IF s = <<"m_next", next[p]>> THEN <<"waitersHead", p>>
                          ELSE s
<1>4. \A s \in Slots, w \in Proc :
        Leads(s, w)' => Before(s) \in Slots /\ Leads(Before(s), w)
  BY <1>0 DEF Slots, Leads
<1>5. \A s, t \in Slots : Before(s) = Before(t) => s = t
  BY <1>0 DEF Slots
<1>6. OnlySuspendedListed'
  BY <1>4 DEF OnlySuspendedListed
<1>7. ListedOnce'
  BY <1>4, <1>5 DEF ListedOnce
<1>8. QED
  BY <1>1, <1>2, <1>3, <1>6, <1>7

LEMMA HandoffPreserves == ASSUME Inv, NEW p \in Proc, UnlockHandoff(p) PROVE Inv'
<1> USE WordsDistinct DEF Inv, UnlockHandoff, TypeOK, Ptr, Locations
<1> DEFINE w == waitersHead[p]
<1>0. w \in Proc /\ pc[w] = "waiting" /\ w # p
  <2>1. w \in Proc
    BY DEF Assertions
  <2>2. <<"waitersHead", p>> \in Slots /\ Leads(<<"waitersHead", p>>, w)
    BY DEF Slots, Leads
  <2>3. QED
    BY <2>1, <2>2 DEF OnlySuspendedListed
<1>1. TypeOK'
  BY <1>0
<1>2. MutualExclusion' /\ FreeIffUnowned'
  BY <1>0 DEF MutualExclusion, FreeIffUnowned, Owning
<1>3. Nested' /\ Assertions' /\ ReverseSafe'
  BY <1>0 DEF Nested, Assertions, ReverseSafe, MutualExclusion, FreeIffUnowned, Owning
(* w leaves the lists: its link moves to m_waiters.                        *)
<1> DEFINE Before(s) == IF s = <<"m_waiters", Nil>> THEN <<"m_next", w>> ELSE s
<1>4. \A s \in Slots, v \in Proc :
        Leads(s, v)' => /\ Before(s) \in Slots
                        /\ Leads(Before(s), v)
                        /\ s # <<"m_next", w>>
                        /\ s # <<"waitersHead", p>>
  BY <1>0 DEF Slots, Leads, MutualExclusion, Owning
<1>5. \A s \in Slots, v \in Proc : Leads(s, v)' => v # w
  <2>1. <<"waitersHead", p>> \in Slots /\ Leads(<<"waitersHead", p>>, w)
    BY DEF Slots, Leads
  <2>2. \A s \in Slots : s # <<"waitersHead", p>> => Before(s) # <<"waitersHead", p>>
    BY DEF Slots
  <2>3. QED
    BY <1>0, <1>4, <2>1, <2>2 DEF ListedOnce
<1>6. OnlySuspendedListed'
  BY <1>0, <1>4, <1>5 DEF OnlySuspendedListed, MutualExclusion, Owning
<1>7. ListedOnce'
  BY <1>4 DEF ListedOnce
<1>8. QED
  BY <1>1, <1>2, <1>3, <1>6, <1>7

(* The conjunction is inductive: one step per operation of the mutex.      *)
LEMMA NextPreserves == Inv /\ [Next]_vars => Inv'
<1> SUFFICES ASSUME Inv, [Next]_vars PROVE Inv'
  OBVIOUS
<1>1. CASE UNCHANGED vars
  BY <1>1 DEF Inv, vars, TypeOK, MutualExclusion, FreeIffUnowned, Nested, Assertions,
     ReverseSafe, OnlySuspendedListed, ListedOnce, Leads
<1>2. CASE Next
  <2> PICK p \in Proc : Step(p)
    BY <1>2 DEF Next
  <2>1. CASE Leave(p)
    BY <2>1, LeavePreserves
  <2>2. CASE TryLock(p) \/ LockLoad(p) \/ LockRetry(p) \/ LockAcquire(p)
    BY <2>2, EnterPreserves
  <2>3. CASE LockPush(p)
    BY <2>3, PushPreserves
  <2>4. CASE Unlock(p)
    BY <2>4, UnlockPreserves
  <2>5. CASE UnlockRelease(p)
    BY <2>5, ReleasePreserves
  <2>6. CASE UnlockSteal(p)
    BY <2>6, StealPreserves
  <2>7. CASE UnlockReverse(p)
    BY <2>7, ReversePreserves
  <2>8. CASE UnlockHandoff(p)
    BY <2>8, HandoffPreserves
  <2>9. QED
    BY <2>1, <2>2, <2>3, <2>4, <2>5, <2>6, <2>7, <2>8 DEF Step, UnlockStep
<1>3. QED
  BY <1>1, <1>2

LEMMA Invariance == Spec => []Inv
<1>1. QED
  BY InitInv, NextPreserves, PTL DEF Spec

(* The type invariant, for every set of coroutines.                        *)
THEOREM TypeCorrectness == Spec => []TypeOK
<1>1. Inv => TypeOK
  BY DEF Inv
<1>2. QED
  BY <1>1, Invariance, PTL

(* One owner at a time, in its critical section or anywhere in unlock().   *)
THEOREM Exclusion == Spec => []MutualExclusion
<1>1. Inv => MutualExclusion
  BY DEF Inv
<1>2. QED
  BY <1>1, Invariance, PTL

(* The word says not_locked exactly while the lock is free, so nobody can  *)
(* slip in between unlock() and the waiter it hands the lock to.           *)
THEOREM NoBarging == Spec => []FreeIffUnowned
<1>1. Inv => FreeIffUnowned
  BY DEF Inv
<1>2. QED
  BY <1>1, Invariance, PTL

(* unlock() reads and resumes only operations of suspended coroutines.     *)
THEOREM ResumesSuspended == Spec => []OnlySuspendedListed
<1>1. Inv => OnlySuspendedListed
  BY DEF Inv
<1>2. QED
  BY <1>1, Invariance, PTL

(* No published operation is reached twice: one resume() for one co_await. *)
THEOREM ResumesOnce == Spec => []ListedOnce
<1>1. Inv => ListedOnce
  BY DEF Inv
<1>2. QED
  BY <1>1, Invariance, PTL

(* The assertions of unlock() and the dereferences of its loop are safe.   *)
THEOREM UnlockSafe == Spec => [](Assertions /\ ReverseSafe)
<1>1. Inv => Assertions /\ ReverseSafe
  BY DEF Inv
<1>2. QED
  BY <1>1, Invariance, PTL

-----------------------------------------------------------------------------
(* The lists of AsyncMutexMC as sequences.                                 *)

LEMMA LeastNatural == ASSUME NEW T \in SUBSET Nat, T # {} PROVE \E x \in T : \A y \in T : x <= y
<1> DEFINE R == OpToRel(<, Nat)
<1>1. R = {ss \in Nat \X Nat : ss[1] < ss[2]}
  BY DEF OpToRel
<1>2. IsWellFoundedOn(R, Nat)
  BY NatLessThanWellFounded
<1> HIDE DEF R
<1>3. PICK x \in T : \A y \in T : <<y, x>> \notin R
  BY <1>2, WFMin
<1>4. \A y \in T : ~ (y < x)
  BY <1>1, <1>3
<1> QED
  BY <1>4

(* One turn of the walk of Chain. *)
Turn(links, w, n, y) ==
  IF n = 0 \/ y = Nil THEN <<>> ELSE <<y>> \o w[n - 1][links[y]]

LEMMA WalkExists ==
  ASSUME NEW K \in Nat, NEW links
  PROVE  \E w : w = [n \in 0 .. K |-> [y \in Ptr |-> Turn(links, w, n, y)]]
<1> DEFINE Walk(w, k) == w = [n \in 0 .. k |-> [y \in Ptr |-> Turn(links, w, n, y)]]
           Bad == {k \in Nat : ~ \E w : Walk(w, k)}
<1>1. SUFFICES ASSUME Bad # {} PROVE FALSE
  <2>1. K \notin Bad
    BY <1>1
  <2> QED
    BY <2>1
<1>2. PICK k \in Bad : \A l \in Bad : k <= l
  BY <1>1, LeastNatural
<1>3. k # 0
  <2>1. Walk([n \in 0 .. 0 |-> [y \in Ptr |-> <<>>]], 0)
    BY DEF Turn
  <2> QED
    BY <2>1
<1>4. PICK w : Walk(w, k - 1)
  <2>1. k - 1 \in Nat /\ k - 1 \notin Bad
    BY <1>2, <1>3
  <2> QED
    BY <2>1
<1> DEFINE v == [n \in 0 .. k |-> IF n < k THEN w[n] ELSE [y \in Ptr |-> Turn(links, w, k, y)]]
<1>5. \A n \in 0 .. k, y \in Ptr : Turn(links, v, n, y) = Turn(links, w, n, y)
  <2> TAKE n \in 0 .. k, y \in Ptr
  <2>1. n # 0 => n - 1 \in 0 .. k /\ n - 1 < k
    BY <1>2
  <2>2. n # 0 => v[n - 1] = w[n - 1]
    BY <2>1
  <2> HIDE DEF v
  <2> QED
    BY <2>2 DEF Turn
<1>6. \A n \in 0 .. k : v[n] = [y \in Ptr |-> Turn(links, w, n, y)]
  <2> TAKE n \in 0 .. k
  <2>1. CASE n < k
    <3>1. n \in 0 .. k - 1
      BY <1>2, <2>1
    <3> QED
      BY <1>4, <2>1, <3>1
  <2>2. CASE n = k
    BY <1>2, <2>2
  <2> QED
    BY <1>2, <2>1, <2>2
<1>7. \A n \in 0 .. k : v[n] = [y \in Ptr |-> Turn(links, v, n, y)]
  BY <1>5, <1>6
<1>8. v = [n \in 0 .. k |-> v[n]]
  OBVIOUS
<1> HIDE DEF v
<1>9. Walk(v, k)
  BY <1>7, <1>8
<1> QED
  BY <1>2, <1>9

At(q, i) == IF i \in 1 .. Len(q) THEN q[i] ELSE Nil

(* q is the list that the links lead through, from x to the null pointer. *)
IsChain(links, q, x) ==
  /\ x = At(q, 1)
  /\ \A i \in 1 .. Len(q) : links[q[i]] = At(q, i + 1)

LEMMA ConsSeq ==
  ASSUME NEW e \in Proc, NEW q \in Seq(Proc)
  PROVE  /\ <<e>> \o q \in Seq(Proc)
         /\ Len(<<e>> \o q) = Len(q) + 1
         /\ (<<e>> \o q)[1] = e
         /\ \A i \in 1 .. Len(q) : (<<e>> \o q)[i + 1] = q[i]
<1>1. <<e>> \in Seq(Proc) /\ Len(<<e>>) = 1 /\ <<e>>[1] = e
  OBVIOUS
<1>2. /\ <<e>> \o q \in Seq(Proc)
      /\ Len(<<e>> \o q) = 1 + Len(q)
      /\ \A i \in 1 .. 1 + Len(q) : (<<e>> \o q)[i] = IF i <= 1 THEN <<e>>[i] ELSE q[i - 1]
  BY <1>1, ConcatProperties
<1>3. Len(q) \in Nat
  BY LenProperties
<1>4. (<<e>> \o q)[1] = e
  BY <1>1, <1>2, <1>3
<1>5. ASSUME NEW i \in 1 .. Len(q) PROVE (<<e>> \o q)[i + 1] = q[i]
  <2>1. i + 1 \in 1 .. 1 + Len(q) /\ ~ (i + 1 <= 1) /\ (i + 1) - 1 = i
    BY <1>3
  <2> QED
    BY <1>2, <2>1
<1> QED
  BY <1>2, <1>3, <1>4, <1>5

LEMMA ConsTail ==
  ASSUME NEW q \in Seq(Proc), q # <<>>
  PROVE  /\ q[1] \in Proc
         /\ Tail(q) \in Seq(Proc)
         /\ Len(q) \in Nat \ {0}
         /\ Len(Tail(q)) = Len(q) - 1
         /\ \A i \in 1 .. Len(q) - 1 : Tail(q)[i] = q[i + 1]
         /\ q = <<q[1]>> \o Tail(q)
<1>1. Len(q) \in Nat \ {0}
  BY EmptySeq
<1>2. q[1] \in Proc
  BY <1>1, ElementOfSeq
<1>3. /\ Tail(q) \in Seq(Proc)
      /\ Len(Tail(q)) = Len(q) - 1
      /\ \A i \in 1 .. Len(Tail(q)) : Tail(q)[i] = q[i + 1]
  BY HeadTailProperties
<1> DEFINE r == <<q[1]>> \o Tail(q)
<1>4. /\ r \in Seq(Proc)
      /\ Len(r) = Len(Tail(q)) + 1
      /\ r[1] = q[1]
      /\ \A i \in 1 .. Len(Tail(q)) : r[i + 1] = Tail(q)[i]
  BY <1>2, <1>3, ConsSeq
<1> HIDE DEF r
<1>5. ASSUME NEW i \in 1 .. Len(q) PROVE q[i] = r[i]
  <2>1. CASE i = 1
    BY <1>4, <2>1
  <2>2. CASE i # 1
    <3>1. i - 1 \in 1 .. Len(Tail(q)) /\ (i - 1) + 1 = i
      BY <1>1, <1>3, <2>2
    <3>2. r[i] = Tail(q)[i - 1] /\ Tail(q)[i - 1] = q[i]
      BY <1>3, <1>4, <3>1
    <3> QED
      BY <3>2
  <2> QED
    BY <2>1, <2>2
<1>6. q = r
  <2>1. Len(q) = Len(r)
    BY <1>1, <1>3, <1>4
  <2> QED
    BY <1>4, <1>5, <2>1, SeqEqual
<1> QED
  BY <1>1, <1>2, <1>3, <1>6 DEF r

LEMMA EmptyChain ==
  ASSUME NEW links, NEW q \in Seq(Proc), IsChain(links, q, Nil)
  PROVE  q = <<>>
<1> SUFFICES ASSUME q # <<>> PROVE FALSE
  OBVIOUS
<1> QED
  BY ConsTail, WordsDistinct DEF IsChain, At

LEMMA NilChain == ASSUME NEW links PROVE IsChain(links, <<>>, Nil)
  BY DEF IsChain, At

LEMMA TailChain ==
  ASSUME NEW links, NEW q \in Seq(Proc), NEW x, x # Nil, IsChain(links, q, x)
  PROVE  /\ q # <<>>
         /\ x = q[1]
         /\ IsChain(links, Tail(q), links[x])
<1>1. q # <<>> /\ x = q[1]
  BY DEF IsChain, At
<1>2. /\ Len(q) \in Nat \ {0}
      /\ Len(Tail(q)) = Len(q) - 1
      /\ \A i \in 1 .. Len(q) - 1 : Tail(q)[i] = q[i + 1]
  BY <1>1, ConsTail
<1>3. \A i \in Nat \ {0} : At(Tail(q), i) = At(q, i + 1)
  BY <1>2 DEF At
<1>4. links[x] = At(Tail(q), 1)
  BY <1>1, <1>2, <1>3 DEF IsChain
<1>5. ASSUME NEW i \in 1 .. Len(Tail(q)) PROVE links[Tail(q)[i]] = At(Tail(q), i + 1)
  <2>1. i + 1 \in 1 .. Len(q) /\ Tail(q)[i] = q[i + 1] /\ i + 1 \in Nat \ {0}
    BY <1>2
  <2>2. links[q[i + 1]] = At(q, (i + 1) + 1)
    BY <2>1 DEF IsChain
  <2> QED
    BY <1>3, <2>1, <2>2
<1> QED
  BY <1>1, <1>4, <1>5 DEF IsChain

LEMMA ChainIs ==
  ASSUME NEW links, NEW q \in Seq(Proc), NEW x \in Ptr,
         IsChain(links, q, x), Len(q) <= Cardinality(Proc)
  PROVE  Chain(links, x) = q
<1> DEFINE K == Cardinality(Proc)
           Walk(w) == w = [n \in 0 .. K |-> [y \in Ptr |-> Turn(links, w, n, y)]]
           W == CHOOSE w : Walk(w)
<1>0. K \in Nat
  BY FiniteProc, FS_CardinalityType
<1>1. Walk(W)
  <2>1. \E w : Walk(w)
    BY <1>0, WalkExists
  <2> QED
    BY <2>1
<1>2. Chain(links, x) = W[K][x]
  BY DEF Chain, Turn
<1> HIDE DEF K, W
<1>3. ASSUME NEW n \in 0 .. K, NEW y \in Ptr PROVE W[n][y] = Turn(links, W, n, y)
  <2>1. W = [i \in 0 .. K |-> [z \in Ptr |-> Turn(links, W, i, z)]]
    BY <1>1
  <2>2. W[n] = [z \in Ptr |-> Turn(links, W, n, z)]
    BY <2>1, Zenon
  <2> QED
    BY <2>2
<1> HIDE DEF Walk
<1> DEFINE Bad == {n \in Nat : /\ n <= K
                               /\ \E r \in Seq(Proc), y \in Ptr :
                                    IsChain(links, r, y) /\ Len(r) <= n /\ W[n][y] # r}
<1>4. Bad = {}
  <2> SUFFICES ASSUME Bad # {} PROVE FALSE
    OBVIOUS
  <2>1. PICK n \in Bad : \A l \in Bad : n <= l
    BY LeastNatural
  <2>2. PICK r \in Seq(Proc), y \in Ptr : IsChain(links, r, y) /\ Len(r) <= n /\ W[n][y] # r
    BY <2>1
  <2>3. W[n][y] = Turn(links, W, n, y)
    BY <1>0, <1>3, <2>1
  <2>4. CASE y = Nil
    BY <2>2, <2>3, <2>4, EmptyChain DEF Turn
  <2>5. CASE y # Nil
    <3>1. /\ r # <<>>
          /\ y = r[1]
          /\ IsChain(links, Tail(r), links[y])
      BY <2>2, <2>5, TailChain
    <3>2. /\ Tail(r) \in Seq(Proc)
          /\ Len(r) \in Nat \ {0}
          /\ Len(Tail(r)) = Len(r) - 1
          /\ r = <<r[1]>> \o Tail(r)
      BY <3>1, ConsTail
    <3>3. n # 0 /\ n - 1 \in Nat /\ n - 1 <= K /\ n - 1 \notin Bad /\ Len(Tail(r)) <= n - 1
      BY <1>0, <2>1, <2>2, <3>2
    <3>4. links[y] \in Ptr
      <4>1. links[y] = At(Tail(r), 1)
        BY <3>1 DEF IsChain
      <4>2. 1 \in 1 .. Len(Tail(r)) => Tail(r)[1] \in Proc
        BY <3>2, ElementOfSeq
      <4> QED
        BY <4>1, <4>2 DEF At, Ptr
    <3>5. W[n - 1][links[y]] = Tail(r)
      BY <3>1, <3>2, <3>3, <3>4
    <3> QED
      BY <2>2, <2>3, <2>5, <3>1, <3>2, <3>3, <3>5 DEF Turn
  <2> QED
    BY <2>4, <2>5
<1>5. K \notin Bad
  BY <1>4
<1> QED
  BY <1>0, <1>2, <1>5 DEF K

Injective(q) == \A i, j \in 1 .. Len(q) : q[i] = q[j] => i = j

(* A list without repetitions fits in the walk of Chain. *)
LEMMA InjectiveFits ==
  ASSUME NEW q \in Seq(Proc), Injective(q)
  PROVE  Len(q) <= Cardinality(Proc)
<1>1. Len(q) \in Nat /\ q \in [1 .. Len(q) -> Proc]
  BY LenProperties
<1>2. q \in Injection(1 .. Len(q), Proc)
  BY <1>1 DEF Injective, Injection, IsInjective
<1>3. Cardinality(1 .. Len(q)) <= Cardinality(Proc)
  BY <1>2, FiniteProc, FS_Injection
<1>4. Cardinality(1 .. Len(q)) = IF 1 > Len(q) THEN 0 ELSE Len(q) - 1 + 1
  BY <1>1, FS_Interval
<1>5. Cardinality(1 .. Len(q)) = Len(q)
  BY <1>1, <1>4
<1> QED
  BY <1>3, <1>5

LEMMA Members ==
  ASSUME NEW q \in Seq(Proc)
  PROVE  /\ Len(q) \in Nat
         /\ \A v : v \in ToSet(q) <=> \E i \in 1 .. Len(q) : q[i] = v
         /\ ToSet(q) \subseteq Proc
  BY LenProperties, ElementOfSeq DEF ToSet

(* A link outside the list may change. *)
LEMMA ChainFrame ==
  ASSUME NEW links, NEW l, NEW q \in Seq(Proc), NEW x,
         IsChain(links, q, x),
         \A v \in ToSet(q) : l[v] = links[v]
  PROVE  IsChain(l, q, x)
  BY Members DEF IsChain

LEMMA ConsChain ==
  ASSUME NEW links, NEW q \in Seq(Proc), NEW x, NEW e \in Proc,
         IsChain(links, q, x), links[e] = x, e \notin ToSet(q), Injective(q)
  PROVE  /\ IsChain(links, <<e>> \o q, e)
         /\ <<e>> \o q \in Seq(Proc)
         /\ ToSet(<<e>> \o q) = {e} \cup ToSet(q)
         /\ Injective(<<e>> \o q)
<1> DEFINE r == <<e>> \o q
<1>1. /\ r \in Seq(Proc)
      /\ Len(r) = Len(q) + 1
      /\ r[1] = e
      /\ \A i \in 1 .. Len(q) : r[i + 1] = q[i]
  BY ConsSeq
<1>2. Len(q) \in Nat
  BY LenProperties
<1> HIDE DEF r
<1>3. \A i \in Nat \ {0} : At(r, i + 1) = At(q, i)
  BY <1>1, <1>2 DEF At
<1>4. \A i \in 1 .. Len(r) : i = 1 \/ (i - 1 \in 1 .. Len(q) /\ r[i] = q[i - 1])
  <2> TAKE i \in 1 .. Len(r)
  <2>1. i # 1 => i - 1 \in 1 .. Len(q) /\ (i - 1) + 1 = i
    BY <1>1, <1>2
  <2> QED
    BY <1>1, <2>1
<1>5. IsChain(links, r, e)
  <2>1. e = At(r, 1)
    BY <1>1, <1>2 DEF At
  <2>2. ASSUME NEW i \in 1 .. Len(r) PROVE links[r[i]] = At(r, i + 1)
    <3>1. CASE i = 1
      <4>1. At(r, 1 + 1) = At(q, 1)
        BY <1>3
      <4> QED
        BY <1>1, <3>1, <4>1 DEF IsChain
    <3>2. CASE i # 1
      <4>1. i - 1 \in 1 .. Len(q) /\ r[i] = q[i - 1]
        BY <1>4, <3>2
      <4>2. links[q[i - 1]] = At(q, (i - 1) + 1)
        BY <4>1 DEF IsChain
      <4>3. i \in Nat \ {0} /\ (i - 1) + 1 = i
        BY <1>1, <1>2
      <4> QED
        BY <1>3, <4>1, <4>2, <4>3
    <3> QED
      BY <3>1, <3>2
  <2> QED
    BY <2>1, <2>2 DEF IsChain
<1>6. ToSet(r) = {e} \cup ToSet(q)
  <2>1. ASSUME NEW v \in ToSet(r) PROVE v \in {e} \cup ToSet(q)
    <3>1. PICK i \in 1 .. Len(r) : r[i] = v
      BY <1>1, <2>1, Members
    <3> QED
      BY <1>1, <1>4, <3>1, Members
  <2>2. e \in ToSet(r)
    <3>1. 1 \in 1 .. Len(r)
      BY <1>1, <1>2
    <3> QED
      BY <1>1, <3>1, Members
  <2>3. ASSUME NEW v \in ToSet(q) PROVE v \in ToSet(r)
    <3>1. PICK i \in 1 .. Len(q) : q[i] = v
      BY <2>3, Members
    <3>2. i + 1 \in 1 .. Len(r) /\ r[i + 1] = v
      BY <1>1, <1>2, <3>1
    <3> QED
      BY <1>1, <3>2, Members
  <2> QED
    BY <2>1, <2>2, <2>3
<1>7. Injective(r)
  <2> SUFFICES ASSUME NEW i \in 1 .. Len(r), NEW j \in 1 .. Len(r), r[i] = r[j] PROVE i = j
    BY DEF Injective
  <2>1. \A k \in 1 .. Len(q) : q[k] # e
    BY Members
  <2>2. CASE i = 1 \/ j = 1
    BY <1>1, <1>4, <2>1, <2>2
  <2>3. CASE i # 1 /\ j # 1
    <3>1. i - 1 = j - 1
      BY <1>4, <2>3 DEF Injective
    <3> QED
      BY <1>1, <1>2, <3>1
  <2> QED
    BY <2>2, <2>3
<1> QED
  BY <1>1, <1>5, <1>6, <1>7 DEF r

(* The first of a list without repetitions leaves it. *)
LEMMA TailMembers ==
  ASSUME NEW q \in Seq(Proc), q # <<>>, Injective(q)
  PROVE  /\ Injective(Tail(q))
         /\ ToSet(Tail(q)) = ToSet(q) \ {q[1]}
         /\ q[1] \in ToSet(q)
<1>1. /\ Tail(q) \in Seq(Proc)
      /\ Len(q) \in Nat \ {0}
      /\ Len(Tail(q)) = Len(q) - 1
      /\ \A i \in 1 .. Len(q) - 1 : Tail(q)[i] = q[i + 1]
  BY ConsTail
<1>2. Injective(Tail(q))
  <2> SUFFICES ASSUME NEW i \in 1 .. Len(q) - 1, NEW j \in 1 .. Len(q) - 1, q[i + 1] = q[j + 1]
               PROVE  i = j
    BY <1>1 DEF Injective
  <2>1. i + 1 \in 1 .. Len(q) /\ j + 1 \in 1 .. Len(q)
    BY <1>1
  <2>2. i + 1 = j + 1
    BY <2>1 DEF Injective
  <2> QED
    BY <1>1, <2>2
<1>3. 1 \in 1 .. Len(q)
  BY <1>1
<1>4. ASSUME NEW v \in ToSet(Tail(q)) PROVE v \in ToSet(q) \ {q[1]}
  <2>1. PICK i \in 1 .. Len(q) - 1 : q[i + 1] = v
    <3>1. PICK i \in 1 .. Len(Tail(q)) : Tail(q)[i] = v
      BY <1>1, <1>4, Members
    <3> QED
      BY <1>1, <3>1
  <2>2. i + 1 \in 1 .. Len(q) /\ i + 1 # 1
    BY <1>1
  <2>3. v # q[1]
    BY <1>3, <2>1, <2>2 DEF Injective
  <2> QED
    BY <2>1, <2>2, <2>3, Members
<1>5. ASSUME NEW v \in ToSet(q), v # q[1] PROVE v \in ToSet(Tail(q))
  <2>1. PICK i \in 1 .. Len(q) : q[i] = v
    BY <1>5, Members
  <2>2. i - 1 \in 1 .. Len(q) - 1 /\ (i - 1) + 1 = i
    BY <1>1, <1>5, <2>1
  <2>3. Tail(q)[i - 1] = v
    BY <1>1, <2>1, <2>2
  <2> QED
    BY <1>1, <2>2, <2>3, Members
<1> QED
  BY <1>2, <1>3, <1>4, <1>5, Members

LEMMA ReverseSeq ==
  ASSUME NEW q \in Seq(Proc)
  PROVE  /\ Reverse(q) \in Seq(Proc)
         /\ Len(Reverse(q)) = Len(q)
         /\ \A i \in 1 .. Len(q) : Reverse(q)[i] = q[(Len(q) - i) + 1]
<1>1. Len(q) \in Nat
  BY LenProperties
<1>2. \A i \in 1 .. Len(q) : (Len(q) - i) + 1 \in 1 .. Len(q)
  BY <1>1
<1>3. Reverse(q) \in [1 .. Len(q) -> Proc]
  BY <1>2, ElementOfSeq DEF Reverse
<1>4. Reverse(q) \in Seq(Proc) /\ DOMAIN Reverse(q) = 1 .. Len(q)
  BY <1>1, <1>3
<1>5. Len(Reverse(q)) = Len(q)
  <2>1. DOMAIN Reverse(q) = 1 .. Len(Reverse(q)) /\ Len(Reverse(q)) \in Nat
    BY <1>4, LenProperties
  <2> QED
    BY <1>1, <1>4, <2>1
<1> QED
  BY <1>4, <1>5 DEF Reverse

LEMMA ReverseEmpty == Reverse(<<>>) = <<>>
<1>1. <<>> \in Seq(Proc) /\ Len(<<>>) = 0
  BY EmptySeq
<1>2. Reverse(<<>>) \in Seq(Proc) /\ Len(Reverse(<<>>)) = 0
  BY <1>1, ReverseSeq
<1> QED
  BY <1>2, EmptySeq

LEMMA ReverseCons ==
  ASSUME NEW e \in Proc, NEW q \in Seq(Proc)
  PROVE  Reverse(<<e>> \o q) = Append(Reverse(q), e)
<1> DEFINE r == <<e>> \o q
           s == Append(Reverse(q), e)
<1>1. /\ r \in Seq(Proc)
      /\ Len(r) = Len(q) + 1
      /\ r[1] = e
      /\ \A i \in 1 .. Len(q) : r[i + 1] = q[i]
  BY ConsSeq
<1>2. Len(q) \in Nat
  BY LenProperties
<1>3. /\ Reverse(q) \in Seq(Proc)
      /\ Len(Reverse(q)) = Len(q)
      /\ \A i \in 1 .. Len(q) : Reverse(q)[i] = q[(Len(q) - i) + 1]
  BY ReverseSeq
<1>4. /\ s \in Seq(Proc)
      /\ Len(s) = Len(q) + 1
      /\ \A i \in 1 .. Len(q) : s[i] = Reverse(q)[i]
      /\ s[Len(q) + 1] = e
  BY <1>3, AppendProperties
<1> HIDE DEF r, s
<1>5. /\ Reverse(r) \in Seq(Proc)
      /\ Len(Reverse(r)) = Len(q) + 1
      /\ \A i \in 1 .. Len(q) + 1 : Reverse(r)[i] = r[((Len(q) + 1) - i) + 1]
  BY <1>1, ReverseSeq
<1>6. ASSUME NEW i \in 1 .. Len(q) + 1 PROVE Reverse(r)[i] = s[i]
  <2>1. CASE i = Len(q) + 1
    <3>1. ((Len(q) + 1) - i) + 1 = 1
      BY <1>2, <2>1
    <3> QED
      BY <1>1, <1>4, <1>5, <2>1, <3>1
  <2>2. CASE i # Len(q) + 1
    <3>1. /\ i \in 1 .. Len(q)
          /\ (Len(q) - i) + 1 \in 1 .. Len(q)
          /\ ((Len(q) + 1) - i) + 1 = ((Len(q) - i) + 1) + 1
      BY <1>2, <2>2
    <3>2. Reverse(r)[i] = r[((Len(q) - i) + 1) + 1]
      BY <1>5, <3>1
    <3>3. r[((Len(q) - i) + 1) + 1] = q[(Len(q) - i) + 1]
      BY <1>1, <3>1
    <3>4. s[i] = q[(Len(q) - i) + 1]
      BY <1>3, <1>4, <3>1
    <3> QED
      BY <3>2, <3>3, <3>4
  <2> QED
    BY <2>1, <2>2
<1>7. Reverse(r) = s
  BY <1>4, <1>5, <1>6, SeqEqual
<1> QED
  BY <1>7 DEF r, s

(* The queue that the owner's list a, the part b of the stack that it has  *)
(* still to reverse and the stack c make together.                         *)
Line(a, b, c) == (Reverse(b) \o a) \o Reverse(c)

LEMMA LineSeq ==
  ASSUME NEW a \in Seq(Proc), NEW b \in Seq(Proc), NEW c \in Seq(Proc)
  PROVE  /\ Line(a, b, c) \in Seq(Proc)
         /\ ToSet(Line(a, b, c)) \subseteq ToSet(a) \cup ToSet(b) \cup ToSet(c)
<1>1. /\ Reverse(b) \in Seq(Proc)
      /\ Reverse(c) \in Seq(Proc)
      /\ ToSet(Reverse(b)) \subseteq ToSet(b)
      /\ ToSet(Reverse(c)) \subseteq ToSet(c)
  <2>1. ASSUME NEW q \in Seq(Proc)
        PROVE  Reverse(q) \in Seq(Proc) /\ ToSet(Reverse(q)) \subseteq ToSet(q)
    <3>1. /\ Reverse(q) \in Seq(Proc)
          /\ Len(Reverse(q)) = Len(q)
          /\ \A i \in 1 .. Len(q) : Reverse(q)[i] = q[(Len(q) - i) + 1]
      BY ReverseSeq
    <3>2. Len(q) \in Nat
      BY LenProperties
    <3>3. ASSUME NEW v \in ToSet(Reverse(q)) PROVE v \in ToSet(q)
      <4>1. PICK i \in 1 .. Len(q) : Reverse(q)[i] = v
        BY <3>1, <3>3, Members
      <4>2. (Len(q) - i) + 1 \in 1 .. Len(q) /\ q[(Len(q) - i) + 1] = v
        BY <3>1, <3>2, <4>1
      <4> QED
        BY <4>2, Members
    <3> QED
      BY <3>1, <3>3
  <2> QED
    BY <2>1
<1>2. ASSUME NEW s \in Seq(Proc), NEW t \in Seq(Proc)
      PROVE  s \o t \in Seq(Proc) /\ ToSet(s \o t) \subseteq ToSet(s) \cup ToSet(t)
  <2>1. /\ s \o t \in Seq(Proc)
        /\ Len(s \o t) = Len(s) + Len(t)
        /\ \A i \in 1 .. Len(s) + Len(t) : (s \o t)[i] = IF i <= Len(s) THEN s[i] ELSE t[i - Len(s)]
    BY ConcatProperties
  <2>2. Len(s) \in Nat /\ Len(t) \in Nat
    BY LenProperties
  <2>3. ASSUME NEW v \in ToSet(s \o t) PROVE v \in ToSet(s) \cup ToSet(t)
    <3>1. PICK i \in 1 .. Len(s) + Len(t) : (s \o t)[i] = v
      <4>1. \E i \in 1 .. Len(s \o t) : (s \o t)[i] = v
        BY <2>1, <2>3, Members, Zenon
      <4> QED
        BY <2>1, <4>1, Zenon
    <3>2. CASE i <= Len(s)
      <4>1. i \in 1 .. Len(s)
        BY <2>2, <3>2
      <4>2. s[i] = v
        BY <2>1, <3>1, <3>2
      <4> QED
        BY <4>1, <4>2, Members
    <3>3. CASE ~ (i <= Len(s))
      <4>1. i - Len(s) \in 1 .. Len(t) /\ t[i - Len(s)] = v
        BY <2>1, <2>2, <3>1, <3>3
      <4> QED
        BY <4>1, Members
    <3> QED
      BY <3>2, <3>3
  <2> QED
    BY <2>1, <2>3
<1>3. /\ Reverse(b) \o a \in Seq(Proc)
      /\ ToSet(Reverse(b) \o a) \subseteq ToSet(b) \cup ToSet(a)
  BY <1>1, <1>2
<1> QED
  BY <1>1, <1>2, <1>3 DEF Line

LEMMA LineEmpty == Line(<<>>, <<>>, <<>>) = <<>>
<1>1. <<>> \in Seq(Proc)
  BY EmptySeq
<1> QED
  BY <1>1, ReverseEmpty, ConcatEmptySeq DEF Line

(* A push appends to the queue. *)
LEMMA LinePush ==
  ASSUME NEW a \in Seq(Proc), NEW b \in Seq(Proc), NEW c \in Seq(Proc), NEW e \in Proc
  PROVE  Line(a, b, <<e>> \o c) = Append(Line(a, b, c), e)
<1> DEFINE s == Reverse(b) \o a
<1>1. s \in Seq(Proc) /\ Reverse(c) \in Seq(Proc) /\ <<e>> \in Seq(Proc)
  BY ReverseSeq, ConcatProperties
<1>2. Reverse(<<e>> \o c) = Reverse(c) \o <<e>>
  BY <1>1, ReverseCons, AppendIsConcat
<1> HIDE DEF s
<1>3. s \o (Reverse(c) \o <<e>>) = (s \o Reverse(c)) \o <<e>>
  BY <1>1, ConcatAssociative
<1>4. s \o Reverse(c) \in Seq(Proc)
  BY <1>1, ConcatProperties
<1>5. Append(s \o Reverse(c), e) = (s \o Reverse(c)) \o <<e>>
  BY <1>4, AppendIsConcat
<1> QED
  BY <1>2, <1>3, <1>5 DEF Line, s

(* The exchange that takes the stack leaves the queue as it is. *)
LEMMA LineSteal ==
  ASSUME NEW c \in Seq(Proc)
  PROVE  Line(<<>>, <<>>, c) = Line(<<>>, c, <<>>)
<1>1. <<>> \in Seq(Proc) /\ Reverse(c) \in Seq(Proc)
  BY EmptySeq, ReverseSeq
<1> QED
  BY <1>1, ReverseEmpty, ConcatEmptySeq DEF Line

(* So does a turn of the loop that reverses it. *)
LEMMA LineReverse ==
  ASSUME NEW a \in Seq(Proc), NEW b \in Seq(Proc), NEW c \in Seq(Proc), NEW e \in Proc
  PROVE  Line(<<e>> \o a, b, c) = Line(a, <<e>> \o b, c)
<1>1. Reverse(b) \in Seq(Proc) /\ <<e>> \in Seq(Proc)
  BY ReverseSeq
<1>2. Reverse(<<e>> \o b) = Reverse(b) \o <<e>>
  BY <1>1, ReverseCons, AppendIsConcat
<1>3. (Reverse(b) \o <<e>>) \o a = Reverse(b) \o (<<e>> \o a)
  BY <1>1, ConcatAssociative
<1> QED
  BY <1>2, <1>3 DEF Line

(* A handoff takes the first of the queue. *)
LEMMA LineHandoff ==
  ASSUME NEW a \in Seq(Proc), NEW c \in Seq(Proc), a # <<>>
  PROVE  /\ Line(a, <<>>, c) # <<>>
         /\ Head(Line(a, <<>>, c)) = a[1]
         /\ Tail(Line(a, <<>>, c)) = Line(Tail(a), <<>>, c)
<1>1. a[1] \in Proc /\ Tail(a) \in Seq(Proc) /\ a = <<a[1]>> \o Tail(a)
  BY ConsTail
<1> DEFINE e == a[1]
           t == Tail(a)
           s == t \o Reverse(c)
           r == <<e>> \o s
<1>2. <<>> \in Seq(Proc) /\ Reverse(c) \in Seq(Proc) /\ <<e>> \in Seq(Proc)
  BY <1>1, EmptySeq, ReverseSeq
<1>3. Line(a, <<>>, c) = a \o Reverse(c) /\ Line(t, <<>>, c) = s
  BY <1>1, <1>2, ReverseEmpty, ConcatEmptySeq DEF Line
<1>4. (<<e>> \o t) \o Reverse(c) = r
  BY <1>1, <1>2, ConcatAssociative
<1>5. Line(a, <<>>, c) = r
  BY <1>1, <1>3, <1>4
<1>6. s \in Seq(Proc)
  BY <1>1, <1>2, ConcatProperties
<1> HIDE DEF e, t, s, r
<1>7. /\ r \in Seq(Proc)
      /\ Len(r) = Len(s) + 1
      /\ r[1] = e
      /\ \A i \in 1 .. Len(s) : r[i + 1] = s[i]
  BY <1>1, <1>6, ConsSeq DEF r, e
<1>8. Len(s) \in Nat
  BY <1>6, LenProperties
<1>9. r # <<>>
  BY <1>7, <1>8, EmptySeq
<1>10. Head(r) = e
  BY <1>7, <1>9
<1>11. /\ Tail(r) \in Seq(Proc)
       /\ Len(Tail(r)) = Len(r) - 1
       /\ \A i \in 1 .. Len(Tail(r)) : Tail(r)[i] = r[i + 1]
  BY <1>7, <1>9, HeadTailProperties
<1>12. Tail(r) = s
  <2>1. Len(Tail(r)) = Len(s)
    BY <1>7, <1>8, <1>11
  <2>2. \A i \in 1 .. Len(Tail(r)) : Tail(r)[i] = s[i]
    BY <1>7, <1>11, <2>1
  <2> QED
    BY <1>6, <1>11, <2>1, <2>2, SeqEqual
<1> QED
  BY <1>3, <1>5, <1>9, <1>10, <1>12 DEF e, t

-----------------------------------------------------------------------------
(* The first operation of each list: what the owner has in order, what it  *)
(* has still to reverse, and the stack.                                    *)
OrderedHead ==
  IF Owner # Nil /\ pc[Owner] \in {"reverse", "handoff"} THEN waitersHead[Owner]
  ELSE m_waiters

ReversedHead == IF Owner # Nil /\ pc[Owner] = "reverse" THEN next[Owner] ELSE Nil

StackHead == IF m_state = NotLocked THEN Nil ELSE m_state

(* The three lists end, share no operation and hold suspended coroutines.  *)
Lists(a, b, c) ==
  /\ IsChain(m_next, a, OrderedHead)
  /\ IsChain(m_next, b, ReversedHead)
  /\ IsChain(m_next, c, StackHead)
  /\ Injective(a) /\ Injective(b) /\ Injective(c)
  /\ ToSet(a) \cap ToSet(b) = {}
  /\ ToSet(a) \cap ToSet(c) = {}
  /\ ToSet(b) \cap ToSet(c) = {}
  /\ \A v \in ToSet(a) \cup ToSet(b) \cup ToSet(c) : pc[v] = "waiting"

Listed == \E a, b, c \in Seq(Proc) : Lists(a, b, c)

LEMMA OwnerIs ==
  MutualExclusion =>
    /\ \A p \in Proc : pc[p] \in Owning => Owner = p
    /\ (\A p \in Proc : pc[p] \notin Owning) => Owner = Nil
  BY DEF MutualExclusion, Owner

(* The heads, in terms of the coroutine that owns the lock. *)
HeadsOfOwner ==
  /\ \A p \in Proc : pc[p] \in Owning =>
       /\ Owner = p
       /\ OrderedHead = IF pc[p] \in {"reverse", "handoff"} THEN waitersHead[p] ELSE m_waiters
       /\ ReversedHead = IF pc[p] = "reverse" THEN next[p] ELSE Nil
  /\ (\A p \in Proc : pc[p] \notin Owning) =>
       Owner = Nil /\ OrderedHead = m_waiters /\ ReversedHead = Nil

LEMMA HeadsAre == Inv => HeadsOfOwner
<1> SUFFICES ASSUME Inv PROVE HeadsOfOwner
  OBVIOUS
<1>1. MutualExclusion
  BY DEF Inv
<1> QED
  BY <1>1, OwnerIs, WordsDistinct DEF HeadsOfOwner, OrderedHead, ReversedHead

LEMMA HeadsAreNext == Inv' => HeadsOfOwner'
  BY HeadsAre, PTL

(* The walks of AsyncMutexMC find these lists. *)
QueueIsLine == \A a, b, c \in Seq(Proc) : Lists(a, b, c) => WaitQueue = Line(a, b, c)

LEMMA QueueIs == Inv => QueueIsLine
<1> SUFFICES ASSUME Inv, NEW a \in Seq(Proc), NEW b \in Seq(Proc), NEW c \in Seq(Proc),
                    Lists(a, b, c)
             PROVE  WaitQueue = Line(a, b, c)
  BY DEF QueueIsLine
<1> USE WordsDistinct
<1>1. TypeOK /\ MutualExclusion
  BY DEF Inv
<1>2. ASSUME NEW q \in Seq(Proc), NEW x \in Ptr, IsChain(m_next, q, x), Injective(q)
      PROVE  Chain(m_next, x) = q
  BY <1>2, ChainIs, InjectiveFits
<1>3. Chain(m_next, m_state) = c
  <2>1. CASE m_state = NotLocked
    <3>1. c = <<>>
      BY <2>1, EmptyChain DEF Lists, StackHead
    <3>2. Chain(m_next, m_state) = <<>>
      BY <2>1 DEF Chain, Ptr
    <3> QED
      BY <3>1, <3>2
  <2>2. CASE m_state # NotLocked
    BY <1>1, <1>2, <2>2 DEF Lists, StackHead, TypeOK
  <2> QED
    BY <2>1, <2>2
<1>4. Ordered = Reverse(b) \o a
  <2>1. Owner \in Ptr
    BY DEF Owner, Ptr
  <2>2. ReversedHead = Nil => b = <<>> /\ Reverse(b) \o a = a
    <3>1. ReversedHead = Nil => b = <<>>
      BY EmptyChain DEF Lists
    <3> QED
      BY <3>1, ReverseEmpty, ConcatEmptySeq
  <2>3. OrderedHead \in Ptr /\ ReversedHead \in Ptr
    BY <1>1, <2>1 DEF OrderedHead, ReversedHead, TypeOK, Ptr
  <2>4. Chain(m_next, OrderedHead) = a
    BY <1>2, <2>3 DEF Lists
  <2>5. Chain(m_next, ReversedHead) = b
    BY <1>2, <2>3 DEF Lists
  <2>6. CASE Owner # Nil /\ pc[Owner] = "handoff"
    BY <2>2, <2>4, <2>6 DEF Ordered, OrderedHead, ReversedHead
  <2>7. CASE Owner # Nil /\ pc[Owner] = "reverse"
    BY <2>4, <2>5, <2>7 DEF Ordered, OrderedHead, ReversedHead
  <2>8. CASE ~ (Owner # Nil /\ pc[Owner] \in {"handoff", "reverse"})
    BY <2>2, <2>4, <2>8 DEF Ordered, OrderedHead, ReversedHead
  <2> QED
    BY <2>6, <2>7, <2>8
<1> QED
  BY <1>3, <1>4 DEF WaitQueue, Line

LEMMA QueueIsNext == Inv' => QueueIsLine'
  BY QueueIs, PTL

LEMMA InitListed == Init => Listed
<1> SUFFICES ASSUME Init PROVE Lists(<<>>, <<>>, <<>>)
  BY EmptySeq DEF Listed
<1>1. Inv
  BY InitInv
<1>2. OrderedHead = Nil /\ ReversedHead = Nil /\ StackHead = Nil
  BY <1>1, HeadsAre DEF Init, HeadsOfOwner, Owning, StackHead
<1>3. ToSet(<<>>) = {}
  BY DEF ToSet
<1>4. Injective(<<>>)
  BY DEF Injective
<1> QED
  BY <1>2, <1>3, <1>4, NilChain DEF Lists

(* A step that leaves the lists alone leaves the queue alone.              *)
LEMMA Unmoved ==
  ASSUME Inv, Inv', Listed,
         UNCHANGED <<m_next, OrderedHead, ReversedHead, StackHead>>,
         \A v \in Proc : pc[v] = "waiting" => pc'[v] = "waiting"
  PROVE  Listed' /\ UNCHANGED WaitQueue
<1>1. PICK a \in Seq(Proc), b \in Seq(Proc), c \in Seq(Proc) : Lists(a, b, c)
  BY DEF Listed
<1>2. ToSet(a) \cup ToSet(b) \cup ToSet(c) \subseteq Proc
  BY Members
<1>3. Lists(a, b, c)'
  BY <1>1, <1>2 DEF Lists
<1>4. WaitQueue = Line(a, b, c) /\ WaitQueue' = Line(a, b, c)
  BY <1>1, <1>3, QueueIs, QueueIsNext DEF QueueIsLine
<1> QED
  BY <1>3, <1>4 DEF Listed

(* What the owner's locals hold decides where its lists begin.             *)
LEMMA SameHeads ==
  ASSUME Inv, Inv', UNCHANGED m_waiters,
         \A q \in Proc : pc[q] \in Owning \/ pc'[q] \in Owning =>
           pc'[q] = pc[q] /\ waitersHead'[q] = waitersHead[q] /\ next'[q] = next[q]
  PROVE  UNCHANGED <<Owner, OrderedHead, ReversedHead>>
<1>1. HeadsOfOwner /\ HeadsOfOwner'
  BY HeadsAre, HeadsAreNext
<1>2. CASE \E q \in Proc : pc[q] \in Owning
  <2>1. PICK q \in Proc : pc[q] \in Owning
    BY <1>2
  <2>2. pc'[q] = pc[q] /\ waitersHead'[q] = waitersHead[q] /\ next'[q] = next[q]
    BY <2>1
  <2> QED
    BY <1>1, <2>1, <2>2 DEF HeadsOfOwner, Owning
<1>3. CASE \A q \in Proc : pc[q] \notin Owning
  <2>1. \A q \in Proc : pc'[q] \notin Owning
    BY <1>3
  <2> QED
    BY <1>1, <1>3, <2>1 DEF HeadsOfOwner, Owning
<1> QED
  BY <1>2, <1>3

(* Load, retry, and a return to the caller: neither owner nor queue.       *)
LEMMA AsideMaps ==
  ASSUME Inv, Inv', Listed, NEW p \in Proc, Leave(p) \/ LockLoad(p) \/ LockRetry(p)
  PROVE  Listed' /\ UNCHANGED Lock!vars
<1> USE WordsDistinct
<1>1. TypeOK /\ Nested
  BY DEF Inv
<1>2. \A q \in Proc : pc'[q] # pc[q] => pc[q] \in {"running", "resuming"} /\ pc'[q] \in {"running", "cas"}
  BY <1>1 DEF Leave, GiveBackThread, LockLoad, LockRetry, TypeOK, Nested, Ptr
<1>3. UNCHANGED <<m_state, m_waiters, m_next, waitersHead, next>>
  BY DEF Leave, LockLoad, LockRetry
<1>4. UNCHANGED <<Owner, OrderedHead, ReversedHead>>
  BY <1>2, <1>3, SameHeads DEF Owning
<1>5. UNCHANGED StackHead
  BY <1>3 DEF StackHead
<1>6. Listed' /\ UNCHANGED WaitQueue
  BY <1>2, <1>3, <1>4, <1>5, Unmoved
<1> QED
  BY <1>4, <1>6 DEF Lock!vars

(* try_lock and lock_async on a free mutex acquire the abstract lock.      *)
LEMMA AcquireMaps ==
  ASSUME Inv, Inv', Listed, NEW p \in Proc, TryLock(p) \/ LockAcquire(p)
  PROVE  Listed' /\ Lock!Acquire(p)
<1> USE WordsDistinct
<1>1. TypeOK /\ FreeIffUnowned
  BY DEF Inv
<1>2. m_state = NotLocked /\ m_state' = Nil /\ UNCHANGED <<m_waiters, m_next, waitersHead, next>>
  BY DEF TryLock, LockAcquire
<1>3. pc' = [pc EXCEPT ![p] = "holding"] /\ pc[p] \in {"running", "cas"}
  BY DEF TryLock, LockAcquire
<1>4. \A q \in Proc : pc[q] \notin Owning
  BY <1>1, <1>2 DEF FreeIffUnowned
<1>5. HeadsOfOwner /\ HeadsOfOwner'
  BY HeadsAre, HeadsAreNext
<1>6. Owner = Nil /\ OrderedHead = m_waiters /\ ReversedHead = Nil
  BY <1>4, <1>5 DEF HeadsOfOwner
<1>7. pc'[p] = "holding"
  BY <1>1, <1>3 DEF TypeOK
<1>8. Owner' = p /\ OrderedHead' = m_waiters' /\ ReversedHead' = Nil
  BY <1>5, <1>7 DEF HeadsOfOwner, Owning
<1>9. StackHead = Nil /\ StackHead' = Nil
  BY <1>2 DEF StackHead
<1>10. Listed' /\ UNCHANGED WaitQueue
  BY <1>1, <1>2, <1>3, <1>6, <1>8, <1>9, Unmoved DEF TypeOK
<1> QED
  BY <1>6, <1>8, <1>10 DEF Lock!Acquire

(* A published operation is the last of the queue, behind the stack that   *)
(* it points to.                                                           *)
LEMMA PushMaps ==
  ASSUME Inv, Inv', Listed, NEW p \in Proc, LockPush(p)
  PROVE  Listed' /\ Lock!Enqueue(p)
<1> USE WordsDistinct
<1>1. TypeOK /\ Nested /\ FreeIffUnowned
  BY DEF Inv
<1>2. PICK a \in Seq(Proc), b \in Seq(Proc), c \in Seq(Proc) : Lists(a, b, c)
  BY DEF Listed
<1>3. /\ pc[p] = "cas" /\ m_state # NotLocked /\ m_state' = p
      /\ m_next' = [m_next EXCEPT ![p] = m_state]
      /\ UNCHANGED <<m_waiters, waitersHead, next>>
  BY DEF LockPush
<1>4. \A q \in Proc : pc'[q] # pc[q] => \/ q = p /\ pc'[q] = "waiting"
                                        \/ pc[q] = "resuming" /\ pc'[q] = "running"
  BY <1>1, <1>3 DEF LockPush, GiveBackThread, TypeOK, Nested, Ptr
<1>5. pc'[p] = "waiting"
  BY <1>1 DEF LockPush, GiveBackThread, TypeOK
<1>6. UNCHANGED <<Owner, OrderedHead, ReversedHead>>
  <2>1. \A q \in Proc : pc[q] \in Owning \/ pc'[q] \in Owning => pc'[q] = pc[q]
    BY <1>3, <1>4 DEF Owning
  <2> QED
    BY <1>3, <2>1, SameHeads
<1>7. p \notin ToSet(a) \cup ToSet(b) \cup ToSet(c)
  BY <1>2, <1>3 DEF Lists
<1>8. \A v \in ToSet(a) \cup ToSet(b) \cup ToSet(c) : m_next'[v] = m_next[v] /\ pc'[v] = "waiting"
  BY <1>1, <1>2, <1>3, <1>4, <1>7, Members DEF Lists, TypeOK
<1>9. /\ IsChain(m_next', a, OrderedHead')
      /\ IsChain(m_next', b, ReversedHead')
      /\ IsChain(m_next', c, m_state)
  BY <1>2, <1>3, <1>6, <1>8, ChainFrame DEF Lists, StackHead
<1> DEFINE d == <<p>> \o c
<1>10. /\ IsChain(m_next', d, p)
       /\ d \in Seq(Proc)
       /\ ToSet(d) = {p} \cup ToSet(c)
       /\ Injective(d)
  <2>1. m_next'[p] = m_state
    BY <1>1, <1>3 DEF TypeOK
  <2> QED
    BY <1>2, <1>7, <1>9, <2>1, ConsChain DEF Lists
<1>11. Line(a, b, d) = Append(Line(a, b, c), p)
  BY LinePush
<1> HIDE DEF d
<1>12. StackHead' = p
  BY <1>3 DEF StackHead
<1>13. Lists(a, b, d)'
  BY <1>2, <1>5, <1>7, <1>8, <1>9, <1>10, <1>12 DEF Lists
<1>14. WaitQueue = Line(a, b, c) /\ WaitQueue' = Line(a, b, d)
  BY <1>2, <1>10, <1>13, QueueIs, QueueIsNext DEF QueueIsLine
<1>15. p \notin ToSet(WaitQueue)
  BY <1>7, <1>14, LineSeq
<1>16. Owner \notin {Nil, p}
  <2>1. PICK q \in Proc : pc[q] \in Owning
    BY <1>1, <1>3 DEF FreeIffUnowned
  <2>2. Owner = q
    BY <2>1, HeadsAre DEF HeadsOfOwner
  <2> QED
    BY <1>3, <2>1, <2>2 DEF Owning
<1> QED
  BY <1>6, <1>10, <1>11, <1>13, <1>14, <1>15, <1>16 DEF Listed, Lock!Enqueue, Lock!ToSet, ToSet

(* The load of m_waiters moves the head of the owner's list to its local.  *)
LEMMA UnlockMaps ==
  ASSUME Inv, Inv', Listed, NEW p \in Proc, Unlock(p)
  PROVE  Listed' /\ UNCHANGED Lock!vars
<1> USE WordsDistinct
<1>1. TypeOK
  BY DEF Inv
<1>2. HeadsOfOwner /\ HeadsOfOwner'
  BY HeadsAre, HeadsAreNext
<1>3. /\ pc[p] = "holding"
      /\ pc' = [pc EXCEPT ![p] = IF m_waiters = Nil THEN "release" ELSE "handoff"]
      /\ waitersHead'[p] = m_waiters
      /\ UNCHANGED <<m_state, m_waiters, m_next, next>>
  BY <1>1 DEF Unlock, TypeOK
<1>4. pc'[p] = IF m_waiters = Nil THEN "release" ELSE "handoff"
  BY <1>1, <1>3 DEF TypeOK
<1>5. Owner = p /\ OrderedHead = m_waiters /\ ReversedHead = Nil
  BY <1>2, <1>3 DEF HeadsOfOwner, Owning
<1>6. Owner' = p /\ OrderedHead' = m_waiters /\ ReversedHead' = Nil
  BY <1>2, <1>3, <1>4 DEF HeadsOfOwner, Owning
<1>7. Listed' /\ UNCHANGED WaitQueue
  <2>1. UNCHANGED StackHead
    BY <1>3 DEF StackHead
  <2>2. \A v \in Proc : pc[v] = "waiting" => pc'[v] = "waiting"
    BY <1>1, <1>3 DEF TypeOK
  <2> QED
    BY <1>3, <1>5, <1>6, <2>1, <2>2, Unmoved
<1> QED
  BY <1>5, <1>6, <1>7 DEF Lock!vars

(* The compare and exchange frees the lock only with nobody queued.        *)
LEMMA ReleaseMaps ==
  ASSUME Inv, Inv', Listed, NEW p \in Proc, UnlockRelease(p)
  PROVE  Listed' /\ (Lock!Release(p) \/ UNCHANGED Lock!vars)
<1> USE WordsDistinct
<1>1. TypeOK /\ ReverseSafe /\ MutualExclusion
  BY DEF Inv
<1>2. HeadsOfOwner /\ HeadsOfOwner'
  BY HeadsAre, HeadsAreNext
<1>3. pc[p] = "release" /\ UNCHANGED <<m_waiters, m_next, waitersHead, next>>
  BY DEF UnlockRelease
<1>4. m_waiters = Nil
  BY <1>1, <1>3 DEF ReverseSafe
<1>5. Owner = p /\ OrderedHead = Nil /\ ReversedHead = Nil
  BY <1>2, <1>3, <1>4 DEF HeadsOfOwner, Owning
<1>6. \A v \in Proc : pc[v] = "waiting" => pc'[v] = "waiting"
  BY <1>1 DEF UnlockRelease, TypeOK
<1>7. CASE m_state = Nil
  <2>1. m_state' = NotLocked /\ pc' = [pc EXCEPT ![p] = "running"]
    BY <1>7 DEF UnlockRelease
  <2>2. \A q \in Proc : pc'[q] \notin Owning
    BY <1>1, <1>3, <2>1 DEF MutualExclusion, Owning, TypeOK
  <2>3. Owner' = Nil /\ OrderedHead' = Nil /\ ReversedHead' = Nil
    BY <1>2, <1>3, <1>4, <2>2 DEF HeadsOfOwner
  <2>4. StackHead = Nil /\ StackHead' = Nil
    BY <1>7, <2>1 DEF StackHead
  <2>5. Listed' /\ UNCHANGED WaitQueue
    BY <1>3, <1>5, <1>6, <2>3, <2>4, Unmoved
  <2>6. WaitQueue = <<>>
    <3>1. PICK a \in Seq(Proc), b \in Seq(Proc), c \in Seq(Proc) : Lists(a, b, c)
      BY DEF Listed
    <3>2. a = <<>> /\ b = <<>> /\ c = <<>>
      BY <1>5, <2>4, <3>1, EmptyChain DEF Lists
    <3> QED
      BY <3>1, <3>2, QueueIs, LineEmpty DEF QueueIsLine
  <2> QED
    BY <1>5, <2>3, <2>5, <2>6 DEF Lock!Release
<1>8. CASE m_state # Nil
  <2>1. m_state' = m_state /\ pc' = [pc EXCEPT ![p] = "steal"]
    BY <1>8 DEF UnlockRelease
  <2>2. pc'[p] = "steal"
    BY <1>1, <2>1 DEF TypeOK
  <2>3. Owner' = p /\ OrderedHead' = Nil /\ ReversedHead' = Nil
    BY <1>2, <1>3, <1>4, <2>2 DEF HeadsOfOwner, Owning
  <2>4. UNCHANGED StackHead
    BY <2>1 DEF StackHead
  <2>5. Listed' /\ UNCHANGED WaitQueue
    BY <1>3, <1>5, <1>6, <2>3, <2>4, Unmoved
  <2> QED
    BY <1>5, <2>3, <2>5 DEF Lock!vars
<1> QED
  BY <1>7, <1>8

(* The stack becomes the part to reverse.                                  *)
LEMMA StealMaps ==
  ASSUME Inv, Inv', Listed, NEW p \in Proc, UnlockSteal(p)
  PROVE  Listed' /\ UNCHANGED Lock!vars
<1> USE WordsDistinct
<1>1. TypeOK /\ ReverseSafe /\ Assertions
  BY DEF Inv
<1>2. HeadsOfOwner /\ HeadsOfOwner'
  BY HeadsAre, HeadsAreNext
<1>3. /\ pc[p] = "steal" /\ pc'[p] = "reverse"
      /\ next'[p] = m_state /\ m_state' = Nil
      /\ UNCHANGED <<m_waiters, m_next, waitersHead>>
  BY <1>1 DEF UnlockSteal, TypeOK
<1>4. m_waiters = Nil /\ waitersHead[p] = Nil /\ m_state # NotLocked
  BY <1>1, <1>3 DEF ReverseSafe, Assertions
<1>5. Owner = p /\ OrderedHead = Nil /\ ReversedHead = Nil /\ StackHead = m_state
  BY <1>2, <1>3, <1>4 DEF HeadsOfOwner, Owning, StackHead
<1>6. Owner' = p /\ OrderedHead' = Nil /\ ReversedHead' = m_state /\ StackHead' = Nil
  BY <1>2, <1>3, <1>4 DEF HeadsOfOwner, Owning, StackHead
<1>7. PICK a \in Seq(Proc), b \in Seq(Proc), c \in Seq(Proc) : Lists(a, b, c)
  BY DEF Listed
<1>8. a = <<>> /\ b = <<>>
  BY <1>5, <1>7, EmptyChain DEF Lists
<1>9. \A v \in ToSet(c) : pc'[v] = "waiting"
  BY <1>1, <1>3, <1>7, Members DEF UnlockSteal, Lists, TypeOK
<1>10. ToSet(<<>>) = {}
  BY DEF ToSet
<1>11. Lists(a, c, b)'
  BY <1>3, <1>5, <1>6, <1>7, <1>8, <1>9, <1>10 DEF Lists
<1>12. WaitQueue = Line(a, b, c) /\ WaitQueue' = Line(a, c, b)
  BY <1>7, <1>11, QueueIs, QueueIsNext DEF QueueIsLine
<1>13. UNCHANGED WaitQueue
  BY <1>8, <1>12, LineSteal
<1> QED
  BY <1>5, <1>6, <1>11, <1>13 DEF Listed, Lock!vars

(* A turn of the loop moves the newest of the part to reverse to the front *)
(* of the owner's list.                                                    *)
LEMMA ReverseMaps ==
  ASSUME Inv, Inv', Listed, NEW p \in Proc, UnlockReverse(p)
  PROVE  Listed' /\ UNCHANGED Lock!vars
<1> USE WordsDistinct
<1>1. TypeOK /\ ReverseSafe
  BY DEF Inv
<1>2. HeadsOfOwner /\ HeadsOfOwner'
  BY HeadsAre, HeadsAreNext
<1>3. PICK n \in Proc : n = next[p]
  BY <1>1 DEF UnlockReverse, ReverseSafe, TypeOK, Ptr
<1>4. /\ pc[p] = "reverse"
      /\ m_next' = [m_next EXCEPT ![n] = waitersHead[p]]
      /\ waitersHead'[p] = n
      /\ next'[p] = m_next[n]
      /\ pc' = [pc EXCEPT ![p] = IF m_next[n] = Nil THEN "handoff" ELSE "reverse"]
      /\ UNCHANGED <<m_state, m_waiters>>
  BY <1>1, <1>3 DEF UnlockReverse, TypeOK
<1>5. pc'[p] = IF m_next[n] = Nil THEN "handoff" ELSE "reverse"
  BY <1>1, <1>4 DEF TypeOK
<1>6. Owner = p /\ OrderedHead = waitersHead[p] /\ ReversedHead = n
  BY <1>2, <1>3, <1>4 DEF HeadsOfOwner, Owning
<1>7. Owner' = p /\ OrderedHead' = n /\ ReversedHead' = m_next[n]
  BY <1>2, <1>4, <1>5 DEF HeadsOfOwner, Owning
<1>8. UNCHANGED StackHead
  BY <1>4 DEF StackHead
<1>9. PICK a \in Seq(Proc), b \in Seq(Proc), c \in Seq(Proc) : Lists(a, b, c)
  BY DEF Listed
<1> DEFINE d == <<n>> \o a
           r == Tail(b)
<1>10. /\ b # <<>> /\ n = b[1] /\ IsChain(m_next, r, m_next[n])
       /\ r \in Seq(Proc) /\ b = <<n>> \o r
       /\ Injective(r) /\ ToSet(r) = ToSet(b) \ {n} /\ n \in ToSet(b)
  <2>1. b # <<>> /\ n = b[1] /\ IsChain(m_next, r, m_next[n])
    BY <1>6, <1>9, TailChain DEF Lists
  <2>2. r \in Seq(Proc) /\ b = <<n>> \o r
    BY <2>1, ConsTail
  <2>3. Injective(r) /\ ToSet(r) = ToSet(b) \ {n} /\ n \in ToSet(b)
    BY <1>9, <2>1, TailMembers DEF Lists
  <2> QED
    BY <2>1, <2>2, <2>3
<1>11. n \notin ToSet(a) /\ n \notin ToSet(c) /\ n \notin ToSet(r)
  BY <1>9, <1>10 DEF Lists
<1>12. m_next'[n] = waitersHead[p] /\ \A v \in Proc \ {n} : m_next'[v] = m_next[v]
  BY <1>1, <1>4 DEF TypeOK
<1> HIDE DEF r
<1>13. /\ IsChain(m_next', a, waitersHead[p])
       /\ IsChain(m_next', r, m_next[n])
       /\ IsChain(m_next', c, StackHead')
  <2>1. \A v \in ToSet(a) \cup ToSet(c) \cup ToSet(r) : m_next'[v] = m_next[v]
    BY <1>10, <1>11, <1>12, Members
  <2>2. /\ IsChain(m_next, a, waitersHead[p])
        /\ IsChain(m_next, c, StackHead')
    BY <1>6, <1>8, <1>9 DEF Lists
  <2>3. IsChain(m_next', a, waitersHead[p])
    BY <2>1, <2>2, ChainFrame
  <2>4. IsChain(m_next', r, m_next[n])
    BY <1>10, <2>1, ChainFrame
  <2>5. IsChain(m_next', c, StackHead')
    BY <2>1, <2>2, ChainFrame
  <2> QED
    BY <2>3, <2>4, <2>5
<1>14. /\ IsChain(m_next', d, n)
       /\ d \in Seq(Proc)
       /\ ToSet(d) = {n} \cup ToSet(a)
       /\ Injective(d)
  BY <1>9, <1>11, <1>12, <1>13, ConsChain DEF Lists
<1>15. Line(d, r, c) = Line(a, b, c)
  BY <1>9, <1>10, LineReverse
<1> HIDE DEF d
<1>16. \A v \in ToSet(a) \cup ToSet(b) \cup ToSet(c) : pc'[v] = "waiting"
  BY <1>1, <1>4, <1>9, Members DEF Lists, TypeOK
<1>17. Lists(d, r, c)'
  BY <1>7, <1>9, <1>10, <1>11, <1>13, <1>14, <1>16 DEF Lists
<1>18. WaitQueue = Line(a, b, c) /\ WaitQueue' = Line(d, r, c)
  BY <1>9, <1>10, <1>14, <1>17, QueueIs, QueueIsNext DEF QueueIsLine
<1> QED
  BY <1>6, <1>7, <1>10, <1>14, <1>15, <1>17, <1>18 DEF Listed, Lock!vars

(* The coroutine that unlock() resumes is the first of the queue.          *)
LEMMA HandoffMaps ==
  ASSUME Inv, Inv', Listed, NEW p \in Proc, UnlockHandoff(p)
  PROVE  Listed' /\ Lock!HandOver(p)
<1> USE WordsDistinct
<1>1. TypeOK /\ Assertions
  BY DEF Inv
<1>2. HeadsOfOwner /\ HeadsOfOwner'
  BY HeadsAre, HeadsAreNext
<1> DEFINE w == waitersHead[p]
<1>3. /\ pc[p] = "handoff"
      /\ m_waiters' = m_next[w]
      /\ pc' = [pc EXCEPT ![p] = "resuming", ![w] = "holding"]
      /\ m_next' = [m_next EXCEPT ![w] = Nil]
      /\ m_state' = m_state
  BY DEF UnlockHandoff
<1>4. w \in Proc
  BY <1>1, <1>3 DEF Assertions, TypeOK, Ptr
<1>5. Owner = p /\ OrderedHead = w /\ ReversedHead = Nil
  BY <1>2, <1>3 DEF HeadsOfOwner, Owning
<1>6. pc'[w] = "holding"
  BY <1>1, <1>3, <1>4 DEF TypeOK
<1>7. Owner' = w /\ OrderedHead' = m_next[w] /\ ReversedHead' = Nil
  BY <1>2, <1>3, <1>4, <1>6 DEF HeadsOfOwner, Owning
<1>8. UNCHANGED StackHead
  BY <1>3 DEF StackHead
<1>9. PICK a \in Seq(Proc), b \in Seq(Proc), c \in Seq(Proc) : Lists(a, b, c)
  BY DEF Listed
<1>10. b = <<>>
  BY <1>5, <1>9, EmptyChain DEF Lists
<1> DEFINE r == Tail(a)
<1>11. /\ a # <<>> /\ w = a[1] /\ IsChain(m_next, r, m_next[w])
       /\ r \in Seq(Proc)
       /\ Injective(r) /\ ToSet(r) = ToSet(a) \ {w} /\ w \in ToSet(a)
  <2>1. a # <<>> /\ w = a[1] /\ IsChain(m_next, r, m_next[w])
    BY <1>4, <1>5, <1>9, TailChain DEF Lists
  <2>2. r \in Seq(Proc)
    BY <2>1, ConsTail
  <2>3. Injective(r) /\ ToSet(r) = ToSet(a) \ {w} /\ w \in ToSet(a)
    BY <1>9, <2>1, TailMembers DEF Lists
  <2> QED
    BY <2>1, <2>2, <2>3
<1>12. /\ Line(a, <<>>, c) # <<>>
       /\ Head(Line(a, <<>>, c)) = w
       /\ Tail(Line(a, <<>>, c)) = Line(r, <<>>, c)
  BY <1>11, LineHandoff
<1>13. w \notin ToSet(c) /\ w \notin ToSet(r)
  BY <1>9, <1>11 DEF Lists
<1>14. \A v \in Proc \ {w} : m_next'[v] = m_next[v]
  BY <1>1, <1>3 DEF TypeOK
<1> HIDE DEF w, r
<1>15. IsChain(m_next', r, m_next[w]) /\ IsChain(m_next', c, StackHead')
  <2>1. \A v \in ToSet(c) \cup ToSet(r) : m_next'[v] = m_next[v]
    BY <1>11, <1>13, <1>14, Members
  <2>2. IsChain(m_next, c, StackHead')
    BY <1>8, <1>9 DEF Lists
  <2>3. IsChain(m_next', c, StackHead')
    BY <2>1, <2>2, ChainFrame
  <2>4. IsChain(m_next', r, m_next[w])
    BY <1>11, <2>1, ChainFrame
  <2> QED
    BY <2>3, <2>4
<1>16. \A v \in ToSet(r) \cup ToSet(c) : pc'[v] = "waiting"
  <2>1. \A v \in ToSet(r) \cup ToSet(c) : v \in Proc /\ v # w /\ pc[v] = "waiting"
    BY <1>9, <1>11, <1>13, Members DEF Lists
  <2> QED
    BY <1>1, <1>3, <2>1 DEF TypeOK
<1>17. ToSet(<<>>) = {} /\ <<>> \in Seq(Proc) /\ Injective(<<>>)
  BY <1>9, <1>10, EmptySeq DEF ToSet, Lists
<1>18. Lists(r, <<>>, c)'
  BY <1>7, <1>9, <1>11, <1>15, <1>16, <1>17, NilChain DEF Lists
<1>19. WaitQueue = Line(a, <<>>, c) /\ WaitQueue' = Line(r, <<>>, c)
  BY <1>9, <1>10, <1>11, <1>17, <1>18, QueueIs, QueueIsNext DEF QueueIsLine
<1> QED
  BY <1>5, <1>7, <1>11, <1>12, <1>17, <1>18, <1>19 DEF Listed, Lock!HandOver

LEMMA StepMaps ==
  ASSUME Inv, Inv', Listed, [Next]_vars
  PROVE  Listed' /\ [Lock!Next]_(Lock!vars)
<1>1. CASE UNCHANGED vars
  <2>1. UNCHANGED <<m_waiters, m_next, Owner, OrderedHead, ReversedHead, StackHead>>
    BY <1>1 DEF vars, Owner, OrderedHead, ReversedHead, StackHead
  <2>2. Listed' /\ UNCHANGED WaitQueue
    BY <1>1, <2>1, Unmoved DEF vars
  <2> QED
    BY <2>1, <2>2 DEF Lock!vars
<1>2. CASE Next
  <2> PICK p \in Proc : Step(p)
    BY <1>2 DEF Next
  <2>1. CASE Leave(p) \/ LockLoad(p) \/ LockRetry(p)
    BY <2>1, AsideMaps
  <2>2. CASE TryLock(p) \/ LockAcquire(p)
    BY <2>2, AcquireMaps DEF Lock!Next
  <2>3. CASE LockPush(p)
    BY <2>3, PushMaps DEF Lock!Next
  <2>4. CASE Unlock(p)
    BY <2>4, UnlockMaps
  <2>5. CASE UnlockRelease(p)
    BY <2>5, ReleaseMaps DEF Lock!Next
  <2>6. CASE UnlockSteal(p)
    BY <2>6, StealMaps
  <2>7. CASE UnlockReverse(p)
    BY <2>7, ReverseMaps
  <2>8. CASE UnlockHandoff(p)
    BY <2>8, HandoffMaps DEF Lock!Next
  <2> QED
    BY <2>1, <2>2, <2>3, <2>4, <2>5, <2>6, <2>7, <2>8 DEF Step, UnlockStep
<1> QED
  BY <1>1, <1>2

LEMMA InitMaps == Init => Lock!Init
<1> SUFFICES ASSUME Init PROVE Lock!Init
  OBVIOUS
<1>1. Inv /\ HeadsOfOwner
  BY InitInv, HeadsAre
<1>2. Owner = Nil /\ OrderedHead = Nil /\ ReversedHead = Nil /\ StackHead = Nil
  BY <1>1 DEF HeadsOfOwner, Init, Owning, StackHead
<1>3. PICK a \in Seq(Proc), b \in Seq(Proc), c \in Seq(Proc) : Lists(a, b, c)
  BY InitListed DEF Listed
<1>4. a = <<>> /\ b = <<>> /\ c = <<>>
  BY <1>2, <1>3, EmptyChain DEF Lists
<1> QED
  BY <1>1, <1>2, <1>3, <1>4, QueueIs, LineEmpty DEF QueueIsLine, Lock!Init

(* The mutex is a first come first served lock, whoever pushes while the   *)
(* owner takes the stack, reverses it or hands over: the safety of         *)
(* ImplementsFairFifoLock, for any number of coroutines.                   *)
THEOREM FirstComeFirstServed == Spec => Lock!SafeSpec
<1>1. Init => Listed /\ Lock!Init
  BY InitListed, InitMaps
<1>2. Inv /\ Inv' /\ Listed /\ [Next]_vars => Listed' /\ [Lock!Next]_(Lock!vars)
  BY StepMaps
<1> QED
  BY <1>1, <1>2, Invariance, PTL DEF Spec, Lock!SafeSpec

-----------------------------------------------------------------------------
(* No wakeup is lost. *)

(* The coroutines that are suspended in lock_async are those that an       *)
(* unlock() will find, through the stack, its reversal or m_waiters, and   *)
(* while there is one somebody owns the lock and has that unlock() before  *)
(* him (async.h 1087-1129).                                                *)
WaitersQueued ==
  /\ \A p \in Proc : pc[p] = "waiting" <=> p \in ToSet(WaitQueue)
  /\ WaitQueue # <<>> => Owner # Nil

QueueSuspended ==
  WaitQueue \in Seq(Proc) /\ \A p \in ToSet(WaitQueue) : pc[p] = "waiting"

LEMMA QueueTyped == Inv /\ Listed => QueueSuspended
<1> SUFFICES ASSUME Inv, Listed PROVE QueueSuspended
  OBVIOUS
<1>1. PICK a \in Seq(Proc), b \in Seq(Proc), c \in Seq(Proc) : Lists(a, b, c)
  BY DEF Listed
<1>2. WaitQueue = Line(a, b, c)
  BY <1>1, QueueIs DEF QueueIsLine
<1> QED
  BY <1>1, <1>2, LineSeq DEF Lists, QueueSuspended

LEMMA QueueTypedNext == Inv' /\ Listed' => QueueSuspended'
  BY QueueTyped, PTL

(* A step that suspends nobody and leaves the queue alone. *)
LEMMA QueueHolds ==
  ASSUME WaitersQueued, WaitQueue' = WaitQueue,
         \A q \in Proc : pc'[q] = "waiting" => pc[q] = "waiting"
  PROVE  \A q \in Proc : pc'[q] = "waiting" => q \in ToSet(WaitQueue)'
BY DEF WaitersQueued

LEMMA SuspendedListed ==
  ASSUME Inv, Inv', Listed, WaitersQueued, [Next]_vars
  PROVE  \A q \in Proc : pc'[q] = "waiting" => q \in ToSet(WaitQueue)'
<1> USE WordsDistinct
<1>1. TypeOK /\ WaitQueue \in Seq(Proc) /\ Len(WaitQueue) \in Nat
  BY QueueTyped, LenProperties DEF Inv, QueueSuspended
<1>2. CASE UNCHANGED vars
  <2>1. UNCHANGED <<m_waiters, m_next, Owner, OrderedHead, ReversedHead, StackHead>>
    BY <1>2 DEF vars, Owner, OrderedHead, ReversedHead, StackHead
  <2>2. UNCHANGED WaitQueue
    BY <1>2, <2>1, Unmoved DEF vars
  <2> QED
    BY <1>2, <2>2, QueueHolds DEF vars
<1>3. CASE Next
  <2> PICK p \in Proc : Step(p)
    BY <1>3 DEF Next
  <2>1. CASE Leave(p) \/ LockLoad(p) \/ LockRetry(p)
    <3>1. UNCHANGED WaitQueue
      BY <2>1, AsideMaps DEF Lock!vars
    <3>2. \A q \in Proc : pc'[q] = "waiting" => pc[q] = "waiting"
      BY <1>1, <2>1 DEF Leave, GiveBackThread, LockLoad, LockRetry, TypeOK
    <3> QED
      BY <3>1, <3>2, QueueHolds
  <2>2. CASE TryLock(p) \/ LockAcquire(p)
    <3>1. UNCHANGED WaitQueue
      BY <2>2, AcquireMaps DEF Lock!Acquire
    <3>2. \A q \in Proc : pc'[q] = "waiting" => pc[q] = "waiting"
      BY <1>1, <2>2 DEF TryLock, LockAcquire, TypeOK
    <3> QED
      BY <3>1, <3>2, QueueHolds
  <2>3. CASE LockPush(p)
    <3>1. WaitQueue' = Append(WaitQueue, p)
      BY <2>3, PushMaps DEF Lock!Enqueue
    <3>2. \A q \in Proc : pc'[q] = "waiting" => q = p \/ pc[q] = "waiting"
      BY <2>3 DEF LockPush, GiveBackThread
    <3>3. ASSUME NEW q \in ToSet(WaitQueue) \cup {p} PROVE q \in ToSet(WaitQueue)'
      <4>1. /\ Len(WaitQueue') = Len(WaitQueue) + 1 /\ WaitQueue' \in Seq(Proc)
            /\ \A i \in 1 .. Len(WaitQueue) : WaitQueue'[i] = WaitQueue[i]
            /\ WaitQueue'[Len(WaitQueue) + 1] = p
        BY <1>1, <3>1, AppendProperties
      <4>2. \E i \in 1 .. Len(WaitQueue) + 1 : WaitQueue'[i] = q
        <5>1. CASE q = p
          BY <1>1, <4>1, <5>1
        <5>2. CASE q \in ToSet(WaitQueue)
          BY <1>1, <4>1, <5>2, Members
        <5> QED
          BY <5>1, <5>2
      <4>3. DOMAIN WaitQueue' = 1 .. Len(WaitQueue) + 1
        BY <4>1
      <4> QED
        BY <4>2, <4>3 DEF ToSet
    <3> QED
      BY <3>2, <3>3 DEF WaitersQueued
  <2>4. CASE UnlockHandoff(p)
    <3> DEFINE w == waitersHead[p]
    <3>1. w \in Proc /\ pc' = [pc EXCEPT ![p] = "resuming", ![w] = "holding"]
      BY <1>1, <2>4 DEF UnlockHandoff, Inv, Assertions, TypeOK, Ptr
    <3>2. WaitQueue # <<>> /\ Owner' = Head(WaitQueue) /\ WaitQueue' = Tail(WaitQueue)
      BY <2>4, HandoffMaps DEF Lock!HandOver
    <3> HIDE DEF w
    <3>3. pc'[w] = "holding"
      BY <1>1, <3>1 DEF TypeOK
    <3>4. Head(WaitQueue) = w
      BY <3>1, <3>2, <3>3, HeadsAreNext DEF HeadsOfOwner, Owning
    <3>5. ASSUME NEW q \in ToSet(WaitQueue), q # w PROVE q \in ToSet(WaitQueue)'
      <4>1. PICK i \in 1 .. Len(WaitQueue) : WaitQueue[i] = q
        BY <1>1, Members
      <4>2. i # 1
        BY <3>2, <3>4, <3>5, <4>1
      <4>3. /\ Len(WaitQueue') = Len(WaitQueue) - 1 /\ WaitQueue' \in Seq(Proc)
            /\ \A j \in 1 .. Len(WaitQueue') : WaitQueue'[j] = WaitQueue[j + 1]
        BY <1>1, <3>2, HeadTailProperties
      <4>4. i - 1 \in 1 .. Len(WaitQueue') /\ WaitQueue'[i - 1] = q
        BY <1>1, <4>1, <4>2, <4>3
      <4>5. DOMAIN WaitQueue' = 1 .. Len(WaitQueue')
        BY <4>3
      <4> QED
        BY <4>4, <4>5 DEF ToSet
    <3>6. \A q \in Proc : pc'[q] = "waiting" => q # w /\ pc[q] = "waiting"
      BY <1>1, <3>1, <3>3 DEF TypeOK
    <3> QED
      BY <3>5, <3>6 DEF WaitersQueued
  <2>5. CASE Unlock(p) \/ UnlockRelease(p) \/ UnlockSteal(p) \/ UnlockReverse(p)
    <3>1. UNCHANGED WaitQueue
      BY <2>5, UnlockMaps, ReleaseMaps, StealMaps, ReverseMaps DEF Lock!vars, Lock!Release
    <3>2. \A q \in Proc : pc'[q] = "waiting" => pc[q] = "waiting"
      BY <1>1, <2>5 DEF Unlock, UnlockRelease, UnlockSteal, UnlockReverse, TypeOK
    <3> QED
      BY <3>1, <3>2, QueueHolds
  <2> QED
    BY <2>1, <2>2, <2>3, <2>4, <2>5 DEF Step, UnlockStep
<1> QED
  BY <1>2, <1>3

LEMMA WaitersQueuedStep ==
  Inv /\ Inv' /\ Listed /\ WaitersQueued /\ [Next]_vars => WaitersQueued'
<1> SUFFICES ASSUME Inv, Inv', Listed, WaitersQueued, [Next]_vars PROVE WaitersQueued'
  OBVIOUS
<1>1. Listed' /\ [Lock!Next]_(Lock!vars)
  BY StepMaps
<1>2. \A q \in Proc : pc'[q] = "waiting" <=> q \in ToSet(WaitQueue)'
  BY <1>1, SuspendedListed, QueueTypedNext, Members DEF QueueSuspended
<1>3. WaitQueue' # <<>> => Owner' # Nil
  <2>1. WaitQueue \in Seq(Proc) /\ (WaitQueue # <<>> => Owner # Nil)
    BY QueueTyped DEF WaitersQueued, QueueSuspended
  <2>2. CASE UNCHANGED Lock!vars
    BY <2>1, <2>2 DEF Lock!vars
  <2>3. ASSUME NEW p \in Proc, Lock!Acquire(p) \/ Lock!Enqueue(p) \/ Lock!Release(p)
        PROVE  WaitQueue' # <<>> => Owner' # Nil
    BY <2>1, <2>3, WordsDistinct DEF Lock!Acquire, Lock!Enqueue, Lock!Release
  <2>4. ASSUME NEW p \in Proc, Lock!HandOver(p) PROVE Owner' # Nil
    <3>1. WaitQueue # <<>> /\ Owner' = Head(WaitQueue)
      BY <2>4 DEF Lock!HandOver
    <3>2. Head(WaitQueue) \in Proc
      BY <2>1, <3>1, HeadTailProperties
    <3> QED
      BY <3>1, <3>2, WordsDistinct
  <2> QED
    BY <1>1, <2>2, <2>3, <2>4 DEF Lock!Next
<1> QED
  BY <1>2, <1>3 DEF WaitersQueued

(* Whoever is suspended in lock_async, however its push raced the owner's  *)
(* unlock(), is on the way to be resumed: none is dropped from the lists,  *)
(* and none stays behind on a free lock (async.h 1087-1129).               *)
THEOREM NoWakeupLost == Spec => []WaitersQueued
<1>1. Init => WaitersQueued
  <2> SUFFICES ASSUME Init PROVE WaitersQueued
    OBVIOUS
  <2>1. WaitQueue = <<>> /\ \A p \in Proc : pc[p] # "waiting"
    BY InitMaps DEF Lock!Init, Init
  <2>2. ToSet(<<>>) = {}
    BY DEF ToSet
  <2> QED
    BY <2>1, <2>2 DEF WaitersQueued
<1>2. Init => Listed
  BY InitListed
<1>3. Inv /\ Inv' /\ Listed /\ [Next]_vars => Listed'
  BY StepMaps
<1> QED
  BY <1>1, <1>2, <1>3, WaitersQueuedStep, Invariance, PTL DEF Spec

=============================================================================
