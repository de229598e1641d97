-------------------------- MODULE AsyncTaskProofs --------------------------
(***************************************************************************)
(* Proofs about AsyncTask, for call chains of any depth.                   *)
(*                                                                         *)
(* The invariant describes every link of the chain, a task and its         *)
(* awaiter, by itself: at rest, or in one of the three phases of a call.   *)
(* A step of coroutine i touches the link to its child and the link to its *)
(* awaiter, no other.                                                      *)
(***************************************************************************)
EXTENDS AsyncTaskMC, TLAPS

(* The awaiter may use the task.                                           *)
AtRest(i) ==
  /\ co[i - 1] # "awaiting"
  /\ starter[i] = "none" /\ finisher[i] = "none" /\ ~ nested[i]
  /\ co[i] \in {"none", "initial", "final"}
  /\ co[i - 1] \in {"none", "initial", "final"} => co[i] = "none"
  /\ co[i] = "initial" => ~ m_state[i] /\ result[i] = "none"
  /\ co[i] = "final" => m_state[i] /\ result[i] # "none"

(* Inside the first resume(): nobody has reached m_state.                  *)
Starting(i) ==
  /\ co[i - 1] = "awaiting"
  /\ starter[i] = "resuming" /\ nested[i]
  /\ ~ m_state[i]
  /\ finisher[i] \in {"none", "exchange"}
  /\ co[i] \in {"running", "awaiting", "final"}
  /\ co[i] = "final" <=> finisher[i] = "exchange"
  /\ co[i] = "final" => result[i] # "none"

(* The starter is about to meet the end of the task.                       *)
Meeting(i) ==
  /\ co[i - 1] = "awaiting"
  /\ starter[i] \in {"store", "exchange"} /\ ~ nested[i]
  /\ starter[i] = "exchange" => m_continuation[i] = i - 1
  /\ finisher[i] \in {"none", "exchange"}
  /\ co[i] \in {"running", "awaiting", "event", "final"}
  /\ finisher[i] = "exchange" => co[i] = "final"
  /\ m_state[i] <=> co[i] = "final" /\ finisher[i] = "none"
  /\ co[i] = "final" => result[i] # "none"

(* The awaiter is suspended and registered.                                *)
Registered(i) ==
  /\ co[i - 1] = "awaiting"
  /\ starter[i] = "none" /\ ~ nested[i]
  /\ m_state[i] /\ m_continuation[i] = i - 1
  /\ co[i] \in {"running", "awaiting", "event", "final"}
  /\ co[i] = "final" <=> finisher[i] # "none"
  /\ co[i] = "final" => result[i] # "none"

Link(i) == AtRest(i) \/ Starting(i) \/ Meeting(i) \/ Registered(i)

(* The coroutine nobody awaits does not end here, and the innermost one    *)
(* awaits nothing.                                                         *)
Inv ==
  /\ TypeOK
  /\ co[0] \in {"running", "event", "awaiting"}
  /\ co[Depth] # "awaiting"
  /\ \A i \in Tasks : Link(i)

USE DepthAssumption DEF Tasks, Coroutines

LEMMA InitInv == Init => Inv
<1> SUFFICES ASSUME Init PROVE Inv
  OBVIOUS
<1>1. TypeOK
  BY DEF Init, TypeOK
<1>2. \A i \in Tasks : AtRest(i)
  BY DEF Init, AtRest
<1>3. QED
  BY <1>1, <1>2 DEF Init, Inv, Link

LEMMA NextInv == Inv /\ [Next]_vars => Inv'
<1> SUFFICES ASSUME Inv, [Next]_vars PROVE Inv'
  OBVIOUS
<1> USE DEF promise
<1>t. TypeOK /\ \A i \in Tasks : Link(i)
  BY DEF Inv
<1>1. ASSUME NEW i \in Tasks, Create(i) PROVE Inv'
  <2>1. TypeOK'
    BY <1>1, <1>t DEF Create, TypeOK
  <2>2. AtRest(i)'
    BY <1>1, <1>t DEF Create, TypeOK, Link, AtRest, Starting, Meeting, Registered
  <2>3. ASSUME NEW j \in Tasks, j # i PROVE Link(j)'
    BY <1>1, <1>t, <2>3 DEF Create, TypeOK, Link, AtRest, Starting, Meeting, Registered
  <2>4. QED
    BY <1>1, <1>t, <2>1, <2>2, <2>3 DEF Create, TypeOK, Inv, Link
<1>2. ASSUME NEW i \in Tasks, Destroy(i) PROVE Inv'
  <2>1. TypeOK'
    BY <1>2, <1>t DEF Destroy, TypeOK
  <2>2. AtRest(i)'
    BY <1>2, <1>t DEF Destroy, TypeOK, Link, AtRest, Starting, Meeting, Registered
  <2>3. ASSUME NEW j \in Tasks, j # i PROVE Link(j)'
    <3>1. CASE j = i + 1
      BY <1>2, <1>t, <3>1 DEF Destroy, TypeOK, Link, AtRest, Starting, Meeting, Registered
    <3>2. CASE j # i + 1
      <4>1. co'[j] = co[j] /\ co'[j - 1] = co[j - 1]
        BY <1>2, <1>t, <2>3, <3>2 DEF Destroy, TypeOK
      <4>2. QED
        BY <1>2, <1>t, <4>1 DEF Destroy, Link, AtRest, Starting, Meeting, Registered
    <3>3. QED
      BY <3>1, <3>2
  <2>4. QED
    BY <1>2, <1>t, <2>1, <2>2, <2>3 DEF Destroy, TypeOK, Inv, Link
<1>3. ASSUME NEW i \in Tasks, Start(i) PROVE Inv'
  <2>1. TypeOK'
    BY <1>3, <1>t DEF Start, TypeOK
  <2>2. Starting(i)'
    BY <1>3, <1>t DEF Start, TypeOK, Link, AtRest, Starting, Meeting, Registered
  <2>3. ASSUME NEW j \in Tasks, j # i PROVE Link(j)'
    <3>1. /\ co[i - 1] = "running" /\ co[i] = "initial"
          /\ co' = [co EXCEPT ![i - 1] = "awaiting", ![i] = "running"]
      BY <1>3 DEF Start
    <3>2. UNCHANGED <<m_state, m_continuation, result, finisher>>
      BY <1>3 DEF Start
    <3>3. starter'[j] = starter[j] /\ (nested'[j] <=> nested[j])
      BY <1>3, <1>t, <2>3 DEF Start, TypeOK
    <3>4. CASE j = i - 1
      <4>1. co[j] = "running" /\ co'[j] = "awaiting"
        BY <1>t, <3>1, <3>4 DEF TypeOK
      <4>2. co'[j - 1] = co[j - 1]
        BY <1>t, <3>1, <3>4 DEF TypeOK
      <4>3. Starting(j) \/ Meeting(j) \/ Registered(j)
        BY <1>t, <4>1 DEF Link, AtRest
      <4>4. QED
        BY <3>2, <3>3, <4>1, <4>2, <4>3 DEF Link, Starting, Meeting, Registered
    <3>5. CASE j = i + 1
      <4>1. j - 1 = i
        BY <3>5
      <4>2. co[j - 1] = "initial" /\ co'[j - 1] = "running"
        BY <1>t, <3>1, <4>1 DEF TypeOK
      <4>3. co'[j] = co[j]
        BY <1>t, <3>1, <4>1 DEF TypeOK
      <4>4. AtRest(j)
        BY <1>t, <4>2 DEF Link, Starting, Meeting, Registered
      <4>5. QED
        BY <3>2, <3>3, <4>2, <4>3, <4>4 DEF Link, AtRest
    <3>6. CASE j # i - 1 /\ j # i + 1
      <4>1. co'[j] = co[j]
        BY <1>t, <2>3, <3>1, <3>6 DEF TypeOK
      <4>2. co'[j - 1] = co[j - 1]
        BY <1>t, <2>3, <3>1, <3>6 DEF TypeOK
      <4>3. QED
        BY <1>t, <3>2, <3>3, <4>1, <4>2 DEF Link, AtRest, Starting, Meeting, Registered
    <3>7. QED
      BY <3>4, <3>5, <3>6
  <2>4. co'[0] \in {"running", "event", "awaiting"} /\ co'[Depth] # "awaiting"
    BY <1>3, <1>t DEF Start, TypeOK, Inv
  <2>5. \A j \in Tasks : Link(j)'
    BY <2>2, <2>3 DEF Link
  <2>6. QED
    BY <2>1, <2>4, <2>5 DEF Inv
<1>4. ASSUME NEW i \in Tasks, Return(i) PROVE Inv'
  <2>1. TypeOK'
    BY <1>4, <1>t DEF Return, TypeOK
  <2>2. ASSUME NEW j \in Tasks PROVE Link(j)'
    BY <1>4, <1>t DEF Return, TypeOK, Link, AtRest, Starting, Meeting, Registered
  <2>3. QED
    BY <1>4, <1>t, <2>1, <2>2 DEF Return, TypeOK, Inv
<1>5. ASSUME NEW i \in Tasks, FinishExchange(i) PROVE Inv'
  <2>1. TypeOK'
    BY <1>5, <1>t DEF FinishExchange, GiveBackThread, TypeOK
  <2>2. ASSUME NEW j \in Tasks PROVE Link(j)'
    BY <1>5, <1>t DEF FinishExchange, GiveBackThread, TypeOK, Link, AtRest, Starting, Meeting, Registered
  <2>3. QED
    BY <1>5, <1>t, <2>1, <2>2 DEF FinishExchange, TypeOK, Inv
<1>6. ASSUME NEW i \in Tasks, FinishResume(i) PROVE Inv'
  <2>1. Registered(i) /\ co[i] = "final" /\ m_continuation[i] = i - 1
    BY <1>6, <1>t DEF FinishResume, Link, AtRest, Starting, Meeting, Registered
  <2>2. TypeOK'
    BY <1>6, <1>t, <2>1 DEF FinishResume, TypeOK
  <2>3. ASSUME NEW j \in Tasks PROVE Link(j)'
    BY <1>6, <1>t, <2>1 DEF FinishResume, TypeOK, Link, AtRest, Starting, Meeting, Registered
  <2>4. QED
    BY <1>6, <1>t, <2>1, <2>2, <2>3 DEF FinishResume, TypeOK, Inv
<1>7. ASSUME NEW i \in Tasks, StarterStore(i) PROVE Inv'
  <2>1. TypeOK'
    BY <1>7, <1>t DEF StarterStore, TypeOK
  <2>2. ASSUME NEW j \in Tasks PROVE Link(j)'
    BY <1>7, <1>t DEF StarterStore, TypeOK, Link, AtRest, Starting, Meeting, Registered
  <2>3. QED
    BY <1>7, <1>t, <2>1, <2>2 DEF StarterStore, TypeOK, Inv
<1>8. ASSUME NEW i \in Tasks, StarterExchange(i) PROVE Inv'
  <2>1. TypeOK'
    BY <1>8, <1>t DEF StarterExchange, GiveBackThread, TypeOK
  <2>2. Meeting(i)
    BY <1>8, <1>t DEF StarterExchange, Link, AtRest, Starting, Meeting, Registered
  <2>3. CASE m_state[i]
    <3>1. ASSUME NEW j \in Tasks PROVE Link(j)'
      BY <1>8, <1>t, <2>2, <2>3
      DEF StarterExchange, TypeOK, Link, AtRest, Starting, Meeting, Registered
    <3>2. QED
      BY <1>8, <1>t, <2>1, <2>3, <3>1 DEF StarterExchange, TypeOK, Inv
  <2>4. CASE ~ m_state[i]
    <3>1. ASSUME NEW j \in Tasks PROVE Link(j)'
      BY <1>8, <1>t, <2>2, <2>4
      DEF StarterExchange, GiveBackThread, TypeOK, Link, AtRest, Starting, Meeting, Registered
    <3>2. QED
      BY <1>8, <1>t, <2>1, <2>4, <3>1 DEF StarterExchange, TypeOK, Inv
  <2>5. QED
    BY <2>3, <2>4
<1>9. ASSUME NEW i \in Coroutines, Suspend(i) PROVE Inv'
  <2>1. TypeOK'
    BY <1>9, <1>t DEF Suspend, GiveBackThread, TypeOK
  <2>2. ASSUME NEW j \in Tasks PROVE Link(j)'
    BY <1>9, <1>t DEF Suspend, GiveBackThread, TypeOK, Link, AtRest, Starting, Meeting, Registered
  <2>3. QED
    BY <1>9, <1>t, <2>1, <2>2 DEF Suspend, TypeOK, Inv
<1>10. ASSUME NEW i \in Coroutines, Resume(i) PROVE Inv'
  <2>1. TypeOK'
    BY <1>10, <1>t DEF Resume, TypeOK
  <2>2. ASSUME NEW j \in Tasks PROVE Link(j)'
    BY <1>10, <1>t DEF Resume, TypeOK, Link, AtRest, Starting, Meeting, Registered
  <2>3. QED
    BY <1>10, <1>t, <2>1, <2>2 DEF Resume, TypeOK, Inv
<1>11. CASE UNCHANGED vars
  BY <1>11 DEF vars, Inv, TypeOK, Link, AtRest, Starting, Meeting, Registered
<1>12. QED
  BY <1>1, <1>2, <1>3, <1>4, <1>5, <1>6, <1>7, <1>8, <1>9, <1>10, <1>11 DEF Next, HandshakeStep

LEMMA Invariance == Spec => []Inv
<1>1. QED
  BY InitInv, NextInv, PTL DEF Spec

(* The type invariant, for chains of any depth; in particular a            *)
(* continuation is always the coroutine that awaits the task.              *)
THEOREM TypeCorrectness == Spec => []TypeOK
<1>1. Inv => TypeOK
  BY DEF Inv
<1>2. QED
  BY <1>1, Invariance, PTL

(* The awaiter is continued by its own await_suspend or by the end of the  *)
(* child, never by both, and never through an unset continuation.          *)
THEOREM OneSideResumes == Spec => []ResumedByOneSide
<1>1. Inv => ResumedByOneSide
  BY DEF Inv, Link, AtRest, Starting, Meeting, Registered, ResumedByOneSide
<1>2. QED
  BY <1>1, Invariance, PTL

(* A coroutine that is not suspended in a co_await can destroy its child:  *)
(* no thread is in it, and its destructor destroys what was constructed.   *)
THEOREM ChildrenAtRest == Spec => []ChildAtRest
<1>1. Inv => ChildAtRest
  BY DEF Inv, Link, AtRest, Starting, Meeting, Registered, ChildAtRest, TypeOK
<1>2. QED
  BY <1>1, Invariance, PTL

(* No awaiter is forgotten.                                                *)
THEOREM NoneForgotten == Spec => []AwaiterNotForgotten
<1>1. Inv => AwaiterNotForgotten
  BY DEF Inv, Link, AtRest, Starting, Meeting, Registered, AwaiterNotForgotten
<1>2. QED
  BY <1>1, Invariance, PTL

-----------------------------------------------------------------------------
(* The call stack *)

(* Everything above coroutine k stands still, and nothing below it runs.   *)
Top(k) ==
  /\ \A j \in 0 .. k - 1 : co[j] = "awaiting"
  /\ co[k] \in {"running", "event", "final"}
  /\ \A j \in k + 1 .. Depth : co[j] \in {"none", "initial", "final"}

LEMMA InnermostOf ==
  ASSUME NEW f, NEW k \in Coroutines,
         \A j \in 0 .. k - 1 : f[j] = "awaiting", f[k] # "awaiting"
  PROVE  Max({i \in Coroutines : \A j \in 0 .. i - 1 : f[j] = "awaiting"}) = k
<1> DEFINE S == {i \in Coroutines : \A j \in 0 .. i - 1 : f[j] = "awaiting"}
<1>1. k \in S /\ \A i \in S : k >= i
  <2>1. k \in S
    OBVIOUS
  <2>2. ASSUME NEW i \in S, i > k PROVE FALSE
    <3>1. k \in 0 .. i - 1
      BY <2>2
    <3>2. QED
      BY <3>1
  <2>3. QED
    BY <2>1, <2>2
<1>2. \A m \in S : (\A i \in S : m >= i) => m = k
  BY <1>1
<1> HIDE DEF S
<1>3. Max(S) = k
  BY <1>1, <1>2 DEF Max
<1>4. QED
  BY <1>3 DEF S

LEMMA TopIsInnermost ==
  /\ \A k \in Coroutines : Top(k) => Innermost = k
  /\ \A k \in Coroutines : Top(k)' => Innermost' = k
  BY InnermostOf DEF Top, Innermost

(* One call, one end or one return at a time, or none.                     *)
LEMMA TopStep ==
  ASSUME Inv, [Next]_vars, NEW k \in Coroutines, Top(k)
  PROVE  \/ Top(k)' /\ (co'[k] = "final" <=> co[k] = "final")
         \/ k < Depth /\ co[k] # "final" /\ Top(k + 1)' /\ co'[k + 1] # "final"
         \/ k > 0 /\ co[k] # "final" /\ Top(k)' /\ co'[k] = "final"
         \/ k > 0 /\ co[k] = "final" /\ Top(k - 1)' /\ co'[k - 1] # "final"
<1> DEFINE Same == Top(k)' /\ (co'[k] = "final" <=> co[k] = "final")
           Called == k < Depth /\ co[k] # "final" /\ Top(k + 1)' /\ co'[k + 1] # "final"
           Ended == k > 0 /\ co[k] # "final" /\ Top(k)' /\ co'[k] = "final"
           Returned == k > 0 /\ co[k] = "final" /\ Top(k - 1)' /\ co'[k - 1] # "final"
<1> SUFFICES Same \/ Called \/ Ended \/ Returned
  OBVIOUS
<1>t. TypeOK /\ \A i \in Tasks : Link(i)
  BY DEF Inv
<1>r. \A i \in Coroutines : co[i] \in {"running", "event"} => i = k
  BY DEF Top
<1>a. \A i \in Tasks : co[i - 1] = "awaiting" /\ co[i] = "final" => i = k
  BY DEF Top
<1>u. co' = co => Same
  BY DEF Top
<1>1. ASSUME NEW i \in Tasks, Create(i) PROVE Same
  BY <1>1, <1>t, <1>r DEF Create, TypeOK, Top
<1>2. ASSUME NEW i \in Tasks, Destroy(i) PROVE Same
  BY <1>2, <1>t, <1>r DEF Destroy, TypeOK, Top
<1>3. ASSUME NEW i \in Tasks, Start(i) PROVE Called
  <2>1. i = k + 1
    BY <1>3, <1>t, <1>r DEF Start
  <2>2. QED
    BY <1>3, <1>t, <2>1 DEF Start, TypeOK, Top
<1>4. ASSUME NEW i \in Tasks, Return(i) PROVE Ended
  BY <1>4, <1>t, <1>r DEF Return, TypeOK, Top
<1>5. ASSUME NEW i \in Tasks, FinishResume(i) PROVE Returned
  <2>1. Registered(i) /\ co[i] = "final" /\ m_continuation[i] = i - 1
    BY <1>5, <1>t DEF FinishResume, Link, AtRest, Starting, Meeting, Registered
  <2>2. i = k
    BY <1>a, <2>1 DEF Registered
  <2>3. QED
    BY <1>5, <1>t, <2>1, <2>2 DEF FinishResume, TypeOK, Top
<1>6. ASSUME NEW i \in Tasks, StarterExchange(i) PROVE Same \/ Returned
  <2>1. Meeting(i)
    BY <1>6, <1>t DEF StarterExchange, Link, AtRest, Starting, Meeting, Registered
  <2>2. CASE m_state[i]
    <3>1. i = k /\ co[i] = "final"
      BY <1>a, <2>1, <2>2 DEF Meeting
    <3>2. QED
      BY <1>6, <1>t, <2>2, <3>1 DEF StarterExchange, TypeOK, Top
  <2>3. CASE ~ m_state[i]
    BY <1>6, <1>u, <2>3 DEF StarterExchange
  <2>4. QED
    BY <2>2, <2>3
<1>7. ASSUME NEW i \in Tasks, FinishExchange(i) \/ StarterStore(i) PROVE Same
  BY <1>7, <1>u DEF FinishExchange, StarterStore
<1>8. ASSUME NEW i \in Coroutines, Suspend(i) PROVE Same
  BY <1>8, <1>t, <1>r DEF Suspend, TypeOK, Top
<1>9. ASSUME NEW i \in Coroutines, Resume(i) PROVE Same
  BY <1>9, <1>t, <1>r DEF Resume, TypeOK, Top
<1>10. CASE UNCHANGED vars
  BY <1>10, <1>u DEF vars
<1> HIDE DEF Same, Called, Ended, Returned
<1>11. QED
  BY <1>1, <1>2, <1>3, <1>4, <1>5, <1>6, <1>7, <1>8, <1>9, <1>10 DEF Next, HandshakeStep

(* The safety of ImplementsCallStack, for chains of any depth: a co_await  *)
(* is a call that returns once, after the body of the task has ended, on   *)
(* whatever threads the two sides meet (async.h 452-541).                  *)
THEOREM TasksAreCalls == Spec => Calls!SafeSpec
<1> DEFINE I == Inv /\ \E k \in Coroutines : Top(k)
<1>1. Init => Top(0)
  <2> SUFFICES ASSUME Init PROVE Top(0)
    OBVIOUS
  <2>1. \A j \in 0 .. 0 - 1 : FALSE
    OBVIOUS
  <2>2. /\ 0 \in Coroutines
        /\ \A j \in 0 + 1 .. Depth : j \in Coroutines /\ j # 0
    OBVIOUS
  <2>3. co = [j \in Coroutines |-> IF j = 0 THEN "running" ELSE "none"]
    BY DEF Init
  <2> HIDE DEF Coroutines
  <2>4. co[0] = "running" /\ \A j \in 0 + 1 .. Depth : co[j] = "none"
    BY <2>2, <2>3
  <2>5. QED
    BY <2>1, <2>4 DEF Top
<1>2. Init => I /\ Calls!Init
  <2> SUFFICES ASSUME Init PROVE I /\ Calls!Init
    OBVIOUS
  <2>1. 0 \in Coroutines
    OBVIOUS
  <2>2. Top(0) /\ Innermost = 0
    BY <1>1, <2>1, TopIsInnermost
  <2>3. Calls!Init
    BY <2>1, <2>2 DEF Init, Calls!Init
  <2>4. QED
    BY <2>1, <2>2, <2>3, InitInv
<1>3. I /\ [Next]_vars => I' /\ [Calls!Next]_(Calls!vars)
  <2> SUFFICES ASSUME I, [Next]_vars PROVE I' /\ [Calls!Next]_(Calls!vars)
    OBVIOUS
  <2>1. PICK k \in Coroutines : Top(k)
    OBVIOUS
  <2>2. Inv'
    BY NextInv
  <2>3. Innermost = k
    BY <2>1, TopIsInnermost
  <2>4. CASE Top(k)' /\ (co'[k] = "final" <=> co[k] = "final")
    BY <2>2, <2>3, <2>4, TopIsInnermost DEF Calls!vars
  <2>5. CASE k < Depth /\ co[k] # "final" /\ Top(k + 1)' /\ co'[k + 1] # "final"
    <3>1. k + 1 \in Coroutines /\ Innermost' = k + 1
      BY <2>5, TopIsInnermost
    <3>2. Calls!Call
      BY <2>3, <2>5, <3>1 DEF Calls!Call
    <3>3. QED
      BY <2>2, <2>5, <3>1, <3>2 DEF Calls!Next
  <2>6. CASE k > 0 /\ co[k] # "final" /\ Top(k)' /\ co'[k] = "final"
    <3>1. Calls!End
      BY <2>3, <2>6, TopIsInnermost DEF Calls!End
    <3>2. QED
      BY <2>2, <2>6, <3>1 DEF Calls!Next
  <2>7. CASE k > 0 /\ co[k] = "final" /\ Top(k - 1)' /\ co'[k - 1] # "final"
    <3>1. k - 1 \in Coroutines /\ Innermost' = k - 1
      BY <2>7, TopIsInnermost
    <3>2. Calls!Return
      BY <2>3, <2>7, <3>1 DEF Calls!Return
    <3>3. QED
      BY <2>2, <2>7, <3>1, <3>2 DEF Calls!Next
  <2>8. QED
    BY <2>1, <2>4, <2>5, <2>6, <2>7, TopStep
<1>4. QED
  BY <1>2, <1>3, PTL DEF Spec, Calls!SafeSpec
=============================================================================
