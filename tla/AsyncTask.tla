----------------------------- MODULE AsyncTask -----------------------------
(***************************************************************************)
(* ice::async<T> (include/ice/async.h, taken from cppcoro's task): the     *)
(* handshake between a coroutine and the child it awaits.                  *)
(*                                                                         *)
(* Coroutine i awaits an async<T> whose body is coroutine i + 1; coroutine *)
(* 0 is awaited by nobody (an ice::task).  await_suspend resumes the child *)
(* in a nested call first, and registers the awaiter as its continuation   *)
(* when that call returns: by then the child may be suspended, running on  *)
(* another thread, or at its end.  The two sides meet in one atomic        *)
(* exchange of the child's m_state; the second to arrive continues the     *)
(* awaiter.                                                                *)
(*                                                                         *)
(* Threads have no names: every resume by the event loop may be on a       *)
(* thread of its own.  What a thread goes back to is recorded where it     *)
(* matters: nested[i] says that the code of i was called by the            *)
(* await_suspend that started i.                                           *)
(***************************************************************************)
EXTENDS Naturals

CONSTANTS Depth,   \* coroutines 1 .. Depth are async<T> bodies
          Nil      \* no continuation

ASSUME DepthAssumption == Depth \in Nat \ {0} /\ Nil \notin Nat

Tasks == 1 .. Depth
Coroutines == 0 .. Depth

VARIABLES
  co,            \* what the frame of each coroutine is
  m_state,       \* the promise's atomic flag
  m_continuation,\* the awaiter it will resume
  result,        \* "none", or what the promise holds
  starter,       \* where the await_suspend that starts the task is
  finisher,      \* where the final_awaitable::await_suspend of the task is
  nested         \* the task's code runs inside its starter's resume()

promise == <<m_state, m_continuation, result>>
vars == <<co, promise, starter, finisher, nested>>

Init ==
  /\ co = [i \in Coroutines |-> IF i = 0 THEN "running" ELSE "none"]
  /\ m_state = [i \in Tasks |-> FALSE]
  /\ m_continuation = [i \in Tasks |-> Nil]
  /\ result = [i \in Tasks |-> "none"]
  /\ starter = [i \in Tasks |-> "none"]
  /\ finisher = [i \in Tasks |-> "none"]
  /\ nested = [i \in Tasks |-> FALSE]

(* The code of i returns to its caller: the starter of i, or the loop.     *)
(* s is what the starters are otherwise.                                   *)
GiveBackThread(i, s) ==
  IF i \in Tasks /\ nested[i]
  THEN /\ starter' = [s EXCEPT ![i] = "store"]
       /\ nested' = [nested EXCEPT ![i] = FALSE]
  ELSE starter' = s /\ UNCHANGED nested

-----------------------------------------------------------------------------
(* The body of a coroutine *)

(* i - 1 calls a function that returns async<T>: a frame and its promise,  *)
(* suspended at the start.                                                 *)
Create(i) ==
  /\ co[i - 1] = "running"
  /\ co[i] = "none"
  /\ co' = [co EXCEPT ![i] = "initial"]
  /\ m_state' = [m_state EXCEPT ![i] = FALSE]
  /\ m_continuation' = [m_continuation EXCEPT ![i] = Nil]
  /\ result' = [result EXCEPT ![i] = "none"]
  /\ UNCHANGED <<starter, finisher, nested>>

(* ~async(): of a task that was never awaited, or has been. *)
Destroy(i) ==
  /\ co[i - 1] = "running"
  /\ co[i] \in {"initial", "final"}
  /\ co' = [co EXCEPT ![i] = "none"]
  /\ UNCHANGED <<promise, starter, finisher, nested>>

(* co_await of a task that is not done: i - 1 counts as suspended, and its *)
(* await_suspend resumes the child.                                        *)
Start(i) ==
  /\ co[i - 1] = "running"
  /\ co[i] = "initial"
  /\ co' = [co EXCEPT ![i - 1] = "awaiting", ![i] = "running"]
  /\ starter' = [starter EXCEPT ![i] = "resuming"]
  /\ nested' = [nested EXCEPT ![i] = TRUE]
  /\ UNCHANGED <<promise, finisher>>

(* The body suspends on something else, such as an event. *)
Suspend(i) ==
  /\ co[i] = "running"
  /\ co' = [co EXCEPT ![i] = "event"]
  /\ GiveBackThread(i, starter)
  /\ UNCHANGED <<promise, finisher>>

(* Some thread of the loop resumes it. *)
Resume(i) ==
  /\ co[i] = "event"
  /\ co' = [co EXCEPT ![i] = "running"]
  /\ UNCHANGED <<promise, starter, finisher, nested>>

(* return_value or unhandled_exception, then final_suspend.  The body's    *)
(* locals are gone, its child among them.                                  *)
Return(i) ==
  /\ co[i] = "running"
  /\ i < Depth => co[i + 1] = "none"
  /\ co' = [co EXCEPT ![i] = "final"]
  /\ \E r \in {"value", "exception"} : result' = [result EXCEPT ![i] = r]
  /\ finisher' = [finisher EXCEPT ![i] = "exchange"]
  /\ UNCHANGED <<m_state, m_continuation, starter, nested>>

-----------------------------------------------------------------------------
(* final_awaitable::await_suspend *)

(* Mutant: the continuation is resumed without asking m_state. *)
FinishExchangeUnasked(i) ==
  /\ finisher[i] = "exchange"
  /\ m_state' = [m_state EXCEPT ![i] = TRUE]
  /\ finisher' = [finisher EXCEPT ![i] = "resume"]
  /\ UNCHANGED <<co, m_continuation, result, starter, nested>>

(* Mutant: the child's end is not recorded. *)
FinishExchangeSilent(i) ==
  /\ finisher[i] = "exchange"
  /\ IF m_state[i]
     THEN /\ finisher' = [finisher EXCEPT ![i] = "resume"]
          /\ UNCHANGED <<starter, nested>>
     ELSE /\ finisher' = [finisher EXCEPT ![i] = "none"]
          /\ GiveBackThread(i, starter)
  /\ UNCHANGED <<co, promise>>

FinishExchange(i) ==
  /\ finisher[i] = "exchange"
  /\ m_state' = [m_state EXCEPT ![i] = TRUE]
  /\ IF m_state[i]
     THEN /\ finisher' = [finisher EXCEPT ![i] = "resume"]
          /\ UNCHANGED <<starter, nested>>
     ELSE /\ finisher' = [finisher EXCEPT ![i] = "none"]
          /\ GiveBackThread(i, starter)
  /\ UNCHANGED <<co, m_continuation, result>>

(* m_continuation.resume(), after which nothing of the frame is touched:   *)
(* the awaiter may destroy it.                                             *)
FinishResume(i) ==
  /\ finisher[i] = "resume"
  /\ finisher' = [finisher EXCEPT ![i] = "none"]
  /\ co' = [co EXCEPT ![m_continuation[i]] = "running"]
  /\ UNCHANGED <<promise, starter, nested>>

-----------------------------------------------------------------------------
(* async<T>::awaitable_base::await_suspend, after resume() has returned *)

(* Mutant: the child is registered as its own continuation. *)
StarterStoreChild(i) ==
  /\ starter[i] = "store"
  /\ m_continuation' = [m_continuation EXCEPT ![i] = i]
  /\ starter' = [starter EXCEPT ![i] = "exchange"]
  /\ UNCHANGED <<co, m_state, result, finisher, nested>>

(* Mutant: m_state is exchanged before the continuation is stored. *)
StarterStoreLate(i) ==
  /\ starter[i] = "store"
  /\ starter' = [starter EXCEPT ![i] = "exchange"]
  /\ UNCHANGED <<co, promise, finisher, nested>>

StarterStore(i) ==
  /\ starter[i] = "store"
  /\ m_continuation' = [m_continuation EXCEPT ![i] = i - 1]
  /\ starter' = [starter EXCEPT ![i] = "exchange"]
  /\ UNCHANGED <<co, m_state, result, finisher, nested>>

(* Mutant: the awaiter goes on although the child has not ended. *)
StarterExchangeGoesOn(i) ==
  /\ starter[i] = "exchange"
  /\ m_state' = [m_state EXCEPT ![i] = TRUE]
  /\ co' = [co EXCEPT ![i - 1] = "running"]
  /\ starter' = [starter EXCEPT ![i] = "none"]
  /\ UNCHANGED <<m_continuation, result, finisher, nested>>

(* The child has ended: await_suspend is false and i - 1 goes on.  It has  *)
(* not: i - 1 stays suspended and its thread goes back.                    *)
StarterExchange(i) ==
  /\ starter[i] = "exchange"
  /\ m_state' = [m_state EXCEPT ![i] = TRUE]
  /\ IF m_state[i]
     THEN /\ co' = [co EXCEPT ![i - 1] = "running"]
          /\ starter' = [starter EXCEPT ![i] = "none"]
          /\ UNCHANGED nested
     ELSE /\ GiveBackThread(i - 1, [starter EXCEPT ![i] = "none"])
          /\ UNCHANGED co
  /\ UNCHANGED <<m_continuation, result, finisher>>

HandshakeStep(i) ==
  \/ FinishExchange(i)
  \/ FinishResume(i)
  \/ StarterStore(i)
  \/ StarterExchange(i)

Next ==
  \/ \E i \in Tasks :
       \/ Create(i)
       \/ Destroy(i)
       \/ Start(i)
       \/ Return(i)
       \/ HandshakeStep(i)
  \/ \E i \in Coroutines : Suspend(i) \/ Resume(i)

Spec == Init /\ [][Next]_vars

(* A thread that is inside the handshake goes on.  No body has to end, and *)
(* no event has to come.                                                   *)
Fairness == \A i \in Tasks : WF_vars(HandshakeStep(i))

FairSpec == Spec /\ Fairness

-----------------------------------------------------------------------------
(* Properties *)

(* The values of the promise's members and of the frames (async.h 307-367):*)
(* a continuation is always the coroutine that awaits the task.            *)
TypeOK ==
  /\ co \in [Coroutines -> {"none", "initial", "running", "awaiting", "event", "final"}]
  /\ m_state \in [Tasks -> BOOLEAN]
  /\ m_continuation \in [Tasks -> Nat \cup {Nil}]
  /\ \A i \in Tasks : m_continuation[i] \in {i - 1, Nil}
  /\ result \in [Tasks -> {"none", "value", "exception"}]
  /\ starter \in [Tasks -> {"none", "resuming", "store", "exchange"}]
  /\ finisher \in [Tasks -> {"none", "exchange", "resume"}]
  /\ nested \in [Tasks -> BOOLEAN]

(* The awaiter is continued by one side only: the end of the child resumes *)
(* it (async.h:319) only when it is suspended, registered and done with    *)
(* its await_suspend, which goes on by itself otherwise (464).             *)
ResumedByOneSide ==
  \A i \in Tasks :
    /\ finisher[i] = "resume" =>
         starter[i] = "none" /\ m_continuation[i] = i - 1 /\ co[i - 1] = "awaiting"
    /\ starter[i] # "none" => co[i - 1] = "awaiting"

(* While a coroutine runs or waits for an event, its child is one it may   *)
(* read and destroy (481-485 and 374-378): no other thread is in the       *)
(* child's frame or promise, and m_state, which the destructor takes for   *)
(* "a value was constructed", says so exactly when the body has ended.     *)
ChildAtRest ==
  \A i \in Tasks :
    co[i - 1] # "awaiting" =>
      /\ starter[i] = "none" /\ finisher[i] = "none"
      /\ co[i] \in {"none", "initial", "final"}
      /\ co[i] # "none" => (m_state[i] <=> result[i] # "none")
      /\ co[i] = "final" => m_state[i]

(* A coroutine that awaits a task is not forgotten, whichever side came    *)
(* first: somebody is on the way to continue it (315-321 and 462-465).     *)
AwaiterNotForgotten ==
  \A i \in Tasks :
    co[i - 1] = "awaiting" =>
      \/ co[i] \in {"running", "event", "awaiting"}
      \/ starter[i] # "none"
      \/ finisher[i] # "none"
=============================================================================
