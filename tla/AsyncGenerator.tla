--------------------------- MODULE AsyncGenerator ---------------------------
(***************************************************************************)
(* ice::async_generator<T> (include/ice/async.h, taken from cppcoro): a    *)
(* producer coroutine that yields values, and the consumer that owns it,   *)
(* at the grain of the atomic instructions on the promise's m_state.       *)
(*                                                                         *)
(* Each side resumes the other in a nested call: the consumer's advance    *)
(* operation starts the producer, and yield starts a suspended consumer.   *)
(* pNested says that the producer's code was called by the advance         *)
(* operation, cNested that the consumer's was called by the yield.  Both   *)
(* sides may suspend on other events and go on on other threads.           *)
(*                                                                         *)
(* While the other side is suspended in the protocol nobody else writes    *)
(* m_state: a load that finds it so is one step with the store and the     *)
(* resume that follow.  A local goes back to its initial value where its   *)
(* scope ends.                                                             *)
(***************************************************************************)
EXTENDS Naturals

CONSTANTS MaxYields,   \* bound: values a producer yields
          None         \* a local that is not live

ASSUME MaxYieldsAssumption == MaxYields \in Nat

NotReadyActive == "value_not_ready_consumer_active"
NotReadySuspended == "value_not_ready_consumer_suspended"
ReadyActive == "value_ready_producer_active"
ReadySuspended == "value_ready_producer_suspended"
Cancelled == "cancelled"

States == {NotReadyActive, NotReadySuspended, ReadyActive, ReadySuspended, Cancelled}

VARIABLES
  m_state,         \* the promise's atomic state
  m_currentValue,  \* number of the value it points to; 0 is the null pointer
  yielded,         \* values the producer's body has yielded
  final,           \* the producer's body has ended, the promise says so
  ppc, pSaw,       \* the producer: where it is; currentState in yield
  pNested,
  owned,           \* the consumer has a generator object
  cpc, cSaw,       \* the consumer: where it is; currentState in advance
  cNested,
  received,        \* values the consumer was given
  ended            \* the consumer was told there are no more

value == <<m_currentValue, yielded, final>>
producer == <<ppc, pSaw, pNested>>
consumer == <<owned, cpc, cSaw, cNested, received, ended>>
vars == <<m_state, value, producer, consumer>>

ProducerLocations ==
  {"suspended",   \* at initial_suspend, in a co_yield or at final_suspend
   "running",     \* in its body
   "event",       \* suspended on something else
   "load",        \* internal_yield_value: about to load m_state
   "await1",      \* await_suspend: about to try not_ready -> suspended
   "await2",      \* await_suspend: about to try active -> suspended, or cancelled
   "resuming1",   \* inside m_consumerCoroutine.resume() of internal_yield_value
   "resuming2",   \* the same of await_suspend
   "reload1", "reload2",   \* that call has returned
   "destroyed"}   \* there is no frame

ConsumerLocations ==
  {"body",        \* in its own code
   "event",       \* suspended on something else there
   "starting1",   \* inside m_producerCoroutine.resume() of the constructor
   "starting2",   \* the same of await_suspend
   "reload1", "reload2",   \* that call has returned
   "await1",      \* await_suspend: about to try ready_active -> suspended
   "await2",      \* await_suspend: about to try not_ready -> suspended
   "suspended",   \* in co_await of the advance operation
   "receive"}     \* about to execute await_resume

Init ==
  /\ m_state = ReadySuspended
  /\ m_currentValue = 0
  /\ yielded = 0
  /\ final = FALSE
  /\ ppc = "suspended"
  /\ pSaw = None
  /\ pNested = FALSE
  /\ owned = TRUE
  /\ cpc = "body"
  /\ cSaw = None
  /\ cNested = FALSE
  /\ received = 0
  /\ ended = FALSE

-----------------------------------------------------------------------------
(* Control between the two *)

(* The producer stops at "at"; its thread returns to the advance operation *)
(* that called it, if that is where it came from.                          *)
ProducerStops(at) ==
  /\ ppc' = at
  /\ pSaw' = None
  /\ pNested' = FALSE
  /\ cpc' = IF ~ pNested THEN cpc
            ELSE IF cpc = "starting1" THEN "reload1" ELSE "reload2"
  /\ UNCHANGED <<owned, cSaw, cNested, received, ended>>

(* The consumer stops at "at", likewise. *)
ConsumerStops(at) ==
  /\ cpc' = at
  /\ cSaw' = None
  /\ cNested' = FALSE
  /\ ppc' = IF ~ cNested THEN ppc
            ELSE IF ppc = "resuming1" THEN "reload1" ELSE "reload2"
  /\ UNCHANGED <<pSaw, pNested, owned, received, ended>>

(* The producer publishes ready_active and resumes the consumer. *)
ResumeConsumer(at) ==
  /\ m_state' = ReadyActive
  /\ ppc' = at
  /\ pSaw' = None
  /\ cpc' = "receive"
  /\ cNested' = TRUE
  /\ UNCHANGED <<value, pNested, owned, cSaw, received, ended>>

(* The consumer publishes not_ready_active and resumes the producer. *)
ResumeProducer(at) ==
  /\ m_state' = NotReadyActive
  /\ cpc' = at
  /\ cSaw' = None
  /\ ppc' = "running"
  /\ pNested' = TRUE
  /\ UNCHANGED <<value, pSaw, owned, cNested, received, ended>>

-----------------------------------------------------------------------------
(* The producer's body *)

(* co_yield: m_currentValue, then internal_yield_value. *)
Yield ==
  /\ ppc = "running"
  /\ ~ final
  /\ yielded < MaxYields
  /\ yielded' = yielded + 1
  /\ m_currentValue' = yielded + 1
  /\ ppc' = "load"
  /\ UNCHANGED <<m_state, final, pSaw, pNested, consumer>>

(* The body ends or throws: final_suspend yields the null pointer. *)
End ==
  /\ ppc = "running"
  /\ ~ final
  /\ m_currentValue' = 0
  /\ final' = TRUE
  /\ ppc' = "load"
  /\ UNCHANGED <<m_state, yielded, pSaw, pNested, consumer>>

ProducerSuspends ==
  /\ ppc = "running"
  /\ ~ final
  /\ ProducerStops("event")
  /\ UNCHANGED <<m_state, value>>

ProducerResumed ==
  /\ ppc = "event"
  /\ ppc' = "running"
  /\ UNCHANGED <<m_state, value, pSaw, pNested, consumer>>

-----------------------------------------------------------------------------
(* internal_yield_value and async_generator_yield_operation *)

(* Mutant: a suspended consumer is taken for one that has yet to look. *)
YieldLoadSuspends ==
  /\ ppc = "load"
  /\ ppc' = "await2"
  /\ pSaw' = ReadyActive
  /\ m_state' = IF m_state = NotReadySuspended THEN ReadyActive ELSE m_state
  /\ UNCHANGED <<value, pNested, consumer>>

(* 689-694 *)
YieldLoad ==
  /\ ppc = "load"
  /\ IF m_state = NotReadySuspended
     THEN ResumeConsumer("resuming1")
     ELSE /\ pSaw' = m_state
          /\ ppc' = IF m_state = NotReadyActive THEN "await1" ELSE "await2"
          /\ UNCHANGED <<m_state, value, pNested, consumer>>

(* Mutant: the state loaded before the consumer ran is used. *)
YieldReloadStale ==
  /\ ppc \in {"reload1", "reload2"}
  /\ ppc' = "running"
  /\ pSaw' = None
  /\ UNCHANGED <<m_state, value, pNested, consumer>>

(* 695 with await_ready, and 711-714: a consumer that already asked for    *)
(* the next value is not waited for.                                       *)
YieldReload ==
  /\ ppc \in {"reload1", "reload2"}
  /\ IF m_state = NotReadySuspended
     THEN /\ ppc' = "running"
          /\ pSaw' = None
     ELSE /\ pSaw' = m_state
          /\ ppc' = IF ppc = "reload1" /\ m_state = NotReadyActive THEN "await1" ELSE "await2"
  /\ UNCHANGED <<m_state, value, pNested, consumer>>

(* Mutant: the exchange succeeds and the producer goes on all the same. *)
YieldAwaitGoesOn ==
  /\ ppc = "await1"
  /\ m_state = NotReadyActive
  /\ m_state' = ReadySuspended
  /\ ppc' = "running"
  /\ pSaw' = None
  /\ UNCHANGED <<value, pNested, consumer>>

(* Mutant: the producer suspends without comparing. *)
YieldAwaitUnchecked ==
  /\ ppc = "await1"
  /\ m_state' = ReadySuspended
  /\ ProducerStops("suspended")
  /\ UNCHANGED value

(* 702-716: the consumer that started the producer has not looked yet, or  *)
(* has suspended since.                                                    *)
YieldAwait ==
  /\ ppc = "await1"
  /\ \/ /\ m_state = NotReadyActive
        /\ m_state' = ReadySuspended
        /\ ProducerStops("suspended")
        /\ UNCHANGED value
     \/ /\ m_state = NotReadySuspended
        /\ ResumeConsumer("resuming2")
     \/ /\ m_state \notin {NotReadyActive, NotReadySuspended}
        /\ pSaw' = m_state
        /\ ppc' = "await2"
        /\ UNCHANGED <<m_state, value, pNested, consumer>>

(* Mutant: a cancelled producer stays suspended. *)
YieldSuspendLeaks ==
  /\ ppc = "await2"
  /\ m_state' = IF m_state = ReadyActive THEN ReadySuspended ELSE m_state
  /\ IF m_state = NotReadySuspended
     THEN /\ ppc' = "running"
          /\ pSaw' = None
          /\ UNCHANGED <<pNested, consumer>>
     ELSE ProducerStops("suspended")
  /\ UNCHANGED value

(* 717-726: the consumer has the value and runs, unless it asked for the   *)
(* next one or cancelled in the meantime.                                  *)
YieldSuspend ==
  /\ ppc = "await2"
  /\ pSaw = ReadyActive
  /\ \/ /\ m_state = ReadyActive
        /\ m_state' = ReadySuspended
        /\ ProducerStops("suspended")
        /\ UNCHANGED value
     \/ /\ m_state = NotReadySuspended
        /\ ppc' = "running"
        /\ pSaw' = None
        /\ UNCHANGED <<m_state, value, pNested, consumer>>
     \/ /\ m_state \notin {ReadyActive, NotReadySuspended}
        /\ pSaw' = m_state
        /\ UNCHANGED <<m_state, value, ppc, pNested, consumer>>

(* 727-729: the generator was destroyed while the producer ran. *)
YieldCancelled ==
  /\ ppc = "await2"
  /\ pSaw # ReadyActive
  /\ ProducerStops("destroyed")
  /\ UNCHANGED <<m_state, value>>

YieldStep == YieldLoad \/ YieldReload \/ YieldAwait \/ YieldSuspend \/ YieldCancelled

-----------------------------------------------------------------------------
(* The consumer's body *)

(* The consumer calls a function that returns an async_generator.          *)
Create ==
  /\ cpc = "body"
  /\ ~ owned
  /\ ppc = "destroyed"
  /\ owned' = TRUE
  /\ m_state' = ReadySuspended
  /\ m_currentValue' = 0
  /\ yielded' = 0
  /\ final' = FALSE
  /\ ppc' = "suspended"
  /\ received' = 0
  /\ ended' = FALSE
  /\ UNCHANGED <<pSaw, pNested, cpc, cSaw, cNested>>

(* ~async_generator(): request_cancellation, and destroy() if the producer *)
(* is suspended; else it destroys itself.                                  *)
Destroy ==
  /\ cpc = "body"
  /\ owned
  /\ owned' = FALSE
  /\ m_state' = Cancelled
  /\ ppc' = IF m_state = ReadySuspended THEN "destroyed" ELSE ppc
  /\ UNCHANGED <<value, pSaw, pNested, cpc, cSaw, cNested, received, ended>>

ConsumerSuspends ==
  /\ cpc = "body"
  /\ ConsumerStops("event")
  /\ UNCHANGED <<m_state, value>>

ConsumerResumed ==
  /\ cpc = "event"
  /\ cpc' = "body"
  /\ UNCHANGED <<m_state, value, producer, owned, cSaw, cNested, received, ended>>

-----------------------------------------------------------------------------
(* async_generator_advance_operation *)

(* begin() or operator++: 743-746.  A consumer that was told "end" has no  *)
(* iterator to increment.                                                  *)
Advance ==
  /\ cpc = "body"
  /\ owned
  /\ ~ ended
  /\ IF m_state = ReadySuspended
     THEN ResumeProducer("starting1")
     ELSE /\ cSaw' = m_state
          /\ cpc' = IF m_state = ReadyActive THEN "await1" ELSE "await2"
          /\ UNCHANGED <<m_state, value, producer, owned, cNested, received, ended>>

(* 747 with await_ready, and 768-771. *)
AdvanceReload ==
  /\ cpc \in {"reload1", "reload2"}
  /\ IF m_state = ReadySuspended
     THEN /\ cpc' = "receive"
          /\ cSaw' = None
     ELSE /\ cSaw' = m_state
          /\ cpc' = IF cpc = "reload1" /\ m_state = ReadyActive THEN "await1" ELSE "await2"
  /\ UNCHANGED <<m_state, value, producer, owned, cNested, received, ended>>

(* 757-767: the producer is still inside the yield of the last value, and  *)
(* will see the request, or has suspended and is started here.             *)
AdvanceAwait ==
  /\ cpc = "await1"
  /\ \/ /\ m_state = ReadyActive
        /\ m_state' = NotReadySuspended
        /\ ConsumerStops("suspended")
        /\ UNCHANGED value
     \/ /\ m_state # ReadyActive
        /\ ResumeProducer("starting2")

(* 773-775: the producer went away; the consumer suspends, or goes on if   *)
(* the value came in the meantime.                                         *)
AdvanceSuspend ==
  /\ cpc = "await2"
  /\ \/ /\ m_state = NotReadyActive
        /\ m_state' = NotReadySuspended
        /\ ConsumerStops("suspended")
        /\ UNCHANGED value
     \/ /\ m_state # NotReadyActive
        /\ cpc' = "receive"
        /\ cSaw' = None
        /\ UNCHANGED <<m_state, value, producer, owned, cNested, received, ended>>

(* Mutant: the end is taken for a value. *)
ReceiveCountsEnd ==
  /\ cpc = "receive"
  /\ cpc' = "body"
  /\ received' = received + 1
  /\ ended' = (m_currentValue = 0)
  /\ UNCHANGED <<m_state, value, producer, owned, cSaw, cNested>>

(* await_resume: the next value, or the end.  (A stored exception is       *)
(* thrown to the consumer with the end.)                                   *)
Receive ==
  /\ cpc = "receive"
  /\ cpc' = "body"
  /\ IF m_currentValue = 0
     THEN ended' = TRUE /\ UNCHANGED received
     ELSE received' = received + 1 /\ UNCHANGED ended
  /\ UNCHANGED <<m_state, value, producer, owned, cSaw, cNested>>

AdvanceStep == AdvanceReload \/ AdvanceAwait \/ AdvanceSuspend \/ Receive

Next ==
  \/ Yield \/ End \/ ProducerSuspends \/ ProducerResumed
  \/ YieldStep
  \/ Create \/ Destroy \/ ConsumerSuspends \/ ConsumerResumed \/ Advance
  \/ AdvanceStep

Spec == Init /\ [][Next]_vars

(* A thread inside the protocol goes on, and a consumer that runs inside a *)
(* yield gives the thread back.  Nobody has to yield, ask or be resumed.   *)
Fairness ==
  /\ WF_vars(YieldStep)
  /\ WF_vars(AdvanceStep)
  /\ WF_vars(cNested /\ (ConsumerSuspends \/ Advance))

FairSpec == Spec /\ Fairness

-----------------------------------------------------------------------------
(* Properties *)

(* The members and locals of the protocol (async.h 645-658, 674, 783).     *)
TypeOK ==
  /\ m_state \in States
  /\ m_currentValue \in 0 .. MaxYields
  /\ yielded \in 0 .. MaxYields
  /\ final \in BOOLEAN
  /\ ppc \in ProducerLocations
  /\ pSaw \in States \cup {None}
  /\ pNested \in BOOLEAN
  /\ owned \in BOOLEAN
  /\ cpc \in ConsumerLocations
  /\ cSaw \in States \cup {None}
  /\ cNested \in BOOLEAN
  /\ received \in 0 .. MaxYields
  /\ ended \in BOOLEAN

(* The assertions of the protocol: async.h:690 and 691 (load), 727         *)
(* (YieldCancelled), 633 and 634 (Destroy), 765 (AdvanceAwait) and 773     *)
(* (AdvanceSuspend).                                                       *)
Assertions ==
  /\ ppc = "load" => m_state \notin {ReadyActive, ReadySuspended}
  /\ ppc = "await2" /\ pSaw # ReadyActive => pSaw = Cancelled
  /\ owned /\ cpc = "body" => m_state \notin {NotReadySuspended, Cancelled}
  /\ cpc = "await1" => m_state \in {ReadyActive, ReadySuspended}
  /\ cpc = "await2" => cSaw = NotReadyActive

(* What the consumer is about to read is the next value, or the end after  *)
(* the last: none is skipped, seen twice or seen before it is yielded,     *)
(* whichever side suspended first (await_resume, 880-886 and 905-913).     *)
EachValueOnce ==
  cpc = "receive" =>
    IF final THEN m_currentValue = 0 /\ received = yielded
             ELSE m_currentValue = received + 1 /\ yielded = received + 1

(* m_currentValue points into the producer's frame (795-798): from         *)
(* await_resume until the consumer asks again or destroys the generator,   *)
(* the producer's body does not run and its frame exists.                  *)
ValueStable ==
  owned /\ cpc \in {"receive", "body", "event"} =>
    ppc \notin {"running", "event", "load", "destroyed"}

(* A resume finds its coroutine suspended: the producer's handle is used   *)
(* only at a suspension point of the protocol (746, 767 and 937), the      *)
(* consumer's only while it awaits the advance operation (694 and 710).    *)
OnlySuspendedResumed ==
  /\ m_state = ReadySuspended => ppc = "suspended"
  /\ m_state = NotReadySuspended => cpc = "suspended"

(* The two never wait for each other: a suspended consumer has a producer  *)
(* that is on the way to its next value.                                   *)
NotBothSuspended ==
  /\ cpc = "suspended" => ppc \notin {"suspended", "destroyed"}
  /\ ~ owned => ppc # "suspended"

(* The producer's code never goes on after its end, which would destroy    *)
(* the frame under the generator object, nor after cancellation.           *)
BodyOver == ppc = "running" => ~ final /\ owned

(* The producer's frame of a destroyed generator is freed.                 *)
Released == ~ owned ~> ppc = "destroyed"
=============================================================================
