------------------------ MODULE AsyncGeneratorProofs ------------------------
(***************************************************************************)
(* Proofs about AsyncGenerator, for producers that yield any number of     *)
(* values.                                                                 *)
(*                                                                         *)
(* The invariant names the phases of the protocol, one for each value of   *)
(* m_state, and says for each where the two sides can be and which value   *)
(* m_currentValue points to.                                               *)
(***************************************************************************)
EXTENDS AsyncGeneratorMC, TLAPS

(* The consumer has taken everything; it knows of the end if there is one. *)
Taken == received = yielded /\ (final <=> ended)

(* The consumer is to take one more value, or the end.                     *)
Fresh ==
  /\ ~ ended
  /\ IF final THEN m_currentValue = 0 /\ received = yielded
              ELSE m_currentValue = yielded /\ yielded = received + 1

(* The producer is suspended, and the consumer has, or will find, a value. *)
Offered ==
  /\ m_state = ReadySuspended
  /\ owned /\ ppc = "suspended" /\ pSaw = None /\ ~ pNested /\ ~ cNested
  /\ \/ cpc \in {"body", "event"} /\ cSaw = None /\ Taken
     \/ cpc = "await1" /\ cSaw = ReadyActive /\ Taken /\ ~ ended
     \/ cpc \in {"reload1", "reload2", "receive"} /\ cSaw = None /\ Fresh
     \/ cpc = "await2" /\ cSaw = NotReadyActive /\ Fresh

(* The producer has resumed the consumer and is still in its co_yield.     *)
Handing ==
  /\ m_state = ReadyActive
  /\ owned /\ ~ pNested
  /\ \/ ppc \in {"resuming1", "resuming2"} /\ cNested /\ pSaw = None
     \/ ppc \in {"reload1", "reload2"} /\ ~ cNested /\ pSaw = None
     \/ ppc = "await2" /\ pSaw = ReadyActive /\ ~ cNested
  /\ \/ cpc = "receive" /\ cSaw = None /\ Fresh /\ cNested
     \/ cpc = "body" /\ cSaw = None /\ Taken
     \/ cpc = "event" /\ cSaw = None /\ Taken /\ ~ cNested
     \/ cpc = "await1" /\ cSaw = ReadyActive /\ Taken /\ ~ ended

(* The producer is on the way to its next value.                           *)
Producing ==
  \/ ppc \in {"running", "event"} /\ pSaw = None /\ ~ final /\ ~ ended /\ received = yielded
  \/ ppc = "load" /\ pSaw = None /\ Fresh
  \/ ppc = "await1" /\ pSaw = NotReadyActive /\ Fresh

(* The consumer has asked and has not suspended.                           *)
Asked ==
  /\ m_state = NotReadyActive
  /\ owned /\ ~ cNested
  /\ Producing
  /\ \/ cpc \in {"starting1", "starting2"} /\ cSaw = None /\ pNested /\ ppc # "event"
     \/ cpc \in {"reload1", "reload2"} /\ cSaw = None /\ ~ pNested
     \/ cpc = "await2" /\ cSaw = NotReadyActive /\ ~ pNested

(* The consumer is suspended; the producer may still be in the co_yield of *)
(* the last value.                                                         *)
Waiting ==
  /\ m_state = NotReadySuspended
  /\ owned /\ ~ cNested /\ ~ pNested
  /\ cpc = "suspended" /\ cSaw = None
  /\ \/ Producing
     \/ ppc \in {"reload1", "reload2"} /\ pSaw = None /\ Taken /\ ~ ended
     \/ ppc = "await2" /\ pSaw = ReadyActive /\ Taken /\ ~ ended

(* The generator is gone; a producer inside a co_yield will destroy itself. *)
Abandoned ==
  /\ m_state = Cancelled
  /\ ~ owned /\ ~ pNested
  /\ cpc \in {"body", "event"} /\ cSaw = None
  /\ received <= yielded
  /\ \/ ppc \in {"resuming1", "resuming2"} /\ cNested /\ pSaw = None /\ cpc = "body"
     \/ ppc \in {"reload1", "reload2", "destroyed"} /\ ~ cNested /\ pSaw = None
     \/ ppc = "await2" /\ pSaw \in {ReadyActive, Cancelled} /\ ~ cNested

Phases == Offered \/ Handing \/ Asked \/ Waiting \/ Abandoned

Inv == TypeOK /\ Phases

-----------------------------------------------------------------------------
USE MaxYieldsAssumption
    DEF States, NotReadyActive, NotReadySuspended, ReadyActive, ReadySuspended, Cancelled,
        ProducerLocations, ConsumerLocations, value, producer, consumer

LEMMA InitInv == Init => Inv
<1> SUFFICES ASSUME Init PROVE Inv
  OBVIOUS
<1>1. TypeOK
  <2>1. {final, pNested, owned, cNested, ended} \subseteq BOOLEAN
    BY Zenon DEF Init
  <2>2. {m_currentValue, yielded, received} \subseteq 0 .. MaxYields
    BY DEF Init
  <2>3. /\ m_state \in States
        /\ ppc \in ProducerLocations /\ pSaw = None
        /\ cpc \in ConsumerLocations /\ cSaw = None
    BY DEF Init
  <2>4. QED
    BY <2>1, <2>2, <2>3, Zenon DEF TypeOK
<1>2. Offered
  <2>1. ~ final /\ ~ ended /\ received = yielded
    BY DEF Init
  <2>2. Taken
    BY <2>1 DEF Taken
  <2>3. /\ m_state = ReadySuspended
        /\ ppc = "suspended" /\ pSaw = None /\ cpc = "body" /\ cSaw = None
    BY DEF Init
  <2>4. owned /\ ~ pNested /\ ~ cNested
    BY DEF Init
  <2>5. QED
    BY <2>2, <2>3, <2>4 DEF Offered
<1>3. QED
  BY <1>1, <1>2 DEF Inv, Phases

(* One case for each action: where it leads from each phase.               *)
LEMMA NextInv == Inv /\ [Next]_vars => Inv'
<1> SUFFICES ASSUME Inv, [Next]_vars PROVE Inv'
  OBVIOUS
<1>t. TypeOK /\ (Offered \/ Handing \/ Asked \/ Waiting \/ Abandoned)
  BY DEF Inv, Phases
<1>1. CASE Yield
  <2>1. TypeOK'
    BY <1>1, <1>t
    DEF Yield, TypeOK, Offered, Handing, Asked, Waiting, Abandoned, Producing, Fresh
  <2>2. Phases'
    BY <1>1, <1>t
    DEF Phases, Yield, TypeOK, Offered, Handing, Asked, Waiting, Abandoned, Producing, Fresh, Taken
  <2>3. QED
    BY <2>1, <2>2 DEF Inv, Phases
<1>2. CASE End
  <2>1. TypeOK'
    BY <1>2, <1>t
    DEF End, TypeOK, Offered, Handing, Asked, Waiting, Abandoned, Producing, Fresh
  <2>2. Phases'
    BY <1>2, <1>t
    DEF Phases, End, TypeOK, Offered, Handing, Asked, Waiting, Abandoned, Producing, Fresh, Taken
  <2>3. QED
    BY <2>1, <2>2 DEF Inv, Phases
<1>3. CASE ProducerSuspends
  <2>1. TypeOK'
    BY <1>3, <1>t
    DEF ProducerSuspends, ProducerStops, TypeOK, Offered, Handing, Asked, Waiting,
        Abandoned, Producing, Fresh
  <2>2. Phases'
    BY <1>3, <1>t
    DEF Phases, ProducerSuspends, ProducerStops, TypeOK, Offered, Handing, Asked, Waiting,
        Abandoned, Producing, Fresh, Taken
  <2>3. QED
    BY <2>1, <2>2 DEF Inv, Phases
<1>4. CASE ProducerResumed
  <2>1. TypeOK'
    BY <1>4, <1>t
    DEF ProducerResumed, TypeOK, Offered, Handing, Asked, Waiting, Abandoned, Producing, Fresh
  <2>2. Phases'
    BY <1>4, <1>t
    DEF Phases, ProducerResumed, TypeOK, Offered, Handing, Asked, Waiting, Abandoned,
        Producing, Fresh, Taken
  <2>3. QED
    BY <2>1, <2>2 DEF Inv, Phases
<1>5. CASE YieldLoad
  <2>1. TypeOK'
    BY <1>5, <1>t
    DEF YieldLoad, ResumeConsumer, TypeOK, Offered, Handing, Asked, Waiting, Abandoned,
        Producing, Fresh
  <2>2. Phases'
    BY <1>5, <1>t
    DEF Phases, YieldLoad, ResumeConsumer, TypeOK, Offered, Handing, Asked, Waiting,
        Abandoned, Producing, Fresh, Taken
  <2>3. QED
    BY <2>1, <2>2 DEF Inv, Phases
<1>6. CASE YieldReload
  <2>1. TypeOK'
    BY <1>6, <1>t
    DEF YieldReload, TypeOK, Offered, Handing, Asked, Waiting, Abandoned, Producing, Fresh
  <2>2. Phases'
    BY <1>6, <1>t
    DEF Phases, YieldReload, TypeOK, Offered, Handing, Asked, Waiting, Abandoned,
        Producing, Fresh, Taken
  <2>3. QED
    BY <2>1, <2>2 DEF Inv, Phases
<1>7. CASE YieldAwait
  <2>1. TypeOK'
    BY <1>7, <1>t
    DEF YieldAwait, ProducerStops, ResumeConsumer, TypeOK, Offered, Handing, Asked,
        Waiting, Abandoned, Producing, Fresh
  <2>2. Phases'
    BY <1>7, <1>t
    DEF Phases, YieldAwait, ProducerStops, ResumeConsumer, TypeOK, Offered, Handing,
        Asked, Waiting, Abandoned, Producing, Fresh, Taken
  <2>3. QED
    BY <2>1, <2>2 DEF Inv, Phases
<1>8. CASE YieldSuspend
  <2>1. TypeOK'
    BY <1>8, <1>t
    DEF YieldSuspend, ProducerStops, TypeOK, Offered, Handing, Asked, Waiting, Abandoned,
        Producing, Fresh
  <2>2. Phases'
    BY <1>8, <1>t
    DEF Phases, YieldSuspend, ProducerStops, TypeOK, Offered, Handing, Asked, Waiting,
        Abandoned, Producing, Fresh, Taken
  <2>3. QED
    BY <2>1, <2>2 DEF Inv, Phases
<1>9. CASE YieldCancelled
  <2>1. TypeOK'
    BY <1>9, <1>t
    DEF YieldCancelled, ProducerStops, TypeOK, Offered, Handing, Asked, Waiting,
        Abandoned, Producing, Fresh
  <2>2. Phases'
    BY <1>9, <1>t
    DEF Phases, YieldCancelled, ProducerStops, TypeOK, Offered, Handing, Asked, Waiting,
        Abandoned, Producing, Fresh, Taken
  <2>3. QED
    BY <2>1, <2>2 DEF Inv, Phases
<1>10. CASE Create
  <2>1. TypeOK'
    <3>1. {final', owned', ended'} \subseteq BOOLEAN
      BY <1>10, Zenon DEF Create
    <3>2. {m_currentValue', yielded', received'} \subseteq 0 .. MaxYields
      BY <1>10 DEF Create
    <3>3. m_state' \in States /\ ppc' \in ProducerLocations
      BY <1>10 DEF Create
    <3>4. UNCHANGED <<pSaw, pNested, cpc, cSaw, cNested>>
      BY <1>10 DEF Create
    <3>5. /\ {pNested, cNested} \subseteq BOOLEAN /\ {pSaw, cSaw} \subseteq States \cup {None}
          /\ cpc \in ConsumerLocations
      BY <1>t DEF TypeOK
    <3>6. QED
      BY <3>1, <3>2, <3>3, <3>4, <3>5, Zenon DEF TypeOK
  <2>2. Abandoned /\ ppc = "destroyed" /\ cpc = "body"
    BY <1>10, <1>t DEF Create, Offered, Handing, Asked, Waiting, Producing
  <2>3. ~ final' /\ ~ ended' /\ received' = yielded'
    BY <1>10 DEF Create
  <2>4. Taken'
    BY <2>3 DEF Taken
  <2>5. /\ m_state' = ReadySuspended
        /\ ppc' = "suspended" /\ pSaw' = None /\ cpc' = "body" /\ cSaw' = None
    BY <1>10, <2>2 DEF Create, Abandoned
  <2>6. owned' /\ ~ pNested' /\ ~ cNested'
    BY <1>10, <2>2 DEF Create, Abandoned
  <2>7. Offered'
    BY <2>4, <2>5, <2>6 DEF Offered
  <2>8. QED
    BY <2>1, <2>7 DEF Inv, Phases
<1>11. CASE Destroy
  <2>1. TypeOK'
    BY <1>11, <1>t
    DEF Destroy, TypeOK, Offered, Handing, Asked, Waiting, Abandoned, Producing, Fresh
  <2>2. Phases'
    BY <1>11, <1>t
    DEF Phases, Destroy, TypeOK, Offered, Handing, Asked, Waiting, Abandoned, Producing,
        Fresh, Taken
  <2>3. QED
    BY <2>1, <2>2 DEF Inv, Phases
<1>12. CASE ConsumerSuspends
  <2>1. TypeOK'
    BY <1>12, <1>t
    DEF ConsumerSuspends, ConsumerStops, TypeOK, Offered, Handing, Asked, Waiting,
        Abandoned, Producing, Fresh
  <2>2. Phases'
    BY <1>12, <1>t
    DEF Phases, ConsumerSuspends, ConsumerStops, TypeOK, Offered, Handing, Asked, Waiting,
        Abandoned, Producing, Fresh, Taken
  <2>3. QED
    BY <2>1, <2>2 DEF Inv, Phases
<1>13. CASE ConsumerResumed
  <2>1. TypeOK'
    BY <1>13, <1>t
    DEF ConsumerResumed, TypeOK, Offered, Handing, Asked, Waiting, Abandoned, Producing, Fresh
  <2>2. Phases'
    BY <1>13, <1>t
    DEF Phases, ConsumerResumed, TypeOK, Offered, Handing, Asked, Waiting, Abandoned,
        Producing, Fresh, Taken
  <2>3. QED
    BY <2>1, <2>2 DEF Inv, Phases
<1>14. CASE Advance
  <2>1. TypeOK'
    BY <1>14, <1>t
    DEF Advance, ResumeProducer, TypeOK, Offered, Handing, Asked, Waiting, Abandoned,
        Producing, Fresh
  <2>2. Phases'
    BY <1>14, <1>t
    DEF Phases, Advance, ResumeProducer, TypeOK, Offered, Handing, Asked, Waiting,
        Abandoned, Producing, Fresh, Taken
  <2>3. QED
    BY <2>1, <2>2 DEF Inv, Phases
<1>15. CASE AdvanceReload
  <2>1. TypeOK'
    BY <1>15, <1>t
    DEF AdvanceReload, TypeOK, Offered, Handing, Asked, Waiting, Abandoned, Producing, Fresh
  <2>2. Phases'
    BY <1>15, <1>t
    DEF Phases, AdvanceReload, TypeOK, Offered, Handing, Asked, Waiting, Abandoned,
        Producing, Fresh, Taken
  <2>3. QED
    BY <2>1, <2>2 DEF Inv, Phases
<1>16. CASE AdvanceAwait
  <2>1. TypeOK'
    BY <1>16, <1>t
    DEF AdvanceAwait, ConsumerStops, ResumeProducer, TypeOK, Offered, Handing, Asked,
        Waiting, Abandoned, Producing, Fresh
  <2>2. Phases'
    BY <1>16, <1>t
    DEF Phases, AdvanceAwait, ConsumerStops, ResumeProducer, TypeOK, Offered, Handing,
        Asked, Waiting, Abandoned, Producing, Fresh, Taken
  <2>3. QED
    BY <2>1, <2>2 DEF Inv, Phases
<1>17. CASE AdvanceSuspend
  <2>1. TypeOK'
    BY <1>17, <1>t
    DEF AdvanceSuspend, ConsumerStops, TypeOK, Offered, Handing, Asked, Waiting,
        Abandoned, Producing, Fresh
  <2>2. Phases'
    BY <1>17, <1>t
    DEF Phases, AdvanceSuspend, ConsumerStops, TypeOK, Offered, Handing, Asked, Waiting,
        Abandoned, Producing, Fresh, Taken
  <2>3. QED
    BY <2>1, <2>2 DEF Inv, Phases
<1>18. CASE Receive
  <2>1. TypeOK'
    BY <1>18, <1>t
    DEF Receive, TypeOK, Offered, Handing, Asked, Waiting, Abandoned, Producing, Fresh
  <2>2. Phases'
    BY <1>18, <1>t
    DEF Phases, Receive, TypeOK, Offered, Handing, Asked, Waiting, Abandoned, Producing,
        Fresh, Taken
  <2>3. QED
    BY <2>1, <2>2 DEF Inv, Phases
<1>19. CASE UNCHANGED vars
  BY <1>19 DEF vars, Inv, Phases, TypeOK, Offered, Handing, Asked, Waiting, Abandoned,
     Producing, Fresh, Taken
<1>20. QED
  BY <1>1, <1>2, <1>3, <1>4, <1>5, <1>6, <1>7, <1>8, <1>9, <1>10, <1>11, <1>12, <1>13, <1>14, <1>15, <1>16, <1>17, <1>18, <1>19
  DEF Next, YieldStep, AdvanceStep

LEMMA Invariance == Spec => []Inv
<1>1. QED
  BY InitInv, NextInv, PTL DEF Spec

(* The type invariant, for any number of values.                           *)
THEOREM TypeCorrectness == Spec => []TypeOK
<1>1. Inv => TypeOK
  BY DEF Inv
<1>2. QED
  BY <1>1, Invariance, PTL

(* No assertion of the protocol fails.                                     *)
THEOREM AssertionsHold == Spec => []Assertions
<1>1. Inv => Assertions
  BY DEF Inv, Phases, TypeOK, Offered, Handing, Asked, Waiting, Abandoned, Producing, Fresh, Taken,
     Assertions
<1>2. QED
  BY <1>1, Invariance, PTL

(* Each value is received once and in order, and the end after the last.   *)
THEOREM NoValueLost == Spec => []EachValueOnce
<1>1. Inv => EachValueOnce
  BY DEF Inv, Phases, TypeOK, Offered, Handing, Asked, Waiting, Abandoned, Producing, Fresh, Taken,
     EachValueOnce
<1>2. QED
  BY <1>1, Invariance, PTL

(* The producer stands still while the consumer uses its value.            *)
THEOREM ValuesStable == Spec => []ValueStable
<1>1. Inv => ValueStable
  BY DEF Inv, Phases, TypeOK, Offered, Handing, Asked, Waiting, Abandoned, Producing, Fresh, Taken,
     ValueStable
<1>2. QED
  BY <1>1, Invariance, PTL

(* No coroutine is resumed unless it is suspended in the protocol.         *)
THEOREM ResumesSuspended == Spec => []OnlySuspendedResumed
<1>1. Inv => OnlySuspendedResumed
  BY DEF Inv, Phases, TypeOK, Offered, Handing, Asked, Waiting, Abandoned, Producing, Fresh, Taken,
     OnlySuspendedResumed
<1>2. QED
  BY <1>1, Invariance, PTL

(* The two never wait for each other, and no suspended producer is leaked. *)
THEOREM NoDeadlock == Spec => []NotBothSuspended
<1>1. Inv => NotBothSuspended
  BY DEF Inv, Phases, TypeOK, Offered, Handing, Asked, Waiting, Abandoned, Producing, Fresh, Taken,
     NotBothSuspended
<1>2. QED
  BY <1>1, Invariance, PTL

(* The producer's body does not go on after its end or cancellation.       *)
THEOREM NothingPastEnd == Spec => []BodyOver
<1>1. Inv => BodyOver
  BY DEF Inv, Phases, TypeOK, Offered, Handing, Asked, Waiting, Abandoned, Producing, Fresh, Taken,
     BodyOver
<1>2. QED
  BY <1>1, Invariance, PTL

-----------------------------------------------------------------------------
(* The stream *)

(* What the mapping to Stream makes of each action: yield and the end of   *)
(* the body offer, advance asks, await_resume takes, and a new generator   *)
(* restarts; all the others leave the stream alone.                        *)
LEMMA StepMaps == Inv /\ [Next]_vars => [Values!Next]_(Values!vars)
<1> SUFFICES ASSUME Inv, [Next]_vars PROVE Values!Next \/ UNCHANGED Values!vars
  OBVIOUS
<1>t. TypeOK /\ (Offered \/ Handing \/ Asked \/ Waiting \/ Abandoned)
  BY DEF Inv, Phases
<1>1. CASE Yield
  <2>1. Values!Offer
    BY <1>1, <1>t
    DEF Values!Offer, Phase, Yield, TypeOK, Offered, Handing, Asked, Waiting,
        Abandoned, Producing, Fresh, Taken
  <2>2. QED
    BY <2>1 DEF Values!Next
<1>2. CASE End
  <2>1. Values!Offer
    BY <1>2, <1>t
    DEF Values!Offer, Phase, End, TypeOK, Offered, Handing, Asked, Waiting,
        Abandoned, Producing, Fresh, Taken
  <2>2. QED
    BY <2>1 DEF Values!Next
<1>3. CASE ProducerSuspends
  <2>1. Phase' = Phase /\ UNCHANGED <<received, ended>>
    BY <1>3, <1>t
    DEF Phase, ProducerSuspends, ProducerStops, TypeOK, Offered, Handing, Asked, Waiting,
        Abandoned, Producing, Fresh, Taken
  <2>2. QED
    BY <2>1 DEF Values!vars
<1>4. CASE ProducerResumed
  <2>1. Phase' = Phase /\ UNCHANGED <<received, ended>>
    BY <1>4, <1>t
    DEF Phase, ProducerResumed, TypeOK, Offered, Handing, Asked, Waiting,
        Abandoned, Producing, Fresh, Taken
  <2>2. QED
    BY <2>1 DEF Values!vars
<1>5. CASE YieldLoad
  <2>1. Phase' = Phase /\ UNCHANGED <<received, ended>>
    BY <1>5, <1>t
    DEF Phase, YieldLoad, ResumeConsumer, TypeOK, Offered, Handing, Asked, Waiting,
        Abandoned, Producing, Fresh, Taken
  <2>2. QED
    BY <2>1 DEF Values!vars
<1>6. CASE YieldReload
  <2>1. Phase' = Phase /\ UNCHANGED <<received, ended>>
    BY <1>6, <1>t
    DEF Phase, YieldReload, TypeOK, Offered, Handing, Asked, Waiting,
        Abandoned, Producing, Fresh, Taken
  <2>2. QED
    BY <2>1 DEF Values!vars
<1>7. CASE YieldAwait
  <2>1. Phase' = Phase /\ UNCHANGED <<received, ended>>
    BY <1>7, <1>t
    DEF Phase, YieldAwait, ProducerStops, ResumeConsumer, TypeOK, Offered, Handing, Asked, Waiting,
        Abandoned, Producing, Fresh, Taken
  <2>2. QED
    BY <2>1 DEF Values!vars
<1>8. CASE YieldSuspend
  <2>1. Phase' = Phase /\ UNCHANGED <<received, ended>>
    BY <1>8, <1>t
    DEF Phase, YieldSuspend, ProducerStops, TypeOK, Offered, Handing, Asked, Waiting,
        Abandoned, Producing, Fresh, Taken
  <2>2. QED
    BY <2>1 DEF Values!vars
<1>9. CASE YieldCancelled
  <2>1. Phase' = Phase /\ UNCHANGED <<received, ended>>
    BY <1>9, <1>t
    DEF Phase, YieldCancelled, ProducerStops, TypeOK, Offered, Handing, Asked, Waiting,
        Abandoned, Producing, Fresh, Taken
  <2>2. QED
    BY <2>1 DEF Values!vars
<1>10. CASE Create
  <2>1. Values!Restart
    BY <1>10, <1>t
    DEF Values!Restart, Phase, Create, TypeOK, Offered, Handing, Asked, Waiting,
        Abandoned, Producing, Fresh, Taken
  <2>2. QED
    BY <2>1 DEF Values!Next
<1>11. CASE Destroy
  <2>1. Phase' = Phase /\ UNCHANGED <<received, ended>>
    BY <1>11, <1>t
    DEF Phase, Destroy, TypeOK, Offered, Handing, Asked, Waiting,
        Abandoned, Producing, Fresh, Taken
  <2>2. QED
    BY <2>1 DEF Values!vars
<1>12. CASE ConsumerSuspends
  <2>1. Phase' = Phase /\ UNCHANGED <<received, ended>>
    BY <1>12, <1>t
    DEF Phase, ConsumerSuspends, ConsumerStops, TypeOK, Offered, Handing, Asked, Waiting,
        Abandoned, Producing, Fresh, Taken
  <2>2. QED
    BY <2>1 DEF Values!vars
<1>13. CASE ConsumerResumed
  <2>1. Phase' = Phase /\ UNCHANGED <<received, ended>>
    BY <1>13, <1>t
    DEF Phase, ConsumerResumed, TypeOK, Offered, Handing, Asked, Waiting,
        Abandoned, Producing, Fresh, Taken
  <2>2. QED
    BY <2>1 DEF Values!vars
<1>14. CASE Advance
  <2>1. Values!Ask
    BY <1>14, <1>t
    DEF Values!Ask, Phase, Advance, ResumeProducer, TypeOK, Offered, Handing, Asked, Waiting,
        Abandoned, Producing, Fresh, Taken
  <2>2. QED
    BY <2>1 DEF Values!Next
<1>15. CASE AdvanceReload
  <2>1. Phase' = Phase /\ UNCHANGED <<received, ended>>
    BY <1>15, <1>t
    DEF Phase, AdvanceReload, TypeOK, Offered, Handing, Asked, Waiting,
        Abandoned, Producing, Fresh, Taken
  <2>2. QED
    BY <2>1 DEF Values!vars
<1>16. CASE AdvanceAwait
  <2>1. Phase' = Phase /\ UNCHANGED <<received, ended>>
    BY <1>16, <1>t
    DEF Phase, AdvanceAwait, ConsumerStops, ResumeProducer, TypeOK, Offered, Handing, Asked, Waiting,
        Abandoned, Producing, Fresh, Taken
  <2>2. QED
    BY <2>1 DEF Values!vars
<1>17. CASE AdvanceSuspend
  <2>1. Phase' = Phase /\ UNCHANGED <<received, ended>>
    BY <1>17, <1>t
    DEF Phase, AdvanceSuspend, ConsumerStops, TypeOK, Offered, Handing, Asked, Waiting,
        Abandoned, Producing, Fresh, Taken
  <2>2. QED
    BY <2>1 DEF Values!vars
<1>18. CASE Receive
  <2>1. Values!Take
    BY <1>18, <1>t
    DEF Values!Take, Phase, Receive, TypeOK, Offered, Handing, Asked, Waiting,
        Abandoned, Producing, Fresh, Taken
  <2>2. QED
    BY <2>1 DEF Values!Next
<1>19. CASE UNCHANGED vars
  BY <1>19 DEF vars, Phase, Values!vars
<1>20. QED
  BY <1>1, <1>2, <1>3, <1>4, <1>5, <1>6, <1>7, <1>8, <1>9, <1>10, <1>11, <1>12, <1>13, <1>14, <1>15, <1>16, <1>17, <1>18, <1>19
  DEF Next, YieldStep, AdvanceStep

(* The safety of ImplementsStream, for any number of values: what the      *)
(* consumer sees is one value, or the end, for each request, and nothing   *)
(* is computed that was not asked for (async.h 599-784).                   *)
THEOREM StreamOnDemand == Spec => Values!SafeSpec
<1>1. Init => Values!Init
  BY DEF Init, Values!Init, Phase
<1>2. QED
  BY <1>1, StepMaps, Invariance, PTL DEF Spec, Values!SafeSpec
=============================================================================
