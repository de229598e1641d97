-------------------------- MODULE AsyncGeneratorMC --------------------------
(***************************************************************************)
(* AsyncGenerator for TLC, with the mapping under which it implements      *)
(* Stream.                                                                 *)
(***************************************************************************)
EXTENDS AsyncGenerator

(* Whether the producer has set the value the consumer asks for.           *)
Phase ==
  IF cpc \in {"body", "event"} THEN "using"
  ELSE IF ppc \in {"running", "event"} \/ (~ final /\ yielded = received) THEN "computing"
  ELSE "offered"

Values == INSTANCE Stream WITH phase <- Phase, count <- received, over <- ended

(* Five states, two nested resumes and cancellation amount to a stream of  *)
(* values on demand (async.h 599-784), and a value that is offered is      *)
(* taken.                                                                  *)
ImplementsStream == Values!Spec
=============================================================================
