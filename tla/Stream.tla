------------------------------- MODULE Stream -------------------------------
(***************************************************************************)
(* What ice::async_generator promises its consumer: values on demand.  The *)
(* producer computes only when a value was asked for, and each request is  *)
(* answered by the next value or by the end, after which nothing is asked. *)
(* AsyncGenerator is shown to implement this specification.                *)
(***************************************************************************)
EXTENDS Naturals

VARIABLES phase,    \* "using" the last value, "computing" the next, "offered"
          count,    \* values received
          over      \* the end was received

vars == <<phase, count, over>>

Init == phase = "using" /\ count = 0 /\ over = FALSE

Ask ==
  /\ phase = "using"
  /\ ~ over
  /\ phase' = "computing"
  /\ UNCHANGED <<count, over>>

Offer ==
  /\ phase = "computing"
  /\ phase' = "offered"
  /\ UNCHANGED <<count, over>>

Take ==
  /\ phase = "offered"
  /\ phase' = "using"
  /\ \/ count' = count + 1 /\ UNCHANGED over
     \/ over' = TRUE /\ UNCHANGED count

(* The consumer replaces its generator by a new one. *)
Restart ==
  /\ phase = "using"
  /\ count' = 0
  /\ over' = FALSE
  /\ UNCHANGED phase

Next == Ask \/ Offer \/ Take \/ Restart

SafeSpec == Init /\ [][Next]_vars

(* An offered value is taken. *)
Spec == SafeSpec /\ WF_vars(Take)
=============================================================================
