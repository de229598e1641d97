----------------------------- MODULE CallStack -----------------------------
(***************************************************************************)
(* What co_await of an ice::async<T> promises: a call.  The caller stands  *)
(* still until the callee's body has ended, then goes on, once; calls nest *)
(* like those of plain functions, whatever threads run the bodies.         *)
(* AsyncTask, the handshake in include/ice/async.h, is shown to implement  *)
(* this specification.                                                     *)
(***************************************************************************)
EXTENDS Naturals

CONSTANT Depth   \* how deep calls nest

VARIABLES depth,  \* the innermost call; 0 is the coroutine nobody awaits
          ended   \* the body of the innermost call has ended

vars == <<depth, ended>>

Init == depth = 0 /\ ended = FALSE

Call ==
  /\ ~ ended
  /\ depth < Depth
  /\ depth' = depth + 1
  /\ UNCHANGED ended

End ==
  /\ ~ ended
  /\ depth > 0
  /\ ended' = TRUE
  /\ UNCHANGED depth

Return ==
  /\ ended
  /\ depth' = depth - 1
  /\ ended' = FALSE

Next == Call \/ End \/ Return

SafeSpec == Init /\ [][Next]_vars

(* A call that has ended returns. *)
Spec == SafeSpec /\ WF_vars(Return)
=============================================================================
