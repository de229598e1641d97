---------------------------- MODULE AsyncTaskMC ----------------------------
(***************************************************************************)
(* AsyncTask for TLC, with the mapping under which it implements CallStack *)
(***************************************************************************)
EXTENDS AsyncTask, FiniteSetsExt

(* The innermost call: every coroutine above it stands still.              *)
Innermost == Max({i \in Coroutines : \A j \in 0 .. i - 1 : co[j] = "awaiting"})

Calls == INSTANCE CallStack WITH depth <- Innermost, ended <- co[Innermost] = "final"

(* co_await of an async<T> is a call (async.h 452-541): the awaiter stands *)
(* still until the body has ended, on whatever threads, and then goes on   *)
(* once; with threads that do not stop inside the handshake it does go on. *)
ImplementsCallStack == Calls!Spec
=============================================================================
