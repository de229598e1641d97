----------------------------- MODULE ContextMC -----------------------------
(***************************************************************************)
(* Context for TLC: three loops beside one another, of which a behavior    *)
(* runs one.                                                               *)
(*                                                                         *)
(*   "iocp"     a completion port; buffers of one and two entries          *)
(*   "failing"  an eventfd without schedule(); one thread passes an empty  *)
(*              buffer, and its wait fails                                 *)
(*   "losing"   an eventfd with schedule() and without stop(): interrupts  *)
(*              and schedules replace one another                          *)
(***************************************************************************)
EXTENDS Context

CONSTANTS t1, t2, c1, c2
VARIABLE loopKind

(* main() uses the default of 1; a larger buffer makes batches of several  *)
(* entries.                                                                *)
OneAndTwo == [t \in Threads |-> IF t = t1 THEN 1 ELSE 2]

(* One thread passes an empty buffer, which the wait refuses.              *)
NoneAndTwo == [t \in Threads |-> IF t = t1 THEN 0 ELSE 2]

Failing == INSTANCE Context
           WITH Backend <- "epoll", Schedulers <- {}, BufferSize <- NoneAndTwo
Losing == INSTANCE Context WITH Backend <- "epoll"

vars_mc == <<vars, loopKind>>

MCInit == Init /\ loopKind \in {"iocp", "failing", "losing"}

MCNext ==
  /\ \/ loopKind = "iocp" /\ Next
     \/ loopKind = "failing" /\ Failing!Next
     \/ loopKind = "losing" /\ Losing!Next /\ ~ stopRequested'
  /\ UNCHANGED loopKind

ThreadRuns(t) ==
  /\ \/ loopKind = "iocp" /\ ThreadStep(t)
     \/ loopKind = "failing" /\ Failing!ThreadStep(t)
  /\ UNCHANGED loopKind

CoroutineRuns(c) ==
  /\ \/ loopKind = "iocp" /\ CoroutineStep(c)
     \/ loopKind = "failing" /\ Failing!CoroutineStep(c)
  /\ UNCHANGED loopKind

(* Fairness of Context for the loops that are asked for progress. *)
MCSpec ==
  /\ MCInit /\ [][MCNext]_vars_mc
  /\ \A t \in Threads : WF_vars_mc(ThreadRuns(t))
  /\ \A c \in Coroutines : WF_vars_mc(CoroutineRuns(c))

(* Each loop's own NobodyForgotten: on an eventfd only a schedule may be   *)
(* lost (context.cpp 136-160).                                             *)
LoopForgetsNobody ==
  IF loopKind = "iocp" THEN NobodyForgotten ELSE Losing!NobodyForgotten

(* What is queued is resumed, where no post replaces another               *)
(* (context.cpp 136-153 and 195-202).                                      *)
LoopResumesQueued == loopKind # "losing" => QueuedResumed
=============================================================================
