---------------------------- MODULE ConnectionMC ----------------------------
(***************************************************************************)
(* Connection for TLC: two connections beside one another, of which a      *)
(* behavior runs one.  On "kqueue" the directions of the socket have       *)
(* registrations of their own, and the client ends its stream in a way     *)
(* that recv reports as the end; on "epoll" they share one, and the        *)
(* connection may also fail.                                               *)
(***************************************************************************)
EXTENDS Connection

VARIABLE kind

(* recv reports both of these as the end of the stream. *)
QuietEnds == {"eof", "reset"}

OnEpoll == INSTANCE Connection
           WITH Backend <- "epoll", Ends <- QuietEnds \cup {"failed"}

vars_mc == <<vars_connection, kind>>

MCInit == ConnectionInit /\ kind \in {"kqueue", "epoll"}

MCNext ==
  /\ \/ kind = "kqueue" /\ ConnectionNext
     \/ kind = "epoll" /\ OnEpoll!ConnectionNext
  /\ UNCHANGED kind

ThreadRuns ==
  /\ \/ kind = "kqueue" /\ ThreadStep
     \/ kind = "epoll" /\ OnEpoll!ThreadStep
  /\ UNCHANGED kind

(* Fairness of Connection; LoopReceives and ClientReads do not look at the *)
(* back end.                                                               *)
MCSpec ==
  /\ MCInit /\ [][MCNext]_vars_mc
  /\ WF_vars_mc(ThreadRuns)
  /\ \A d \in Directions : WF_vars_mc(LoopReceives(d) /\ UNCHANGED kind)
  /\ WF_vars_mc(ClientReads /\ UNCHANGED kind)

(* Where recv and send do not disturb one another and the stream ends      *)
(* quietly, "wait until all send operations finish" (main.cpp:52) holds.   *)
QuietNoneOutlives == kind = "kqueue" => NoneOutlives

(* Every request that was read is answered, or its send has failed, while *)
(* the others go on; only on epoll handle() may end under the responses    *)
(* (main.cpp 18-54).                                                       *)
AnsweredWhileOpen ==
  \A r \in Requests :
    respond[r] # "none" ~> respond[r] = "over" \/ (kind = "epoll" /\ handle = "over")
=============================================================================
