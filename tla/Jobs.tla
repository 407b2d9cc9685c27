-------------------------------- MODULE Jobs --------------------------------
(***************************************************************************)
(* What TaskScheduler.h promises its callers: a task that was started runs *)
(* once, or again and again when it is periodic, and the unloading of the  *)
(* DLL waits for what is running and cancels what is not                   *)
(* (TaskScheduler.h:11-13).  No timer queue, no deleter list.              *)
(***************************************************************************)
CONSTANTS Tasks, Periodic

VARIABLES job,   \* per task: "none", "pending" or "running"
          open   \* tasks can be started

vars == <<job, open>>

Init == job = [t \in Tasks |-> "none"] /\ open = TRUE

Start(t) ==
  /\ open /\ job[t] = "none"
  /\ job' = [job EXCEPT ![t] = "pending"] /\ UNCHANGED open

Begin(t) ==
  /\ job[t] = "pending"
  /\ job' = [job EXCEPT ![t] = "running"] /\ UNCHANGED open

End(t) ==
  /\ job[t] = "running"
  /\ job' = [job EXCEPT ![t] = IF t \in Periodic /\ open THEN "pending" ELSE "none"]
  /\ UNCHANGED open

\* What has not begun never will; what is running goes on.
Close ==
  /\ open /\ open' = FALSE
  /\ job' = [t \in Tasks |-> IF job[t] = "pending" THEN "none" ELSE job[t]]

\* The process ends.
Kill ==
  /\ open /\ open' = FALSE
  /\ job' = [t \in Tasks |-> "none"]

\* The DLL is loaded again, when nothing is left of its earlier life.
Reopen ==
  /\ ~open /\ open' = TRUE
  /\ job = [t \in Tasks |-> "none"] /\ UNCHANGED job

Next ==
  \/ \E t \in Tasks : Start(t) \/ Begin(t) \/ End(t)
  \/ Close \/ Kill \/ Reopen

SafeSpec == Init /\ [][Next]_vars

\* A task that was started runs, and ends, unless it is cancelled.
Spec == SafeSpec /\ \A t \in Tasks : WF_vars(Begin(t)) /\ WF_vars(End(t))
=============================================================================
