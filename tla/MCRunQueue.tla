----------------------------- MODULE MCRunQueue -----------------------------
(***************************************************************************)
(* Constants of the RunQueue instances TLC checks.                         *)
(***************************************************************************)
EXTENDS RunQueue

\* One schedule, every minute, in the first workspace.
CONSTANT MCWorkspace

MCScheduleWorkspace == [s \in Schedules |-> MCWorkspace]

MCScheduleRunType == [s \in Schedules |-> "semantic_bootstrap"]

MCInterval == [s \in Schedules |-> 1]
====
