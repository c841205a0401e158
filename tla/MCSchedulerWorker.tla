-------------------------- MODULE MCSchedulerWorker --------------------------
(* Small instances of SchedulerWorker. *)
EXTENDS SchedulerWorker

TwoUnits == [j \in Jobs |-> 2]
=============================================================================
