------------------------------ MODULE MCDemoOps ------------------------------
(* One mirrored entry and the key of its emergency close; requests execute   *)
(* proposals, the scheduler reconciles and recovers.                         *)
EXTENDS DemoOps
MCKeys == {"mirror1", "close1"}
MCCloseOf == [e \in Entries |-> "close1"]
MCTraders == Callers \ {Scheduler}
=============================================================================
