------------------------ MODULE MCExecutionPipeline ------------------------
(* Small instances of ExecutionPipeline. *)
EXTENDS ExecutionPipeline, TLC

CONSTANTS t1, t2, procA, procB

OneSymbol == [p \in Proposals |-> CHOOSE s \in Symbols : TRUE]
OneProcess == [t \in Threads |-> procA]
TwoProcesses == [t \in Threads |-> IF t = t1 THEN procA ELSE procB]

Symmetry == Permutations(ExecIds)
=============================================================================
