---------------------------- MODULE MCAutoPropose ----------------------------
(* Each symbol is the only one of its correlation group. *)
EXTENDS AutoPropose, TLC
MCGroupOf == [s \in Symbols |-> s]
Symmetry == Permutations(Ids) \cup Permutations(Symbols)
=============================================================================
