------------------------------ MODULE MCEtoroLive ------------------------------
(* Small instances of EtoroLive. *)
EXTENDS EtoroLive, TLC

CONSTANTS a, b
SymbolSymmetry == Permutations(Symbols)
=============================================================================
