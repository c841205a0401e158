--------------------------- MODULE MCReconciliation ---------------------------
(* Small instances of Reconciliation. *)
EXTENDS Reconciliation

ByKind == [k \in Keys |-> IF k[1] = "execution" THEN 0 ELSE 1 % Slices]
=============================================================================
