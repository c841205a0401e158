------------------------------- MODULE MCCadence -------------------------------
(* Small instances of Cadence: the unit is about 30 seconds; bucket 2 is the
   intraday rotation, which builds its symbol list before its scan. *)
EXTENDS Cadence

MCPrestart == [b \in Buckets |-> IF b = 2 THEN 1 ELSE 0]
MCInterval == [b \in Buckets |-> IF b = 1 THEN 11 ELSE 3]
=============================================================================
