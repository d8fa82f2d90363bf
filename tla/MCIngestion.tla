---------------------------- MODULE MCIngestion -----------------------------
(* An instance of IngestionCycle for TLC.  Masters are alike. *)
EXTENDS IngestionCycle, TLC

Symmetry == Permutations(Batches)

\* The open interest differs at each time.
Growing == [t \in 0 .. MaxTime |-> t * t]
=============================================================================
