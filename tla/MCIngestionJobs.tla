--------------------------- MODULE MCIngestionJobs ---------------------------
(* IngestionJobs for TLC. *)
EXTENDS IngestionJobs, TLC

MCSymmetry == Permutations(Keys) \union Permutations(Callers)
=============================================================================
