---------------------------- MODULE MCRetention ----------------------------
(* Retention for TLC. *)
EXTENDS Retention, TLC

MCSymmetry == Permutations(Runs) \union Permutations(Payloads) \union Permutations(Analyzers)
=============================================================================
