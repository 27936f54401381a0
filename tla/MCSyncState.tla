---------------------------- MODULE MCSyncState ----------------------------
(* SyncState for TLC. *)
EXTENDS SyncState, TLC

MCSymmetry == Permutations(Files) \union Permutations(Versions)

\* A bound on the failed attempts on record.
MCMaxPending == 2
MCFewPending == Cardinality(pending) <= MCMaxPending
=============================================================================
