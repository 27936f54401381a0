---------------------------- MODULE MCLinkStore ----------------------------
(* LinkStore for TLC. *)
EXTENDS LinkStore, TLC

\* A query that builds the database has ended before the next worker begins.
MCBriefQueries == \A r \in Readers : reader[r] # NoRecord => worker.at # "begun"
MCSymmetry == Permutations(Links) \union Permutations(SourceHashes)
=============================================================================
