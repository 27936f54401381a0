--------------------------- MODULE MCJournalStore ---------------------------
(***************************************************************************)
(* JournalStore for TLC.  Run r1 has node batches n1 and n2 behind the     *)
(* barrier "nodes" and an edge batch e1 that waits for it; run r2, of the  *)
(* same scope, has the one batch x1.                                       *)
(***************************************************************************)
EXTENDS JournalStore, TLC

CONSTANTS r1, r2, n1, n2, e1, x1, nodes

MCSymmetry == Permutations({n1, n2})
MCScopeOf == [r \in Runs |-> "scope"]
MCRunOf == [j \in Jobs |-> IF j = x1 THEN r2 ELSE r1]
MCSequence == [j \in Jobs |-> IF j = e1 THEN 1 ELSE 0]
MCLedger == [j \in Jobs |-> CASE j \in {n1, n2} -> "node"
                              [] j = e1 -> "edge"
                              [] OTHER -> "none"]
MCBarrierRun == [b \in Barriers |-> r1]
MCRequires == [j \in Jobs |-> IF j = e1 THEN {nodes} ELSE {}]
MCProduces == [j \in Jobs |-> IF j \in {n1, n2} THEN {nodes} ELSE {}]
=============================================================================
