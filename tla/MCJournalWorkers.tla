-------------------------- MODULE MCJournalWorkers --------------------------
(***************************************************************************)
(* JournalWorkers for TLC.  Run r1 has a node batch n1, an edge batch e1   *)
(* behind the barrier "nodes", and a file cleanup c1 that its analyzer     *)
(* awaits before it emits n1; run r2, of the same scope, has the batch x1. *)
(***************************************************************************)
EXTENDS JournalWorkers

CONSTANTS r1, r2, n1, e1, c1, x1

MCScopeOf == [r \in Runs |-> "scope"]
MCRunOf == [j \in Jobs |-> IF j = x1 THEN r2 ELSE r1]
MCSequence == [j \in Jobs |-> IF j = e1 THEN 1 ELSE 0]
MCLedger == [j \in Jobs |-> CASE j = n1 -> "node" [] j = e1 -> "edge"
                              [] OTHER -> "none"]
MCBarrierRun == [b \in Barriers |-> r1]
MCRequires == [j \in Jobs |-> IF j = e1 THEN Barriers ELSE {}]
MCProduces == [j \in Jobs |-> IF j \in {n1, c1} THEN Barriers ELSE {}]
MCFollows == [j \in Jobs |-> IF j = n1 THEN Jobs \cap {c1} ELSE {}]
MCClears == [j \in Jobs |-> IF j = c1 THEN {n1} ELSE {}]
=============================================================================
