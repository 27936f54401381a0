--------------------------- MODULE MCNodeFirstSync ---------------------------
(***************************************************************************)
(* NodeFirstSync for TLC: an analyzer that emits a file cleanup c1, a node *)
(* batch n1 with the barrier own, and an edge batch e1.                    *)
(***************************************************************************)
EXTENDS NodeFirstSync

CONSTANTS c1, n1, e1, own

MCScopeOf == [r \in Runs |-> "scope"]
MCRunOf == [j \in Jobs |-> Run]
MCSequence == [j \in Jobs |-> 0]
MCLedger == [j \in Jobs |-> CASE j = n1 -> "node" [] j = e1 -> "edge"
                              [] OTHER -> "none"]
MCBarrierRun == [b \in Barriers |-> Run]
MCRequires == [j \in Jobs |-> IF j = e1 THEN Barriers ELSE {}]
MCProduces == [j \in Jobs |-> CASE j = c1 -> {NodePhase}
                               [] j = n1 -> {NodePhase, own}
                               [] OTHER -> {}]
MCNone == [j \in Jobs |-> {}]
MCOrder == <<c1, n1, e1>>
MCClears == [j \in Jobs |-> IF j = c1 THEN {n1} ELSE {}]
=============================================================================
