--------------------------- MODULE MCStoreGateway ---------------------------
(***************************************************************************)
(* StoreGateway for TLC: one slot per lane, as in the safe profile; a      *)
(* query may be cancelled twice during its call, a publication once.       *)
(***************************************************************************)
EXTENDS StoreGateway, TLC

MCThreads == Queries \union Probers \union Publishers \union Retirers
MCSlots == [l \in LaneNames |-> 1]
MCCancels == [t \in MCThreads |-> CASE t \in Queries -> 2
                                    [] t \in Publishers -> 1
                                    [] OTHER -> 0]

\* The query or the probe at a time; one task once a generation is fenced.
MCUnderWay == {t \in Threads : task[t] # "out" \/ op[t] # "none"}
MCBound ==
    /\ Cardinality(MCUnderWay \intersect Readers) <= 1
    /\ incompatible # {} => Cardinality(MCUnderWay) <= 1
MCSymmetry == Permutations(Generations)
=============================================================================
