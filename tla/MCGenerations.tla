---------------------------- MODULE MCGenerations ----------------------------
(* Generations for TLC: the threads and the generations are interchangeable. *)
EXTENDS Generations, TLC

MCSymmetry == Permutations(Threads) \union Permutations(Generations)
=============================================================================
