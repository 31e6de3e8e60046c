--------------------------- MODULE MCCommandRing ---------------------------
(* Instances of CommandRing for TLC. *)
EXTENDS CommandRing, TLC

Symmetry == Permutations(Producers) \cup Permutations(Values)
=============================================================================
