------------------------- MODULE MCCommandPipeline -------------------------
(* Instances of CommandPipeline for TLC. *)
EXTENDS CommandPipelineInv, TLC

CONSTANTS q1, q2, h1, h2

OneOwner  == [q \in Queues |-> h1]
TwoOwners == (q1 :> h1) @@ (q2 :> h2)

Symmetry == Permutations(Commands) \cup Permutations(Devices) \cup Permutations(Clones)
=============================================================================
