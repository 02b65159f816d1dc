------------------------------ MODULE MCOramKv ------------------------------
EXTENDS OramKv

(* The instance has the sizes that the refinement needs. *)
ASSUME InstanceSizes == KvSizes

KvSymmetry == Permutations(Keys) \cup Permutations(Vals)
=============================================================================
