--------------------------- MODULE MCModelManager ---------------------------
(* One model, which the managed runtime and another may hold.              *)
EXTENDS ModelManager, TLC

Everywhere == [e \in Endpoint |-> Model]

Symmetry == Permutations(Digest)
=============================================================================
