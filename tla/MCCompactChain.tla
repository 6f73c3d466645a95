--------------------------- MODULE MCCompactChain ---------------------------
(* Instances of CompactChain for TLC. *)
EXTENDS CompactChain, TLC

OutpointSymmetry == Permutations(Outpoint)
=============================================================================
