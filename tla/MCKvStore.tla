----------------------------- MODULE MCKvStore -----------------------------
(* Instances of KvStore for TLC. *)
EXTENDS KvSession, KvRefinement, TLC

\* Keys that clients treat alike.
KeySymmetry == Permutations(KeptKey)
=============================================================================
