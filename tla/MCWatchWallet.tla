--------------------------- MODULE MCWatchWallet ---------------------------
(* Instances of WatchWallet for TLC. *)
EXTENDS WatchWallet, TLC

OutpointSymmetry == Permutations(Outpoint)
=============================================================================
