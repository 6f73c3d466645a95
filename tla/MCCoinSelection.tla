-------------------------- MODULE MCCoinSelection --------------------------
(* Instances of CoinSelection for TLC. *)
EXTENDS SelectionRefinement
=============================================================================
