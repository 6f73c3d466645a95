------------------------ MODULE SelectionRefinement ------------------------
(***************************************************************************)
(* CoinSelection, turn by turn, implements WatchWallet, where the call of  *)
(* create_psbt_tx is one step that takes any selection it may take.  The   *)
(* wallet of WatchWallet is the one a call began with (CallDepth,          *)
(* CallKeys), until the call returns.                                      *)
(***************************************************************************)
EXTENDS CoinSelection

Wallet == INSTANCE WatchWallet WITH changeDepth <- CallDepth, pubkeyMap <- CallKeys

\* coin_select returns what WatchWallet says it may: the cheapest selection that needs no change
\* if there is one and the tries suffice, else outputs drawn until the target is met; and it
\* fails only if the outputs cannot pay, or if the draw takes some that cost more than they are
\* worth.
ImplementsWallet == Wallet!WalletSpec
=============================================================================
