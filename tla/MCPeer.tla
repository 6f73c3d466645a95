------------------------------- MODULE MCPeer -------------------------------
(* Instances of Peer for TLC. *)
EXTENDS Peer
=============================================================================
