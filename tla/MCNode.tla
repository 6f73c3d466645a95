------------------------------- MODULE MCNode -------------------------------
(* Instances of Node for TLC. *)
EXTENDS Node
=============================================================================
