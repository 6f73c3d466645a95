----------------------------- MODULE KvSession ------------------------------
(***************************************************************************)
(* One life of the process, up to its first merge, which begins with an    *)
(* empty directory.                                                        *)
(***************************************************************************)
EXTENDS KvStoreInv

\* What the steps of that life keep: start-up finds no segment to read, and from then on
\* the directory points at the last entry of each key, in a segment that is open.
SessionInv ==
  /\ pc \in {"down", "reload", "idle"}
  /\ pc = "down" => disk = {}
  /\ pc = "reload" => left = {} /\ cur = 0
  /\ pc # "idle" => \A k \in Key : keyDir[k] = NoEntry /\ last[k] = {}
  /\ pc = "idle" => \A k \in Key :
       \/ keyDir[k] = NoEntry /\ last[k] = {}
       \/ /\ keyDir[k] # NoEntry /\ keyDir[k].file \in Live
          /\ last[k] = {GetValue(k)}
=============================================================================
