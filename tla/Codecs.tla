------------------------------- MODULE Codecs -------------------------------
(***************************************************************************)
(* The two things the client reads as bytes: what a peer sends (Wire) and  *)
(* the segments of its store (SegmentFile).  They share no state, so one   *)
(* or the other takes steps, and their steps are not interleaved.          *)
(***************************************************************************)
EXTENDS Wire, SegmentFile

CodecsInit == WireInit /\ FileInit

CodecsNext ==
  \/ log = <<>> /\ got = NotRead /\ WireNext /\ UNCHANGED fileVars
  \/ sent = <<>> /\ ~ closed /\ FileNext /\ UNCHANGED wireVars

CodecsSpec == CodecsInit /\ [][CodecsNext]_<<wireVars, fileVars>>

=============================================================================
