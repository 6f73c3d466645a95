---------------------------- MODULE KvRefinement ----------------------------
(***************************************************************************)
(* The store of KvStore as an implementation of KvMap, over merges,        *)
(* crashes and restarts.                                                   *)
(***************************************************************************)
EXTENDS KvStoreInv

Status == IF Running THEN "open" ELSE "closed"

\* What get answers.
Answer(k) == IF GetStatus(k) = "Ok" THEN {GetValue(k)} ELSE {}

Answers == [k \in Key |-> IF Running THEN Answer(k) ELSE {}]

Map == INSTANCE KvMap WITH
  status   <- Status,
  dict     <- Answers,
  asked    <- pending,
  inserted <- written

\* The store keeps the promises of KvMap: an answer changes only by a successful
\* insert or delete of its key, to what that call asked for, except that a merge
\* and a restart may set keys back to values they had before.  A call that fails,
\* a rollover, or the start or failure of a merge changes no answer, and the insert
\* that ends a merge is the one that began it.
ImplementsMap == Map!Spec

\* A put is pending exactly while its merge and its own append are under way.
PendingInv ==
  IF pc \in {"down", "reload", "idle"} THEN pending = {}
  ELSE \E k \in Key, v \in Value : pending = {<<k, v>>}

\* No state of a running store answers anything but a version from its history.
VersionsInv == Running => \A k \in Key : Answer(k) \in Map!Versions(k)
=============================================================================
