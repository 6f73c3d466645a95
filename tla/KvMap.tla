------------------------------- MODULE KvMap -------------------------------
(***************************************************************************)
(* What a client of the store (component:kv/types) can rely on.  Between   *)
(* merges and restarts the store is a map: each answer is changed only by  *)
(* a successful insert or delete of that key, to what the call asked for.  *)
(* A merge or a restart may set keys back to values they had before.  It   *)
(* never loses a key that is only ever inserted; a key that clients may    *)
(* delete can also vanish, or come back as the empty value of a tombstone. *)
(***************************************************************************)
CONSTANTS Key, Value, Empty, DeletableKey

VARIABLES
  status,    \* "open" while the process is up and answers, "closed" otherwise
  dict,      \* dict[k]: {v} when get(k) answers v, {} when it answers nothing
  asked,     \* {<<k, v>>} while insert(k, v) runs the merge that comes before it
  inserted,  \* the <<key, value>> pairs of the inserts that have succeeded
  last       \* last[k]: {v} after a successful insert(k, v), {} after delete(k)

map_vars == <<status, dict, asked, inserted, last>>

NoAnswer == [k \in Key |-> {}]

Init ==
  /\ status = "closed"
  /\ dict = NoAnswer
  /\ asked = {}
  /\ inserted = {}
  /\ last = NoAnswer

\* insert(k, v) succeeds, at once or after its merge.
Insert(k, v) ==
  /\ status = "open"
  /\ asked \subseteq {<<k, v>>}
  /\ asked' = {}
  /\ dict' = [dict EXCEPT ![k] = {v}]
  /\ last' = [last EXCEPT ![k] = {v}]
  /\ inserted' = inserted \cup {<<k, v>>}
  /\ UNCHANGED status

Delete(k) ==
  /\ status = "open"
  /\ asked = {}
  /\ dict' = [dict EXCEPT ![k] = {}]
  /\ last' = [last EXCEPT ![k] = {}]
  /\ UNCHANGED <<status, asked, inserted>>

\* insert(k, v) finds a merge due.
BeginMerge(k, v) ==
  /\ status = "open"
  /\ asked = {}
  /\ asked' = {<<k, v>>}
  /\ UNCHANGED <<status, dict, inserted, last>>

\* The answers for k that its history allows.
Versions(k) ==
  {{v} : v \in {w \in Value : <<k, w>> \in inserted}}
    \cup (IF k \in DeletableKey THEN {{}, {Empty}} ELSE {})
    \cup (IF \E v \in Value : <<k, v>> \in inserted THEN {} ELSE {{}})

\* Only while an insert is behind its merge can answers go back.
Merge ==
  /\ status = "open"
  /\ asked # {}
  /\ DOMAIN dict' = Key
  /\ \A k \in Key : dict'[k] \in Versions(k)
  /\ UNCHANGED <<status, asked, inserted, last>>

\* The insert fails after its merge; one that fails without a merge is a stutter.
InsertFails ==
  /\ asked # {}
  /\ asked' = {}
  /\ UNCHANGED <<status, dict, inserted, last>>

Die ==
  /\ status = "open"
  /\ status' = "closed"
  /\ dict' = NoAnswer
  /\ asked' = {}
  /\ UNCHANGED <<inserted, last>>

Restart ==
  /\ status = "closed"
  /\ status' = "open"
  /\ DOMAIN dict' = Key
  /\ \A k \in Key : dict'[k] \in Versions(k)
  /\ UNCHANGED <<asked, inserted, last>>

Next ==
  \/ \E k \in Key, v \in Value : Insert(k, v) \/ BeginMerge(k, v)
  \/ \E k \in DeletableKey : Delete(k)
  \/ Merge
  \/ InsertFails
  \/ Die
  \/ Restart

Spec == Init /\ [][Next]_map_vars
=============================================================================
