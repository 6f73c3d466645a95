-------------------------------- MODULE Wire --------------------------------
(***************************************************************************)
(* What a client makes of the bytes of a peer: the messages of the stream  *)
(* (Messages, MessageStream), and the filters among them matched against   *)
(* the scripts of the wallet (BlockFilter), as find_and_update_utxo does   *)
(* (node/src/chain.rs).                                                    *)
(***************************************************************************)
EXTENDS Messages, MessageStream, BlockFilter

CONSTANTS
  Blocks,   \* what filters are made of: sequences of the hashes of scripts
  Queries   \* sequences of the hashes of the wallet's scripts

VARIABLES
  asked,   \* <<all, query>> of the last match, or NotAsked
  answer   \* what it returned

wireVars == <<sent, stream, closed, seen, asked, answer>>

NotAsked == <<>>

WireInit == MsgInit /\ asked = NotAsked /\ answer = FALSE

\* The filter of the last message read.
IsFilter == seen # <<>> /\ Last(seen).res = "message" /\ Last(seen).msg.cmd = "cfilter"
Content == Last(seen).msg.val.filter_bytes

\* BlockFilter::match_any and match_all on the filter just read.  Bound: nothing follows it.
MatchFilter(all, query) ==
  /\ IsFilter /\ asked = NotAsked /\ stream = <<>>
  /\ asked' = <<all, query>>
  /\ answer' = IF all THEN MatchAll(Content, query) ELSE MatchAny(Content, query)
  /\ UNCHANGED msgVars

WireNext ==
  \/ asked = NotAsked /\ MsgNext /\ UNCHANGED <<asked, answer>>
  \/ \E all \in BOOLEAN, query \in Queries : MatchFilter(all, query)

WireSpec == WireInit /\ [][WireNext]_wireVars

-----------------------------------------------------------------------------
(* Properties *)

\* The blocks with their filters.
Filters == {<<b, FilterOf(b)>> : b \in Blocks}

Numbers(hashes, nm) == {MapToRange(hashes[i], nm) : i \in 1 .. Len(hashes)}

\* A filter answers for the scripts it was made of: any matches exactly when the query and the
\* block share a number, so that no script of the block is ever missed, all exactly when every
\* number of the query is one of the block's.  The filter is never read past its end
\* (GcsFilterReader::match_any, match_all).
FilterTold ==
  asked # NotAsked =>
    \A f \in Filters : f[2] = Content =>
      LET nm == Len(f[1]) * M
          common == Numbers(asked[2], nm) \cap Numbers(f[1], nm)
      IN answer = (IF asked[1] THEN common = Numbers(asked[2], nm)
                   ELSE common # {} \/ asked[2] = <<>>)

=============================================================================
