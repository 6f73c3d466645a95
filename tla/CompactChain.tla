---------------------------- MODULE CompactChain ----------------------------
(***************************************************************************)
(* Synchronisation with the block chain (node/src/chain.rs): sync_state    *)
(* asks the peer for headers after the last block, then, batch by batch,   *)
(* for the compact filters of those blocks, fetches the blocks that match  *)
(* a script of the wallet and reports their outputs and inputs to it.      *)
(*                                                                         *)
(* Abstractions.                                                           *)
(*  - The peer's chain only grows, so a block hash is the height of its    *)
(*    block; the client keeps the hash and the height apart, and so does   *)
(*    the model.                                                           *)
(*  - Of a block, the model has the outputs it creates and spends that the *)
(*    wallet could own.  A filter matches a block that has one of them     *)
(*    (BIP 158); a false positive fetches a block in which nothing is      *)
(*    found.                                                               *)
(*  - A request either is answered as the protocol says or fails: timeout, *)
(*    NOTFOUND, a filter that does not hash to its header.                 *)
(***************************************************************************)
EXTENDS WatchWallet

CONSTANTS
  FilterSize,   \* FILTER_SIZE
  MaxHeaders,   \* MAX_HEADER_LEN
  MaxTip        \* bound: height of the chain

ASSUME ChainAssumption ==
  /\ FilterSize \in Nat \ {0}
  /\ MaxHeaders \in Nat \ {0}
  /\ MaxTip \in Nat

VARIABLES
  tip,             \* the peer's chain: its height,
  txout,           \*   the outputs in it,
  created,         \*   and the block that creates and the one that spends each
  spent,           \*   (0 for none)
  lastBlockHeight, \* chain_state
  lastBlockHash,
  pc,              \* where sync_state is
  n,               \* fetched_block_headers.len()
  block,           \* current_block_num and block_headers_counter of the next turn
  counter,         \*   of the loop over block_numbers
  scanned          \* history: for each block, the batch that scanned it last, by its
                   \*   first block (0 for none), and the scripts watched for

peer_vars == <<tip, txout, created, spent>>
state_vars == <<lastBlockHeight, lastBlockHash>>
sync_vars == <<pc, n, block, counter>>
chain_vars == <<wallet_hist, peer_vars, state_vars, sync_vars, scanned>>

Height == 1 .. MaxTip

TxOut == [script : Script, amount : Nat]

NoTxOut == [script |-> NoKey, amount |-> 0]

NotScanned == [from |-> 0, watched |-> {}]

\* CompactChain::new
ChainStateInit ==
  /\ lastBlockHeight = 0
  /\ lastBlockHash = 0
  /\ scanned = [h \in Height |-> NotScanned]

PeerInit ==
  /\ tip = 0
  /\ txout = [o \in Outpoint |-> NoTxOut]
  /\ created = [o \in Outpoint |-> 0]
  /\ spent = [o \in Outpoint |-> 0]

SyncInit == pc = "idle" /\ n = 0 /\ block = 0 /\ counter = 0

-----------------------------------------------------------------------------
(* The peer's chain *)

\* A block that creates the outputs of outs and spends those of S.
Mine(outs, S) ==
  /\ tip < MaxTip
  /\ \A o \in DOMAIN outs : created[o] = 0
  /\ \A o \in S : spent[o] = 0 /\ (created[o] = 0 => o \in DOMAIN outs)
  /\ tip' = tip + 1
  /\ txout' = [o \in Outpoint |-> IF o \in DOMAIN outs THEN outs[o] ELSE txout[o]]
  /\ created' = [o \in Outpoint |-> IF o \in DOMAIN outs THEN tip + 1 ELSE created[o]]
  /\ spent' = [o \in Outpoint |-> IF o \in S THEN tip + 1 ELSE spent[o]]

-----------------------------------------------------------------------------
(* sync_state *)

\* keep_alive, and the first turn of the loop
StartSync ==
  /\ pc = "idle"
  /\ pc' = "headers"
  /\ UNCHANGED <<n, block, counter, wallet_hist, peer_vars, state_vars, scanned>>

StartBlock == lastBlockHeight + 1

EndBlock == StartBlock + n - 1

\* fetch_headers: the headers after last_block_hash, at most MAX_HEADER_LEN.
FetchHeaders ==
  /\ pc = "headers"
  /\ n' = Min({MaxHeaders, tip - lastBlockHash})
  /\ pc' = IF n' = 0 THEN "synced" ELSE "filters"
  /\ block' = StartBlock
  /\ counter' = FilterSize
  /\ UNCHANGED <<wallet_hist, peer_vars, state_vars, scanned>>

\* block_numbers has another block: the first one in any case, then those of
\* (start_block..end_block).step_by(FILTER_SIZE), which excludes end_block.
MoreBatches == block # StartBlock => block < EndBlock

\* Mutant: the header after which the batch stops is one too early.
StopHashEarly == lastBlockHash + Min({counter - 1, n})

\* last_known_block_hash: the header at block_headers_counter - 1, or the last one.
StopHash == lastBlockHash + Min({counter, n})

\* Mutant: the first block of a batch is left out.
FoundLate(from, to) ==
  {o \in Outpoint : created[o] \in from + 1 .. to /\ txout[o].script \in GetPubkeys}

Found(from, to) ==
  {o \in Outpoint : created[o] \in from .. to /\ txout[o].script \in GetPubkeys}

\* Mutant: outputs the wallet had before are not looked up among the inputs.
FoundUtxosNoSpends(from, to) ==
  [o \in Found(from, to) |->
     [script |-> txout[o].script, amount |-> txout[o].amount, isSpent |-> FALSE]]

\* Mutant: an output the wallet had before is taken for spent when it is seen again.
FoundUtxosAllSpent(from, to) ==
  [o \in Found(from, to) \cup {o \in Known : spent[o] \in from .. to} |->
     [script |-> txout[o].script, amount |-> txout[o].amount, isSpent |-> o \in Known]]

\* fetch_and_save_utxos, for the blocks from .. to: the outputs to scripts of the
\* wallet, and the outputs the wallet had before that are spent.
FoundUtxos(from, to) ==
  LET Spent == {o \in Known : spent[o] \in from .. to}
  IN [o \in Found(from, to) \cup Spent |->
        [script |-> txout[o].script, amount |-> txout[o].amount, isSpent |-> o \in Spent]]

\* A turn of the loop: the filters from current_block_num to last_known_block_hash.
ScanBatch ==
  /\ pc = "filters"
  /\ MoreBatches
  /\ InsertUtxos(FoundUtxos(block, StopHash))
  /\ scanned' = [h \in Height |-> IF h \in block .. StopHash
                                    THEN [from |-> block, watched |-> GetPubkeys]
                                    ELSE scanned[h]]
  /\ block' = block + FilterSize
  /\ counter' = counter + FilterSize
  /\ UNCHANGED <<txs, pc, n, peer_vars, state_vars>>

\* Mutant: the hash is not advanced with the height.
FinishRoundKeepsHash ==
  /\ pc = "filters"
  /\ ~MoreBatches
  /\ lastBlockHeight' = EndBlock
  /\ lastBlockHash' = lastBlockHash
  /\ pc' = IF n < MaxHeaders THEN "synced" ELSE "headers"
  /\ UNCHANGED <<n, block, counter, wallet_hist, peer_vars, scanned>>

\* Mutant: the state is advanced only when there are no more headers to come.
FinishRoundLast ==
  /\ pc = "filters"
  /\ ~MoreBatches
  /\ lastBlockHeight' = IF n < MaxHeaders THEN EndBlock ELSE lastBlockHeight
  /\ lastBlockHash' = IF n < MaxHeaders THEN lastBlockHash + n ELSE lastBlockHash
  /\ pc' = IF n < MaxHeaders THEN "synced" ELSE "headers"
  /\ UNCHANGED <<n, block, counter, wallet_hist, peer_vars, scanned>>

\* Mutant: is_sync is cleared before the state is advanced.
FinishRoundFull ==
  /\ pc = "filters"
  /\ ~MoreBatches
  /\ lastBlockHeight' = IF n < MaxHeaders THEN lastBlockHeight ELSE EndBlock
  /\ lastBlockHash' = IF n < MaxHeaders THEN lastBlockHash ELSE lastBlockHash + n
  /\ pc' = IF n < MaxHeaders THEN "synced" ELSE "headers"
  /\ UNCHANGED <<n, block, counter, wallet_hist, peer_vars, scanned>>

\* After the loop: fewer headers than the peer may send were the last ones.
FinishRound ==
  /\ pc = "filters"
  /\ ~MoreBatches
  /\ lastBlockHeight' = EndBlock
  /\ lastBlockHash' = lastBlockHash + n
  /\ pc' = IF n < MaxHeaders THEN "synced" ELSE "headers"
  /\ UNCHANGED <<n, block, counter, wallet_hist, peer_vars, scanned>>

\* Mutant: the chain state is advanced before the blocks are scanned.
SyncFailsAhead ==
  /\ pc \in {"headers", "filters"}
  /\ pc' = "failed"
  /\ lastBlockHeight' = IF pc = "filters" THEN EndBlock ELSE lastBlockHeight
  /\ lastBlockHash' = IF pc = "filters" THEN lastBlockHash + n ELSE lastBlockHash
  /\ UNCHANGED <<n, block, counter, wallet_hist, peer_vars, scanned>>

\* A request fails, and ? returns the error.
SyncFails ==
  /\ pc \in {"headers", "filters"}
  /\ pc' = "failed"
  /\ UNCHANGED <<n, block, counter, wallet_hist, peer_vars, state_vars, scanned>>

SyncStep == FetchHeaders \/ ScanBatch \/ FinishRound

SyncReturns ==
  /\ pc \in {"synced", "failed"}
  /\ pc' = "idle" /\ n' = 0 /\ block' = 0 /\ counter' = 0
  /\ UNCHANGED <<wallet_hist, peer_vars, state_vars, scanned>>

-----------------------------------------------------------------------------
(* The chain by itself, with the wallet it reports to.  The owner of the keys may *)
(* spend outputs with another client.                                             *)

ChainInit == WalletInit /\ PeerInit /\ ChainStateInit /\ SyncInit

MineAny ==
  /\ \E C \in SUBSET Outpoint, S \in SUBSET Outpoint :
       \E outs \in [C -> [script : Script, amount : Amount]] : Mine(outs, S)
  /\ UNCHANGED <<wallet_hist, state_vars, sync_vars, scanned>>

NewAddress ==
  /\ pc = "idle"
  /\ GetReceiveAddress
  /\ UNCHANGED <<txs, peer_vars, state_vars, sync_vars, scanned>>

ChainNext ==
  \/ MineAny
  \/ NewAddress
  \/ StartSync
  \/ FetchHeaders
  \/ ScanBatch
  \/ FinishRound
  \/ SyncFails
  \/ SyncReturns

ChainSpec == ChainInit /\ [][ChainNext]_chain_vars

\* The call that syncs keeps running, and the user keeps calling.
FairChainSpec ==
  /\ ChainSpec
  /\ WF_chain_vars(SyncStep)
  /\ WF_chain_vars(StartSync \/ SyncReturns)

-----------------------------------------------------------------------------
(* Properties *)

\* The types of the chain's state.
ChainTypeOK ==
  /\ WalletTypeOK
  /\ tip \in 0 .. MaxTip
  /\ txout \in [Outpoint -> TxOut \cup {NoTxOut}]
  /\ created \in [Outpoint -> 0 .. MaxTip]
  /\ spent \in [Outpoint -> 0 .. MaxTip]
  /\ lastBlockHeight \in Nat
  /\ lastBlockHash \in 0 .. MaxTip
  /\ pc \in {"idle", "headers", "filters", "synced", "failed"}
  /\ n \in 0 .. MaxHeaders
  /\ block \in Nat
  /\ counter \in Nat
  /\ scanned \in [Height -> [from : 0 .. MaxTip, watched : SUBSET Script]]

\* last_block_height is the height of the block last_block_hash names, whatever
\* headers the peer sent and whatever failed: filters are asked for by height up to
\* a hash.
HeightMatchesHash == lastBlockHeight = lastBlockHash

\* A block sync_state has left behind without scanning it comes right after a full
\* batch of FILTER_SIZE blocks: it was the last one of its headers.
NoGaps ==
  \A h \in 1 .. lastBlockHeight :
    scanned[h].from = 0 => /\ h > FilterSize
                           /\ scanned[h - 1].from = h - FilterSize

\* What the turns of the loop in sync_state keep: the heights of the batches agree
\* with the hashes they are fetched by, no block the loop has passed is unscanned,
\* and the batch before the current one was full.
LoopInv ==
  /\ lastBlockHash <= tip
  /\ \A h \in Height : h > tip => scanned[h] = NotScanned
  /\ pc = "filters" =>
       /\ n > 0 /\ n <= tip - lastBlockHash
       /\ block >= StartBlock
       /\ counter = block - StartBlock + FilterSize
       /\ \A h \in StartBlock .. EndBlock : h < block => scanned[h].from # 0
       /\ block # StartBlock /\ block <= EndBlock =>
            block > FilterSize /\ scanned[block - 1].from = block - FilterSize

\* The wallet holds what fetch_and_save_utxos read in the blocks, no less and no
\* more: an output to a script watched when its block was scanned is in the wallet,
\* and one in the wallet is on the chain as the wallet has it.
OutputsFound ==
  /\ \A o \in Outpoint :
       created[o] # 0 /\ txout[o].script \in scanned[created[o]].watched => o \in Known
  /\ \A o \in Known :
       /\ created[o] # 0
       /\ utxoMap[o].script = txout[o].script
       /\ utxoMap[o].amount = txout[o].amount

\* The wallet takes an output for spent only if a block spends it, failed and repeated
\* scans included.
NoFalseSpent == \A o \in Known : utxoMap[o].isSpent => spent[o] # 0

\* An output of the wallet that a scanned block has spent, and that the wallet counts
\* as unspent all the same, was created in the batch that spends it: insert_utxos
\* comes after the inputs are looked up.
SpendsFound ==
  \A o \in Known :
    /\ spent[o] \in 1 .. lastBlockHeight
    /\ scanned[spent[o]].from # 0
    /\ ~utxoMap[o].isSpent
    => scanned[created[o]].from = scanned[spent[o]].from

\* What the turns of the loop keep of the state: its types, what they have done
\* (LoopInv), and the properties above that rest on these.
SyncInv ==
  ChainTypeOK /\ HeightMatchesHash /\ NoGaps /\ LoopInv /\ OutputsFound /\ NoFalseSpent

\* The blocks that begin a batch of the current round.
BatchStart(b) == \E j \in 0 .. b : b = StartBlock + j * FilterSize

\* The last block of the current round, or of the next one if it began now.
Reach ==
  lastBlockHeight + IF pc = "filters" THEN n ELSE Min({MaxHeaders, tip - lastBlockHash})

\* An output is spent by a block of the chain, not before the one that creates it.
SpentOnChain ==
  \A o \in Outpoint :
    /\ created[o] <= tip /\ spent[o] <= tip
    /\ spent[o] # 0 => created[o] # 0 /\ created[o] <= spent[o]

\* A block scanned by a round that failed is in the batch the next round has it in, for
\* both start at the same block; and no round has scanned its last block as a batch of
\* its own, which the next one could leave out.
AheadInv ==
  /\ pc = "filters" => BatchStart(block)
  /\ \A h \in Height :
       LET from == scanned[h].from
       IN h > lastBlockHeight /\ from # 0 =>
            /\ BatchStart(from) /\ from <= h /\ h < from + FilterSize
            /\ h <= Reach
            /\ from # StartBlock => from < Reach

\* A block the client has left behind, or the current round has passed.
Passed(h) ==
  \/ h \in 1 .. lastBlockHeight
  \/ pc = "filters" /\ h \in StartBlock .. EndBlock /\ h < block

\* SpendsFound, for the blocks the current round has passed too.
SpendsInv ==
  \A o \in Known :
    Passed(spent[o]) /\ scanned[spent[o]].from # 0 /\ ~utxoMap[o].isSpent
    => scanned[created[o]].from = scanned[spent[o]].from

\* The inductive invariant of sync_state: what its loop keeps (SyncInv), where the rounds
\* that failed have been (AheadInv), and the spends found so far (SpendsInv).
ChainInv == SyncInv /\ SpentOnChain /\ AheadInv /\ SpendsInv

\* sync_state returns.
SyncEnds == pc = "headers" ~> pc \in {"synced", "failed"}

\* If requests fail only finitely often, the client reaches the tip of a chain that
\* stops growing: the work of a failed sync_state is made up for.
CatchesUp == <>[][~SyncFails]_chain_vars => <>[](lastBlockHeight = tip)

\* After sync_state the wallet has every output to a script it watched when a block
\* before the output's was scanned: the balance is the sum of all payments.
NothingMissed ==
  \A o \in Outpoint :
    /\ pc = "synced"
    /\ created[o] \in 1 .. lastBlockHeight
    /\ \E h \in 1 .. created[o] - 1 : txout[o].script \in scanned[h].watched
    => o \in Known
=============================================================================
