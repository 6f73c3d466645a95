------------------------- MODULE CompactChainProofs -------------------------
(***************************************************************************)
(* Proofs about CompactChain, for every chain, every set of outputs and    *)
(* amounts, and every FILTER_SIZE and MAX_HEADER_LEN.                      *)
(***************************************************************************)
EXTENDS CompactChain, TLAPS

\* The minimum of two numbers, as fetch_headers and last_known_block_hash use it.
LEMMA MinPair ==
  ASSUME NEW a \in Nat, NEW b \in Nat
  PROVE  Min({a, b}) = IF a <= b THEN a ELSE b
<1>1. PICK x \in {a, b} : \A y \in {a, b} : x <= y
  OBVIOUS
<1>2. /\ Min({a, b}) \in {a, b}
      /\ \A y \in {a, b} : Min({a, b}) <= y
  BY Zenon, <1>1 DEF Min
<1> QED
  BY <1>2

\* The invariant holds when CompactChain::new returns.
LEMMA SyncInitInv == ChainInit => SyncInv
<1> SUFFICES ASSUME ChainInit PROVE SyncInv
  OBVIOUS
<1> USE DEF ChainInit, WalletInit, PeerInit, ChainStateInit, SyncInit
<1>1. ChainTypeOK
  BY WalletAssumption, ChainAssumption
  DEF WalletAssumption, ChainAssumption, ChainTypeOK, WalletTypeOK, Height, NotScanned
<1>2. HeightMatchesHash /\ NoGaps
  BY DEF HeightMatchesHash, NoGaps
<1>3. LoopInv
  BY DEF LoopInv
<1>4. OutputsFound /\ NoFalseSpent
  BY Zenon DEF OutputsFound, NoFalseSpent, Known
<1> QED
  BY Zenon, <1>1, <1>2, <1>3, <1>4 DEF SyncInv

-----------------------------------------------------------------------------
(* The steps *)

\* A block mined on the peer's chain is above every block scanned.
LEMMA MineStep == ASSUME SyncInv, MineAny PROVE SyncInv'
<1> USE DEF SyncInv
<1>1. PICK C \in SUBSET Outpoint, S \in SUBSET Outpoint :
         \E outs \in [C -> [script : Script, amount : Amount]] : Mine(outs, S)
  BY Zenon DEF MineAny
<1>2. PICK outs \in [C -> [script : Script, amount : Amount]] : Mine(outs, S)
  BY Zenon, <1>1
<1>3. /\ UNCHANGED <<pubkeyMap, changeDepth, utxoMap, txs>>
      /\ UNCHANGED <<lastBlockHeight, lastBlockHash, pc, n, block, counter, scanned>>
  BY Zenon DEF MineAny, wallet_hist, wallet_vars, state_vars, sync_vars
<1>4. tip \in 0 .. MaxTip /\ tip < MaxTip /\ tip' = tip + 1
  BY Zenon, <1>2 DEF Mine, ChainTypeOK
<1>5. DOMAIN outs = C /\ \A o \in C : outs[o] \in TxOut
  BY Zenon, WalletAssumption DEF WalletAssumption, TxOut
<1>6. \A o \in Outpoint :
         /\ txout'[o] = IF o \in C THEN outs[o] ELSE txout[o]
         /\ created'[o] = IF o \in C THEN tip + 1 ELSE created[o]
         /\ spent'[o] = IF o \in S THEN tip + 1 ELSE spent[o]
  BY Zenon, <1>2, <1>5 DEF Mine
<1>7. \A o \in C : created[o] = 0
  BY Zenon, <1>2, <1>5 DEF Mine
<1>8. ChainTypeOK'
  <2>1. /\ created' \in [Outpoint -> 0 .. MaxTip]
        /\ spent' \in [Outpoint -> 0 .. MaxTip]
    BY <1>2, <1>4, <1>6, ChainAssumption DEF ChainAssumption, Mine, ChainTypeOK
  <2>2. txout' \in [Outpoint -> TxOut \cup {NoTxOut}]
    BY Zenon, <1>2, <1>5 DEF Mine, ChainTypeOK
  <2>3. WalletTypeOK'
    BY Zenon, <1>3 DEF ChainTypeOK, WalletTypeOK
  <2> QED
    BY <1>3, <1>4, <2>1, <2>2, <2>3, ChainAssumption DEF ChainAssumption, ChainTypeOK
<1>9. (HeightMatchesHash /\ NoGaps)'
  BY Zenon, <1>3 DEF HeightMatchesHash, NoGaps
<1>10. LoopInv'
  BY <1>3, <1>4 DEF LoopInv, StartBlock, EndBlock, ChainTypeOK, Height
<1>11. OutputsFound'
  <2>1. Known' = Known
    BY Zenon, <1>3 DEF Known
  <2>2. ASSUME NEW o \in Outpoint, created'[o] # 0,
               txout'[o].script \in scanned'[created'[o]].watched
        PROVE  o \in Known
    <3>1. CASE o \in C
      <4>1. created'[o] = tip + 1 /\ tip + 1 \in Height
        BY <1>4, <1>6, <3>1, ChainAssumption DEF ChainAssumption, Height
      <4>2. scanned[tip + 1] = NotScanned
        BY <1>4, <4>1 DEF LoopInv
      <4> QED
        BY <1>3, <2>2, <4>1, <4>2 DEF NotScanned
    <3>2. CASE o \notin C
      BY Zenon, <1>3, <1>6, <2>2, <3>2 DEF OutputsFound
    <3> QED
      BY Zenon, <3>1, <3>2
  <2>3. ASSUME NEW o \in Known
        PROVE  /\ created'[o] # 0
               /\ utxoMap'[o].script = txout'[o].script
               /\ utxoMap'[o].amount = txout'[o].amount
    <3>1. o \in Outpoint /\ created[o] # 0 /\ o \notin C
      BY Zenon, <1>7 DEF Known, OutputsFound
    <3> QED
      BY Zenon, <1>3, <1>6, <3>1 DEF OutputsFound
  <2> QED
    BY Zenon, <2>1, <2>2, <2>3 DEF OutputsFound
<1>12. NoFalseSpent'
  <2>1. ASSUME NEW o \in Known', utxoMap'[o].isSpent
        PROVE  spent'[o] # 0
    <3>1. o \in Known /\ utxoMap[o].isSpent
      BY Zenon, <1>3, <2>1 DEF Known
    <3>2. spent[o] # 0 /\ o \in Outpoint
      BY Zenon, <3>1 DEF NoFalseSpent, Known
    <3> QED
      BY <1>4, <1>6, <3>2
  <2> QED
    BY Zenon, <2>1 DEF NoFalseSpent
<1> QED
  BY Zenon, <1>8, <1>9, <1>10, <1>11, <1>12

\* Steps of sync_state that leave the wallet, the chain and the blocks scanned alone.
LEMMA WalletKept ==
  ASSUME OutputsFound, NoFalseSpent,
         UNCHANGED <<utxoMap, created, spent, txout, scanned>>
  PROVE  OutputsFound' /\ NoFalseSpent'
<1>1. Known' = Known
  BY Zenon DEF Known
<1>2. OutputsFound'
  BY Zenon, <1>1 DEF OutputsFound
<1>3. NoFalseSpent'
  BY Zenon, <1>1 DEF NoFalseSpent
<1> QED
  BY Zenon, <1>2, <1>3

\* get_receive_address registers a script and changes nothing else.
LEMMA NewAddressStep == ASSUME SyncInv, NewAddress PROVE SyncInv'
<1> USE DEF SyncInv
<1>1. /\ UNCHANGED <<changeDepth, utxoMap, txs, tip, txout, created, spent>>
      /\ UNCHANGED <<lastBlockHeight, lastBlockHash, pc, n, block, counter, scanned>>
      /\ pubkeyMap' = [pubkeyMap EXCEPT ![ReceiveScript] = <<External, ReceiveDepth>>]
  BY Zenon DEF NewAddress, GetReceiveAddress, peer_vars, state_vars, sync_vars
<1>2. <<External, ReceiveDepth>> \in PubkeyDetails
  BY WalletAssumption DEF WalletAssumption, PubkeyDetails, External, ReceiveDepth
<1>3. ChainTypeOK'
  BY Zenon, <1>1, <1>2 DEF ChainTypeOK, WalletTypeOK
<1>4. (HeightMatchesHash /\ NoGaps)'
  BY Zenon, <1>1 DEF HeightMatchesHash, NoGaps
<1>5. LoopInv'
  BY Zenon, <1>1 DEF LoopInv, StartBlock, EndBlock
<1>6. (OutputsFound /\ NoFalseSpent)'
  BY Zenon, <1>1, WalletKept
<1> QED
  BY Zenon, <1>3, <1>4, <1>5, <1>6

\* sync_state starts, fails or returns: the chain state is as it was.
LEMMA ControlStep ==
  ASSUME SyncInv, StartSync \/ SyncFails \/ SyncReturns
  PROVE  SyncInv'
<1> USE DEF SyncInv
<1>1. /\ UNCHANGED <<pubkeyMap, changeDepth, utxoMap, txs, tip, txout, created, spent>>
      /\ UNCHANGED <<lastBlockHeight, lastBlockHash, scanned>>
      /\ pc' \in {"headers", "failed", "idle"}
      /\ n' \in {n, 0} /\ block' \in {block, 0} /\ counter' \in {counter, 0}
  BY Zenon DEF StartSync, SyncFails, SyncReturns, wallet_hist, wallet_vars, peer_vars, state_vars
<1>2. ChainTypeOK'
  BY <1>1, ChainAssumption DEF ChainAssumption, ChainTypeOK, WalletTypeOK
<1>3. (HeightMatchesHash /\ NoGaps)'
  BY Zenon, <1>1 DEF HeightMatchesHash, NoGaps
<1>4. LoopInv'
  BY Zenon, <1>1 DEF LoopInv
<1>5. (OutputsFound /\ NoFalseSpent)'
  BY Zenon, <1>1, WalletKept
<1> QED
  BY Zenon, <1>2, <1>3, <1>4, <1>5

\* The loop by itself: what it needs of the types of the state.
LoopTypes ==
  /\ tip \in 0 .. MaxTip /\ lastBlockHeight \in Nat /\ HeightMatchesHash
  /\ n \in Nat /\ block \in Nat /\ counter \in Nat
  /\ scanned \in [Height -> [from : 0 .. MaxTip, watched : SUBSET Script]]

\* The headers of a round, and the start of its loop.
LEMMA FetchLoop ==
  ASSUME LoopTypes, LoopInv, FetchHeaders
  PROVE  /\ LoopInv'
         /\ n' \in 0 .. MaxHeaders /\ block' \in Nat /\ counter' \in Nat
<1>1. /\ UNCHANGED <<tip, lastBlockHeight, lastBlockHash, scanned>>
      /\ n' = Min({MaxHeaders, tip - lastBlockHash})
      /\ pc' = IF n' = 0 THEN "synced" ELSE "filters"
      /\ block' = StartBlock
      /\ counter' = FilterSize
  BY Zenon DEF FetchHeaders, peer_vars, state_vars
<1>2. /\ MaxHeaders \in Nat /\ FilterSize \in Nat \ {0}
      /\ tip - lastBlockHash \in Nat
      /\ lastBlockHeight \in Nat
  BY ChainAssumption DEF ChainAssumption, LoopTypes, LoopInv, HeightMatchesHash
<1>3. n' \in 0 .. MaxHeaders /\ n' <= tip - lastBlockHash
  BY <1>1, <1>2, MinPair
<1>4. block' \in Nat /\ counter' \in Nat
  BY <1>1, <1>2 DEF StartBlock
<1>5. LoopInv'
  BY <1>1, <1>2, <1>3 DEF LoopInv, StartBlock, EndBlock
<1> QED
  BY Zenon, <1>3, <1>4, <1>5

\* The loop ends past end_block, or at end_block after a full batch.
LEMMA FinishLoop ==
  ASSUME LoopTypes, LoopInv, FinishRound
  PROVE  /\ LoopInv' /\ HeightMatchesHash' /\ (NoGaps => NoGaps')
         /\ lastBlockHeight' \in Nat /\ lastBlockHeight' <= tip
<1>1. /\ UNCHANGED <<tip, n, block, counter, scanned>>
      /\ lastBlockHeight' = EndBlock
      /\ lastBlockHash' = lastBlockHash + n
      /\ pc' \in {"synced", "headers"}
      /\ pc = "filters" /\ ~MoreBatches
  BY Zenon DEF FinishRound, peer_vars
<1>2. /\ FilterSize \in Nat \ {0} /\ tip \in 0 .. MaxTip /\ MaxTip \in Nat
      /\ lastBlockHeight \in Nat /\ lastBlockHash = lastBlockHeight
      /\ n \in Nat /\ n > 0 /\ n <= tip - lastBlockHash
      /\ block \in Nat /\ block # StartBlock /\ block >= EndBlock
  BY <1>1, ChainAssumption
  DEF ChainAssumption, LoopTypes, HeightMatchesHash, LoopInv, MoreBatches, StartBlock, EndBlock
<1>3. EndBlock = lastBlockHeight + n
  BY <1>2 DEF EndBlock, StartBlock
<1>4. lastBlockHeight' \in Nat /\ lastBlockHeight' <= tip
  BY <1>1, <1>2, <1>3
<1>5. HeightMatchesHash'
  BY Zenon, <1>1, <1>2, <1>3 DEF HeightMatchesHash
<1>6. ASSUME NoGaps PROVE NoGaps'
  <2> SUFFICES ASSUME NEW h \in 1 .. EndBlock, scanned[h].from = 0
               PROVE  h > FilterSize /\ scanned[h - 1].from = h - FilterSize
    BY Zenon, <1>1 DEF NoGaps
  <2>1. CASE h <= lastBlockHeight
    BY <1>2, <1>3, <1>6, <2>1 DEF NoGaps
  <2>2. CASE h > lastBlockHeight
    <3>1. h \in StartBlock .. EndBlock
      BY <1>2, <1>3, <2>2 DEF StartBlock
    <3>2. h >= block
      BY <1>1, <1>2, <3>1 DEF LoopInv, StartBlock, EndBlock
    <3>3. h = block /\ block <= EndBlock
      BY <1>2, <1>3, <3>1, <3>2
    <3> QED
      BY Zenon, <1>1, <1>2, <3>3 DEF LoopInv
  <2> QED
    BY <1>2, <2>1, <2>2
<1>7. LoopInv'
  BY <1>1, <1>2 DEF LoopInv
<1> QED
  BY Zenon, <1>4, <1>5, <1>6, <1>7

\* Where a turn of the loop reads: blocks the chain has and the client has not left
\* behind, up to the last header or for a full batch.
LEMMA BatchRange ==
  ASSUME LoopTypes, LoopInv, pc = "filters"
  PROVE  /\ FilterSize \in Nat \ {0} /\ MaxTip \in Nat /\ tip \in 0 .. MaxTip
         /\ block \in Nat /\ counter \in Nat /\ n \in Nat /\ n > 0
         /\ lastBlockHeight \in Nat /\ lastBlockHash = lastBlockHeight
         /\ block >= lastBlockHeight + 1
         /\ StartBlock = lastBlockHeight + 1
         /\ EndBlock = lastBlockHeight + n /\ EndBlock <= tip
         /\ StopHash = IF block + FilterSize - 1 <= EndBlock THEN block + FilterSize - 1
                                                             ELSE EndBlock
<1>1. /\ FilterSize \in Nat \ {0} /\ MaxTip \in Nat /\ tip \in 0 .. MaxTip
      /\ block \in Nat /\ counter \in Nat /\ n \in Nat /\ n > 0
      /\ lastBlockHeight \in Nat /\ lastBlockHash = lastBlockHeight
      /\ n <= tip - lastBlockHash /\ block >= lastBlockHeight + 1
      /\ counter = block - (lastBlockHeight + 1) + FilterSize
  BY ChainAssumption DEF ChainAssumption, LoopTypes, HeightMatchesHash, LoopInv, StartBlock
<1>2. Min({counter, n}) = IF counter <= n THEN counter ELSE n
  BY Zenon, <1>1, MinPair
<1> QED
  BY <1>1, <1>2 DEF StartBlock, EndBlock, StopHash

\* A turn of the loop.
LEMMA ScanLoop ==
  ASSUME LoopTypes, LoopInv, ScanBatch
  PROVE  /\ LoopInv' /\ (NoGaps => NoGaps')
         /\ scanned' \in [Height -> [from : 0 .. MaxTip, watched : SUBSET Script]]
         /\ \A h \in Height :
              /\ h \in block .. StopHash => scanned'[h] = [from |-> block, watched |-> GetPubkeys]
              /\ h \notin block .. StopHash => scanned'[h] = scanned[h]
         /\ StopHash \in Nat /\ StopHash <= tip /\ block \in Nat \ {0}
         /\ block' \in Nat /\ counter' \in Nat
<1>1. /\ pc = "filters"
      /\ UNCHANGED <<tip, lastBlockHeight, lastBlockHash, pc, n>>
      /\ scanned' = [h \in Height |-> IF h \in block .. StopHash
                                         THEN [from |-> block, watched |-> GetPubkeys]
                                         ELSE scanned[h]]
      /\ block' = block + FilterSize
      /\ counter' = counter + FilterSize
  BY Zenon DEF ScanBatch, peer_vars, state_vars
<1>2. /\ FilterSize \in Nat \ {0} /\ MaxTip \in Nat /\ tip \in 0 .. MaxTip
      /\ block \in Nat /\ counter \in Nat /\ n \in Nat /\ n > 0
      /\ lastBlockHeight \in Nat /\ lastBlockHash = lastBlockHeight
      /\ block >= lastBlockHeight + 1
      /\ StartBlock = lastBlockHeight + 1
      /\ EndBlock = lastBlockHeight + n /\ EndBlock <= tip
      /\ StopHash = IF block + FilterSize - 1 <= EndBlock THEN block + FilterSize - 1
                                                          ELSE EndBlock
  BY Zenon, <1>1, BatchRange
<1>3. StopHash \in Nat /\ StopHash <= tip /\ block \in Nat \ {0}
  BY <1>2
<1>4. StartBlock' = StartBlock /\ EndBlock' = EndBlock
  BY Zenon, <1>1 DEF StartBlock, EndBlock
<1>5. \A h \in Height :
         /\ h \in block .. StopHash => scanned'[h] = [from |-> block, watched |-> GetPubkeys]
         /\ h \notin block .. StopHash => scanned'[h] = scanned[h]
  BY Zenon, <1>1
<1>7. scanned' \in [Height -> [from : 0 .. MaxTip, watched : SUBSET Script]]
  <2>1. ASSUME NEW h \in Height, h \in block .. StopHash
        PROVE  [from |-> block, watched |-> GetPubkeys]
                 \in [from : 0 .. MaxTip, watched : SUBSET Script]
    BY <1>2, <1>3, <2>1 DEF GetPubkeys
  <2>2. scanned \in [Height -> [from : 0 .. MaxTip, watched : SUBSET Script]]
    BY Zenon DEF LoopTypes
  <2> QED
    BY Zenon, <1>1, <2>1, <2>2
<1>8. block' \in Nat /\ counter' \in Nat
  BY <1>1, <1>2
<1>9. ASSUME NoGaps PROVE NoGaps'
  <2> SUFFICES ASSUME NEW h \in 1 .. lastBlockHeight, scanned'[h].from = 0
               PROVE  h > FilterSize /\ scanned'[h - 1].from = h - FilterSize
    BY Zenon, <1>1 DEF NoGaps
  <2>1. h \in Height /\ h \notin block .. StopHash
    BY <1>2, <1>3 DEF Height
  <2>2. h > FilterSize /\ scanned[h - 1].from = h - FilterSize
    BY Zenon, <1>5, <1>9, <2>1 DEF NoGaps
  <2>3. h - 1 \in Height /\ h - 1 \notin block .. StopHash
    BY SMTT(60), <1>2, <1>3, <2>1, <2>2 DEF Height
  <2> QED
    BY Zenon, <1>5, <2>2, <2>3
<1>10. LoopInv'
  <2>1. \A h \in Height : h > tip => scanned'[h] = NotScanned
    BY <1>2, <1>3, <1>5 DEF LoopInv, Height
  <2>2. ASSUME NEW h \in StartBlock .. EndBlock, h < block + FilterSize
        PROVE  scanned'[h].from # 0
    <3>1. h \in Height
      BY <1>2 DEF Height
    <3>2. CASE h < block
      BY Zenon, <1>1, <1>2, <1>3, <1>5, <3>1, <3>2 DEF LoopInv
    <3>3. CASE h >= block
      <4>1. h \in block .. StopHash
        BY <1>2, <2>2, <3>3
      <4> QED
        BY <1>3, <1>5, <3>1, <4>1
    <3> QED
      BY <1>2, <3>2, <3>3
  <2>3. ASSUME block + FilterSize <= EndBlock
        PROVE  scanned'[block + FilterSize - 1].from = block
    <3>1. /\ block + FilterSize - 1 \in Height
          /\ block + FilterSize - 1 \in block .. StopHash
      BY <1>2, <2>3 DEF Height
    <3> QED
      BY <1>5, <3>1
  <2>4. counter + FilterSize = block + FilterSize - StartBlock + FilterSize
    BY <1>1, <1>2 DEF LoopInv
  <2>5. lastBlockHash <= tip /\ n <= tip - lastBlockHash
    BY Zenon, <1>1 DEF LoopInv
  <2>6. n > 0 /\ block + FilterSize >= StartBlock
    BY <1>2
  <2>7. \A h \in StartBlock' .. EndBlock' : h < block' => scanned'[h].from # 0
    BY Zenon, <1>1, <1>4, <2>2
  <2>8. block' # StartBlock' /\ block' <= EndBlock' =>
          block' > FilterSize /\ scanned'[block' - 1].from = block' - FilterSize
    <3>1. block' = block + FilterSize
      BY Zenon, <1>1
    <3>2. block' > FilterSize /\ block' - FilterSize = block
      BY <1>2, <3>1
    <3>3. block' <= EndBlock' => scanned'[block' - 1].from = block
      <4>1. block' - 1 = block + FilterSize - 1
        BY <1>2, <3>1
      <4> QED
        BY Zenon, <1>4, <2>3, <3>1, <4>1
    <3> QED
      BY Zenon, <3>2, <3>3
  <2> QED
    <3>1. lastBlockHash' <= tip' /\ n' > 0 /\ n' <= tip' - lastBlockHash'
      BY Zenon, <1>1, <2>5, <2>6
    <3>2. block' >= StartBlock' /\ counter' = block' - StartBlock' + FilterSize
      <4>1. block' = block + FilterSize /\ counter' = counter + FilterSize
        BY Zenon, <1>1
      <4>2. counter' = block' - StartBlock + FilterSize /\ block' >= StartBlock
        BY <1>2, <2>4, <4>1
      <4> QED
        BY Zenon, <1>4, <4>2
    <3>3. \A h \in Height : h > tip' => scanned'[h] = NotScanned
      BY Zenon, <1>1, <2>1
    <3> QED
      BY Zenon, <2>7, <2>8, <3>1, <3>2, <3>3 DEF LoopInv, Height, NotScanned
<1> QED
  BY Zenon, <1>3, <1>5, <1>7, <1>8, <1>9, <1>10

\* The types of the chain are those of its loop.
LEMMA LoopTyped == ASSUME SyncInv PROVE LoopTypes
BY ChainAssumption DEF ChainAssumption, SyncInv, ChainTypeOK, LoopTypes

\* The headers are those of blocks the chain has.
LEMMA FetchHeadersStep == ASSUME SyncInv, FetchHeaders PROVE SyncInv'
<1> USE DEF SyncInv
<1>1. /\ UNCHANGED <<pubkeyMap, changeDepth, utxoMap, txs, tip, txout, created, spent>>
      /\ UNCHANGED <<lastBlockHeight, lastBlockHash, scanned>>
      /\ pc' \in {"synced", "filters"}
  BY Zenon DEF FetchHeaders, wallet_hist, wallet_vars, peer_vars, state_vars
<1>2. LoopInv' /\ n' \in 0 .. MaxHeaders /\ block' \in Nat /\ counter' \in Nat
  BY Zenon, LoopTyped, FetchLoop
<1>3. ChainTypeOK'
  BY <1>1, <1>2 DEF ChainTypeOK, WalletTypeOK
<1>4. (HeightMatchesHash /\ NoGaps)'
  BY Zenon, <1>1 DEF HeightMatchesHash, NoGaps
<1>5. (OutputsFound /\ NoFalseSpent)'
  BY Zenon, <1>1, WalletKept
<1> QED
  BY <1>2, <1>3, <1>4, <1>5

\* The state is advanced.
LEMMA FinishRoundStep == ASSUME SyncInv, FinishRound PROVE SyncInv'
<1> USE DEF SyncInv
<1>1. /\ UNCHANGED <<pubkeyMap, changeDepth, utxoMap, txs, tip, txout, created, spent>>
      /\ UNCHANGED <<n, block, counter, scanned>>
      /\ pc' \in {"synced", "headers"}
  BY Zenon DEF FinishRound, wallet_hist, wallet_vars, peer_vars
<1>2. /\ LoopInv' /\ HeightMatchesHash' /\ NoGaps'
      /\ lastBlockHeight' \in Nat /\ lastBlockHeight' <= tip
  BY Zenon, LoopTyped, FinishLoop
<1>3. ChainTypeOK'
  BY <1>1, <1>2, ChainAssumption DEF ChainAssumption, ChainTypeOK, WalletTypeOK, HeightMatchesHash
<1>4. (OutputsFound /\ NoFalseSpent)'
  BY Zenon, <1>1, WalletKept
<1> QED
  BY Zenon, <1>2, <1>3, <1>4

\* Setting is_spent changes nothing else of an output.
LEMMA SetSpent ==
  ASSUME NEW u \in Utxo, NEW b \in BOOLEAN
  PROVE  /\ [u EXCEPT !.isSpent = b] \in Utxo
         /\ [u EXCEPT !.isSpent = b].script = u.script
         /\ [u EXCEPT !.isSpent = b].amount = u.amount
         /\ [u EXCEPT !.isSpent = b].isSpent = b
BY Zenon DEF Utxo

\* What insert_utxos makes of the outputs found in a batch.
LEMMA InsertedEffect ==
  ASSUME ChainTypeOK, NEW from \in Nat \ {0}, NEW to \in Nat,
         utxoMap' = Inserted(FoundUtxos(from, to))
  PROVE  /\ utxoMap' \in [Outpoint -> Utxo \cup {NoUtxo}]
         /\ Known' = Known \cup Found(from, to)
         /\ \A o \in Known : /\ utxoMap'[o].script = utxoMap[o].script
                              /\ utxoMap'[o].amount = utxoMap[o].amount
         /\ \A o \in Found(from, to) \ Known :
              /\ utxoMap'[o].script = txout[o].script
              /\ utxoMap'[o].amount = txout[o].amount
         /\ \A o \in Known' : utxoMap'[o].isSpent =>
              spent[o] \in from .. to \/ (o \in Known /\ utxoMap[o].isSpent)
         /\ \A o \in Known : spent[o] \in from .. to => utxoMap'[o].isSpent
         /\ \A o \in Known : o \notin Found(from, to) /\ spent[o] \notin from .. to =>
              utxoMap'[o] = utxoMap[o]
<1> DEFINE Spent == {o \in Known : spent[o] \in from .. to}
           news  == FoundUtxos(from, to)
           F     == Found(from, to)
<1>1. /\ DOMAIN news = F \cup Spent
      /\ \A o \in F \cup Spent :
           /\ news[o].script = txout[o].script
           /\ news[o].amount = txout[o].amount
           /\ news[o].isSpent = IF o \in Spent THEN TRUE ELSE FALSE
  <2>1. DOMAIN news = F \cup Spent
    BY Zenon DEF FoundUtxos
  <2>2. ASSUME NEW o \in F \cup Spent
        PROVE  /\ news[o].script = txout[o].script
               /\ news[o].amount = txout[o].amount
               /\ news[o].isSpent = IF o \in Spent THEN TRUE ELSE FALSE
    <3>1. news[o] = [script |-> txout[o].script, amount |-> txout[o].amount,
                     isSpent |-> o \in Spent]
      BY Zenon DEF FoundUtxos
    <3>2. CASE o \in Spent
      <4>1. (o \in Spent) = TRUE
        BY Zenon, <3>2
      <4>2. news[o] = [script |-> txout[o].script, amount |-> txout[o].amount,
                       isSpent |-> TRUE]
        BY <3>1, <4>1, Zenon
      <4> HIDE DEF news, Spent
      <4> QED
        BY <3>2, <4>2
    <3>3. CASE o \notin Spent
      <4>1. (o \in Spent) = FALSE
        BY <3>3
      <4>2. news[o] = [script |-> txout[o].script, amount |-> txout[o].amount,
                       isSpent |-> FALSE]
        BY <3>1, <4>1, Zenon
      <4> HIDE DEF news, Spent
      <4> QED
        BY <3>3, <4>2
    <3> QED
      BY Zenon, <3>2, <3>3
  <2> QED
    BY Zenon, <2>1, <2>2
<1>2. /\ \A o \in Outpoint : o \notin F \cup Spent => utxoMap'[o] = utxoMap[o]
      /\ \A o \in (F \cup Spent) \cap Known :
           utxoMap'[o] = [utxoMap[o] EXCEPT !.isSpent = news[o].isSpent]
      /\ \A o \in F \ Known :
           utxoMap'[o] = [script  |-> news[o].script,
                          amount  |-> news[o].amount,
                          key     |-> pubkeyMap[news[o].script],
                          isSpent |-> news[o].isSpent]
      /\ utxoMap' = [o \in Outpoint |-> utxoMap'[o]]
  BY Zenon, <1>1 DEF Inserted, Found, Known
<1>3. \A o \in Known : o \in Outpoint /\ utxoMap[o] \in Utxo /\ utxoMap[o] # NoUtxo
  BY Zenon DEF Known, ChainTypeOK, WalletTypeOK
<1>4. \A u \in Utxo : u # NoUtxo
  BY DEF Utxo, NoUtxo, Script, NoKey, ReceiveScript, ChangeScript, External, Internal
<1>5. ASSUME NEW o \in (F \cup Spent) \cap Known
      PROVE  /\ utxoMap'[o] \in Utxo
             /\ utxoMap'[o].script = utxoMap[o].script
             /\ utxoMap'[o].amount = utxoMap[o].amount
             /\ utxoMap'[o].isSpent = IF o \in Spent THEN TRUE ELSE FALSE
  <2>1. PICK b \in BOOLEAN : b = news[o].isSpent /\ b = IF o \in Spent THEN TRUE ELSE FALSE
    BY Zenon, <1>1
  <2>2. utxoMap'[o] = [utxoMap[o] EXCEPT !.isSpent = b]
    BY ZenonT(40), <1>2, <2>1
  <2>3. utxoMap[o] \in Utxo
    BY Zenon, <1>3
  <2>4. /\ utxoMap'[o] \in Utxo
        /\ utxoMap'[o].script = utxoMap[o].script
        /\ utxoMap'[o].amount = utxoMap[o].amount
        /\ utxoMap'[o].isSpent = b
    BY <2>2, <2>3, SetSpent
  <2> QED
    BY Zenon, <2>1, <2>4
<1>6. ASSUME NEW o \in F \ Known
      PROVE  /\ utxoMap'[o] \in Utxo
             /\ utxoMap'[o].script = txout[o].script
             /\ utxoMap'[o].amount = txout[o].amount
             /\ utxoMap'[o].isSpent = FALSE
  <2>1. news[o].isSpent = FALSE
    <3>1. o \notin Spent /\ o \in F
      OBVIOUS
    <3>2. news[o].isSpent = IF o \in Spent THEN TRUE ELSE FALSE
      BY Zenon, <1>1, <3>1
    <3> QED
      BY Zenon, <3>1, <3>2
  <2>2. utxoMap'[o] = [script  |-> txout[o].script,
                       amount  |-> txout[o].amount,
                       key     |-> pubkeyMap[txout[o].script],
                       isSpent |-> FALSE]
    <3>1. o \in F \cup Spent /\ o \in F \ Known
      BY Zenon
    <3>2. /\ utxoMap'[o] = [script  |-> news[o].script,
                            amount  |-> news[o].amount,
                            key     |-> pubkeyMap[news[o].script],
                            isSpent |-> news[o].isSpent]
          /\ news[o].script = txout[o].script /\ news[o].amount = txout[o].amount
      <4> HIDE DEF news, F, Spent
      <4> QED
        BY Zenon, <1>1, <1>2, <3>1
    <3> HIDE DEF news
    <3> QED
      BY Zenon, <2>1, <3>2
  <2>3. o \in Outpoint /\ txout[o].script \in Script /\ pubkeyMap[txout[o].script] # NoKey
    BY Zenon DEF Found, GetPubkeys
  <2>4. txout[o].amount \in Nat
    BY <2>3 DEF ChainTypeOK, TxOut, NoTxOut
  <2>5. pubkeyMap[txout[o].script] \in PubkeyDetails
    BY Zenon, <2>3 DEF ChainTypeOK, WalletTypeOK
  <2> QED
    BY <2>2, <2>3, <2>4, <2>5 DEF Utxo
<1>7. F \subseteq Outpoint /\ Spent \subseteq Known
  BY Zenon DEF Found
<1>8. utxoMap' \in [Outpoint -> Utxo \cup {NoUtxo}]
  <2>1. \A o \in Outpoint : utxoMap'[o] \in Utxo \cup {NoUtxo}
    BY Zenon, <1>2, <1>5, <1>6, <1>7 DEF ChainTypeOK, WalletTypeOK
  <2> QED
    BY Zenon, <1>2, <2>1
<1>9. Known' = Known \cup F
  BY Zenon, <1>2, <1>3, <1>4, <1>5, <1>6, <1>7 DEF Known
<1>10. ASSUME NEW o \in Known
       PROVE  utxoMap'[o].script = utxoMap[o].script /\ utxoMap'[o].amount = utxoMap[o].amount
  BY Zenon, <1>2, <1>3, <1>5
<1>11. ASSUME NEW o \in Known', utxoMap'[o].isSpent
       PROVE  spent[o] \in from .. to \/ (o \in Known /\ utxoMap[o].isSpent)
  <2>1. CASE o \in (F \cup Spent) \cap Known
    BY Zenon, <1>5, <1>11, <2>1
  <2>2. CASE o \in F \ Known
    BY Zenon, <1>6, <1>11, <2>2
  <2>3. CASE o \in Known /\ o \notin F \cup Spent
    BY Zenon, <1>2, <1>3, <1>11, <2>3
  <2> QED
    BY Zenon, <1>9, <2>1, <2>2, <2>3
<1>12. ASSUME NEW o \in Known, spent[o] \in from .. to PROVE utxoMap'[o].isSpent
  <2>1. o \in (F \cup Spent) \cap Known /\ o \in Spent
    BY Zenon, <1>12
  <2> QED
    BY Zenon, <1>5, <2>1
<1>13. ASSUME NEW o \in Known, o \notin Found(from, to), spent[o] \notin from .. to
       PROVE  utxoMap'[o] = utxoMap[o]
  BY Zenon, <1>2, <1>3, <1>13
<1> QED
  BY Zenon, <1>6, <1>8, <1>9, <1>10, <1>11, <1>12, <1>13

\* A turn of the loop in sync_state.
LEMMA ScanBatchStep == ASSUME SyncInv, ScanBatch PROVE SyncInv'
<1> USE DEF SyncInv
<1>1. /\ utxoMap' = Inserted(FoundUtxos(block, StopHash))
      /\ UNCHANGED <<pubkeyMap, changeDepth, txs, tip, txout, created, spent>>
      /\ UNCHANGED <<lastBlockHeight, lastBlockHash, pc, n>>
  BY Zenon DEF ScanBatch, InsertUtxos, peer_vars, state_vars
<1>2. /\ LoopInv' /\ NoGaps'
      /\ scanned' \in [Height -> [from : 0 .. MaxTip, watched : SUBSET Script]]
      /\ block' \in Nat /\ counter' \in Nat
  BY Zenon, LoopTyped, ScanLoop
<1>3. StopHash \in Nat /\ StopHash <= tip /\ block \in Nat \ {0}
  BY Zenon, LoopTyped, ScanLoop
<1>5. \A h \in Height :
         /\ h \in block .. StopHash => scanned'[h] = [from |-> block, watched |-> GetPubkeys]
         /\ h \notin block .. StopHash => scanned'[h] = scanned[h]
  BY Zenon, LoopTyped, ScanLoop
<1>6. /\ utxoMap' \in [Outpoint -> Utxo \cup {NoUtxo}]
      /\ Known' = Known \cup Found(block, StopHash)
      /\ \A o \in Known : /\ utxoMap'[o].script = utxoMap[o].script
                           /\ utxoMap'[o].amount = utxoMap[o].amount
      /\ \A o \in Found(block, StopHash) \ Known :
           /\ utxoMap'[o].script = txout[o].script
           /\ utxoMap'[o].amount = txout[o].amount
      /\ \A o \in Known' : utxoMap'[o].isSpent =>
           spent[o] \in block .. StopHash \/ (o \in Known /\ utxoMap[o].isSpent)
  BY Zenon, <1>1, <1>3, InsertedEffect
<1>7. ChainTypeOK'
  <2>1. WalletTypeOK'
    BY Zenon, <1>1, <1>6 DEF ChainTypeOK, WalletTypeOK
  <2> QED
    BY <1>1, <1>2, <2>1 DEF ChainTypeOK
<1>8. HeightMatchesHash'
  BY Zenon, <1>1 DEF HeightMatchesHash
<1>11. OutputsFound'
  <2>1. ASSUME NEW o \in Outpoint, created[o] # 0,
               txout[o].script \in scanned'[created[o]].watched
        PROVE  o \in Known'
    <3>1. created[o] \in Height
      BY <2>1 DEF ChainTypeOK, Height
    <3>2. CASE created[o] \in block .. StopHash
      BY <1>5, <1>6, <2>1, <3>1, <3>2 DEF Found
    <3>3. CASE created[o] \notin block .. StopHash
      BY Zenon, <1>5, <1>6, <2>1, <3>1, <3>3 DEF OutputsFound
    <3> QED
      BY Zenon, <3>2, <3>3
  <2>2. ASSUME NEW o \in Known'
        PROVE  /\ created[o] # 0
               /\ utxoMap'[o].script = txout[o].script
               /\ utxoMap'[o].amount = txout[o].amount
    <3>1. CASE o \in Known
      BY Zenon, <1>6, <3>1 DEF OutputsFound
    <3>2. CASE o \in Found(block, StopHash) \ Known
      BY <1>3, <1>6, <3>2 DEF Found
    <3> QED
      BY Zenon, <1>6, <3>1, <3>2
  <2> QED
    BY Zenon, <1>1, <2>1, <2>2 DEF OutputsFound
<1>12. NoFalseSpent'
  BY <1>1, <1>3, <1>6 DEF NoFalseSpent
<1> QED
  BY Zenon, <1>2, <1>7, <1>8, <1>11, <1>12

\* Every step of the chain keeps the invariant.
LEMMA SyncNextInv == ASSUME SyncInv, [ChainNext]_chain_vars PROVE SyncInv'
<1>1. CASE UNCHANGED chain_vars
  <2>1. /\ UNCHANGED <<pubkeyMap, changeDepth, utxoMap, txs, tip, txout, created, spent>>
        /\ UNCHANGED <<lastBlockHeight, lastBlockHash, pc, n, block, counter, scanned>>
    BY Zenon, <1>1 DEF chain_vars, wallet_hist, wallet_vars, peer_vars, state_vars, sync_vars
  <2>2. (OutputsFound /\ NoFalseSpent)'
    BY Zenon, <2>1, WalletKept DEF SyncInv
  <2>3. (HeightMatchesHash /\ NoGaps /\ LoopInv)'
    BY Zenon, <2>1 DEF SyncInv, HeightMatchesHash, NoGaps, LoopInv, StartBlock, EndBlock
  <2>4. ChainTypeOK'
    BY Zenon, <2>1 DEF SyncInv, ChainTypeOK, WalletTypeOK
  <2> QED
    BY Zenon, <2>2, <2>3, <2>4 DEF SyncInv
<1> QED
  BY Zenon, <1>1, MineStep, NewAddressStep, ControlStep, FetchHeadersStep, ScanBatchStep,
     FinishRoundStep DEF ChainNext

-----------------------------------------------------------------------------
(* The spends: where the rounds that failed have been *)

\* A later multiple of the size of a batch is at least one size later.
LEMMA Multiples ==
  ASSUME NEW f \in Nat \ {0}, NEW j \in Nat, NEW k \in Nat, j < k
  PROVE  j * f + f <= k * f
<1> DEFINE d == k - (j + 1)
<1>1. d \in Nat /\ k = (j + 1) + d
  OBVIOUS
<1> HIDE DEF d
<1>2. d * f \in Nat /\ j * f \in Nat
  BY <1>1
<1>3. ((j + 1) + d) * f = j * f + f + d * f
  BY <1>1
<1>4. k * f = j * f + f + d * f
  BY Zenon, <1>1, <1>3
<1> QED
  BY <1>2, <1>4

\* Two blocks less than a batch apart do not both begin one.
LEMMA SameBatch ==
  ASSUME lastBlockHeight \in Nat, NEW a \in Nat, NEW b \in Nat,
         BatchStart(a), BatchStart(b), a <= b, b < a + FilterSize
  PROVE  a = b
<1>1. FilterSize \in Nat \ {0} /\ StartBlock \in Nat
  BY ChainAssumption DEF ChainAssumption, StartBlock
<1>2. PICK j \in 0 .. a : a = StartBlock + j * FilterSize
  BY Zenon DEF BatchStart
<1>3. PICK k \in 0 .. b : b = StartBlock + k * FilterSize
  BY Zenon DEF BatchStart
<1>4. j \in Nat /\ k \in Nat
  OBVIOUS
<1>5. j * FilterSize \in Nat /\ k * FilterSize \in Nat
  BY <1>1, <1>4
<1>6. ~(j < k)
  <2>1. j < k => j * FilterSize + FilterSize <= k * FilterSize
    BY Zenon, <1>1, <1>4, Multiples
  <2> QED
    BY <1>1, <1>2, <1>3, <1>5, <2>1
<1>7. ~(k < j)
  <2>1. k < j => k * FilterSize + FilterSize <= j * FilterSize
    BY Zenon, <1>1, <1>4, Multiples
  <2> QED
    BY <1>1, <1>2, <1>3, <1>5, <2>1
<1>8. j = k
  BY <1>4, <1>6, <1>7
<1> QED
  BY Zenon, <1>2, <1>3, <1>8

\* A round begins its first batch at start_block, and each of the others where the one before
\* ends.
LEMMA Batches ==
  ASSUME lastBlockHeight \in Nat
  PROVE  /\ BatchStart(StartBlock)
         /\ \A b \in Nat : BatchStart(b) => BatchStart(b + FilterSize)
<1>1. FilterSize \in Nat \ {0} /\ StartBlock \in Nat
  BY ChainAssumption DEF ChainAssumption, StartBlock
<1>2. BatchStart(StartBlock)
  <2>1. 0 \in 0 .. StartBlock /\ StartBlock = StartBlock + 0 * FilterSize
    BY <1>1
  <2> QED
    BY Zenon, <2>1 DEF BatchStart
<1>3. ASSUME NEW b \in Nat, BatchStart(b) PROVE BatchStart(b + FilterSize)
  <2>1. PICK j \in 0 .. b : b = StartBlock + j * FilterSize
    BY Zenon, <1>3 DEF BatchStart
  <2>2. (j + 1) * FilterSize = j * FilterSize + FilterSize /\ j * FilterSize \in Nat
    BY <1>1
  <2>3. j + 1 \in 0 .. b + FilterSize /\ b + FilterSize = StartBlock + (j + 1) * FilterSize
    BY <1>1, <2>1, <2>2
  <2> QED
    BY Zenon, <2>3 DEF BatchStart
<1> QED
  BY Zenon, <1>2, <1>3

\* What a round can reach: its headers, or those it would get now.
LEMMA ReachIs ==
  ASSUME SyncInv
  PROVE  /\ Reach \in Nat /\ Reach <= tip
         /\ pc = "filters" => Reach = EndBlock
         /\ pc # "filters" => Reach = lastBlockHeight + Min({MaxHeaders, tip - lastBlockHash})
         /\ lastBlockHeight + Min({MaxHeaders, tip - lastBlockHash}) >= Reach
<1>1. /\ MaxHeaders \in Nat /\ tip \in Nat /\ lastBlockHeight \in Nat /\ n \in Nat
      /\ lastBlockHash = lastBlockHeight /\ lastBlockHash <= tip /\ n <= MaxHeaders
      /\ pc = "filters" => n <= tip - lastBlockHash
  BY ChainAssumption DEF ChainAssumption, SyncInv, ChainTypeOK, HeightMatchesHash, LoopInv
<1>2. tip - lastBlockHash \in Nat
  BY <1>1
<1>3. Min({MaxHeaders, tip - lastBlockHash})
        = IF MaxHeaders <= tip - lastBlockHash THEN MaxHeaders ELSE tip - lastBlockHash
  BY Zenon, <1>1, <1>2, MinPair
<1>4. CASE pc = "filters"
  BY <1>1, <1>2, <1>3, <1>4 DEF Reach, EndBlock, StartBlock
<1>5. CASE pc # "filters"
  BY <1>1, <1>2, <1>3, <1>5 DEF Reach, EndBlock, StartBlock
<1> QED
  BY Zenon, <1>4, <1>5

\* Steps that scan nothing and leave the state as it is: what was ahead still is.
LEMMA AheadKept ==
  ASSUME ChainInv, Reach' \in Nat, Reach <= Reach', UNCHANGED <<lastBlockHeight, scanned>>,
         pc' = "filters" => BatchStart(block)'
  PROVE  AheadInv'
<1>1. StartBlock' = StartBlock
  BY Zenon DEF StartBlock
<1>2. ASSUME NEW h \in Height, h > lastBlockHeight, scanned[h].from # 0
      PROVE  /\ BatchStart(scanned[h].from)'
             /\ scanned[h].from <= h /\ h < scanned[h].from + FilterSize
             /\ h <= Reach'
             /\ scanned[h].from # StartBlock => scanned[h].from < Reach'
  <2>1. /\ BatchStart(scanned[h].from)
        /\ scanned[h].from <= h /\ h < scanned[h].from + FilterSize
        /\ h <= Reach
        /\ scanned[h].from # StartBlock => scanned[h].from < Reach
    BY Zenon, <1>2 DEF ChainInv, AheadInv
  <2>2. BatchStart(scanned[h].from)'
    BY Zenon, <1>1, <2>1 DEF BatchStart
  <2>3. Reach \in Nat
    BY Zenon, ReachIs DEF ChainInv
  <2>4. h \in Nat /\ scanned[h].from \in Nat
    BY ChainAssumption DEF ChainAssumption, ChainInv, SyncInv, ChainTypeOK, Height
  <2>5. h <= Reach' /\ (scanned[h].from # StartBlock => scanned[h].from < Reach')
    BY <2>1, <2>3, <2>4
  <2> QED
    BY Zenon, <2>1, <2>2, <2>5
<1> QED
  BY Zenon, <1>1, <1>2 DEF AheadInv

\* If neither the chain nor the wallet changes, the spends found are the same.
LEMMA RoundKept ==
  ASSUME ChainInv, Reach' \in Nat, Reach <= Reach',
         UNCHANGED <<utxoMap, tip, created, spent, lastBlockHeight, scanned>>,
         pc' = "filters" => BatchStart(block)',
         \A h : Passed(h)' => Passed(h)
  PROVE  (SpentOnChain /\ AheadInv /\ SpendsInv)'
<1>1. SpentOnChain'
  BY Zenon DEF ChainInv, SpentOnChain
<1>2. AheadInv'
  BY Zenon, AheadKept
<1>3. Known' = Known
  BY Zenon DEF Known
<1>4. SpendsInv'
  BY Zenon, <1>3 DEF ChainInv, SpendsInv
<1> QED
  BY Zenon, <1>1, <1>2, <1>4

\* sync_state starts, fails or returns, an address is given out, or nothing happens.
LEMMA SpendsControl ==
  ASSUME ChainInv, SyncInv',
         UNCHANGED <<utxoMap, tip, created, spent, lastBlockHeight, lastBlockHash, scanned>>,
         pc' = "filters" => pc = "filters" /\ n' = n /\ block' = block
  PROVE  (SpentOnChain /\ AheadInv /\ SpendsInv)'
<1>1. SyncInv /\ Reach \in Nat /\ lastBlockHeight + Min({MaxHeaders, tip - lastBlockHash}) >= Reach
  BY Zenon, ReachIs DEF ChainInv
<1>2. Reach' \in {Reach, lastBlockHeight + Min({MaxHeaders, tip - lastBlockHash})}
  BY Zenon DEF Reach
<1>3. lastBlockHeight + Min({MaxHeaders, tip - lastBlockHash}) \in Nat
  <2>1. /\ MaxHeaders \in Nat /\ tip - lastBlockHash \in Nat /\ lastBlockHeight \in Nat
    BY <1>1, ChainAssumption DEF ChainAssumption, SyncInv, ChainTypeOK, LoopInv
  <2> QED
    BY <2>1, MinPair
<1>4. Reach' \in Nat /\ Reach <= Reach'
  BY <1>1, <1>2, <1>3
<1>5. \A h : Passed(h)' => Passed(h)
  BY Zenon DEF Passed, StartBlock, EndBlock
<1>6. ASSUME pc' = "filters" PROVE BatchStart(block)'
  <2>1. BatchStart(block) /\ block' = block
    BY Zenon, <1>6 DEF ChainInv, AheadInv
  <2> QED
    BY Zenon, <2>1 DEF BatchStart, StartBlock
<1> QED
  BY Zenon, <1>4, <1>5, <1>6, RoundKept

\* The headers of a round: it reaches what it could reach before, and has passed nothing.
LEMMA SpendsHeaders ==
  ASSUME ChainInv, SyncInv', FetchHeaders
  PROVE  (SpentOnChain /\ AheadInv /\ SpendsInv)'
<1>1. /\ UNCHANGED <<utxoMap, tip, created, spent, lastBlockHeight, lastBlockHash, scanned>>
      /\ n' = Min({MaxHeaders, tip - lastBlockHash})
      /\ block' = StartBlock /\ pc = "headers"
  BY Zenon DEF FetchHeaders, wallet_hist, wallet_vars, peer_vars, state_vars
<1>2. /\ SyncInv /\ Reach \in Nat
      /\ Reach = lastBlockHeight + Min({MaxHeaders, tip - lastBlockHash})
  <2>1. pc # "filters"
    BY <1>1
  <2> QED
    BY Zenon, <2>1, ReachIs DEF ChainInv
<1>3. Reach' = Reach
  BY Zenon, <1>1, <1>2 DEF Reach
<1>4. Reach' \in Nat /\ Reach <= Reach'
  BY <1>2, <1>3
<1>5. lastBlockHeight \in Nat
  BY Zenon, <1>2 DEF SyncInv, ChainTypeOK
<1>6. BatchStart(block)'
  <2>1. BatchStart(StartBlock)
    BY Zenon, <1>5, Batches
  <2>2. block' = StartBlock /\ StartBlock' = StartBlock
    BY Zenon, <1>1 DEF StartBlock
  <2> QED
    BY Zenon, <2>1, <2>2 DEF BatchStart
<1>7. \A h : Passed(h)' => Passed(h)
  <2>1. ASSUME NEW h, Passed(h)' PROVE h \in 1 .. lastBlockHeight
    <3>1. \/ h \in 1 .. lastBlockHeight
          \/ h \in StartBlock .. EndBlock' /\ h < StartBlock
      BY Zenon, <1>1, <2>1 DEF Passed, StartBlock
    <3>2. StartBlock \in Nat /\ EndBlock' \in Int
      <4>1. n' \in Nat
        BY DEF SyncInv, ChainTypeOK
      <4> QED
        BY <1>1, <1>5, <4>1 DEF StartBlock, EndBlock
    <3> QED
      BY <3>1, <3>2
  <2> QED
    BY Zenon, <2>1 DEF Passed
<1> QED
  BY Zenon, <1>1, <1>4, <1>6, <1>7, RoundKept

\* A block that was passed is one the chain has.
LEMMA PassedOnChain ==
  ASSUME SyncInv
  PROVE  \A h : Passed(h) => h \in Height /\ h <= tip /\ h # 0
<1>1. /\ lastBlockHeight \in Nat /\ tip \in Nat /\ tip <= MaxTip /\ MaxTip \in Nat /\ n \in Nat
      /\ lastBlockHeight = lastBlockHash /\ lastBlockHash <= tip
      /\ pc = "filters" => n <= tip - lastBlockHash
  BY ChainAssumption DEF ChainAssumption, SyncInv, ChainTypeOK, HeightMatchesHash, LoopInv
<1> QED
  BY <1>1 DEF Passed, StartBlock, EndBlock, Height

\* A block is mined: it spends outputs in a block that is not passed, and creates none the
\* wallet has.
LEMMA SpendsMined ==
  ASSUME ChainInv, SyncInv', MineAny
  PROVE  (SpentOnChain /\ AheadInv /\ SpendsInv)'
<1>1. PICK C \in SUBSET Outpoint, S \in SUBSET Outpoint :
         \E outs \in [C -> [script : Script, amount : Amount]] : Mine(outs, S)
  BY Zenon DEF MineAny
<1>2. PICK outs \in [C -> [script : Script, amount : Amount]] : Mine(outs, S)
  BY Zenon, <1>1
<1>3. /\ UNCHANGED utxoMap
      /\ UNCHANGED <<lastBlockHeight, lastBlockHash, pc, n, block, counter, scanned>>
  BY Zenon DEF MineAny, wallet_hist, wallet_vars, state_vars, sync_vars
<1>4. tip \in Nat /\ tip' = tip + 1 /\ lastBlockHash \in Nat /\ lastBlockHash <= tip
  <2>1. tip' = tip + 1
    BY Zenon, <1>2 DEF Mine
  <2> QED
    BY <2>1 DEF ChainInv, SyncInv, ChainTypeOK, LoopInv
<1>5. DOMAIN outs = C
  OBVIOUS
<1>6. \A o \in Outpoint :
         /\ created'[o] = IF o \in C THEN tip + 1 ELSE created[o]
         /\ spent'[o] = IF o \in S THEN tip + 1 ELSE spent[o]
  BY Zenon, <1>2, <1>5 DEF Mine
<1>7. (\A o \in C : created[o] = 0) /\ \A o \in S : created[o] = 0 => o \in C
  BY Zenon, <1>2, <1>5 DEF Mine
<1>8. SpentOnChain'
  <2> SUFFICES ASSUME NEW o \in Outpoint
               PROVE  /\ created'[o] <= tip + 1 /\ spent'[o] <= tip + 1
                      /\ spent'[o] # 0 => created'[o] # 0 /\ created'[o] <= spent'[o]
    BY Zenon, <1>4 DEF SpentOnChain
  <2>1. /\ created[o] \in Nat /\ spent[o] \in Nat /\ created[o] <= tip /\ spent[o] <= tip
        /\ spent[o] # 0 => created[o] # 0 /\ created[o] <= spent[o]
    BY ChainAssumption DEF ChainAssumption, ChainInv, SpentOnChain, SyncInv, ChainTypeOK
  <2>2. /\ created'[o] = IF o \in C THEN tip + 1 ELSE created[o]
        /\ spent'[o] = IF o \in S THEN tip + 1 ELSE spent[o]
    BY Zenon, <1>6
  <2>3. (o \in C => created[o] = 0) /\ (o \in S /\ created[o] = 0 => o \in C)
    BY Zenon, <1>7
  <2> QED
    BY <1>4, <2>1, <2>2, <2>3
<1>9. AheadInv'
  <2>1. Reach' \in Nat /\ Reach <= Reach'
    <3>1. /\ MaxHeaders \in Nat /\ tip - lastBlockHash \in Nat /\ tip' - lastBlockHash \in Nat
          /\ tip - lastBlockHash <= tip' - lastBlockHash /\ lastBlockHeight \in Nat /\ n \in Nat
      BY <1>4, ChainAssumption DEF ChainAssumption, ChainInv, SyncInv, ChainTypeOK
    <3>2. /\ Min({MaxHeaders, tip - lastBlockHash}) \in Nat
          /\ Min({MaxHeaders, tip' - lastBlockHash}) \in Nat
          /\ Min({MaxHeaders, tip - lastBlockHash}) <= Min({MaxHeaders, tip' - lastBlockHash})
      BY <3>1, MinPair
    <3>3. /\ Reach = lastBlockHeight + IF pc = "filters" THEN n
                                                         ELSE Min({MaxHeaders, tip - lastBlockHash})
          /\ Reach' = lastBlockHeight + IF pc = "filters" THEN n
                                                          ELSE Min({MaxHeaders, tip' - lastBlockHash})
      BY Zenon, <1>3 DEF Reach
    <3> QED
      BY <3>1, <3>2, <3>3
  <2>2. ASSUME pc' = "filters" PROVE BatchStart(block)'
    <3>1. BatchStart(block) /\ block' = block /\ StartBlock' = StartBlock
      BY Zenon, <1>3, <2>2 DEF ChainInv, AheadInv, StartBlock
    <3> QED
      BY Zenon, <3>1 DEF BatchStart
  <2> QED
    BY Zenon, <1>3, <2>1, <2>2, AheadKept
<1>10. SpendsInv'
  <2>1. Known' = Known /\ \A h : Passed(h)' <=> Passed(h)
    BY Zenon, <1>3 DEF Known, Passed, StartBlock, EndBlock
  <2> SUFFICES ASSUME NEW o \in Known, Passed(spent'[o]), scanned[spent'[o]].from # 0,
                      ~utxoMap[o].isSpent
               PROVE  scanned[created'[o]].from = scanned[spent'[o]].from
    BY Zenon, <1>3, <2>1 DEF SpendsInv, Passed, StartBlock, EndBlock
  <2>2. o \in Outpoint /\ created[o] # 0 /\ o \notin C
    BY Zenon, <1>7 DEF Known, ChainInv, SyncInv, OutputsFound
  <2>3. spent'[o] <= tip
    BY Zenon, PassedOnChain DEF ChainInv
  <2>4. o \notin S
    BY <1>4, <1>6, <2>2, <2>3
  <2>5. created'[o] = created[o] /\ spent'[o] = spent[o]
    BY Zenon, <1>6, <2>2, <2>4
  <2> QED
    BY Zenon, <2>5 DEF ChainInv, SpendsInv
<1> QED
  BY Zenon, <1>8, <1>9, <1>10

\* The round ends.  It has passed all its blocks, or all but the last: that one no round has
\* scanned.
LEMMA SpendsFinish ==
  ASSUME ChainInv, SyncInv', FinishRound
  PROVE  (SpentOnChain /\ AheadInv /\ SpendsInv)'
<1>1. /\ UNCHANGED <<utxoMap, tip, created, spent, n, block, scanned>>
      /\ lastBlockHeight' = EndBlock
      /\ pc' \in {"synced", "headers"} /\ pc = "filters" /\ ~MoreBatches
  BY Zenon DEF FinishRound, wallet_hist, wallet_vars, peer_vars
<1>2. pc' # "filters"
  BY <1>1
<1>3. SyncInv /\ LoopTypes /\ LoopInv
  BY Zenon, LoopTyped DEF ChainInv, SyncInv
<1>4. /\ FilterSize \in Nat \ {0} /\ block \in Nat /\ n \in Nat /\ lastBlockHeight \in Nat
      /\ StartBlock = lastBlockHeight + 1 /\ EndBlock = lastBlockHeight + n
  BY Zenon, <1>1, <1>3, BatchRange
<1>5. block # StartBlock /\ ~(block < EndBlock)
  BY Zenon, <1>1 DEF MoreBatches
<1>6. Reach = EndBlock
  BY Zenon, <1>1, <1>3, ReachIs
<1>7. SpentOnChain'
  BY Zenon, <1>1 DEF ChainInv, SpentOnChain
<1>8. AheadInv'
  <2>1. ASSUME NEW h \in Height, h > EndBlock, scanned[h].from # 0 PROVE FALSE
    <3>1. h \in Nat /\ h > lastBlockHeight
      BY <1>4, <2>1 DEF Height
    <3>2. h <= EndBlock
      BY Zenon, <1>6, <2>1, <3>1 DEF ChainInv, AheadInv
    <3> QED
      BY <1>4, <2>1, <3>1, <3>2
  <2> QED
    BY Zenon, <1>1, <1>2, <2>1 DEF AheadInv
<1>9. ASSUME NEW h, Passed(h)', scanned[h].from # 0 PROVE Passed(h)
  <2>1. h \in 1 .. EndBlock
    BY Zenon, <1>1, <1>2, <1>9 DEF Passed
  <2>2. CASE h <= lastBlockHeight
    BY <1>4, <2>1, <2>2 DEF Passed
  <2>3. CASE h > lastBlockHeight /\ h < block
    BY <1>1, <1>4, <2>1, <2>3 DEF Passed
  <2>4. CASE h > lastBlockHeight /\ ~(h < block)
    <3>1. h = block /\ h = EndBlock /\ h \in Nat
      BY <1>4, <1>5, <2>1, <2>4
    <3>2. h \in Height
      BY <1>1, <1>4, <2>1, <3>1, BatchRange, <1>3 DEF Height
    <3>3. /\ BatchStart(scanned[h].from) /\ scanned[h].from <= h
          /\ h < scanned[h].from + FilterSize
          /\ scanned[h].from # StartBlock => scanned[h].from < EndBlock
      BY Zenon, <1>6, <1>9, <2>4, <3>2 DEF ChainInv, AheadInv
    <3>4. BatchStart(h) /\ scanned[h].from \in Nat
      <4>1. BatchStart(h)
        BY Zenon, <1>1, <3>1 DEF ChainInv, AheadInv
      <4>2. scanned[h].from \in Nat
        BY <1>3, <3>2, ChainAssumption DEF ChainAssumption, LoopTypes
      <4> QED
        BY Zenon, <4>1, <4>2
    <3>5. scanned[h].from = h
      BY Zenon, <1>4, <3>1, <3>3, <3>4, SameBatch
    <3> QED
      BY <1>4, <1>5, <3>1, <3>3, <3>5
  <2>5. lastBlockHeight \in Nat /\ EndBlock \in Nat
    BY <1>4
  <2> QED
    BY <2>1, <2>2, <2>3, <2>4, <2>5
<1>10. SpendsInv'
  <2>1. Known' = Known
    BY Zenon, <1>1 DEF Known
  <2>2. ASSUME NEW o \in Known', Passed(spent[o])', scanned[spent[o]].from # 0, ~utxoMap[o].isSpent
        PROVE  scanned[created[o]].from = scanned[spent[o]].from
    <3>1. o \in Known /\ Passed(spent[o])
      BY Zenon, <1>1, <1>9, <2>1, <2>2 DEF Passed
    <3> QED
      BY Zenon, <2>2, <3>1 DEF ChainInv, SpendsInv
  <2> QED
    BY Zenon, <1>1, <2>2 DEF SpendsInv
<1> QED
  BY Zenon, <1>7, <1>8, <1>10

\* A turn of the loop finds the spends of the outputs the wallet had before.  An output it
\* finds was created in the batch, so what the earlier batches spend is as it was.
LEMMA SpendsScanned ==
  ASSUME ChainInv, SyncInv', ScanBatch
  PROVE  (SpentOnChain /\ AheadInv /\ SpendsInv)'
<1> DEFINE F == Found(block, StopHash)
<1>1. /\ utxoMap' = Inserted(FoundUtxos(block, StopHash))
      /\ UNCHANGED <<tip, created, spent, lastBlockHeight, lastBlockHash, pc, n>>
      /\ block' = block + FilterSize /\ pc = "filters" /\ MoreBatches
  BY Zenon DEF ScanBatch, InsertUtxos, peer_vars, state_vars
<1>2. SyncInv /\ LoopTypes /\ LoopInv
  BY Zenon, LoopTyped DEF ChainInv, SyncInv
<1>3. /\ FilterSize \in Nat \ {0} /\ block \in Nat /\ n \in Nat /\ lastBlockHeight \in Nat
      /\ block >= lastBlockHeight + 1
      /\ StartBlock = lastBlockHeight + 1 /\ EndBlock = lastBlockHeight + n
      /\ StopHash = IF block + FilterSize - 1 <= EndBlock THEN block + FilterSize - 1
                                                          ELSE EndBlock
  BY Zenon, <1>1, <1>2, BatchRange
<1>4. /\ StopHash \in Nat /\ StopHash <= tip /\ block \in Nat \ {0}
      /\ \A h \in Height :
           /\ h \in block .. StopHash => scanned'[h] = [from |-> block, watched |-> GetPubkeys]
           /\ h \notin block .. StopHash => scanned'[h] = scanned[h]
  BY Zenon, <1>2, ScanLoop
<1>5. /\ Known' = Known \cup F
      /\ \A o \in Known : spent[o] \in block .. StopHash => utxoMap'[o].isSpent
      /\ \A o \in Known : o \notin F /\ spent[o] \notin block .. StopHash => utxoMap'[o] = utxoMap[o]
  <2>1. ChainTypeOK
    BY Zenon, <1>2 DEF SyncInv
  <2> QED
    BY Zenon, <1>1, <1>4, <2>1, InsertedEffect
<1>6. /\ StartBlock' = StartBlock /\ EndBlock' = EndBlock /\ Reach' = Reach /\ Reach = EndBlock
      /\ \A b : BatchStart(b)' <=> BatchStart(b)
  <2>1. StartBlock' = StartBlock /\ EndBlock' = EndBlock /\ Reach' = Reach
    BY Zenon, <1>1 DEF StartBlock, EndBlock, Reach
  <2>2. Reach = EndBlock
    BY Zenon, <1>1, <1>2, ReachIs
  <2> QED
    BY Zenon, <2>1, <2>2 DEF BatchStart
<1>7. SpentOnChain'
  BY Zenon, <1>1 DEF ChainInv, SpentOnChain
<1>8. BatchStart(block) /\ BatchStart(block)'
  <2>1. BatchStart(block)
    BY Zenon, <1>1 DEF ChainInv, AheadInv
  <2>2. BatchStart(block + FilterSize)
    BY Zenon, <1>3, <2>1, Batches
  <2> QED
    BY Zenon, <1>1, <1>6, <2>1, <2>2 DEF BatchStart
<1>9. AheadInv'
  <2>1. ASSUME NEW h \in Height, h > lastBlockHeight, scanned'[h].from # 0
        PROVE  /\ BatchStart(scanned'[h].from)
               /\ scanned'[h].from <= h /\ h < scanned'[h].from + FilterSize
               /\ h <= Reach
               /\ scanned'[h].from # StartBlock => scanned'[h].from < Reach
    <3>1. CASE h \in block .. StopHash
      <4>1. scanned'[h].from = block
        <5>1. scanned'[h] = [from |-> block, watched |-> GetPubkeys]
          BY Zenon, <1>4, <3>1
        <5> QED
          BY <5>1
      <4>2. block <= h /\ h < block + FilterSize /\ h <= EndBlock
        BY <1>3, <3>1 DEF Height
      <4>3. block # StartBlock => block < EndBlock
        BY Zenon, <1>1 DEF MoreBatches
      <4> QED
        BY Zenon, <1>6, <1>8, <4>1, <4>2, <4>3
    <3>2. CASE h \notin block .. StopHash
      <4>1. scanned'[h] = scanned[h]
        BY Zenon, <1>4, <3>2
      <4> QED
        BY Zenon, <2>1, <4>1 DEF ChainInv, AheadInv
    <3> QED
      BY Zenon, <3>1, <3>2
  <2>2. ASSUME NEW h \in Height, h > lastBlockHeight', scanned'[h].from # 0
        PROVE  /\ BatchStart(scanned[h].from)'
               /\ scanned'[h].from <= h /\ h < scanned'[h].from + FilterSize
               /\ h <= Reach'
               /\ scanned'[h].from # StartBlock' => scanned'[h].from < Reach'
    BY Zenon, <1>1, <1>6, <2>1, <2>2 DEF BatchStart
  <2> QED
    BY Zenon, <1>8, <2>2 DEF AheadInv
<1>10. SpendsInv'
  <2>1. ASSUME NEW o \in Known', Passed(spent[o])', scanned'[spent[o]].from # 0, ~utxoMap'[o].isSpent
        PROVE  scanned'[created[o]].from = scanned'[spent[o]].from
    <3>1. o \in Outpoint /\ spent[o] \in Height /\ created[o] \in Height /\ created[o] <= spent[o]
      <4>1. o \in Outpoint
        BY Zenon DEF Known
      <4>2. spent[o] \in 0 .. MaxTip /\ created[o] \in 0 .. MaxTip
        BY Zenon, <1>2, <4>1 DEF SyncInv, ChainTypeOK
      <4>3. spent[o] # 0
        BY <1>1, <1>3, <2>1 DEF Passed, StartBlock, EndBlock
      <4>4. created[o] # 0 /\ created[o] <= spent[o]
        BY Zenon, <4>1, <4>3 DEF ChainInv, SpentOnChain
      <4> QED
        BY <4>1, <4>2, <4>3, <4>4 DEF Height
    <3>2. CASE spent[o] \in block .. StopHash
      <4>1. o \in F \ Known
        BY Zenon, <1>5, <2>1, <3>2
      <4>2. created[o] \in block .. StopHash
        BY Zenon, <4>1 DEF Found
      <4> QED
        BY <1>4, <3>1, <3>2, <4>2
    <3>3. CASE spent[o] \notin block .. StopHash
      <4>1. Passed(spent[o]) /\ spent[o] < block
        <5>1. \/ spent[o] \in 1 .. lastBlockHeight
              \/ spent[o] \in StartBlock .. EndBlock /\ spent[o] < block + FilterSize
          BY Zenon, <1>1, <1>6, <2>1 DEF Passed
        <5>2. spent[o] \in Nat
          BY <3>1 DEF Height
        <5>3. CASE spent[o] \in 1 .. lastBlockHeight
          BY <1>3, <5>2, <5>3 DEF Passed
        <5>4. CASE spent[o] \in StartBlock .. EndBlock /\ spent[o] < block + FilterSize
          <6>1. spent[o] < block
            BY <1>3, <3>3, <5>2, <5>4
          <6> QED
            BY Zenon, <1>1, <5>4, <6>1 DEF Passed
        <5> QED
          BY Zenon, <5>1, <5>3, <5>4
      <4>2. created[o] \notin block .. StopHash
        BY <1>3, <1>4, <3>1, <4>1 DEF Height
      <4>3. o \in Known /\ utxoMap'[o] = utxoMap[o]
        <5>1. o \notin F
          BY Zenon, <4>2 DEF Found
        <5> QED
          BY Zenon, <1>5, <3>3, <5>1
      <4>4. scanned'[created[o]] = scanned[created[o]] /\ scanned'[spent[o]] = scanned[spent[o]]
        BY Zenon, <1>4, <3>1, <3>3, <4>2
      <4> QED
        BY Zenon, <2>1, <4>1, <4>3, <4>4 DEF ChainInv, SpendsInv
    <3> QED
      BY Zenon, <3>2, <3>3
  <2>2. created' = created /\ spent' = spent
    BY Zenon, <1>1
  <2> QED
    BY Zenon, <2>1, <2>2 DEF SpendsInv, Passed
<1> QED
  BY Zenon, <1>7, <1>9, <1>10

\* The invariant holds when CompactChain::new returns.
LEMMA ChainInitInv == ChainInit => ChainInv
<1> SUFFICES ASSUME ChainInit PROVE ChainInv
  OBVIOUS
<1>1. SyncInv
  BY Zenon, SyncInitInv
<1>2. /\ pc = "idle" /\ tip = 0 /\ scanned = [h \in Height |-> NotScanned]
      /\ created = [o \in Outpoint |-> 0] /\ spent = [o \in Outpoint |-> 0]
      /\ utxoMap = [o \in Outpoint |-> NoUtxo]
  BY Zenon DEF ChainInit, WalletInit, PeerInit, ChainStateInit, SyncInit
<1>3. SpentOnChain
  BY <1>2 DEF SpentOnChain
<1>4. AheadInv
  <2>1. \A h \in Height : scanned[h].from = 0
    BY <1>2 DEF NotScanned
  <2> QED
    BY <1>2, <2>1 DEF AheadInv
<1>5. SpendsInv
  BY Zenon, <1>2 DEF SpendsInv, Known
<1> QED
  BY Zenon, <1>1, <1>3, <1>4, <1>5 DEF ChainInv

\* Every step of the chain keeps the invariant.
LEMMA ChainNextInv == ASSUME ChainInv, [ChainNext]_chain_vars PROVE ChainInv'
<1>1. SyncInv /\ SyncInv'
  BY Zenon, SyncNextInv DEF ChainInv
<1>2. CASE NewAddress \/ StartSync \/ SyncFails \/ SyncReturns \/ UNCHANGED chain_vars
  <2>1. UNCHANGED <<utxoMap, tip, created, spent, lastBlockHeight, lastBlockHash, scanned>>
    BY Zenon, <1>2 DEF NewAddress, GetReceiveAddress, StartSync, SyncFails, SyncReturns, chain_vars,
       wallet_hist, wallet_vars, peer_vars, state_vars
  <2>2. pc' = "filters" => pc = "filters" /\ n' = n /\ block' = block
    BY Zenon, <1>2 DEF NewAddress, StartSync, SyncFails, SyncReturns, chain_vars, sync_vars
  <2> QED
    BY Zenon, <1>1, <2>1, <2>2, SpendsControl DEF ChainInv
<1>3. CASE MineAny \/ FetchHeaders \/ ScanBatch \/ FinishRound
  BY Zenon, <1>1, <1>3, SpendsMined, SpendsHeaders, SpendsScanned, SpendsFinish DEF ChainInv
<1> QED
  BY Zenon, <1>2, <1>3 DEF ChainNext

\* The invariant holds in every reachable state.
THEOREM ChainInvariance == ChainSpec => []ChainInv
BY ChainInitInv, ChainNextInv, PTL DEF ChainSpec

-----------------------------------------------------------------------------
(* The properties *)

\* Heights and hashes of the client never come apart, in rounds of any length and
\* with any requests failing (sync_state).
THEOREM HeightsMatchHashes == ChainSpec => []HeightMatchesHash
<1>1. ChainInv => HeightMatchesHash
  BY Zenon DEF ChainInv, SyncInv
<1> QED
  BY <1>1, ChainInvariance, PTL

\* The only block sync_state can leave out is one right after a full batch.
THEOREM GapsOnlyAfterFullBatch == ChainSpec => []NoGaps
<1>1. ChainInv => NoGaps
  BY Zenon DEF ChainInv, SyncInv
<1> QED
  BY <1>1, ChainInvariance, PTL

\* fetch_and_save_utxos misses no output of a scanned block whose script the wallet
\* watched, and reports none that is not on the chain.
THEOREM ScannedOutputsAreFound == ChainSpec => []OutputsFound
<1>1. ChainInv => OutputsFound
  BY Zenon DEF ChainInv, SyncInv
<1> QED
  BY <1>1, ChainInvariance, PTL

\* insert_utxos never marks an output no block has spent.
THEOREM SpentOutputsAreSpent == ChainSpec => []NoFalseSpent
<1>1. ChainInv => NoFalseSpent
  BY Zenon DEF ChainInv, SyncInv
<1> QED
  BY <1>1, ChainInvariance, PTL

\* Of the outputs that a block sync_state has scanned spends, the wallet counts as unspent only
\* those created in the same batch: a round that fails after some of its batches, and is made
\* up for by one that reaches further, loses no other spend.
THEOREM SpendsAreFound == ChainSpec => []SpendsFound
<1>1. ChainInv => SpendsFound
  BY Zenon DEF ChainInv, SpendsInv, SpendsFound, Passed
<1> QED
  BY <1>1, ChainInvariance, PTL
=============================================================================
