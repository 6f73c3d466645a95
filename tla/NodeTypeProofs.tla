--------------------------- MODULE NodeTypeProofs ---------------------------
(***************************************************************************)
(* Proofs about Node, continued: the types of all of its variables, and    *)
(* the fees of the transactions it has sent, through any number of kills   *)
(* and restarts.  A restart reads the wallet and the chain back from the   *)
(* store, so what is stored has its type too.                              *)
(***************************************************************************)
EXTENDS NodeProofs, WatchWalletProofs

-----------------------------------------------------------------------------
(* Types.  NodeInv has most of them; the others follow with those of the transactions *)
(* and of what is stored.                                                             *)

Busy == {"sync", "create", "send", "store chain", "store wallet", "store signer", "store node"}

\* What the first kill that mattered could have come between.
KilledAt == {"half stored", "sent"}

\* Where a call is, and which.
PointOK(o, s) == (o \in Op /\ s \in Busy) \/ (o = "none" /\ s \in {"ready", "down"})

\* The types NodeInv does not have, and the fees of the transactions.
RestTypes ==
  /\ changeDepth \in 0 .. MaxChange + 1
  /\ utxoMap \in [Outpoint -> Utxo \cup {NoUtxo}]
  /\ txout \in [Outpoint -> TxOut \cup {NoTxOut}]
  /\ pc \in {"idle", "headers", "filters", "synced", "failed"}
  /\ n \in 0 .. MaxHeaders
  /\ txs \in Seq(Tx) /\ \A i \in 1 .. Len(txs) : FeeOK(txs[i])
  /\ PointOK(op, step)
  /\ "wallet" \in DOMAIN db => db["wallet"] \in StoredWallet
  /\ "chain" \in DOMAIN db => db["chain"] \in StoredChain
  /\ killed \subseteq KilledAt

\* The points of a call are those at which store_state, sync_state or the call itself is.
LEMMA PointIs == \A o, s : PointOK(o, s) <=> <<o, s>> \in CallPoint \cup {<<"none", "down">>}
<1>1. Step \ {"down", "ready"} = Busy
  BY Zenon DEF Step, StoreStep, Busy
<1>2. \A o, s : <<o, s>> \in Op \X Busy <=> o \in Op /\ s \in Busy
  BY Zenon
<1>3. \A o, s : <<o, s>> \in {<<"none", "ready">>, <<"none", "down">>}
                <=> o = "none" /\ s \in {"ready", "down"}
  BY Zenon
<1>4. CallPoint \cup {<<"none", "down">>} =
        (Op \X Busy) \cup {<<"none", "ready">>, <<"none", "down">>}
  BY Zenon, <1>1 DEF CallPoint
<1> QED
  BY Zenon, <1>2, <1>3, <1>4 DEF PointOK

\* What RestoreInv and BooksInv say of the types of memory.
LEMMA MemoryTypes ==
  ASSUME NodeInv
  PROVE  /\ pubkeyMap \in [Script -> PubkeyDetails \cup {NoKey}]
         /\ tip \in 0 .. MaxTip
         /\ created \in [Outpoint -> 0 .. MaxTip] /\ spent \in [Outpoint -> 0 .. MaxTip]
         /\ lastBlockHeight \in Nat /\ lastBlockHash \in 0 .. MaxTip
         /\ block \in Nat /\ counter \in Nat
         /\ scanned \in [Height -> [from : 0 .. MaxTip, watched : SUBSET Script]]
         /\ DOMAIN db \subseteq Key /\ (pc # "idle" => step = "sync")
<1>1. MemoryInv /\ StoredInv /\ NetworkInv /\ BooksInv
  BY Zenon DEF NodeInv, RestoreInv
<1>2. tip \in 0 .. MaxTip /\ MaxTip \in Nat
  BY Zenon, <1>1, ChainAssumption DEF NetworkInv, ChainAssumption
<1>3. 0 .. tip \subseteq 0 .. MaxTip
  BY <1>2
<1>4. created \in [Outpoint -> 0 .. tip] /\ spent \in [Outpoint -> 0 .. tip]
  BY Zenon, <1>1 DEF NetworkInv, BooksInv
<1>5. created \in [Outpoint -> 0 .. MaxTip] /\ spent \in [Outpoint -> 0 .. MaxTip]
  BY Zenon, <1>3, <1>4
<1>6. OnChain(ChainState) /\ Kept(utxoMap, scanned) /\ block \in Nat /\ counter \in Nat
      /\ (pc # "idle" => step = "sync")
  BY Zenon, <1>1 DEF MemoryInv
<1>7. lastBlockHeight \in Nat /\ lastBlockHash = lastBlockHeight /\ lastBlockHeight <= tip
  BY Zenon, <1>6 DEF OnChain, ChainState
<1>8. lastBlockHash \in 0 .. MaxTip
  BY <1>2, <1>7
<1>9. pubkeyMap \in [Script -> PubkeyDetails \cup {NoKey}]
  BY Zenon, <1>1 DEF MemoryInv, Tracks
<1>10. scanned \in [Height -> [from : 0 .. MaxTip, watched : SUBSET Script]]
  BY Zenon, <1>6 DEF Kept
<1>11. DOMAIN db \subseteq Key
  BY Zenon, <1>1 DEF StoredInv
<1> QED
  BY Zenon, <1>2, <1>5, <1>6, <1>7, <1>8, <1>9, <1>10, <1>11

\* With NodeInv these are all types.
LEMMA TypesWhole == ASSUME NodeInv, RestTypes PROVE TypeOK /\ FeeBounded
<1>1. WalletTypeOK
  BY Zenon, MemoryTypes DEF RestTypes, WalletTypeOK
<1>2. ChainTypeOK
  BY Zenon, <1>1, MemoryTypes DEF RestTypes, ChainTypeOK
<1>3. <<op, step>> \in CallPoint \cup {<<"none", "down">>}
  BY Zenon, PointIs DEF RestTypes
<1>4. TypeOK
  BY Zenon, <1>2, <1>3, MemoryTypes DEF RestTypes, TypeOK, KilledAt
<1>5. FeeBounded
  BY Zenon DEF RestTypes, FeeBounded, FeeOK
<1> QED
  BY Zenon, <1>4, <1>5

\* Before the client starts for the first time.
LEMMA TypesInit == Init => RestTypes
<1> SUFFICES ASSUME Init PROVE RestTypes
  OBVIOUS
<1>1. /\ changeDepth = 0 /\ utxoMap = [o \in Outpoint |-> NoUtxo] /\ txs = <<>>
      /\ txout = [o \in Outpoint |-> NoTxOut] /\ pc = "idle" /\ n = 0
      /\ op = "none" /\ step = "down" /\ killed = {} /\ db = [k \in {} |-> "none"]
  BY Zenon DEF Init, WalletInit, PeerInit, SyncInit
<1>2. MaxChange \in Nat /\ MaxHeaders \in Nat
  BY WalletAssumption, ChainAssumption DEF WalletAssumption, ChainAssumption
<1>3. changeDepth \in 0 .. MaxChange + 1 /\ n \in 0 .. MaxHeaders
  BY <1>1, <1>2
<1>4. txs \in Seq(Tx) /\ \A i \in 1 .. Len(txs) : FeeOK(txs[i])
  BY <1>1
<1>5. DOMAIN db = {}
  BY Zenon, <1>1
<1>6. PointOK(op, step) /\ pc \in {"idle", "headers", "filters", "synced", "failed"}
  BY Zenon, <1>1 DEF PointOK
<1>7. /\ utxoMap \in [Outpoint -> Utxo \cup {NoUtxo}]
      /\ txout \in [Outpoint -> TxOut \cup {NoTxOut}]
  BY Zenon, <1>1
<1> QED
  BY Zenon, <1>1, <1>3, <1>4, <1>5, <1>6, <1>7 DEF RestTypes

\* Steps of a call that only move it on.
LEMMA TypesQuiet ==
  ASSUME RestTypes, UNCHANGED <<changeDepth, utxoMap, txout, txs, db>>,
         pc' \in {"idle", "headers", "filters", "synced", "failed"}, n' \in 0 .. MaxHeaders,
         PointOK(op', step'), killed' \subseteq KilledAt
  PROVE  RestTypes'
BY Zenon DEF RestTypes, FeeOK, Fee, PointOK

\* The start of a client without a state, and the calls up to store_state, but for the turns
\* of the loop and the transaction.
LEMMA TypesControl ==
  ASSUME NodeInv, RestTypes, killed' = killed,
         \/ New \/ CallGetReceiveAddress \/ AfterSync \/ Send
         \/ \E call \in {"balance", "send_to_address"} : CallSync(call)
         \/ step = "sync" /\ UNCHANGED <<op, step, db>> /\ (FetchHeaders \/ FinishRound \/ SyncFails)
  PROVE  RestTypes'
<1>1. UNCHANGED <<changeDepth, utxoMap, txout, txs, db>>
  BY ZenonT(40) DEF New, CallGetReceiveAddress, GetReceiveAddress, AfterSync, SyncReturns, Send, CallSync,
     StartSync, FetchHeaders, FinishRound, SyncFails, chain_vars, wallet_hist, wallet_vars, peer_vars
<1>2. pc \in {"idle", "headers", "filters", "synced", "failed"} /\ n \in 0 .. MaxHeaders
      /\ PointOK(op, step) /\ killed' \subseteq KilledAt
  BY Zenon DEF RestTypes
<1>3. pc' \in {"idle", "headers", "filters", "synced", "failed"}
  BY ZenonT(40), <1>2 DEF New, CallGetReceiveAddress, AfterSync, SyncReturns, Send, CallSync,
     StartSync, FetchHeaders, FinishRound, SyncFails, chain_vars, sync_vars
<1>4. n' \in 0 .. MaxHeaders
  <2>1. CASE FetchHeaders
    BY Zenon, <2>1, LoopReady, FetchLoop DEF NodeInv
  <2>2. CASE AfterSync
    <3>1. n' = 0 /\ MaxHeaders \in Nat
      BY Zenon, <2>2, ChainAssumption DEF AfterSync, SyncReturns, ChainAssumption
    <3> QED
      BY <3>1
  <2>3. CASE ~FetchHeaders /\ ~AfterSync
    <3>1. n' = n
      BY ZenonT(40), <2>3 DEF New, CallGetReceiveAddress, Send, CallSync, StartSync, FinishRound,
         SyncFails, chain_vars, sync_vars
    <3> QED
      BY Zenon, <1>2, <3>1
  <2> QED
    BY Zenon, <2>1, <2>2, <2>3
<1>5. PointOK(op', step')
  <2>1. step = "sync" => op \in {"balance", "send_to_address"}
    BY Zenon DEF NodeInv, RestoreInv, NetworkInv
  <2>2. CASE New \/ CallGetReceiveAddress \/ Send
    BY Zenon, <1>2, <2>2 DEF New, CallGetReceiveAddress, Send, Goto, PointOK, Op, Busy
  <2>3. CASE AfterSync
    BY Zenon, <1>2, <2>1, <2>3 DEF AfterSync, PointOK, Op, Busy
  <2>4. CASE \E call \in {"balance", "send_to_address"} : CallSync(call)
    BY Zenon, <2>4 DEF CallSync, Goto, PointOK, Op, Busy
  <2>5. CASE UNCHANGED <<op, step>>
    BY Zenon, <1>2, <2>5
  <2> QED
    BY Zenon, <2>2, <2>3, <2>4, <2>5
<1> QED
  BY Zenon, <1>1, <1>2, <1>3, <1>4, <1>5, TypesQuiet

\* insert_utxos enters outputs with a script of the wallet, and its key.
LEMMA TypesScan ==
  ASSUME NodeInv, RestTypes, step = "sync", UNCHANGED <<op, step, db, killed>>, ScanBatch
  PROVE  RestTypes'
<1>1. /\ utxoMap' = Inserted(FoundUtxos(block, StopHash))
      /\ UNCHANGED <<changeDepth, txs, txout, pc, n>>
  BY Zenon DEF ScanBatch, InsertUtxos, peer_vars
<1>2. StopHash \in Nat /\ block \in Nat \ {0}
  BY Zenon, LoopReady, ScanLoop DEF NodeInv
<1>3. ChainTypeOK
  BY Zenon, TypesWhole DEF TypeOK
<1>4. utxoMap' \in [Outpoint -> Utxo \cup {NoUtxo}]
  BY Zenon, <1>1, <1>2, <1>3, InsertedEffect
<1> QED
  BY Zenon, <1>1, <1>4 DEF RestTypes, FeeOK, Fee, PointOK

\* What coin_select returns meets the target.
LEMMA SelectionMeets ==
  ASSUME Sound, NEW t \in Payment, NEW S \in Selections(t)
  PROVE  S \in SUBSET Outpoint /\ Effective(S) \in Int /\ Effective(S) >= t
<1>1. S \in BnbMatches(t) \cup DrawSelections(t)
  <2>1. BnbSelections(t) \subseteq BnbMatches(t)
    BY Zenon DEF BnbSelections
  <2> QED
    BY Zenon, <2>1 DEF Selections
<1>2. S \in SUBSET Outpoint
  BY Zenon, <1>1 DEF BnbMatches, DrawSelections, Positive, Known
<1>3. Effective(S) \in Int
  BY Zenon, <1>2, EffectiveInt
<1>4. Effective(S) \in t .. t + ChangeFee \/ Effective(S) >= t
  BY Zenon, <1>1 DEF BnbMatches, DrawSelections
<1>5. t \in Int /\ ChangeFee \in Int
  BY WalletAssumption DEF WalletAssumption
<1> QED
  BY <1>2, <1>3, <1>4, <1>5

\* create_transaction: the change script is the next one, and the fee is as decide_change
\* leaves it.
LEMMA TypesCreate ==
  ASSUME NodeInv, RestTypes, Create, killed' = killed
  PROVE  RestTypes'
<1>1. PICK target \in Payment : CreateTransaction(target)
  BY Zenon DEF Create
<1>2. PICK s \in Script, S \in Selections(target) :
        /\ GetChangeScript(s)
        /\ txs' = Append(txs, Transaction(S, target, s))
        /\ UNCHANGED utxoMap
  BY Zenon, <1>1 DEF CreateTransaction
<1>3. /\ UNCHANGED <<utxoMap, txout, pc, n, op, db>>
      /\ changeDepth <= MaxChange /\ changeDepth' = changeDepth + 1
      /\ step = "create" /\ step' = "send"
  BY ZenonT(40), <1>2 DEF Create, Goto, GetChangeScript, peer_vars, sync_vars
<1>4. Sound
  BY Zenon, TypesWhole, WalletSound DEF TypeOK, ChainTypeOK
<1>5. S \in SUBSET Outpoint /\ Effective(S) \in Int /\ Effective(S) >= target
  BY Zenon, <1>4, SelectionMeets
<1> DEFINE t == Transaction(S, target, s)
<1>6. t \in Tx /\ FeeOK(t)
  BY Zenon, <1>4, <1>5, TransactionFacts
<1> HIDE DEF t
<1>7. txs \in Seq(Tx) /\ \A i \in 1 .. Len(txs) : FeeOK(txs[i])
  BY Zenon DEF RestTypes
<1>8. txs' = Append(txs, t)
  BY Zenon, <1>2 DEF t
<1>9. txs' \in Seq(Tx) /\ \A i \in 1 .. Len(txs') : i \in 1 .. Len(txs) \/ txs'[i] = t
  BY <1>6, <1>7, <1>8
<1>10. \A i \in 1 .. Len(txs) : txs'[i] = txs[i]
  BY <1>6, <1>7, <1>8
<1>11. \A i \in 1 .. Len(txs') : FeeOK(txs'[i])
  BY Zenon, <1>6, <1>7, <1>9, <1>10
<1>12. changeDepth' \in 0 .. MaxChange + 1
  <2>1. changeDepth \in 0 .. MaxChange + 1 /\ MaxChange \in Nat
    BY Zenon, WalletAssumption DEF RestTypes, WalletAssumption
  <2> QED
    BY <1>3, <2>1
<1>13. PointOK(op', step')
  BY Zenon, <1>3 DEF RestTypes, PointOK, Busy
<1> QED
  BY Zenon, <1>3, <1>9, <1>11, <1>12, <1>13 DEF RestTypes, FeeOK, Fee, PointOK

\* The client ends: memory is that of a new one.
LEMMA TypesEnds ==
  ASSUME NodeInv, RestTypes, Ends, killed' \subseteq KilledAt
  PROVE  RestTypes'
<1>1. /\ changeDepth' = 0 /\ utxoMap' = [o \in Outpoint |-> NoUtxo]
      /\ UNCHANGED <<txout, db>> /\ pc' = "idle" /\ n' = 0
      /\ op' = "none" /\ step' = "down" /\ txs' = SubSeq(txs, 1, NumSent)
  BY Zenon DEF Ends, Load, NewWalletState, peer_vars
<1>2. MaxChange \in Nat /\ MaxHeaders \in Nat
  BY Zenon, WalletAssumption, ChainAssumption DEF WalletAssumption, ChainAssumption
<1>3. changeDepth' \in 0 .. MaxChange + 1 /\ n' \in 0 .. MaxHeaders
  <2>1. changeDepth' = 0 /\ n' = 0
    BY Zenon, <1>1
  <2> QED
    BY <1>2, <2>1
<1>4. NumSent \in Nat /\ NumSent <= Len(txs)
  BY Zenon, SentFacts DEF NodeInv, RestoreInv
<1>5. txs \in Seq(Tx) /\ \A i \in 1 .. Len(txs) : FeeOK(txs[i])
  BY Zenon DEF RestTypes
<1>6. txs' \in Seq(Tx) /\ \A i \in 1 .. Len(txs') : i \in 1 .. Len(txs) /\ txs'[i] = txs[i]
  <2>1. txs' = SubSeq(txs, 1, NumSent)
    BY Zenon, <1>1
  <2> HIDE DEF NumSent
  <2> QED
    BY <1>4, <1>5, <2>1
<1>7. \A i \in 1 .. Len(txs') : FeeOK(txs'[i])
  BY Zenon, <1>5, <1>6
<1>8. PointOK(op', step') /\ pc' \in {"idle", "headers", "filters", "synced", "failed"}
  BY Zenon, <1>1 DEF PointOK
<1>9. utxoMap' \in [Outpoint -> Utxo \cup {NoUtxo}]
  BY Zenon, <1>1
<1> QED
  BY Zenon, <1>1, <1>3, <1>6, <1>7, <1>8, <1>9 DEF RestTypes, FeeOK, Fee, PointOK

\* A wallet that is restored has the types of one that was stored.
LEMMA TypesRestore ==
  ASSUME RestTypes, Restore, killed' = killed
  PROVE  RestTypes'
<1>1. /\ changeDepth' = db["wallet"].changeDepth /\ utxoMap' = db["wallet"].utxoMap
      /\ UNCHANGED <<txs, txout, pc, n, op, db>>
      /\ step = "down" /\ step' = "ready" /\ "wallet" \in DOMAIN db
  BY Zenon DEF Restore, Load, peer_vars, sync_vars, Restorable, Key
<1>2. db["wallet"] \in StoredWallet
  BY Zenon, <1>1 DEF RestTypes
<1>3. changeDepth' \in 0 .. MaxChange + 1 /\ utxoMap' \in [Outpoint -> Utxo \cup {NoUtxo}]
  BY Zenon, <1>1, <1>2 DEF StoredWallet
<1>4. PointOK(op', step')
  BY Zenon, <1>1 DEF RestTypes, PointOK, Busy
<1> QED
  BY Zenon, <1>1, <1>3, <1>4 DEF RestTypes, FeeOK, Fee, PointOK

\* What store_state inserts has the types of what is in memory.
LEMMA TypesStore ==
  ASSUME NodeInv, RestTypes, StoreChain \/ StoreWallet \/ StoreSigner \/ StoreNode, killed' = killed
  PROVE  RestTypes'
<1>1. UNCHANGED <<changeDepth, utxoMap, txout, txs, pc, n>>
  BY Zenon DEF StoreChain, StoreWallet, StoreSigner, StoreNode, chain_vars, wallet_hist,
     wallet_vars, peer_vars, sync_vars
<1>2. PointOK(op', step')
  BY Zenon DEF RestTypes, PointOK, Busy, StoreChain, StoreWallet, StoreSigner, StoreNode, Goto
<1>3. ChainState \in StoredChain
  BY Zenon, MemoryTypes DEF ChainState, StoredChain
<1>4. WalletState \in StoredWallet
  BY Zenon, MemoryTypes DEF RestTypes, WalletState, StoredWallet
<1>5. PICK k, v :
        /\ db' = DbInsert(k, v)
        /\ \/ k = "chain" /\ v = ChainState
           \/ k = "wallet" /\ v = WalletState
           \/ k \in {"signer", "node"}
  BY Zenon DEF StoreChain, StoreWallet, StoreSigner, StoreNode
<1>6. /\ DOMAIN db' = DOMAIN db \cup {k} /\ db'[k] = v
      /\ \A x \in DOMAIN db : x # k => db'[x] = db[x]
  BY Zenon, <1>5, InsertFacts
<1>7. "wallet" \in DOMAIN db' => db'["wallet"] \in StoredWallet
  BY Zenon, <1>4, <1>5, <1>6 DEF RestTypes
<1>8. "chain" \in DOMAIN db' => db'["chain"] \in StoredChain
  BY Zenon, <1>3, <1>5, <1>6 DEF RestTypes
<1> QED
  BY Zenon, <1>1, <1>2, <1>7, <1>8 DEF RestTypes, FeeOK, Fee, PointOK

\* The outputs of a block are paid to scripts of the wallet, and are amounts.
LEMMA TypesMined ==
  ASSUME RestTypes, NEW outs, NEW S, Mine(outs, S), \A o \in DOMAIN outs : outs[o] \in TxOut
  PROVE  txout' \in [Outpoint -> TxOut \cup {NoTxOut}]
<1>1. txout' = [o \in Outpoint |-> IF o \in DOMAIN outs THEN outs[o] ELSE txout[o]]
  BY Zenon DEF Mine
<1> QED
  BY Zenon, <1>1 DEF RestTypes

\* Payments, the change of transactions, and other blocks.
LEMMA TypesNetwork ==
  ASSUME NodeInv, RestTypes, Network, killed' = killed
  PROVE  RestTypes'
<1>1. UNCHANGED <<changeDepth, utxoMap, txs, pc, n, op, step, db>>
  BY Zenon DEF Network, wallet_hist, wallet_vars, sync_vars
<1>2. ASSUME NEW o, NEW x, x \in TxOut
      PROVE  \A y \in DOMAIN [z \in {o} |-> x] : [z \in {o} |-> x][y] \in TxOut
  BY Zenon, <1>2
<1>3. txout' \in [Outpoint -> TxOut \cup {NoTxOut}]
  <2>1. CASE MinePayment
    <3>1. PICK o \in NewOutpoint, a \in Amount :
            Mine([x \in {o} |-> [script |-> ReceiveScript, amount |-> a]], {})
      BY Zenon, <2>1 DEF MinePayment
    <3>2. a \in Nat /\ ReceiveScript \in Script
      BY Zenon, WalletAssumption DEF WalletAssumption, Script
    <3>3. [script |-> ReceiveScript, amount |-> a] \in TxOut
      BY Zenon, <3>2 DEF TxOut
    <3> QED
      BY Zenon, <1>2, <3>1, <3>3, TypesMined
  <2>2. CASE MineTransaction
    <3>1. PICK i \in Sent :
            IF txs[i].change = 0
              THEN Mine([x \in {} |-> NoTxOut], txs[i].inputs)
              ELSE \E o \in NewOutpoint :
                     Mine([x \in {o} |-> [script |-> txs[i].changeScript,
                                          amount |-> txs[i].change]], txs[i].inputs)
      BY Zenon, <2>2 DEF MineTransaction
    <3>2. i \in 1 .. Len(txs)
      <4>1. NumSent \in Nat /\ NumSent <= Len(txs) /\ Len(txs) \in Nat
        BY Zenon, SentFacts DEF NodeInv, RestoreInv
      <4>2. i \in 1 .. NumSent
        BY Zenon DEF Sent
      <4> HIDE DEF NumSent
      <4> QED
        BY <4>1, <4>2
    <3>3. txs[i] \in Tx
      <4>1. txs \in Seq(Tx)
        BY Zenon DEF RestTypes
      <4> QED
        BY <3>2, <4>1
    <3>4. [script |-> txs[i].changeScript, amount |-> txs[i].change] \in TxOut
      BY Zenon, <3>3 DEF Tx, TxOut
    <3>5. \A o \in DOMAIN [x \in {} |-> NoTxOut] : [x \in {} |-> NoTxOut][o] \in TxOut
      BY Zenon
    <3>6. CASE txs[i].change = 0
      BY Zenon, <3>1, <3>5, <3>6, TypesMined
    <3>7. CASE txs[i].change # 0
      <4>1. PICK o \in NewOutpoint :
              Mine([x \in {o} |-> [script |-> txs[i].changeScript,
                                   amount |-> txs[i].change]], txs[i].inputs)
        BY Zenon, <3>1, <3>7
      <4> QED
        BY Zenon, <1>2, <3>4, <4>1, TypesMined
    <3> QED
      BY Zenon, <3>6, <3>7
  <2>3. CASE MineOther
    <3>1. \A o \in DOMAIN [x \in {} |-> NoTxOut] : [x \in {} |-> NoTxOut][o] \in TxOut
      BY Zenon
    <3> QED
      BY Zenon, <2>3, <3>1, TypesMined DEF MineOther
  <2> QED
    BY Zenon, <2>1, <2>2, <2>3 DEF Network
<1> QED
  BY Zenon, <1>1, <1>3 DEF RestTypes, FeeOK, Fee, PointOK

\* Every step keeps the types.
LEMMA TypesNext == ASSUME NodeInv, RestTypes, [Next]_vars PROVE RestTypes'
<1>1. ASSUME Alive, killed' = killed PROVE RestTypes'
  <2>1. CASE Syncing
    <3>1. /\ step = "sync" /\ UNCHANGED <<op, step, db>>
          /\ FetchHeaders \/ ScanBatch \/ FinishRound \/ SyncFails
      BY Zenon, <2>1 DEF Syncing, SyncStep
    <3> QED
      BY Zenon, <1>1, <3>1, TypesControl, TypesScan
  <2>2. CASE New \/ CallGetReceiveAddress \/ AfterSync \/ Send
    BY Zenon, <1>1, <2>2, TypesControl
  <2>3. CASE \E call \in {"balance", "send_to_address"} : CallSync(call)
    BY Zenon, <1>1, <2>3, TypesControl
  <2>4. CASE Restore \/ Create \/ Network
    BY Zenon, <1>1, <2>4, TypesRestore, TypesCreate, TypesNetwork
  <2>5. CASE CreatePanics \/ SendPanics
    BY Zenon, <1>1, <2>5, TypesEnds DEF CreatePanics, SendPanics, RestTypes
  <2>6. CASE StoreChain \/ StoreWallet \/ StoreSigner \/ StoreNode
    BY Zenon, <1>1, <2>6, TypesStore
  <2> QED
    BY Zenon, <1>1, <2>1, <2>2, <2>3, <2>4, <2>5, <2>6 DEF Alive
<1>2. CASE Crash
  <2>1. \/ killed' = {"half stored" : i \in {j \in {1} : HalfStored}}
                      \cup {"sent" : i \in {j \in {1} : SentUnstored}}
        \/ killed' = killed
    BY Zenon, <1>2 DEF Crash
  <2>2. {"half stored" : i \in {j \in {1} : HalfStored}} \subseteq KilledAt
    BY Zenon DEF KilledAt
  <2>3. {"sent" : i \in {j \in {1} : SentUnstored}} \subseteq KilledAt
    BY Zenon DEF KilledAt
  <2>4. killed' \subseteq KilledAt
    BY Zenon, <2>1, <2>2, <2>3 DEF RestTypes
  <2> QED
    BY Zenon, <1>2, <2>4, TypesEnds DEF Crash
<1>3. CASE UNCHANGED vars
  <2>1. UNCHANGED <<changeDepth, utxoMap, txout, txs, db, pc, n, op, step, killed>>
    BY Zenon, <1>3 DEF vars, chain_vars, wallet_hist, wallet_vars, peer_vars, sync_vars
  <2> QED
    BY Zenon, <2>1, TypesQuiet DEF RestTypes
<1> QED
  BY Zenon, <1>1, <1>2, <1>3 DEF Next

\* Over any number of calls, kills and restores, what the client has in memory and in the
\* database has its types: what restore reads is a wallet and a chain state, the heights and
\* hashes are those of blocks the chain can have, and the change scripts do not run out
\* before the bound on sends (Node::restore, store_state and the calls).
THEOREM NodeTypeCorrect == Spec => []TypeOK
<1>1. Init => RestTypes
  BY TypesInit
<1>2. NodeInv /\ RestTypes /\ [Next]_vars => RestTypes'
  BY TypesNext
<1>3. NodeInv /\ RestTypes => TypeOK
  BY TypesWhole
<1> QED
  BY <1>1, <1>2, <1>3, NodeInvariance, PTL DEF Spec

\* Every transaction the client sends, with outputs found in blocks, restored from the
\* database or left by a call that failed, pays the fee of its inputs and, if it has one, of
\* its change output, and no more than a change output would cost (create_psbt_tx and
\* decide_change, called by send_to_address).
THEOREM SentFeesAreBounded == Spec => []FeeBounded
<1>1. Init => RestTypes
  BY TypesInit
<1>2. NodeInv /\ RestTypes /\ [Next]_vars => RestTypes'
  BY TypesNext
<1>3. NodeInv /\ RestTypes => FeeBounded
  BY TypesWhole
<1> QED
  BY <1>1, <1>2, <1>3, NodeInvariance, PTL DEF Spec

=============================================================================
