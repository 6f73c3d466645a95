-------------------------------- MODULE Node --------------------------------
(***************************************************************************)
(* The client (node/src/node.rs): the calls of its user, each of which     *)
(* syncs or uses the wallet and then stores the state of every part in the *)
(* database, one key after the other; what a killed client has lost, and   *)
(* what a new one restores.                                                *)
(*                                                                         *)
(* An insert into the database is one step here: KvStore is about it.  The *)
(* signer and the node have states that never change, so only whether they *)
(* are stored matters.  A panic (unwrap, expect) ends the client like a    *)
(* crash does.                                                             *)
(***************************************************************************)
EXTENDS CompactChain

VARIABLES
  op,     \* the user's call that is running
  step,   \* where it is
  db,     \* what the database has
  killed  \* history: the points at which the client was killed with a part of its work stored

vars == <<chain_vars, op, step, db, killed>>

Op == {"balance", "get_receive_address", "send_to_address"}

\* The keys in the order store_state inserts them.
StoreStep == {"store chain", "store wallet", "store signer", "store node"}

Step == {"down", "ready", "sync", "create", "send"} \cup StoreStep

CallPoint == (Op \X (Step \ {"down", "ready"})) \cup {<<"none", "ready">>}

\* Between the two inserts of store_state that belong together, and after a transaction
\* was sent, before the wallet is stored.
HalfStored == step = "store wallet"

SentUnstored == op = "send_to_address" /\ step \in {"store chain", "store wallet"}

\* The state of the wallet, with the history of what it has scanned.
WalletState == [pubkeyMap |-> pubkeyMap, changeDepth |-> changeDepth,
                utxoMap |-> utxoMap, scanned |-> scanned]

ChainState == [height |-> lastBlockHeight, hash |-> lastBlockHash]

\* WatchOnly::new and CompactChain::new
NewWalletState == [pubkeyMap   |-> [s \in Script |-> NoKey],
                   changeDepth |-> 0,
                   utxoMap     |-> [o \in Outpoint |-> NoUtxo],
                   scanned     |-> [h \in Height |-> NotScanned]]

NewChainState == [height |-> 0, hash |-> 0]

Key == {"chain", "wallet", "signer", "node"}

\* insert
DbInsert(key, value) ==
  [k \in DOMAIN db \cup {key} |-> IF k = key THEN value ELSE db[k]]

\* The transactions that were sent: of txs, all but one that is about to be.
NumSent == IF step = "send" THEN Len(txs) - 1 ELSE Len(txs)

Sent == 1 .. NumSent

\* restore finds every key.
Restorable == DOMAIN db = Key

Init ==
  /\ WalletInit /\ PeerInit /\ ChainStateInit /\ SyncInit
  /\ op = "none" /\ step = "down"
  /\ db = [k \in {} |-> "none"]
  /\ killed = {}

-----------------------------------------------------------------------------
(* Start and end of the client *)

\* Node::new, where there is nothing to restore: a fresh wallet and the genesis block.
New ==
  /\ step = "down"
  /\ ~Restorable
  /\ step' = "ready"
  /\ UNCHANGED <<chain_vars, op, db>>

\* The state in memory becomes w and c.
Load(w, c) ==
  /\ pubkeyMap' = w.pubkeyMap
  /\ changeDepth' = w.changeDepth
  /\ utxoMap' = w.utxoMap
  /\ scanned' = w.scanned
  /\ lastBlockHeight' = c.height
  /\ lastBlockHash' = c.hash

Restore ==
  /\ step = "down"
  /\ Restorable
  /\ step' = "ready"
  /\ Load(db["wallet"], db["chain"])
  /\ UNCHANGED <<txs, peer_vars, sync_vars, op, db>>

\* The client ends: what is in memory is gone, a transaction not sent included.
Ends ==
  /\ step' = "down"
  /\ txs' = SubSeq(txs, 1, NumSent)
  /\ op' = "none"
  /\ Load(NewWalletState, NewChainState)
  /\ pc' = "idle" /\ n' = 0 /\ block' = 0 /\ counter' = 0
  /\ UNCHANGED <<peer_vars, db>>

\* The client is killed, at any point.  (Bound: once with a part of its work stored.)
Crash ==
  /\ step # "down"
  /\ IF HalfStored \/ SentUnstored
       THEN /\ killed = {}
            /\ killed' = {"half stored" : i \in {j \in {1} : HalfStored}}
                         \cup {"sent" : i \in {j \in {1} : SentUnstored}}
       ELSE UNCHANGED killed
  /\ Ends

-----------------------------------------------------------------------------
(* Calls *)

Goto(from, to) == step = from /\ step' = to

\* balance and send_to_address sync first.  (Bound: sends, by the change scripts.)
CallSync(call) ==
  /\ call = "send_to_address" => changeDepth <= MaxChange
  /\ Goto("ready", "sync")
  /\ op' = call
  /\ StartSync
  /\ UNCHANGED db

CallGetReceiveAddress ==
  /\ Goto("ready", "store chain")
  /\ op' = "get_receive_address"
  /\ GetReceiveAddress
  /\ UNCHANGED <<txs, peer_vars, state_vars, sync_vars, scanned, db>>

Syncing ==
  /\ step = "sync"
  /\ SyncStep \/ SyncFails
  /\ UNCHANGED <<op, step, db>>

\* Mutant: what is left of a sync_state that has returned stays.
AfterSyncLeft ==
  /\ step = "sync"
  /\ pc \in {"synced", "failed"}
  /\ step' = IF pc = "failed" THEN "ready"
             ELSE IF op = "balance" THEN "store chain" ELSE "create"
  /\ op' = IF pc = "failed" THEN "none" ELSE op
  /\ UNCHANGED <<chain_vars, db>>

\* Mutant: an error of sync_state is not handled.
AfterSyncNoError ==
  /\ step = "sync"
  /\ pc = "synced"
  /\ SyncReturns
  /\ step' = IF op = "balance" THEN "store chain" ELSE "create"
  /\ UNCHANGED <<op, db>>

\* sync_state has returned; an error ends the call without storing anything.
AfterSync ==
  /\ step = "sync"
  /\ SyncReturns
  /\ step' = IF pc = "failed" THEN "ready"
             ELSE IF op = "balance" THEN "store chain" ELSE "create"
  /\ op' = IF pc = "failed" THEN "none" ELSE op
  /\ UNCHANGED db

\* create_transaction, sign_psbt and finalise_transaction
Create ==
  /\ Goto("create", "send")
  /\ \E target \in Payment : CreateTransaction(target)
  /\ UNCHANGED <<peer_vars, state_vars, sync_vars, scanned, op, db>>

\* create_transaction returns an error, and unwrap panics.
CreatePanics ==
  /\ step = "create"
  /\ \E target \in Payment : MayBeInsufficient(target)
  /\ Ends

\* Mutant: store_state is not called after send_transaction.
SendNoStore ==
  /\ Goto("send", "ready")
  /\ op' = "none"
  /\ UNCHANGED <<chain_vars, db>>

\* send_transaction
Send ==
  /\ Goto("send", "store chain")
  /\ UNCHANGED <<chain_vars, op, db>>

\* send_transaction fails before the peer has the transaction, and unwrap panics.
SendPanics == step = "send" /\ Ends

-----------------------------------------------------------------------------
(* store_state *)

StoreChain ==
  /\ Goto("store chain", "store wallet")
  /\ db' = DbInsert("chain", ChainState)
  /\ UNCHANGED <<chain_vars, op>>

\* Mutant: the wallet is stored only once.
StoreWalletOnce ==
  /\ Goto("store wallet", "store signer")
  /\ db' = IF "wallet" \in DOMAIN db THEN db ELSE DbInsert("wallet", WalletState)
  /\ UNCHANGED <<chain_vars, op>>

StoreWallet ==
  /\ Goto("store wallet", "store signer")
  /\ db' = DbInsert("wallet", WalletState)
  /\ UNCHANGED <<chain_vars, op>>

\* Mutant: the signer is not stored.
StoreSignerNot ==
  /\ Goto("store signer", "store node")
  /\ UNCHANGED <<chain_vars, op, db>>

StoreSigner ==
  /\ Goto("store signer", "store node")
  /\ db' = DbInsert("signer", "signer")
  /\ UNCHANGED <<chain_vars, op>>

\* The call returns after the last key.
StoreNode ==
  /\ Goto("store node", "ready")
  /\ db' = DbInsert("node", "node")
  /\ op' = "none"
  /\ UNCHANGED <<chain_vars>>

-----------------------------------------------------------------------------
(* The network *)

\* The outpoint of a new output: any that no output has, they are interchangeable.
NewOutpoint ==
  LET Unused == {o \in Outpoint : created[o] = 0}
  IN {o \in Unused : o = CHOOSE u \in Unused : TRUE}

\* Someone pays to the address get_receive_address has returned.
MinePayment ==
  /\ Restorable
  /\ db["wallet"].pubkeyMap[ReceiveScript] # NoKey
  /\ \E o \in NewOutpoint, a \in Amount :
       Mine([x \in {o} |-> [script |-> ReceiveScript, amount |-> a]], {})

\* A transaction that was sent is mined.
MineTransaction ==
  \E i \in Sent :
    /\ txs[i].valid
    /\ \A o \in txs[i].inputs : created[o] # 0
    /\ IF txs[i].change = 0
         THEN Mine([x \in {} |-> NoTxOut], txs[i].inputs)
         ELSE \E o \in NewOutpoint :
                Mine([x \in {o} |-> [script |-> txs[i].changeScript,
                                     amount |-> txs[i].change]], txs[i].inputs)

\* A block that has nothing to do with the wallet.
MineOther == Mine([x \in {} |-> NoTxOut], {})

Network ==
  /\ MinePayment \/ MineTransaction \/ MineOther
  /\ UNCHANGED <<wallet_hist, state_vars, sync_vars, scanned, op, step, db>>

Alive ==
  \/ New
  \/ Restore
  \/ \E call \in {"balance", "send_to_address"} : CallSync(call)
  \/ CallGetReceiveAddress
  \/ Syncing
  \/ AfterSync
  \/ Create
  \/ CreatePanics
  \/ Send
  \/ SendPanics
  \/ StoreChain
  \/ StoreWallet
  \/ StoreSigner
  \/ StoreNode
  \/ Network

Next == Crash \/ (Alive /\ UNCHANGED killed)

Spec == Init /\ [][Next]_vars

\* A call that is running keeps running.
FairSpec ==
  /\ Spec
  /\ WF_vars(Syncing /\ UNCHANGED killed)
  /\ WF_vars((AfterSync \/ Create \/ CreatePanics \/ Send) /\ UNCHANGED killed)
  /\ WF_vars((StoreChain \/ StoreWallet \/ StoreSigner \/ StoreNode) /\ UNCHANGED killed)

-----------------------------------------------------------------------------
(* Properties *)

\* The types of what the database has, for the parts that change.
StoredWallet ==
  [pubkeyMap : [Script -> PubkeyDetails \cup {NoKey}], changeDepth : 0 .. MaxChange + 1,
   utxoMap : [Outpoint -> Utxo \cup {NoUtxo}],
   scanned : [Height -> [from : 0 .. MaxTip, watched : SUBSET Script]]]

StoredChain == [height : Nat, hash : 0 .. MaxTip]

\* The types of the node's state, in memory, in the database and in what it has sent; and
\* that sync_state runs only within a call.
TypeOK ==
  /\ ChainTypeOK
  /\ txs \in Seq(Tx)
  /\ <<op, step>> \in CallPoint \cup {<<"none", "down">>}
  /\ DOMAIN db \subseteq Key
  /\ "wallet" \in DOMAIN db => db["wallet"] \in StoredWallet
  /\ "chain" \in DOMAIN db => db["chain"] \in StoredChain
  /\ killed \subseteq {"half stored", "sent"}
  /\ pc # "idle" => step = "sync"

\* restore never meets half of a first store_state: once the last key is there, so
\* are the others, and so they stay.
NodeKeyLast == "node" \in DOMAIN db => Restorable

\* A payment in a block up to last_block_height is in the wallet, also after a
\* restart: the chain state stored is never ahead of the wallet stored with it.  The
\* exceptions are a client killed between these two inserts, the change of one killed
\* after the send, and a block right after a full batch (see NoGaps).
PaymentsFound ==
  "half stored" \notin killed =>
    \A o \in Outpoint :
      LET h == created[o]
      IN h \in 1 .. lastBlockHeight =>
           \/ o \in Known
           \/ "sent" \in killed /\ txout[o].script # ReceiveScript
           \/ h > FilterSize /\ scanned[h - 1].from = h - FilterSize

\* The change of what was sent is never out of sight: the running wallet watches the
\* change script of every transaction send_to_address has sent, in this run of the
\* client or an earlier one, and gives none of them to another transaction.  The
\* exception is a client killed between the send and the insert of its wallet.
ChangeTracked ==
  "sent" \notin killed =>
    /\ step # "down" => \A i \in Sent : txs[i].changeScript \in GetPubkeys
    /\ \A i, j \in Sent : i # j => txs[i].changeScript # txs[j].changeScript

OnScanned(h) == h \in 1 .. lastBlockHeight /\ scanned[h].from # 0

\* The balance that a call of balance returns is the sum of the outputs the blocks it
\* has scanned create for the client less those they spend, over all payments, sent
\* transactions, failed calls and restarts, as long as its change is in sight.
BalanceRight ==
  "sent" \notin killed /\ op = "balance" /\ step \in StoreStep =>
    LET Unspent == {o \in Outpoint : OnScanned(created[o]) /\ ~OnScanned(spent[o])}
    IN Balance = SumFunction([o \in Unspent |-> txout[o].amount])

-----------------------------------------------------------------------------
(* The inductive invariant.  What a client relies on is stated of a wallet and a *)
(* chain state by their parts, because it is true of those in memory and of      *)
(* those in the database.                                                        *)

IsUtxo(u) == u \in [script : Script, amount : {u.amount}, key : {u.key}, isSpent : {u.isSpent}]

\* A wallet has the outputs of the blocks it has scanned.
Kept(utxos, scans) ==
  /\ scans \in [Height -> [from : 0 .. MaxTip, watched : SUBSET Script]]
  /\ \A o \in Outpoint : utxos[o] # NoUtxo => created[o] # 0 /\ IsUtxo(utxos[o])
  /\ \A h \in Height : h > tip => scans[h] = NotScanned
  /\ \A o \in Outpoint : created[o] # 0 /\ scans[created[o]].from # 0 =>
       utxos[o] # NoUtxo \/ ("sent" \in killed /\ txout[o].script # ReceiveScript)

\* It watches the scripts of all outputs on the chain,
Watches(keys) ==
  \A o \in Outpoint : created[o] # 0 =>
    \/ txout[o].script \in Script /\ keys[txout[o].script] # NoKey
    \/ "sent" \in killed /\ txout[o].script # ReceiveScript

\* and the change scripts of the first k transactions, and has others to give.
Tracks(keys, depth, k) ==
  /\ keys \in [Script -> PubkeyDetails \cup {NoKey}] /\ depth \in Nat
  /\ "sent" \notin killed =>
       \A i \in 1 .. k : \E j \in 0 .. depth - 1 :
         /\ txs[i].changeScript = ChangeScript(j)
         /\ ChangeScript(j) \in Script /\ keys[ChangeScript(j)] # NoKey

\* Of the blocks up to the height of a chain state every one has been scanned, but those
\* after a full batch.
Scanned(scans, height) ==
  "half stored" \notin killed =>
    \A h \in 1 .. height :
      scans[h].from = 0 => h > FilterSize /\ scans[h - 1].from = h - FilterSize

OnChain(c) == c.height \in Nat /\ c.hash = c.height /\ c.height <= tip

MemoryInv ==
  /\ Kept(utxoMap, scanned)
  /\ OnChain(ChainState) /\ Scanned(scanned, lastBlockHeight)
  /\ step # "down" => Watches(pubkeyMap)
  /\ Tracks(pubkeyMap, changeDepth, IF step = "down" THEN 0 ELSE Len(txs))
  /\ n \in Nat /\ block \in Nat /\ counter \in Nat
  /\ LoopInv
  /\ pc # "idle" => step = "sync"

\* The last transaction is not in the stored wallet until store_state has come to it.
Unstored == IF step = "send" \/ SentUnstored THEN Len(txs) - 1 ELSE Len(txs)

DbInv ==
  Restorable =>
    /\ Kept(db["wallet"].utxoMap, db["wallet"].scanned)
    /\ OnChain(db["chain"])
    /\ step # "store wallet" => Scanned(db["wallet"].scanned, db["chain"].height)
    /\ ~SentUnstored => Watches(db["wallet"].pubkeyMap)
    /\ Tracks(db["wallet"].pubkeyMap, db["wallet"].changeDepth, Unstored)
    /\ step # "down" =>
         \A s \in Script : db["wallet"].pubkeyMap[s] # NoKey => pubkeyMap[s] # NoKey

\* What store_state has inserted so far is what is in memory.
StoredInv ==
  /\ DOMAIN db \subseteq Key /\ NodeKeyLast
  /\ step \in {"store wallet", "store signer", "store node"} =>
       "chain" \in DOMAIN db /\ db["chain"] = ChainState
  /\ step \in {"store signer", "store node"} =>
       "wallet" \in DOMAIN db /\ db["wallet"] = WalletState
  /\ step = "store node" => "signer" \in DOMAIN db

\* There are no outputs and no transactions before an address has been stored.
NetworkInv ==
  /\ tip \in 0 .. MaxTip /\ created \in [Outpoint -> 0 .. tip]
  /\ txs \in Seq({txs[i] : i \in 1 .. Len(txs)})
  /\ txs # <<>> \/ (\E o \in Outpoint : created[o] # 0) =>
       Restorable /\ db["wallet"].pubkeyMap[ReceiveScript] # NoKey
  /\ "sent" \notin killed =>
       \A i, j \in 1 .. Len(txs) : i # j => txs[i].changeScript # txs[j].changeScript
  /\ step = "send" \/ SentUnstored => txs # <<>>
  /\ step = "sync" => op \in {"balance", "send_to_address"}
  /\ step \in {"create", "send"} => op = "send_to_address"

\* A client may be killed anywhere and restored: the wallet and the chain state that are
\* stored belong together and have all that was sent (store_state and restore), or killed
\* says that they do not.
RestoreInv == MemoryInv /\ DbInv /\ StoredInv /\ NetworkInv

\* A wallet has its outputs from blocks it has scanned, with their amounts, and has those
\* for spent that such a block spends.
Booked(utxos, scans) ==
  "sent" \notin killed =>
    \A o \in Outpoint : utxos[o] # NoUtxo =>
      /\ scans[created[o]].from # 0 /\ utxos[o].amount = txout[o].amount
      /\ utxos[o].isSpent <=> spent[o] # 0 /\ scans[spent[o]].from # 0

\* It has the inputs of the first k transactions, from blocks that are not scanned again.
Spends(utxos, height, k) ==
  "sent" \notin killed =>
    \A i \in 1 .. k :
      txs[i].inputs \subseteq {o \in Outpoint : utxos[o] # NoUtxo /\ created[o] <= height}

\* Where sync_state has come to the end of the chain no block is scanned beyond it, by an
\* earlier call that failed.
Settled ==
  /\ pc = "filters" /\ n < MaxHeaders =>
       \A h \in Height : h > EndBlock => scanned[h] = NotScanned
  /\ pc = "synced" \/ step = "create" \/ (op = "balance" /\ step \in StoreStep) =>
       \A h \in Height : h > lastBlockHeight => scanned[h] = NotScanned

BooksInv ==
  /\ spent \in [Outpoint -> 0 .. tip]
  /\ \A o \in Outpoint : spent[o] # 0 => \E i \in Sent : o \in txs[i].inputs
  /\ Settled
  /\ Booked(utxoMap, scanned)
  /\ Spends(utxoMap, lastBlockHeight, IF step = "down" THEN 0 ELSE Len(txs))
  /\ Restorable =>
       /\ Booked(db["wallet"].utxoMap, db["wallet"].scanned)
       /\ Spends(db["wallet"].utxoMap, db["chain"].height, Unstored)

\* The client can be restored, and the wallet, in memory and stored, is right about what it
\* has and what of it is spent.
NodeInv == RestoreInv /\ BooksInv

\* Every call returns, or the client ends.
CallsReturn == step # "ready" ~> step \in {"ready", "down"}
=============================================================================
