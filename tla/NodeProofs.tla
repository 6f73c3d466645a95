----------------------------- MODULE NodeProofs -----------------------------
(***************************************************************************)
(* Proofs about Node: what a client that is killed and restored any number *)
(* of times can rely on, for every chain, every set of outputs, amounts    *)
(* and payments, and every FILTER_SIZE and MAX_HEADER_LEN.                 *)
(*                                                                         *)
(* The balance is right because the wallet has the outputs the scanned     *)
(* blocks have, and counts those they do not spend: the two sums are over  *)
(* one set, and no step needs to know what an amount is.                   *)
(***************************************************************************)
EXTENDS Node, CompactChainProofs, TLAPS

-----------------------------------------------------------------------------
(* Numbers, sequences and sums *)

\* A number is at most itself.
LEMMA NatReflexive == \A k \in Nat : k <= k
OBVIOUS

\* Block 0 is not among those synced.
LEMMA HeightNotZero == \A k \in Nat : \A h \in 1 .. k : h # 0
OBVIOUS

\* The sum over no outputs.
LEMMA ValueOfNone == Value({}) = 0
<1> DEFINE f == [o \in {} |-> utxoMap[o].amount]
           sum(g, s) == LET x == CHOOSE y \in s : TRUE IN f[x] + g[s \ {x}]
           body(g) == [s \in SUBSET {} |-> IF s = {} THEN 0 ELSE sum(g, s)]
           iter == CHOOSE g : g = body(g)
           zero == [s \in SUBSET {} |-> 0]
<1>1. zero = body(zero)
  <2> HIDE DEF sum
  <2>1. \A s \in SUBSET {} : s = {}
    OBVIOUS
  <2> QED
    BY <2>1
<1>2. iter = body(iter)
  <2> HIDE DEF body, zero
  <2> QED
    BY Zenon, <1>1
<1>3. iter[{}] = 0
  <2> HIDE DEF iter, sum
  <2> QED
    BY <1>2
<1>4. Value({}) = iter[{}]
  <2>1. DOMAIN f = {}
    BY Zenon
  <2>2. Value({}) = SumFunctionOnSet(f, {})
    BY Zenon, <2>1 DEF Value, SumFunction
  <2> HIDE DEF f
  <2> QED
    BY Zenon, <2>2 DEF SumFunctionOnSet, FoldFunctionOnSet, MapThenFoldSet
<1> QED
  BY <1>3, <1>4

\* The number of no outputs, for their fee.
LEMMA CardinalityOfNone == Cardinality({}) = 0
<1> DEFINE count(g, s) == 1 + g[s \ {CHOOSE x : x \in s}]
           body(g) == [s \in SUBSET {} |-> IF s = {} THEN 0 ELSE count(g, s)]
           iter == CHOOSE g : g = body(g)
           zero == [s \in SUBSET {} |-> 0]
<1>1. zero = body(zero)
  <2> HIDE DEF count
  <2>1. \A s \in SUBSET {} : s = {}
    OBVIOUS
  <2> QED
    BY <2>1
<1>2. iter = body(iter)
  <2> HIDE DEF body, zero
  <2> QED
    BY Zenon, <1>1
<1>3. iter[{}] = 0
  <2> HIDE DEF iter, count
  <2> QED
    BY <1>2
<1>4. Cardinality({}) = iter[{}]
  BY Zenon DEF Cardinality
<1> QED
  BY <1>3, <1>4

\* Nothing is selected where there is nothing.
LEMMA NothingToSelect ==
  ASSUME Known = {}, NEW target \in Payment
  PROVE  Selections(target) = {}
<1>1. Positive = {}
  BY Zenon DEF Positive
<1>2. Fee({}) = 0
  BY CardinalityOfNone, WalletAssumption DEF Fee, WalletAssumption
<1>3. Effective(Positive) = 0
  BY <1>1, <1>2, ValueOfNone DEF Effective
<1>4. target \in Nat /\ target > 0
  BY WalletAssumption DEF WalletAssumption
<1>5. Effective(Positive) < target
  BY <1>3, <1>4
<1> QED
  BY Zenon, <1>5 DEF Selections

\* The transactions sent are the first ones of txs.
LEMMA SentFacts ==
  ASSUME NetworkInv
  PROVE  Len(txs) \in Nat /\ NumSent \in Nat /\ NumSent <= Len(txs)
<1>1. Len(txs) \in Nat /\ (step = "send" => Len(txs) >= 1)
  BY DEF NetworkInv
<1> QED
  BY <1>1 DEF NumSent

\* The first k elements of a sequence.
LEMMA FirstOf ==
  ASSUME NEW q, q \in Seq({q[i] : i \in 1 .. Len(q)}), NEW k \in Nat, k <= Len(q),
         NEW r, r = SubSeq(q, 1, k)
  PROVE  /\ Len(r) = k /\ \A i \in 1 .. k : r[i] = q[i] /\ i \in 1 .. Len(q)
         /\ r \in Seq({r[i] : i \in 1 .. Len(r)})
         /\ r # <<>> => q # <<>>
<1>1. Len(q) \in Nat
  OBVIOUS
<1>2. Len(r) = k /\ \A i \in 1 .. k : r[i] = q[i] /\ i \in 1 .. Len(q)
  BY SMTT(30), <1>1
<1>3. r \in Seq({r[i] : i \in 1 .. Len(r)})
  <2> DEFINE V == {r[i] : i \in 1 .. k}
  <2>1. \A i \in 1 .. k : q[i] \in V
    BY <1>2
  <2>2. r \in Seq(V)
    <3> HIDE DEF V
    <3> QED
      BY <1>1, <2>1
  <2> QED
    BY <1>2, <2>2
<1>4. r # <<>> => q # <<>>
  BY <1>1, <1>2
<1> QED
  BY Zenon, <1>2, <1>3, <1>4

-----------------------------------------------------------------------------
(* What stays true of a wallet or a chain state while the chain grows *)

\* The chain only gets new blocks at its end, and the history of kills longer.
Grows ==
  /\ tip \in 0 .. MaxTip /\ tip' \in 0 .. MaxTip /\ tip <= tip'
  /\ created \in [Outpoint -> 0 .. tip] /\ created' \in [Outpoint -> 0 .. tip']
  /\ \A o \in Outpoint : created[o] # 0 => created'[o] = created[o] /\ txout'[o] = txout[o]
  /\ \A o \in Outpoint : created[o] = 0 /\ created'[o] # 0 => created'[o] > tip
  /\ killed \subseteq killed'

\* It does when no block is mined.
LEMMA GrowsNot ==
  ASSUME NetworkInv, UNCHANGED <<tip, created, txout>>, killed \subseteq killed'
  PROVE  Grows
<1>1. tip \in 0 .. MaxTip /\ created \in [Outpoint -> 0 .. tip]
  BY Zenon DEF NetworkInv
<1>2. tip <= tip' /\ tip' \in 0 .. MaxTip
  BY <1>1, ChainAssumption DEF ChainAssumption
<1> QED
  BY Zenon, <1>1, <1>2 DEF Grows

\* A wallet has no outputs less when blocks are mined, and has not scanned them.
LEMMA KeptGrows ==
  ASSUME NEW utxos, NEW scans, Grows, Kept(utxos, scans)
  PROVE  Kept(utxos, scans)'
<1>1. scans \in [Height -> [from : 0 .. MaxTip, watched : SUBSET Script]]
  BY Zenon DEF Kept
<1>2. ASSUME NEW o \in Outpoint, utxos[o] # NoUtxo
      PROVE  created'[o] # 0 /\ IsUtxo(utxos[o])
  BY Zenon, <1>2 DEF Kept, Grows
<1>3. ASSUME NEW h \in Height, h > tip' PROVE scans[h] = NotScanned
  BY <1>3 DEF Kept, Grows, Height
<1>4. ASSUME NEW o \in Outpoint, created'[o] # 0, scans[created'[o]].from # 0
      PROVE  utxos[o] # NoUtxo \/ ("sent" \in killed' /\ txout'[o].script # ReceiveScript)
  <2>1. CASE created[o] # 0
    BY Zenon, <1>4, <2>1 DEF Kept, Grows
  <2>2. CASE created[o] = 0
    <3>1. created'[o] > tip /\ created'[o] \in Height
      BY <1>4, <2>2, ChainAssumption DEF ChainAssumption, Grows, Height
    <3>2. scans[created'[o]] = NotScanned
      BY Zenon, <3>1 DEF Kept
    <3> QED
      BY <1>4, <3>2 DEF NotScanned
  <2> QED
    BY Zenon, <2>1, <2>2
<1> QED
  BY Zenon, <1>1, <1>2, <1>3, <1>4 DEF Kept, IsUtxo

\* The chain state stays on the chain, and its blocks scanned.
LEMMA ChainGrows ==
  ASSUME NEW c, NEW scans, NEW height, Grows
  PROVE  /\ OnChain(c) => OnChain(c)'
         /\ Scanned(scans, height) => Scanned(scans, height)'
<1>1. OnChain(c) => OnChain(c)'
  BY DEF OnChain, Grows
<1>2. Scanned(scans, height) => Scanned(scans, height)'
  BY Zenon DEF Scanned, Grows
<1> QED
  BY Zenon, <1>1, <1>2

\* A new output is to a script the wallet watches, or is the change of a transaction
\* that a killed client had sent.
NewWatched(keys) ==
  \A o \in Outpoint : created[o] = 0 /\ created'[o] # 0 =>
    \/ txout'[o].script \in Script /\ keys[txout'[o].script] # NoKey
    \/ "sent" \in killed' /\ txout'[o].script # ReceiveScript

\* A wallet that watches the new outputs watches them all.
LEMMA WatchesGrows ==
  ASSUME NEW keys, Grows, Watches(keys), NewWatched(keys)
  PROVE  Watches(keys)'
BY Zenon DEF Watches, NewWatched, Grows

\* The first transactions stay tracked.
LEMMA TracksGrows ==
  ASSUME NEW keys, NEW depth, NEW k \in Nat, NEW m \in Nat, Tracks(keys, depth, k),
         killed \subseteq killed',
         "sent" \notin killed' => m <= k /\ \A i \in 1 .. m : txs'[i] = txs[i]
  PROVE  Tracks(keys, depth, m)'
<1>1. ASSUME "sent" \notin killed', NEW i \in 1 .. m
      PROVE  i \in 1 .. k /\ txs'[i] = txs[i] /\ "sent" \notin killed
  BY <1>1
<1> QED
  BY ZenonT(40), <1>1 DEF Tracks

\* More keys watch more scripts.
LEMMA MoreKeys ==
  ASSUME NEW keys, NEW keys2 \in [Script -> PubkeyDetails \cup {NoKey}],
         NEW depth, NEW depth2 \in Nat, NEW k \in Nat,
         \A s \in Script : keys[s] # NoKey => keys2[s] # NoKey
  PROVE  /\ Watches(keys) => Watches(keys2)
         /\ Tracks(keys, depth, k) /\ depth <= depth2 => Tracks(keys2, depth2, k)
<1>1. Watches(keys) => Watches(keys2)
  BY Zenon DEF Watches
<1>2. ASSUME Tracks(keys, depth, k), depth <= depth2
      PROVE  Tracks(keys2, depth2, k)
  <2>1. depth \in Nat /\ 0 .. depth - 1 \subseteq 0 .. depth2 - 1
    BY <1>2 DEF Tracks
  <2> QED
    BY Zenon, <1>2, <2>1 DEF Tracks
<1> QED
  BY Zenon, <1>1, <1>2

-----------------------------------------------------------------------------
(* What stays true of the database *)

\* Every call that does not store anything leaves the database fit for a restore, or
\* killed says that it is not.
LEMMA DbKept ==
  ASSUME DbInv, NetworkInv, Grows, db' = db, Unstored \in Nat, Unstored' \in Nat,
         step' # "store wallet" => step # "store wallet" \/ "half stored" \in killed',
         ~SentUnstored' => ~SentUnstored \/ "sent" \in killed',
         "sent" \notin killed' =>
           Unstored' <= Unstored /\ \A i \in 1 .. Unstored' : txs'[i] = txs[i],
         Restorable /\ ~SentUnstored' => NewWatched(db["wallet"].pubkeyMap),
         step' # "down" => /\ step # "down"
                           /\ \A s \in Script : pubkeyMap[s] # NoKey => pubkeyMap'[s] # NoKey
  PROVE  DbInv'
<1> SUFFICES ASSUME Restorable
             PROVE  /\ Kept(db["wallet"].utxoMap, db["wallet"].scanned)'
                    /\ OnChain(db["chain"])'
                    /\ step' # "store wallet" => Scanned(db["wallet"].scanned, db["chain"].height)'
                    /\ ~SentUnstored' => Watches(db["wallet"].pubkeyMap)'
                    /\ Tracks(db["wallet"].pubkeyMap, db["wallet"].changeDepth, Unstored)'
                    /\ step' # "down" => \A s \in Script :
                         db["wallet"].pubkeyMap[s] # NoKey => pubkeyMap'[s] # NoKey
  BY Zenon DEF DbInv, Restorable
<1> DEFINE w == db["wallet"]
<1>1. /\ Kept(w.utxoMap, w.scanned)
      /\ OnChain(db["chain"])
      /\ step # "store wallet" => Scanned(w.scanned, db["chain"].height)
      /\ ~SentUnstored => Watches(w.pubkeyMap)
      /\ Tracks(w.pubkeyMap, w.changeDepth, Unstored)
      /\ step # "down" => \A s \in Script : w.pubkeyMap[s] # NoKey => pubkeyMap[s] # NoKey
  BY Zenon DEF DbInv
<1>2. Kept(db["wallet"].utxoMap, db["wallet"].scanned)'
  BY Zenon, <1>1, KeptGrows
<1>3. OnChain(db["chain"])'
  BY Zenon, <1>1, ChainGrows
<1>4. ASSUME step' # "store wallet"
      PROVE  Scanned(db["wallet"].scanned, db["chain"].height)'
  <2>1. CASE step # "store wallet"
    BY Zenon, <1>1, <2>1, ChainGrows
  <2>2. CASE "half stored" \in killed'
    BY Zenon, <2>2 DEF Scanned
  <2> QED
    BY Zenon, <1>4, <2>1, <2>2
<1>5. ASSUME ~SentUnstored'
      PROVE  Watches(db["wallet"].pubkeyMap)'
  <2>1. NewWatched(w.pubkeyMap)
    BY Zenon, <1>5
  <2>2. CASE ~SentUnstored
    BY Zenon, <1>1, <2>1, <2>2, WatchesGrows
  <2>3. CASE "sent" \in killed'
    <3>1. ASSUME NEW o \in Outpoint, created'[o] # 0
          PROVE  \/ /\ txout'[o].script \in Script
                    /\ w.pubkeyMap[txout'[o].script] # NoKey
                 \/ txout'[o].script # ReceiveScript
      <4>1. CASE created[o] = 0
        BY Zenon, <2>1, <3>1, <4>1 DEF NewWatched
      <4>2. CASE created[o] # 0
        BY Zenon, <4>2 DEF NetworkInv, Script
      <4> QED
        BY Zenon, <4>1, <4>2
    <3> QED
      BY Zenon, <2>3, <3>1 DEF Watches
  <2> QED
    BY Zenon, <1>5, <2>2, <2>3
<1>6. Tracks(db["wallet"].pubkeyMap, db["wallet"].changeDepth, Unstored)'
  <2>1. PICK m \in Nat : m = Unstored'
    BY Zenon
  <2>2. PICK k \in Nat : k = Unstored
    BY Zenon
  <2>3. "sent" \notin killed' => m <= k /\ \A i \in 1 .. m : txs'[i] = txs[i]
    BY Zenon, <2>1, <2>2
  <2>4. Tracks(w.pubkeyMap, w.changeDepth, k) /\ killed \subseteq killed'
    BY Zenon, <1>1, <2>2 DEF Grows
  <2>5. Tracks(db["wallet"].pubkeyMap, db["wallet"].changeDepth, m)'
    BY Zenon, <2>3, <2>4, TracksGrows
  <2> QED
    BY Zenon, <2>1, <2>5
<1> QED
  BY Zenon, <1>1, <1>2, <1>3, <1>4, <1>5, <1>6

\* What is stored stays what is in memory.
LEMMA StoredKept ==
  ASSUME StoredInv, db' = db,
         step' \in {"store wallet", "store signer", "store node"} =>
           step' = step /\ ChainState' = ChainState /\ WalletState' = WalletState
  PROVE  StoredInv'
BY Zenon DEF StoredInv, NodeKeyLast, Restorable

\* No transaction and no output is new.
LEMMA NetworkKept ==
  ASSUME NetworkInv, UNCHANGED <<tip, created, txs>>, killed \subseteq killed',
         Restorable => Restorable',
         Restorable /\ db["wallet"].pubkeyMap[ReceiveScript] # NoKey =>
           db'["wallet"].pubkeyMap[ReceiveScript] # NoKey,
         step' = "send" \/ SentUnstored' => step = "send" \/ SentUnstored,
         step' = "sync" => op' \in {"balance", "send_to_address"},
         step' \in {"create", "send"} => op' = "send_to_address"
  PROVE  NetworkInv'
BY ZenonT(40) DEF NetworkInv

\* How many transactions there are, and how many of them are stored.
LEMMA UnstoredFacts ==
  ASSUME NetworkInv
  PROVE  Len(txs) \in Nat /\ Unstored \in Nat
<1>1. Len(txs) \in Nat /\ (txs # <<>> => Len(txs) >= 1)
  BY DEF NetworkInv
<1>2. step = "send" \/ SentUnstored => txs # <<>>
  BY Zenon DEF NetworkInv
<1> QED
  BY <1>1, <1>2 DEF Unstored

-----------------------------------------------------------------------------
(* The first state *)

\* There is no client, no database and no output.
LEMMA InitInv == Init => RestoreInv
<1> SUFFICES ASSUME Init PROVE RestoreInv
  OBVIOUS
<1>1. /\ pubkeyMap = [s \in Script |-> NoKey] /\ changeDepth = 0
      /\ utxoMap = [o \in Outpoint |-> NoUtxo] /\ txs = <<>>
      /\ scanned = [h \in Height |-> NotScanned]
      /\ lastBlockHeight = 0 /\ lastBlockHash = 0
      /\ tip = 0 /\ created = [o \in Outpoint |-> 0]
      /\ pc = "idle" /\ n = 0 /\ block = 0 /\ counter = 0
      /\ step = "down" /\ db = [k \in {} |-> "none"] /\ killed = {}
  BY Zenon DEF Init, WalletInit, PeerInit, ChainStateInit, SyncInit
<1>2. MemoryInv
  <2>1. Kept(utxoMap, scanned)
    BY <1>1, ChainAssumption DEF ChainAssumption, Kept, NotScanned
  <2>2. OnChain(ChainState) /\ Scanned(scanned, lastBlockHeight)
    BY <1>1 DEF OnChain, ChainState, Scanned
  <2>3. Tracks(pubkeyMap, changeDepth, 0)
    BY <1>1 DEF Tracks
  <2>4. LoopInv
    BY <1>1 DEF LoopInv
  <2> QED
    BY <1>1, <2>1, <2>2, <2>3, <2>4 DEF MemoryInv
<1>3. DOMAIN db = {}
  BY Zenon, <1>1
<1>4. ~Restorable
  BY <1>3 DEF Restorable, Key
<1>5. DbInv /\ StoredInv
  BY Zenon, <1>1, <1>3, <1>4 DEF DbInv, StoredInv, NodeKeyLast
<1>6. NetworkInv
  BY <1>1, ChainAssumption DEF ChainAssumption, NetworkInv, SentUnstored
<1> QED
  BY Zenon, <1>2, <1>5, <1>6 DEF RestoreInv

-----------------------------------------------------------------------------
(* What stays true in memory *)

\* The chain state and what was scanned for it stay.
LEMMA StateKept ==
  ASSUME MemoryInv, Grows, UNCHANGED <<lastBlockHeight, lastBlockHash, scanned>>
  PROVE  OnChain(ChainState)' /\ Scanned(scanned, lastBlockHeight)'
<1>1. ChainState' = ChainState
  BY Zenon DEF ChainState
<1>2. OnChain(ChainState) /\ Scanned(scanned, lastBlockHeight)
  BY Zenon DEF MemoryInv
<1> QED
  BY <1>1, <1>2, ChainGrows

\* The wallet stays as it is, whatever the chain state becomes.
LEMMA MemoryKept ==
  ASSUME MemoryInv, NetworkInv, Grows,
         UNCHANGED <<pubkeyMap, changeDepth, utxoMap, scanned, txs>>,
         step' = "down" => step = "down", step = "down" => step' = "down",
         step # "down" => NewWatched(pubkeyMap),
         OnChain(ChainState)', Scanned(scanned, lastBlockHeight)',
         n' \in Nat, block' \in Nat, counter' \in Nat, LoopInv', pc' # "idle" => step' = "sync"
  PROVE  MemoryInv'
<1>1. Kept(utxoMap, scanned)'
  <2>1. Kept(utxoMap, scanned)
    BY Zenon DEF MemoryInv
  <2> QED
    BY <2>1, KeptGrows
<1>2. step' # "down" => Watches(pubkeyMap)'
  <2>1. step # "down" => Watches(pubkeyMap)
    BY Zenon DEF MemoryInv
  <2> QED
    BY <2>1, WatchesGrows
<1>3. ASSUME NEW k \in Nat, Tracks(pubkeyMap, changeDepth, k)
      PROVE  Tracks(pubkeyMap, changeDepth, k)'
  <2>1. k <= k /\ killed \subseteq killed'
    BY DEF Grows
  <2> QED
    BY <1>3, <2>1, TracksGrows
<1>4. PICK k \in Nat : k = (IF step = "down" THEN 0 ELSE Len(txs))
  BY UnstoredFacts
<1>5. Tracks(pubkeyMap, changeDepth, k)
  BY Zenon, <1>4 DEF MemoryInv
<1>6. k = (IF step' = "down" THEN 0 ELSE Len(txs'))
  BY Zenon, <1>4
<1>7. Tracks(pubkeyMap, changeDepth, IF step = "down" THEN 0 ELSE Len(txs))'
  BY <1>3, <1>5, <1>6
<1> QED
  BY Zenon, <1>1, <1>2, <1>7 DEF MemoryInv

\* The loop of sync_state finds the state it needs.
LEMMA LoopReady ==
  ASSUME RestoreInv
  PROVE  LoopTypes /\ LoopInv /\ (Scanned(scanned, lastBlockHeight) <=>
                                    ("half stored" \notin killed => NoGaps))
<1>1. LoopTypes
  BY DEF RestoreInv, MemoryInv, NetworkInv, LoopTypes, OnChain, ChainState, HeightMatchesHash, Kept
<1>2. LoopInv
  BY Zenon DEF RestoreInv, MemoryInv
<1> QED
  BY Zenon, <1>1, <1>2 DEF Scanned, NoGaps

\* No block is mined, so no output is new.
LEMMA NothingNew ==
  ASSUME RestoreInv, UNCHANGED <<tip, created, txout>>, killed \subseteq killed'
  PROVE  Grows /\ \A keys : NewWatched(keys)
<1>1. Grows
  BY Zenon, GrowsNot DEF RestoreInv
<1> QED
  BY Zenon, <1>1 DEF NewWatched

-----------------------------------------------------------------------------
(* Calls *)

\* A call before its store_state leaves the database and the network alone.
LEMMA QuietDb ==
  ASSUME RestoreInv, UNCHANGED <<txs, tip, created, txout, db, killed>>,
         \A s \in Script : pubkeyMap[s] # NoKey => pubkeyMap'[s] # NoKey,
         step \in {"ready", "sync", "send"}, step' \in {"ready", "sync", "create", "store chain"},
         Unstored' = Unstored, SentUnstored' => step = "send",
         step' = "sync" => op' \in {"balance", "send_to_address"},
         step' = "create" => op' = "send_to_address",
         MemoryInv'
  PROVE  RestoreInv'
<1>1. Grows /\ \A keys : NewWatched(keys)
  BY Zenon, NothingNew
<1>2. MemoryInv /\ DbInv /\ StoredInv /\ NetworkInv
  BY Zenon DEF RestoreInv
<1>3. Unstored \in Nat /\ Unstored <= Unstored
  BY Zenon, <1>2, UnstoredFacts, NatReflexive
<1>4. DbInv'
  <2>1. step # "store wallet" /\ ~SentUnstored /\ step # "down"
    BY Zenon DEF SentUnstored
  <2> QED
    BY Zenon, <1>1, <1>2, <1>3, <2>1, DbKept
<1>5. StoredInv'
  BY Zenon, <1>2, StoredKept
<1>6. NetworkInv'
  <2>1. Restorable' <=> Restorable
    BY Zenon DEF Restorable
  <2> QED
    BY Zenon, <1>2, <2>1, NetworkKept
<1> QED
  BY Zenon, <1>4, <1>5, <1>6 DEF RestoreInv

\* The control of a call changes nothing of the wallet either.
LEMMA Quiet ==
  ASSUME RestoreInv,
         UNCHANGED <<pubkeyMap, changeDepth, utxoMap, scanned, txs, tip, created, txout, db, killed>>,
         step \in {"ready", "sync", "send"}, step' \in {"ready", "sync", "create", "store chain"},
         Unstored' = Unstored, SentUnstored' => step = "send",
         step' = "sync" => op' \in {"balance", "send_to_address"},
         step' = "create" => op' = "send_to_address",
         OnChain(ChainState)', Scanned(scanned, lastBlockHeight)',
         n' \in Nat, block' \in Nat, counter' \in Nat, LoopInv', pc' # "idle" => step' = "sync"
  PROVE  RestoreInv'
<1>1. Grows /\ \A keys : NewWatched(keys)
  BY Zenon, NothingNew
<1>2. MemoryInv'
  BY Zenon, <1>1, MemoryKept DEF RestoreInv
<1> QED
  BY Zenon, <1>2, QuietDb

\* A step of sync_state that only moves on.
LEMMA ControlLoop ==
  ASSUME RestoreInv, StartSync \/ SyncFails \/ SyncReturns
  PROVE  LoopInv' /\ n' \in Nat /\ block' \in Nat /\ counter' \in Nat
<1>1. /\ UNCHANGED <<tip, lastBlockHash, scanned>>
      /\ pc' # "filters"
      /\ n' \in {n, 0} /\ block' \in {block, 0} /\ counter' \in {counter, 0}
  BY Zenon DEF StartSync, SyncFails, SyncReturns, peer_vars, state_vars
<1>2. LoopInv'
  BY Zenon, <1>1 DEF RestoreInv, MemoryInv, LoopInv
<1> QED
  BY <1>1, <1>2 DEF RestoreInv, MemoryInv

\* A call of balance or send_to_address begins with sync_state.
LEMMA CallSyncStep ==
  ASSUME RestoreInv, NEW call \in {"balance", "send_to_address"}, CallSync(call), killed' = killed
  PROVE  RestoreInv'
<1>1. /\ UNCHANGED <<pubkeyMap, changeDepth, utxoMap, scanned, txs, tip, created, txout>>
      /\ UNCHANGED <<lastBlockHeight, lastBlockHash, db>>
      /\ step = "ready" /\ step' = "sync" /\ op' = call
  BY Zenon DEF CallSync, Goto, StartSync, wallet_hist, wallet_vars, peer_vars, state_vars
<1>2. Unstored' = Unstored /\ ~SentUnstored'
  BY <1>1 DEF Unstored, SentUnstored
<1>3. LoopInv' /\ n' \in Nat /\ block' \in Nat /\ counter' \in Nat
  BY Zenon, ControlLoop DEF CallSync
<1>4. OnChain(ChainState)' /\ Scanned(scanned, lastBlockHeight)'
  BY Zenon, <1>1, NothingNew, StateKept DEF RestoreInv
<1> QED
  BY <1>1, <1>2, <1>3, <1>4, Quiet

\* sync_state gets headers, fails or returns.
LEMMA SyncControlStep ==
  ASSUME RestoreInv, UNCHANGED <<db, killed>>,
         \/ step = "sync" /\ UNCHANGED <<op, step>> /\ (FetchHeaders \/ SyncFails)
         \/ AfterSync
  PROVE  RestoreInv'
<1>1. /\ UNCHANGED <<pubkeyMap, changeDepth, utxoMap, scanned, txs, tip, created, txout>>
      /\ UNCHANGED <<lastBlockHeight, lastBlockHash>>
      /\ step = "sync" /\ step' \in {"ready", "sync", "create", "store chain"}
  BY Zenon DEF AfterSync, FetchHeaders, SyncFails, SyncReturns, wallet_hist, wallet_vars,
         peer_vars, state_vars
<1>2. op \in {"balance", "send_to_address"}
  BY Zenon, <1>1 DEF RestoreInv, NetworkInv
<1>3. /\ step' = "sync" => op' \in {"balance", "send_to_address"}
      /\ step' = "create" => op' = "send_to_address"
      /\ step' = "store chain" => op' = "balance"
      /\ pc' # "idle" => step' = "sync"
  BY Zenon, <1>1, <1>2 DEF AfterSync, SyncReturns
<1>4. Unstored' = Unstored /\ ~SentUnstored'
  BY Zenon, <1>1, <1>3 DEF Unstored, SentUnstored
<1>5. LoopInv' /\ n' \in Nat /\ block' \in Nat /\ counter' \in Nat
  <2>1. CASE FetchHeaders
    <3>1. n' \in 0 .. MaxHeaders => n' \in Nat
      BY ChainAssumption DEF ChainAssumption
    <3> QED
      BY Zenon, <2>1, <3>1, LoopReady, FetchLoop
  <2> QED
    BY Zenon, <2>1, ControlLoop DEF AfterSync
<1>6. OnChain(ChainState)' /\ Scanned(scanned, lastBlockHeight)'
  BY Zenon, <1>1, NothingNew, StateKept DEF RestoreInv
<1> QED
  BY Zenon, <1>1, <1>3, <1>4, <1>5, <1>6, Quiet

\* The chain state moves to the end of a round.
LEMMA FinishRoundNode ==
  ASSUME RestoreInv, UNCHANGED <<op, step, db, killed>>, step = "sync", FinishRound
  PROVE  RestoreInv'
<1>1. /\ UNCHANGED <<pubkeyMap, changeDepth, utxoMap, scanned, txs, tip, created, txout>>
      /\ UNCHANGED <<n, block, counter>>
  BY Zenon DEF FinishRound, wallet_hist, wallet_vars, peer_vars
<1>2. op \in {"balance", "send_to_address"} /\ Unstored' = Unstored /\ ~SentUnstored'
  BY <1>1 DEF RestoreInv, NetworkInv, Unstored, SentUnstored
<1>3. /\ LoopInv' /\ HeightMatchesHash' /\ (NoGaps => NoGaps')
      /\ lastBlockHeight' \in Nat /\ lastBlockHeight' <= tip
  BY Zenon, LoopReady, FinishLoop
<1>4. OnChain(ChainState)'
  BY <1>1, <1>3 DEF OnChain, ChainState, HeightMatchesHash
<1>5. Scanned(scanned, lastBlockHeight)'
  <2>1. "half stored" \notin killed => NoGaps
    BY Zenon, LoopReady DEF RestoreInv, MemoryInv
  <2> QED
    BY Zenon, <1>3, <2>1 DEF Scanned, NoGaps
<1>6. n' \in Nat /\ block' \in Nat /\ counter' \in Nat
  BY Zenon, <1>1 DEF RestoreInv, MemoryInv
<1> QED
  BY <1>1, <1>2, <1>3, <1>4, <1>5, <1>6, Quiet

\* send_transaction gives the peer the transaction.
LEMMA SendStep ==
  ASSUME RestoreInv, Send, killed' = killed
  PROVE  RestoreInv'
<1>1. /\ UNCHANGED <<pubkeyMap, changeDepth, utxoMap, scanned, txs, tip, created, txout>>
      /\ UNCHANGED <<lastBlockHeight, lastBlockHash, db, op, pc, n, block, counter>>
      /\ step = "send" /\ step' = "store chain"
  BY Zenon DEF Send, Goto, chain_vars, wallet_hist, wallet_vars, peer_vars, state_vars, sync_vars
<1>2. op = "send_to_address"
  BY Zenon, <1>1 DEF RestoreInv, NetworkInv
<1>3. Unstored' = Unstored
  BY Zenon, <1>1, <1>2 DEF Unstored, SentUnstored
<1>4. n' \in Nat /\ block' \in Nat /\ counter' \in Nat /\ pc' = "idle"
  BY Zenon, <1>1 DEF RestoreInv, MemoryInv
<1>5. LoopInv'
  BY Zenon, <1>1 DEF RestoreInv, MemoryInv, LoopInv, StartBlock, EndBlock
<1>6. OnChain(ChainState)' /\ Scanned(scanned, lastBlockHeight)'
  BY Zenon, <1>1, NothingNew, StateKept DEF RestoreInv
<1> QED
  BY Zenon, <1>1, <1>3, <1>4, <1>5, <1>6, Quiet

\* An output in the wallet is a record of its fields; is_spent may be set.
LEMMA UtxoFacts ==
  ASSUME NEW u, IsUtxo(u), NEW b
  PROVE  u # NoUtxo /\ IsUtxo([u EXCEPT !.isSpent = b])
<1>1. u.script \in Script
  BY Zenon DEF IsUtxo
<1>2. NoKey \notin Script
  BY DEF Script, NoKey, ReceiveScript, ChangeScript, External, Internal
<1>3. u # NoUtxo
  <2>1. NoUtxo.script = NoKey
    BY Zenon DEF NoUtxo
  <2> QED
    BY Zenon, <1>1, <1>2, <2>1
<1>4. IsUtxo([u EXCEPT !.isSpent = b])
  <2>1. u = [script |-> u.script, amount |-> u.amount, key |-> u.key, isSpent |-> u.isSpent]
    BY DEF IsUtxo
  <2>2. [u EXCEPT !.isSpent = b] =
          [script |-> u.script, amount |-> u.amount, key |-> u.key, isSpent |-> b]
    BY <2>1
  <2> QED
    BY <1>1, <2>2 DEF IsUtxo
<1> QED
  BY Zenon, <1>3, <1>4

\* insert_utxos adds the outputs found in a batch, and loses none.
LEMMA InsertedKeeps ==
  ASSUME NEW from, NEW to, utxoMap' = Inserted(FoundUtxos(from, to)),
         \A o \in Known : IsUtxo(utxoMap[o])
  PROVE  \A o \in Outpoint :
           /\ o \in Known \cup Found(from, to) => utxoMap'[o] # NoUtxo /\ IsUtxo(utxoMap'[o])
           /\ o \notin Known \cup Found(from, to) => utxoMap'[o] = NoUtxo
<1> SUFFICES ASSUME NEW o \in Outpoint
             PROVE  /\ o \in Known \cup Found(from, to) =>
                         utxoMap'[o] # NoUtxo /\ IsUtxo(utxoMap'[o])
                    /\ o \notin Known \cup Found(from, to) => utxoMap'[o] = NoUtxo
  OBVIOUS
<1> DEFINE news == FoundUtxos(from, to)
<1>1. /\ o \in DOMAIN news => o \in Known \cup Found(from, to)
      /\ o \in Found(from, to) => o \in DOMAIN news /\ news[o].script = txout[o].script
  BY Zenon DEF FoundUtxos
<1>2. utxoMap'[o] = IF o \notin DOMAIN news THEN utxoMap[o]
                    ELSE IF o \in Known THEN [utxoMap[o] EXCEPT !.isSpent = news[o].isSpent]
                    ELSE [script  |-> news[o].script,
                          amount  |-> news[o].amount,
                          key     |-> pubkeyMap[news[o].script],
                          isSpent |-> news[o].isSpent]
  BY Zenon DEF Inserted
<1> HIDE DEF news
<1>3. ASSUME o \in Known
      PROVE  IsUtxo(utxoMap'[o])
  <2>1. IsUtxo(utxoMap[o])
    BY Zenon, <1>3
  <2>2. IsUtxo([utxoMap[o] EXCEPT !.isSpent = news[o].isSpent])
    BY Zenon, <2>1, UtxoFacts
  <2>3. utxoMap'[o] = utxoMap[o] \/ utxoMap'[o] = [utxoMap[o] EXCEPT !.isSpent = news[o].isSpent]
    BY ZenonT(40), <1>2, <1>3
  <2> QED
    BY Zenon, <2>1, <2>2, <2>3
<1>4. ASSUME o \in Found(from, to), o \notin Known
      PROVE  IsUtxo(utxoMap'[o])
  <2>1. news[o].script \in Script
    BY Zenon, <1>1, <1>4 DEF Found, GetPubkeys
  <2>2. utxoMap'[o] = [script  |-> news[o].script,
                       amount  |-> news[o].amount,
                       key     |-> pubkeyMap[news[o].script],
                       isSpent |-> news[o].isSpent]
    BY Zenon, <1>1, <1>2, <1>4
  <2> QED
    BY <2>1, <2>2 DEF IsUtxo
<1>5. ASSUME o \notin Known \cup Found(from, to) PROVE utxoMap'[o] = NoUtxo
  BY Zenon, <1>1, <1>2, <1>5 DEF Known
<1>6. IsUtxo(utxoMap'[o]) => utxoMap'[o] # NoUtxo
  BY Zenon, UtxoFacts
<1> QED
  BY Zenon, <1>3, <1>4, <1>5, <1>6

\* A turn of the loop: the wallet has every output of the blocks it has scanned, since it
\* watches the scripts of all of them.
LEMMA ScanBatchNode ==
  ASSUME RestoreInv, UNCHANGED <<op, step, db, killed>>, step = "sync", ScanBatch
  PROVE  RestoreInv'
<1>1. /\ utxoMap' = Inserted(FoundUtxos(block, StopHash))
      /\ UNCHANGED <<pubkeyMap, changeDepth, txs, tip, txout, created>>
      /\ UNCHANGED <<lastBlockHeight, lastBlockHash, pc, n>>
  BY Zenon DEF ScanBatch, InsertUtxos, peer_vars, state_vars
<1>2. Grows /\ \A keys : NewWatched(keys)
  BY Zenon, <1>1, NothingNew
<1>3. /\ LoopInv' /\ (NoGaps => NoGaps')
      /\ scanned' \in [Height -> [from : 0 .. MaxTip, watched : SUBSET Script]]
      /\ \A h \in Height :
           /\ h \in block .. StopHash => scanned'[h] = [from |-> block, watched |-> GetPubkeys]
           /\ h \notin block .. StopHash => scanned'[h] = scanned[h]
      /\ StopHash \in Nat /\ StopHash <= tip /\ block \in Nat \ {0}
      /\ block' \in Nat /\ counter' \in Nat
  BY Zenon, LoopReady, ScanLoop
<1>4. /\ Kept(utxoMap, scanned) /\ Watches(pubkeyMap) /\ n \in Nat
      /\ OnChain(ChainState)
      /\ Tracks(pubkeyMap, changeDepth, Len(txs))
  BY DEF RestoreInv, MemoryInv
<1>5. \A o \in Outpoint :
        /\ o \in Known \cup Found(block, StopHash) => utxoMap'[o] # NoUtxo /\ IsUtxo(utxoMap'[o])
        /\ o \notin Known \cup Found(block, StopHash) => utxoMap'[o] = NoUtxo
  <2>1. \A o \in Known : IsUtxo(utxoMap[o])
    BY Zenon, <1>4 DEF Kept, Known
  <2> QED
    BY Zenon, <1>1, <2>1, InsertedKeeps
<1>6. Kept(utxoMap, scanned)'
  <2>1. ASSUME NEW o \in Outpoint, utxoMap'[o] # NoUtxo
        PROVE  created'[o] # 0 /\ IsUtxo(utxoMap'[o])
    <3>1. CASE o \in Known
      BY Zenon, <1>1, <1>4, <1>5, <3>1 DEF Kept, Known
    <3>2. CASE o \in Found(block, StopHash)
      <4>1. created[o] # 0
        BY <1>3, <3>2 DEF Found
      <4> QED
        BY Zenon, <1>1, <1>5, <3>2, <4>1
    <3> QED
      BY Zenon, <1>5, <2>1, <3>1, <3>2
  <2>2. ASSUME NEW o \in Outpoint, created[o] # 0, scanned'[created[o]].from # 0
        PROVE  utxoMap'[o] # NoUtxo \/ ("sent" \in killed /\ txout[o].script # ReceiveScript)
    <3>1. created[o] \in Height
      BY <2>2, ChainAssumption DEF ChainAssumption, RestoreInv, NetworkInv, Height
    <3>2. CASE created[o] \in block .. StopHash
      BY Zenon, <1>4, <1>5, <2>2, <3>2 DEF Watches, Found, GetPubkeys
    <3>3. CASE created[o] \notin block .. StopHash
      BY ZenonT(40), <1>3, <1>4, <1>5, <2>2, <3>1, <3>3 DEF Kept, Known
    <3> QED
      BY Zenon, <3>2, <3>3
  <2>3. \A h \in Height : h > tip' => scanned'[h] = NotScanned
    BY Zenon, <1>3 DEF LoopInv
  <2> QED
    BY Zenon, <1>1, <1>3, <2>1, <2>2, <2>3 DEF Kept, IsUtxo
<1>7. OnChain(ChainState)'
  BY Zenon, <1>1, <1>4 DEF OnChain, ChainState
<1>8. Scanned(scanned, lastBlockHeight)'
  <2>1. "half stored" \notin killed => NoGaps
    BY Zenon, LoopReady DEF RestoreInv, MemoryInv
  <2> QED
    BY ZenonT(40), <1>3, <2>1 DEF Scanned, NoGaps
<1>9. Watches(pubkeyMap)' /\ Tracks(pubkeyMap, changeDepth, Len(txs))'
  BY Zenon, <1>1, <1>4 DEF Watches, Tracks
<1>10. pc' # "idle" => step' = "sync"
  OBVIOUS
<1>11. MemoryInv'
  BY ZenonT(40), <1>1, <1>3, <1>4, <1>6, <1>7, <1>8, <1>9 DEF MemoryInv
<1>12. op \in {"balance", "send_to_address"} /\ Unstored' = Unstored /\ ~SentUnstored'
  BY SMTT(30), <1>1 DEF RestoreInv, NetworkInv, Unstored, SentUnstored
<1> QED
  BY <1>1, <1>11, <1>12, QuietDb

\* get_receive_address enters the script, and store_state begins.
LEMMA CallGetReceiveAddressStep ==
  ASSUME RestoreInv, CallGetReceiveAddress, killed' = killed
  PROVE  RestoreInv'
<1>1. /\ pubkeyMap' = [pubkeyMap EXCEPT ![ReceiveScript] = <<External, ReceiveDepth>>]
      /\ UNCHANGED <<changeDepth, utxoMap, scanned, txs, tip, created, txout>>
      /\ UNCHANGED <<lastBlockHeight, lastBlockHash, db, pc, n, block, counter>>
      /\ step = "ready" /\ step' = "store chain" /\ op' = "get_receive_address"
  BY Zenon DEF CallGetReceiveAddress, Goto, GetReceiveAddress, peer_vars, state_vars, sync_vars
<1>2. /\ Kept(utxoMap, scanned) /\ Watches(pubkeyMap) /\ LoopInv /\ pc = "idle"
      /\ n \in Nat /\ block \in Nat /\ counter \in Nat
      /\ Tracks(pubkeyMap, changeDepth, Len(txs))
      /\ NetworkInv
  BY Zenon, <1>1 DEF RestoreInv, MemoryInv
<1>3. Grows /\ \A keys : NewWatched(keys)
  BY Zenon, <1>1, NothingNew
<1>4. /\ <<External, ReceiveDepth>> \in PubkeyDetails
      /\ <<External, ReceiveDepth>> # NoKey
  BY WalletAssumption
  DEF WalletAssumption, PubkeyDetails, NoKey, External, Internal, ReceiveDepth
<1>5. /\ pubkeyMap' \in [Script -> PubkeyDetails \cup {NoKey}]
      /\ \A s \in Script : pubkeyMap[s] # NoKey => pubkeyMap'[s] # NoKey
  <2>1. pubkeyMap \in [Script -> PubkeyDetails \cup {NoKey}]
    BY Zenon, <1>2 DEF Tracks
  <2> QED
    BY Zenon, <1>1, <1>4, <2>1
<1>6. Watches(pubkeyMap') /\ Tracks(pubkeyMap', changeDepth, Len(txs))
  <2>1. changeDepth \in Nat /\ changeDepth <= changeDepth /\ Len(txs) \in Nat
    BY Zenon, <1>2, UnstoredFacts, NatReflexive DEF Tracks
  <2> QED
    BY Zenon, <1>2, <1>5, <2>1, MoreKeys
<1>7. Watches(pubkeyMap)' /\ Tracks(pubkeyMap, changeDepth, Len(txs))'
  BY Zenon, <1>1, <1>6 DEF Watches, Tracks
<1>8. Kept(utxoMap, scanned)'
  BY Zenon, <1>1, <1>2 DEF Kept, IsUtxo
<1>9. LoopInv'
  BY Zenon, <1>1, <1>2 DEF LoopInv
<1>10. OnChain(ChainState)' /\ Scanned(scanned, lastBlockHeight)'
  BY ZenonT(40), <1>1, <1>3, StateKept DEF RestoreInv
<1>11. step' # "down" /\ Unstored' = Unstored /\ ~SentUnstored'
  BY Zenon, <1>1 DEF Unstored, SentUnstored
<1>12. MemoryInv'
  BY ZenonT(40), <1>1, <1>2, <1>7, <1>8, <1>9, <1>10, <1>11 DEF MemoryInv
<1> QED
  BY Zenon, <1>1, <1>5, <1>11, <1>12, QuietDb

\* create_transaction enters a change script that no transaction has, and the client that
\* selects an output has been restorable since before the output was created.
LEMMA CreateStep ==
  ASSUME RestoreInv, Create, killed' = killed
  PROVE  RestoreInv'
<1>1. PICK target \in Payment : CreateTransaction(target)
  BY Zenon DEF Create
<1>2. PICK s \in Script, S \in Selections(target) :
        /\ GetChangeScript(s)
        /\ txs' = Append(txs, Transaction(S, target, s))
        /\ UNCHANGED utxoMap
  BY Zenon, <1>1 DEF CreateTransaction
<1>3. /\ UNCHANGED <<utxoMap, scanned, tip, created, txout, lastBlockHeight, lastBlockHash>>
      /\ UNCHANGED <<db, op, pc, n, block, counter>>
      /\ s = ChangeScript(changeDepth) /\ changeDepth' = changeDepth + 1
      /\ pubkeyMap' = [pubkeyMap EXCEPT ![s] = <<External, ReceiveDepth>>]
      /\ step = "create" /\ step' = "send"
  BY ZenonT(40), <1>2 DEF Create, Goto, GetChangeScript, peer_vars, state_vars, sync_vars
<1>4. /\ Kept(utxoMap, scanned) /\ Watches(pubkeyMap) /\ LoopInv /\ pc = "idle"
      /\ n \in Nat /\ block \in Nat /\ counter \in Nat
      /\ Tracks(pubkeyMap, changeDepth, Len(txs))
      /\ MemoryInv /\ DbInv /\ StoredInv /\ NetworkInv
      /\ op = "send_to_address"
  BY <1>3 DEF RestoreInv, MemoryInv, NetworkInv
<1>5. Grows /\ \A keys : NewWatched(keys)
  BY Zenon, <1>3, NothingNew
<1>6. /\ Len(txs) \in Nat /\ Len(txs') = Len(txs) + 1
      /\ \A i \in 1 .. Len(txs) : txs'[i] = txs[i]
      /\ txs'[Len(txs) + 1].changeScript = s
      /\ txs' \in Seq({txs'[i] : i \in 1 .. Len(txs')})
  <2> DEFINE t == Transaction(S, target, s)
  <2>1. t.changeScript = s
    BY Zenon DEF Transaction
  <2> HIDE DEF t
  <2>2. txs' = Append(txs, t)
    BY Zenon, <1>2 DEF t
  <2>3. txs \in Seq({txs[i] : i \in 1 .. Len(txs)})
    BY Zenon, <1>4 DEF NetworkInv
  <2> QED
    BY <2>1, <2>2, <2>3
<1>7. /\ pubkeyMap' \in [Script -> PubkeyDetails \cup {NoKey}]
      /\ pubkeyMap'[s] # NoKey
      /\ \A x \in Script : pubkeyMap[x] # NoKey => pubkeyMap'[x] # NoKey
  <2>1. /\ <<External, ReceiveDepth>> \in PubkeyDetails
        /\ <<External, ReceiveDepth>> # NoKey
    BY WalletAssumption
    DEF WalletAssumption, PubkeyDetails, NoKey, External, Internal, ReceiveDepth
  <2>2. pubkeyMap \in [Script -> PubkeyDetails \cup {NoKey}]
    BY ZenonT(40), <1>4 DEF Tracks
  <2> QED
    BY Zenon, <1>3, <2>1, <2>2
<1>8. changeDepth \in Nat /\ changeDepth' \in Nat /\ changeDepth <= changeDepth'
  BY <1>3, <1>4 DEF Tracks
<1>9. Watches(pubkeyMap') /\ Tracks(pubkeyMap', changeDepth', Len(txs))
  BY Zenon, <1>4, <1>6, <1>7, <1>8, MoreKeys
<1>10. Watches(pubkeyMap)'
  BY ZenonT(40), <1>3, <1>9 DEF Watches
<1>11. Tracks(pubkeyMap, changeDepth, Len(txs))'
  <2> SUFFICES ASSUME "sent" \notin killed, NEW i \in 1 .. Len(txs')
               PROVE  \E j \in 0 .. changeDepth' - 1 :
                        /\ txs'[i].changeScript = ChangeScript(j)
                        /\ ChangeScript(j) \in Script /\ pubkeyMap'[ChangeScript(j)] # NoKey
    BY Zenon, <1>7, <1>8 DEF Tracks
  <2>1. CASE i \in 1 .. Len(txs)
    BY Zenon, <1>6, <1>9, <2>1 DEF Tracks
  <2>2. CASE i = Len(txs) + 1
    <3>1. changeDepth \in 0 .. changeDepth' - 1
      BY <1>3, <1>8
    <3> QED
      BY ZenonT(40), <1>3, <1>6, <1>7, <2>2, <3>1
  <2> QED
    BY <1>6, <2>1, <2>2
<1>12. MemoryInv'
  <2>1. Kept(utxoMap, scanned)'
    BY Zenon, <1>3, <1>4 DEF Kept, IsUtxo
  <2>2. LoopInv'
    BY Zenon, <1>3, <1>4 DEF LoopInv
  <2>3. OnChain(ChainState)' /\ Scanned(scanned, lastBlockHeight)'
    BY ZenonT(40), <1>3, <1>4, <1>5, StateKept
  <2>4. step' # "down"
    BY <1>3
  <2> QED
    BY ZenonT(40), <1>3, <1>4, <1>10, <1>11, <2>1, <2>2, <2>3, <2>4 DEF MemoryInv
<1>13. ~SentUnstored /\ ~SentUnstored' /\ Unstored = Len(txs) /\ Unstored' = Len(txs)
  BY <1>3, <1>6 DEF SentUnstored, Unstored
<1>14. DbInv'
  <2>1. /\ Unstored \in Nat /\ Unstored' \in Nat /\ Unstored' <= Unstored
        /\ \A i \in 1 .. Unstored' : txs'[i] = txs[i]
    BY ZenonT(40), <1>6, <1>13, NatReflexive
  <2>2. step # "store wallet" /\ step # "down" /\ step' # "down" /\ step' # "store wallet"
    BY <1>3
  <2>3. db' = db
    BY Zenon, <1>3
  <2> QED
    BY ZenonT(40), <1>4, <1>5, <1>7, <1>13, <2>1, <2>2, <2>3, DbKept
<1>15. StoredInv'
  <2>1. step' \notin {"store wallet", "store signer", "store node"} /\ db' = db
    BY <1>3
  <2> QED
    BY ZenonT(40), <1>4, <2>1, StoredKept
<1>16. Restorable /\ db["wallet"].pubkeyMap[ReceiveScript] # NoKey
  <2>1. Known # {}
    BY Zenon, <1>2, NothingToSelect
  <2>2. \E o \in Outpoint : created[o] # 0
    BY Zenon, <1>4, <2>1 DEF Known, Kept
  <2> QED
    BY Zenon, <1>4, <2>2 DEF NetworkInv
<1>17. NetworkInv'
  <2>1. Restorable' /\ db'["wallet"].pubkeyMap[ReceiveScript] # NoKey
    BY ZenonT(40), <1>3, <1>16 DEF Restorable
  <2>2. ASSUME "sent" \notin killed, NEW i \in 1 .. Len(txs)
        PROVE  txs[i].changeScript # s
    <3>1. PICK j \in 0 .. changeDepth - 1 : txs[i].changeScript = ChangeScript(j)
      BY Zenon, <1>4, <2>2 DEF Tracks
    <3> QED
      BY <1>3, <1>8, <3>1 DEF ChangeScript
  <2>3. ASSUME "sent" \notin killed, NEW i \in 1 .. Len(txs'), NEW j \in 1 .. Len(txs'), i # j
        PROVE  txs'[i].changeScript # txs'[j].changeScript
    <3>1. \A m \in 1 .. Len(txs') : m \in 1 .. Len(txs) \/ m = Len(txs) + 1
      BY <1>6
    <3>2. CASE i \in 1 .. Len(txs) /\ j \in 1 .. Len(txs)
      BY ZenonT(40), <1>4, <1>6, <2>3, <3>2 DEF NetworkInv
    <3>3. CASE i \in 1 .. Len(txs) /\ j = Len(txs) + 1
      BY Zenon, <1>6, <2>2, <2>3, <3>3
    <3>4. CASE i = Len(txs) + 1 /\ j \in 1 .. Len(txs)
      BY ZenonT(40), <1>6, <2>2, <2>3, <3>4
    <3> QED
      BY ZenonT(40), <2>3, <3>1, <3>2, <3>3, <3>4
  <2>4. txs' # <<>>
    BY <1>6
  <2>5. step' # "sync" /\ op' = "send_to_address"
    BY <1>3, <1>4
  <2> QED
    BY ZenonT(40), <1>3, <1>4, <1>6, <2>1, <2>3, <2>4, <2>5 DEF NetworkInv
<1> QED
  BY Zenon, <1>12, <1>14, <1>15, <1>17 DEF RestoreInv

-----------------------------------------------------------------------------
(* Start and end of the client *)

\* The memory of a client that has ended has nothing, which is right of any chain.
LEMMA EndsMemory ==
  ASSUME NetworkInv, Ends
  PROVE  MemoryInv'
<1>1. /\ pubkeyMap' = [s \in Script |-> NoKey] /\ changeDepth' = 0
      /\ utxoMap' = [o \in Outpoint |-> NoUtxo]
      /\ scanned' = [h \in Height |-> NotScanned]
      /\ lastBlockHeight' = 0 /\ lastBlockHash' = 0
      /\ UNCHANGED <<tip, created>>
      /\ pc' = "idle" /\ n' = 0 /\ block' = 0 /\ counter' = 0
      /\ step' = "down"
  BY DEF Ends, Load, NewWalletState, NewChainState, peer_vars
<1>2. tip \in 0 .. MaxTip /\ created \in [Outpoint -> 0 .. tip] /\ MaxTip \in Nat
  BY ChainAssumption DEF ChainAssumption, NetworkInv
<1>3. Kept(utxoMap, scanned)'
  <2>1. ASSUME NEW o \in Outpoint, created[o] # 0
        PROVE  scanned'[created[o]].from = 0
    <3>1. created[o] \in Height
      BY <1>2, <2>1 DEF Height
    <3> QED
      BY <1>1, <3>1 DEF NotScanned
  <2>2. NotScanned \in [from : 0 .. MaxTip, watched : SUBSET Script]
    BY <1>2 DEF NotScanned
  <2> QED
    BY ZenonT(40), <1>1, <2>1, <2>2 DEF Kept
<1>4. OnChain(ChainState)' /\ Scanned(scanned, lastBlockHeight)'
  BY <1>1, <1>2 DEF OnChain, ChainState, Scanned
<1>5. Tracks(pubkeyMap, changeDepth, 0)'
  BY <1>1 DEF Tracks
<1>6. LoopInv'
  BY <1>1, <1>2 DEF LoopInv
<1> QED
  BY SMTT(30), <1>1, <1>3, <1>4, <1>5, <1>6 DEF MemoryInv

\* A client ends: the database is fit for a restore, unless it was killed at one of the two
\* points.
LEMMA EndsStep ==
  ASSUME RestoreInv, Ends, killed \subseteq killed',
         HalfStored => "half stored" \in killed', SentUnstored => "sent" \in killed'
  PROVE  RestoreInv'
<1>1. /\ UNCHANGED <<tip, created, txout, db>>
      /\ step' = "down" /\ op' = "none"
      /\ txs' = SubSeq(txs, 1, NumSent)
  BY Zenon DEF Ends, peer_vars
<1>2. DbInv /\ StoredInv /\ NetworkInv
  BY Zenon DEF RestoreInv
<1>3. Grows /\ \A keys : NewWatched(keys)
  BY Zenon, <1>1, NothingNew
<1>4. PICK k \in Nat : k = NumSent /\ k <= Len(txs)
  BY ZenonT(40), <1>2, SentFacts
<1>5. ~SentUnstored' /\ Unstored' = Len(txs') /\ Unstored \in Nat
      /\ (~SentUnstored => Unstored = k)
  BY Zenon, <1>1, <1>2, <1>4, UnstoredFacts DEF SentUnstored, Unstored, NumSent
<1>6. /\ Len(txs') = k /\ \A i \in 1 .. k : txs'[i] = txs[i] /\ i \in 1 .. Len(txs)
      /\ txs' \in Seq({txs'[i] : i \in 1 .. Len(txs')})
      /\ txs' # <<>> => txs # <<>>
  <2>1. txs \in Seq({txs[i] : i \in 1 .. Len(txs)})
    BY Zenon, <1>2 DEF NetworkInv
  <2>2. txs' = SubSeq(txs, 1, k)
    BY Zenon, <1>1, <1>4
  <2>3. k \in Nat /\ k <= Len(txs)
    BY Zenon, <1>4
  <2> DEFINE P(r) ==
        /\ Len(r) = k /\ \A i \in 1 .. k : r[i] = txs[i] /\ i \in 1 .. Len(txs)
        /\ r \in Seq({r[i] : i \in 1 .. Len(r)})
        /\ r # <<>> => txs # <<>>
  <2>4. P(SubSeq(txs, 1, k))
    BY Zenon, <2>1, <2>3, FirstOf
  <2> HIDE DEF P
  <2>5. P(txs')
    BY ZenonT(40), <2>2, <2>4
  <2> QED
    BY Zenon, <2>5 DEF P
<1>7. DbInv'
  <2>1. "sent" \notin killed' => Unstored' <= Unstored /\ \A i \in 1 .. Unstored' : txs'[i] = txs[i]
    BY Zenon, <1>4, <1>5, <1>6, NatReflexive
  <2>2. Unstored' \in Nat
    BY Zenon, <1>4, <1>5, <1>6
  <2>3. step # "store wallet" \/ "half stored" \in killed'
    BY Zenon DEF HalfStored
  <2>4. ~SentUnstored \/ "sent" \in killed'
    BY Zenon
  <2> QED
    BY ZenonT(40), <1>1, <1>2, <1>3, <1>5, <2>1, <2>2, <2>3, <2>4, DbKept
<1>8. StoredInv'
  <2>1. step' \notin {"store wallet", "store signer", "store node"} /\ db' = db
    BY Zenon, <1>1
  <2> QED
    BY Zenon, <1>2, <2>1, StoredKept
<1>9. NetworkInv'
  <2>2. ASSUME "sent" \notin killed', NEW i \in 1 .. Len(txs'), NEW j \in 1 .. Len(txs'), i # j
        PROVE  txs'[i].changeScript # txs'[j].changeScript
    <3>1. i \in 1 .. Len(txs) /\ j \in 1 .. Len(txs) /\ i \in 1 .. k /\ j \in 1 .. k
      BY Zenon, <1>6
    <3>2. "sent" \notin killed
      BY Zenon, <2>2
    <3> QED
      BY Zenon, <1>2, <1>6, <2>2, <3>1, <3>2 DEF NetworkInv
  <2>3. step' \notin {"sync", "create", "send"}
    BY Zenon, <1>1
  <2>4. Restorable' <=> Restorable
    BY Zenon, <1>1 DEF Restorable
  <2> QED
    BY ZenonT(40), <1>1, <1>2, <1>5, <1>6, <2>2, <2>3, <2>4 DEF NetworkInv
<1>10. MemoryInv'
  BY Zenon, <1>2, EndsMemory
<1> QED
  BY Zenon, <1>7, <1>8, <1>9, <1>10 DEF RestoreInv

\* The client is killed.
LEMMA CrashStep == ASSUME RestoreInv, Crash PROVE RestoreInv'
<1>1. CASE HalfStored \/ SentUnstored
  <2>1. /\ killed = {}
        /\ killed' = {"half stored" : i \in {j \in {1} : HalfStored}}
                     \cup {"sent" : i \in {j \in {1} : SentUnstored}}
    BY Zenon, <1>1 DEF Crash
  <2>2. HalfStored => "half stored" \in killed'
    BY Zenon, <2>1
  <2>3. SentUnstored => "sent" \in killed'
    BY Zenon, <2>1
  <2> QED
    BY Zenon, <2>1, <2>2, <2>3, EndsStep DEF Crash
<1>2. CASE ~(HalfStored \/ SentUnstored)
  BY Zenon, <1>2, EndsStep DEF Crash
<1> QED
  BY Zenon, <1>1, <1>2

\* unwrap panics before anything of the call is stored or sent.
LEMMA PanicStep ==
  ASSUME RestoreInv, CreatePanics \/ SendPanics, killed' = killed
  PROVE  RestoreInv'
<1>1. ~HalfStored /\ ~SentUnstored
  BY Zenon DEF CreatePanics, SendPanics, HalfStored, SentUnstored
<1> QED
  BY Zenon, <1>1, EndsStep DEF CreatePanics, SendPanics

\* Node::new, when there is no output to find and no transaction to track.
LEMMA NewStep ==
  ASSUME RestoreInv, New, killed' = killed
  PROVE  RestoreInv'
<1>1. /\ UNCHANGED <<pubkeyMap, changeDepth, utxoMap, scanned, txs, tip, created, txout>>
      /\ UNCHANGED <<lastBlockHeight, lastBlockHash, pc, n, block, counter, op, db>>
      /\ step = "down" /\ ~Restorable /\ step' = "ready"
  BY Zenon DEF New, chain_vars, wallet_hist, wallet_vars, peer_vars, state_vars, sync_vars
<1>2. MemoryInv /\ DbInv /\ StoredInv /\ NetworkInv
  BY Zenon DEF RestoreInv
<1>3. txs = <<>> /\ \A o \in Outpoint : created[o] = 0
  BY Zenon, <1>1, <1>2 DEF NetworkInv
<1>4. Grows
  BY Zenon, <1>1, NothingNew
<1>5. ~Restorable' /\ ~SentUnstored'
  BY <1>1 DEF Restorable, SentUnstored
<1>6. StoredInv' /\ DbInv'
  <2>1. step' \notin {"store wallet", "store signer", "store node"} /\ db' = db
    BY <1>1
  <2> QED
    BY Zenon, <1>2, <1>5, <2>1, StoredKept DEF DbInv
<1>7. NetworkInv'
  <2>1. step' \notin {"sync", "create", "send"}
    BY <1>1
  <2> QED
    BY ZenonT(40), <1>1, <1>2, <1>5, <2>1, NetworkKept
<1>8. MemoryInv'
  <2>1. Kept(utxoMap, scanned)' /\ LoopInv'
    BY Zenon, <1>1, <1>2 DEF MemoryInv, Kept, IsUtxo, LoopInv, StartBlock, EndBlock
  <2>2. OnChain(ChainState)' /\ Scanned(scanned, lastBlockHeight)'
    BY Zenon, <1>1, <1>2, <1>4, StateKept
  <2>3. Watches(pubkeyMap)'
    BY ZenonT(40), <1>1, <1>3 DEF Watches
  <2>4. Tracks(pubkeyMap, changeDepth, 0)
    BY <1>1, <1>2 DEF MemoryInv
  <2>5. Len(txs') = 0 /\ step' # "down"
    BY <1>1, <1>3
  <2>6. Tracks(pubkeyMap, changeDepth, IF step = "down" THEN 0 ELSE Len(txs))'
    <3>1. Tracks(pubkeyMap', changeDepth', 0)
      BY Zenon, <1>1, <2>4
    <3>2. (IF step' = "down" THEN 0 ELSE Len(txs')) = 0
      BY Zenon, <2>5
    <3> QED
      BY Zenon, <1>1, <3>1, <3>2 DEF Tracks
  <2>7. n' \in Nat /\ block' \in Nat /\ counter' \in Nat /\ (pc' # "idle" => step' = "sync")
    BY <1>1, <1>2 DEF MemoryInv
  <2> QED
    BY ZenonT(40), <2>1, <2>2, <2>3, <2>6, <2>7 DEF MemoryInv
<1> QED
  BY Zenon, <1>6, <1>7, <1>8 DEF RestoreInv

\* restore: what is stored is all that was sent and found.
LEMMA RestoreStep ==
  ASSUME RestoreInv, Restore, killed' = killed
  PROVE  RestoreInv'
<1> DEFINE w == db["wallet"]
           c == db["chain"]
<1>1. /\ pubkeyMap' = w.pubkeyMap /\ changeDepth' = w.changeDepth
      /\ utxoMap' = w.utxoMap /\ scanned' = w.scanned
      /\ lastBlockHeight' = c.height /\ lastBlockHash' = c.hash
      /\ UNCHANGED <<txs, tip, created, txout, pc, n, block, counter, op, db>>
      /\ step = "down" /\ Restorable /\ step' = "ready"
  BY Zenon DEF Restore, Load, peer_vars, sync_vars
<1>2. MemoryInv /\ DbInv /\ StoredInv /\ NetworkInv
  BY Zenon DEF RestoreInv
<1>3. Grows
  BY ZenonT(40), <1>1, NothingNew
<1>4. /\ ~SentUnstored /\ ~SentUnstored' /\ Unstored = Len(txs) /\ Unstored' = Len(txs')
      /\ step # "store wallet"
  BY <1>1 DEF SentUnstored, Unstored
<1>5. /\ Kept(w.utxoMap, w.scanned) /\ OnChain(c)
      /\ Scanned(w.scanned, c.height) /\ Watches(w.pubkeyMap)
      /\ Tracks(w.pubkeyMap, w.changeDepth, Len(txs))
  BY Zenon, <1>1, <1>2, <1>4 DEF DbInv
<1>6. Kept(utxoMap, scanned)'
  BY Zenon, <1>1, <1>5 DEF Kept, IsUtxo
<1>7. OnChain(ChainState)'
  BY Zenon, <1>1, <1>5 DEF OnChain, ChainState
<1>8. Scanned(scanned, lastBlockHeight)'
  BY Zenon, <1>1, <1>5 DEF Scanned
<1>9. Watches(pubkeyMap)' /\ Tracks(pubkeyMap, changeDepth, Len(txs))'
  BY ZenonT(40), <1>1, <1>5 DEF Watches, Tracks
<1>10. pc = "idle"
  BY <1>1, <1>2 DEF MemoryInv
<1>11. LoopInv'
  <2>1. lastBlockHash' <= tip'
    BY Zenon, <1>7 DEF OnChain, ChainState
  <2>2. \A h \in Height : h > tip' => scanned'[h] = NotScanned
    BY Zenon, <1>6 DEF Kept
  <2>3. pc' # "filters"
    BY <1>1, <1>10
  <2> QED
    BY Zenon, <2>1, <2>2, <2>3 DEF LoopInv, Height, NotScanned
<1>12. step' # "down" /\ pc' = "idle"
  BY <1>1, <1>10
<1>13. MemoryInv'
  BY ZenonT(40), <1>1, <1>2, <1>6, <1>7, <1>8, <1>9, <1>11, <1>12 DEF MemoryInv
<1>14. DbInv'
  <2>1. Kept(db["wallet"].utxoMap, db["wallet"].scanned)'
    BY Zenon, <1>1, <1>5 DEF Kept, IsUtxo
  <2>2. OnChain(db["chain"])'
    BY Zenon, <1>1, <1>5 DEF OnChain
  <2>3. Scanned(db["wallet"].scanned, db["chain"].height)'
    BY Zenon, <1>1, <1>5 DEF Scanned
  <2>4. Watches(db["wallet"].pubkeyMap)'
    BY Zenon, <1>1, <1>5 DEF Watches
  <2>5. Tracks(db["wallet"].pubkeyMap, db["wallet"].changeDepth, Unstored)'
    BY Zenon, <1>1, <1>4, <1>5 DEF Tracks
  <2> QED
    BY ZenonT(40), <1>1, <2>1, <2>2, <2>3, <2>4, <2>5 DEF DbInv
<1>15. StoredInv'
  <2>1. step' \notin {"store wallet", "store signer", "store node"} /\ db' = db
    BY <1>1
  <2> QED
    BY Zenon, <1>2, <2>1, StoredKept
<1>16. NetworkInv'
  <2>1. step' \notin {"sync", "create", "send"}
    BY <1>1
  <2>2. Restorable'
    BY Zenon, <1>1 DEF Restorable
  <2> QED
    BY ZenonT(40), <1>1, <1>2, <1>4, <2>1, <2>2, NetworkKept
<1> QED
  BY Zenon, <1>13, <1>14, <1>15, <1>16 DEF RestoreInv

-----------------------------------------------------------------------------
(* store_state *)

\* insert
LEMMA InsertFacts ==
  ASSUME NEW key, NEW value, db' = DbInsert(key, value)
  PROVE  /\ DOMAIN db' = DOMAIN db \cup {key}
         /\ db'[key] = value
         /\ \A k \in DOMAIN db : k # key => db'[k] = db[k]
BY Zenon DEF DbInsert

\* An insert of store_state changes nothing in memory.
LEMMA StoreMemory ==
  ASSUME RestoreInv, UNCHANGED <<chain_vars, killed>>,
         step \in StoreStep, step' \in StoreStep \cup {"ready"}
  PROVE  /\ MemoryInv' /\ Grows /\ pc = "idle" /\ Watches(pubkeyMap)'
         /\ Tracks(pubkeyMap, changeDepth, Len(txs))'
         /\ ChainState' = ChainState /\ WalletState' = WalletState
         /\ UNCHANGED <<pubkeyMap, txs, tip, created, txout>>
<1>1. /\ UNCHANGED <<pubkeyMap, changeDepth, utxoMap, scanned, txs, tip, created, txout>>
      /\ UNCHANGED <<lastBlockHeight, lastBlockHash, pc, n, block, counter>>
  BY Zenon DEF chain_vars, wallet_hist, wallet_vars, peer_vars, state_vars, sync_vars
<1>2. Grows /\ \A keys : NewWatched(keys)
  BY Zenon, <1>1, NothingNew
<1>3. step # "down" /\ step' # "down" /\ step # "sync"
  BY Zenon DEF StoreStep
<1>4. pc = "idle" /\ LoopInv
  BY Zenon, <1>3 DEF RestoreInv, MemoryInv
<1>5. OnChain(ChainState)' /\ Scanned(scanned, lastBlockHeight)'
  BY Zenon, <1>1, <1>2, StateKept DEF RestoreInv
<1>6. LoopInv' /\ pc' = "idle"
  BY Zenon, <1>1, <1>4 DEF LoopInv, StartBlock, EndBlock
<1>7. n' \in Nat /\ block' \in Nat /\ counter' \in Nat
  BY Zenon, <1>1 DEF RestoreInv, MemoryInv
<1>8. MemoryInv'
  BY ZenonT(40), <1>1, <1>2, <1>3, <1>5, <1>6, <1>7, MemoryKept DEF RestoreInv
<1>9. Watches(pubkeyMap)' /\ Tracks(pubkeyMap, changeDepth, Len(txs))'
  <2>1. Watches(pubkeyMap) /\ Tracks(pubkeyMap, changeDepth, Len(txs))
    BY Zenon, <1>3 DEF RestoreInv, MemoryInv
  <2> QED
    BY Zenon, <1>1, <2>1 DEF Watches, Tracks
<1>10. ChainState' = ChainState /\ WalletState' = WalletState
  BY Zenon, <1>1 DEF ChainState, WalletState
<1> QED
  BY Zenon, <1>1, <1>2, <1>4, <1>8, <1>9, <1>10

\* With the wallet and the chain state in the database as they are in memory, it is fit for
\* a restore as far as they are.
LEMMA StoredWhole ==
  ASSUME MemoryInv', Watches(pubkeyMap)', Tracks(pubkeyMap, changeDepth, Len(txs))',
         step' \in {"store signer", "store node", "ready"},
         db'["wallet"] = WalletState', db'["chain"] = ChainState'
  PROVE  DbInv'
<1>1. /\ db'["wallet"].utxoMap = utxoMap' /\ db'["wallet"].scanned = scanned'
      /\ db'["wallet"].pubkeyMap = pubkeyMap' /\ db'["wallet"].changeDepth = changeDepth'
      /\ db'["chain"].height = lastBlockHeight'
  <2>1. /\ WalletState'.utxoMap = utxoMap' /\ WalletState'.scanned = scanned'
        /\ WalletState'.pubkeyMap = pubkeyMap' /\ WalletState'.changeDepth = changeDepth'
        /\ ChainState'.height = lastBlockHeight'
    BY Zenon DEF WalletState, ChainState
  <2> QED
    BY Zenon, <2>1
<1>2. Unstored' = Len(txs')
  BY Zenon DEF Unstored, SentUnstored
<1>3. Kept(db["wallet"].utxoMap, db["wallet"].scanned)'
  BY Zenon, <1>1 DEF MemoryInv, Kept, IsUtxo
<1>4. OnChain(db["chain"])'
  BY Zenon DEF MemoryInv, OnChain
<1>5. Scanned(db["wallet"].scanned, db["chain"].height)'
  BY Zenon, <1>1 DEF MemoryInv, Scanned
<1>6. Watches(db["wallet"].pubkeyMap)'
  BY Zenon, <1>1 DEF Watches
<1>7. Tracks(db["wallet"].pubkeyMap, db["wallet"].changeDepth, Unstored)'
  BY Zenon, <1>1, <1>2 DEF Tracks
<1> QED
  BY ZenonT(40), <1>1, <1>3, <1>4, <1>5, <1>6, <1>7 DEF DbInv

\* The chain state is stored first.
LEMMA StoreChainStep ==
  ASSUME RestoreInv, StoreChain, killed' = killed
  PROVE  RestoreInv'
<1>1. /\ UNCHANGED chain_vars /\ op' = op /\ step = "store chain" /\ step' = "store wallet"
      /\ db' = DbInsert("chain", ChainState)
  BY Zenon DEF StoreChain, Goto
<1>2. step \in StoreStep /\ step' \in StoreStep \cup {"ready"}
  BY Zenon, <1>1 DEF StoreStep
<1>3. /\ MemoryInv' /\ Grows /\ ChainState' = ChainState /\ WalletState' = WalletState
      /\ UNCHANGED <<pubkeyMap, txs, tip, created, txout>>
  BY Zenon, <1>1, <1>2, StoreMemory
<1>4. /\ DOMAIN db' = DOMAIN db \cup {"chain"} /\ db'["chain"] = ChainState
      /\ \A k \in DOMAIN db : k # "chain" => db'[k] = db[k]
  BY Zenon, <1>1, InsertFacts
<1>5. DbInv /\ StoredInv /\ NetworkInv
  BY ZenonT(40) DEF RestoreInv
<1>6. /\ Restorable' <=> Restorable
      /\ Restorable => db'["wallet"] = db["wallet"]
  BY ZenonT(40), <1>4, <1>5 DEF StoredInv, NodeKeyLast, Restorable, Key
<1>7. StoredInv'
  <2>1. DOMAIN db' \subseteq Key
    BY ZenonT(40), <1>4, <1>5 DEF StoredInv, Key
  <2>2. NodeKeyLast'
    BY ZenonT(40), <1>4, <1>5, <1>6 DEF StoredInv, NodeKeyLast
  <2> QED
    BY ZenonT(40), <1>1, <1>3, <1>4, <2>1, <2>2 DEF StoredInv
<1>8. (SentUnstored' <=> SentUnstored) /\ Unstored' = Unstored
  BY Zenon, <1>1, <1>3 DEF SentUnstored, Unstored
<1>9. DbInv'
  <2> SUFFICES ASSUME Restorable'
               PROVE  /\ Kept(db["wallet"].utxoMap, db["wallet"].scanned)'
                      /\ OnChain(db["chain"])'
                      /\ ~SentUnstored' => Watches(db["wallet"].pubkeyMap)'
                      /\ Tracks(db["wallet"].pubkeyMap, db["wallet"].changeDepth, Unstored)'
                      /\ \A s \in Script :
                           db'["wallet"].pubkeyMap[s] # NoKey => pubkeyMap'[s] # NoKey
    BY Zenon, <1>1 DEF DbInv
  <2>1. Restorable /\ db'["wallet"] = db["wallet"]
    BY ZenonT(40), <1>6
  <2>2. /\ Kept(db["wallet"].utxoMap, db["wallet"].scanned)
        /\ ~SentUnstored => Watches(db["wallet"].pubkeyMap)
        /\ Tracks(db["wallet"].pubkeyMap, db["wallet"].changeDepth, Unstored)
        /\ \A s \in Script : db["wallet"].pubkeyMap[s] # NoKey => pubkeyMap[s] # NoKey
    BY Zenon, <1>1, <1>5, <2>1 DEF DbInv
  <2>3. Kept(db["wallet"].utxoMap, db["wallet"].scanned)'
    BY Zenon, <1>3, <2>1, <2>2 DEF Kept, IsUtxo
  <2>4. OnChain(db["chain"])'
    BY Zenon, <1>3, <1>4 DEF MemoryInv, OnChain
  <2>5. ~SentUnstored' => Watches(db["wallet"].pubkeyMap)'
    BY ZenonT(40), <1>3, <1>8, <2>1, <2>2 DEF Watches
  <2>6. Tracks(db["wallet"].pubkeyMap, db["wallet"].changeDepth, Unstored)'
    BY Zenon, <1>3, <1>8, <2>1, <2>2 DEF Tracks
  <2> QED
    BY ZenonT(40), <1>3, <2>1, <2>2, <2>3, <2>4, <2>5, <2>6
<1>10. NetworkInv'
  <2>1. step' \notin {"sync", "create", "send"}
    BY Zenon, <1>1
  <2> QED
    BY ZenonT(40), <1>3, <1>5, <1>6, <1>8, <2>1, NetworkKept
<1> QED
  BY Zenon, <1>3, <1>7, <1>9, <1>10 DEF RestoreInv

\* The wallet is stored next: with it all that was sent is stored.
LEMMA StoreWalletStep ==
  ASSUME RestoreInv, StoreWallet, killed' = killed
  PROVE  RestoreInv'
<1>1. /\ UNCHANGED chain_vars /\ op' = op /\ step = "store wallet" /\ step' = "store signer"
      /\ db' = DbInsert("wallet", WalletState)
  BY Zenon DEF StoreWallet, Goto
<1>2. step \in StoreStep /\ step' \in StoreStep \cup {"ready"}
  BY Zenon, <1>1 DEF StoreStep
<1>3. /\ MemoryInv' /\ ChainState' = ChainState /\ WalletState' = WalletState
      /\ Watches(pubkeyMap)' /\ Tracks(pubkeyMap, changeDepth, Len(txs))'
      /\ UNCHANGED <<pubkeyMap, txs, tip, created, txout>>
  BY Zenon, <1>1, <1>2, StoreMemory
<1>4. /\ DOMAIN db' = DOMAIN db \cup {"wallet"} /\ db'["wallet"] = WalletState
      /\ \A k \in DOMAIN db : k # "wallet" => db'[k] = db[k]
  BY ZenonT(40), <1>1, InsertFacts
<1>5. DbInv /\ StoredInv /\ NetworkInv
  BY Zenon DEF RestoreInv
<1>6. "chain" \in DOMAIN db /\ db'["chain"] = ChainState
  BY ZenonT(40), <1>1, <1>4, <1>5 DEF StoredInv
<1>7. Restorable => Restorable'
  BY SMTT(30), <1>4 DEF Restorable, Key
<1>8. StoredInv'
  <2>1. DOMAIN db' \subseteq Key
    BY ZenonT(40), <1>4, <1>5 DEF StoredInv, Key
  <2>2. NodeKeyLast'
    BY ZenonT(40), <1>4, <1>5, <1>7 DEF StoredInv, NodeKeyLast
  <2> QED
    BY ZenonT(40), <1>1, <1>3, <1>4, <1>6, <2>1, <2>2 DEF StoredInv
<1>9. DbInv'
  BY Zenon, <1>1, <1>3, <1>4, <1>6, StoredWhole
<1>10. NetworkInv'
  <2>1. step' \notin {"sync", "create", "send"} /\ ~SentUnstored'
    BY Zenon, <1>1 DEF SentUnstored
  <2>2. Restorable /\ db["wallet"].pubkeyMap[ReceiveScript] # NoKey =>
          db'["wallet"].pubkeyMap[ReceiveScript] # NoKey
    <3>1. ReceiveScript \in Script /\ db'["wallet"].pubkeyMap = pubkeyMap
      BY <1>4 DEF Script, WalletState
    <3>2. step # "down"
      BY Zenon, <1>1
    <3> QED
      BY ZenonT(40), <1>5, <3>1, <3>2 DEF DbInv
  <2> QED
    BY ZenonT(40), <1>3, <1>5, <1>7, <2>1, <2>2, NetworkKept
<1> QED
  BY ZenonT(40), <1>3, <1>8, <1>9, <1>10 DEF RestoreInv

\* Then the signer and the node, with which the client can be restored.
LEMMA StoreOthersStep ==
  ASSUME RestoreInv, StoreSigner \/ StoreNode, killed' = killed
  PROVE  RestoreInv'
<1>1. PICK key \in {"signer", "node"} :
        /\ UNCHANGED chain_vars
        /\ db' = DbInsert(key, key)
        /\ \/ key = "signer" /\ step = "store signer" /\ step' = "store node"
           \/ key = "node" /\ step = "store node" /\ step' = "ready"
  BY Zenon DEF StoreSigner, StoreNode, Goto
<1>2. step \in StoreStep /\ step' \in StoreStep \cup {"ready"}
  BY Zenon, <1>1 DEF StoreStep
<1>3. /\ MemoryInv' /\ ChainState' = ChainState /\ WalletState' = WalletState
      /\ Watches(pubkeyMap)' /\ Tracks(pubkeyMap, changeDepth, Len(txs))'
      /\ UNCHANGED <<pubkeyMap, txs, tip, created, txout>>
  BY Zenon, <1>1, <1>2, StoreMemory
<1>4. /\ DOMAIN db' = DOMAIN db \cup {key}
      /\ \A k \in DOMAIN db : k # key => db'[k] = db[k]
  BY Zenon, <1>1, InsertFacts
<1>5. DbInv /\ StoredInv /\ NetworkInv
  BY Zenon DEF RestoreInv
<1>6. /\ "chain" \in DOMAIN db /\ db'["chain"] = ChainState
      /\ "wallet" \in DOMAIN db /\ db'["wallet"] = WalletState /\ db["wallet"] = WalletState
  BY Zenon, <1>1, <1>4, <1>5 DEF StoredInv
<1>7. Restorable => Restorable'
  BY SMTT(30), <1>4 DEF Restorable, Key
<1>8. StoredInv'
  <2>1. DOMAIN db' \subseteq Key
    BY ZenonT(40), <1>4, <1>5 DEF StoredInv, Key
  <2>2. NodeKeyLast'
    BY ZenonT(40), <1>1, <1>4, <1>5, <1>6, <1>7 DEF StoredInv, NodeKeyLast, Restorable, Key
  <2> QED
    BY ZenonT(40), <1>1, <1>3, <1>4, <1>6, <2>1, <2>2 DEF StoredInv
<1>9. DbInv'
  BY Zenon, <1>1, <1>3, <1>6, StoredWhole
<1>10. NetworkInv'
  <2>1. step' \notin {"sync", "create", "send"} /\ ~SentUnstored'
    BY Zenon, <1>1 DEF SentUnstored
  <2> QED
    BY ZenonT(40), <1>3, <1>5, <1>6, <1>7, <2>1, NetworkKept
<1> QED
  BY ZenonT(40), <1>3, <1>8, <1>9, <1>10 DEF RestoreInv

-----------------------------------------------------------------------------
(* The network *)

\* A block is mined at the end of the chain.
LEMMA MineGrows ==
  ASSUME NetworkInv, killed' = killed, NEW outs, NEW S, Mine(outs, S)
  PROVE  /\ Grows /\ tip' = tip + 1
         /\ \A o \in Outpoint : created[o] = 0 /\ created'[o] # 0 =>
              o \in DOMAIN outs /\ txout'[o] = outs[o]
<1>1. /\ tip \in 0 .. MaxTip /\ created \in [Outpoint -> 0 .. tip]
      /\ tip < MaxTip /\ tip' = tip + 1 /\ MaxTip \in Nat
      /\ \A o \in DOMAIN outs : created[o] = 0
  BY Zenon, ChainAssumption DEF ChainAssumption, NetworkInv, Mine
<1>2. /\ created' = [o \in Outpoint |-> IF o \in DOMAIN outs THEN tip + 1 ELSE created[o]]
      /\ \A o \in Outpoint : txout'[o] = IF o \in DOMAIN outs THEN outs[o] ELSE txout[o]
  BY Zenon DEF Mine
<1>3. tip' \in 0 .. MaxTip /\ tip <= tip' /\ created' \in [Outpoint -> 0 .. tip']
  BY <1>1, <1>2
<1>4. \A o \in Outpoint : created[o] # 0 => created'[o] = created[o] /\ txout'[o] = txout[o]
  BY Zenon, <1>1, <1>2
<1>5. \A o \in Outpoint : created[o] = 0 /\ created'[o] # 0 =>
        o \in DOMAIN outs /\ txout'[o] = outs[o]
  BY ZenonT(40), <1>2
<1>6. \A o \in Outpoint : created[o] = 0 /\ created'[o] # 0 => created'[o] > tip
  BY <1>1, <1>2
<1> QED
  BY ZenonT(40), <1>1, <1>3, <1>4, <1>5, <1>6 DEF Grows

\* A script is watched, or is that of change which a killed client had sent.
InSight(script, keys) ==
  \/ script \in Script /\ keys[script] # NoKey
  \/ "sent" \in killed /\ script # ReceiveScript

\* A block with outputs that are in sight of the client, running or stored.
LEMMA MinedStep ==
  ASSUME RestoreInv, UNCHANGED <<wallet_hist, state_vars, sync_vars, scanned, op, step, db, killed>>,
         NEW outs, NEW S, Mine(outs, S),
         \A o \in DOMAIN outs :
           /\ Restorable /\ db["wallet"].pubkeyMap[ReceiveScript] # NoKey
           /\ step # "down" => InSight(outs[o].script, pubkeyMap)
           /\ ~SentUnstored => InSight(outs[o].script, db["wallet"].pubkeyMap)
  PROVE  RestoreInv'
<1>1. /\ UNCHANGED <<pubkeyMap, changeDepth, utxoMap, scanned, txs>>
      /\ UNCHANGED <<lastBlockHeight, lastBlockHash, pc, n, block, counter, op, step, db, killed>>
  BY Zenon DEF wallet_hist, wallet_vars, state_vars, sync_vars
<1>2. MemoryInv /\ DbInv /\ StoredInv /\ NetworkInv
  BY Zenon DEF RestoreInv
<1>3. /\ Grows /\ tip' = tip + 1
      /\ \A o \in Outpoint : created[o] = 0 /\ created'[o] # 0 =>
           o \in DOMAIN outs /\ txout'[o] = outs[o]
  BY Zenon, <1>1, <1>2, MineGrows
<1>4. step # "down" => NewWatched(pubkeyMap)
  BY Zenon, <1>1, <1>3 DEF NewWatched, InSight
<1>5. ~SentUnstored => NewWatched(db["wallet"].pubkeyMap)
  BY ZenonT(40), <1>1, <1>3 DEF NewWatched, InSight
<1>6. LoopInv'
  <2>1. LoopTypes /\ LoopInv
    BY Zenon, LoopReady
  <2> QED
    BY <1>1, <1>3, <2>1, ChainAssumption
    DEF ChainAssumption, LoopTypes, LoopInv, StartBlock, EndBlock, HeightMatchesHash, Height
<1>7. MemoryInv'
  <2>1. OnChain(ChainState)' /\ Scanned(scanned, lastBlockHeight)'
    BY ZenonT(40), <1>1, <1>2, <1>3, StateKept
  <2>2. n' \in Nat /\ block' \in Nat /\ counter' \in Nat /\ (pc' # "idle" => step' = "sync")
    BY Zenon, <1>1, <1>2 DEF MemoryInv
  <2> QED
    BY ZenonT(40), <1>1, <1>2, <1>3, <1>4, <1>6, <2>1, <2>2, MemoryKept
<1>8. (SentUnstored' <=> SentUnstored) /\ Unstored' = Unstored
  BY Zenon, <1>1 DEF SentUnstored, Unstored
<1>9. DbInv'
  <2>1. Unstored \in Nat /\ Unstored' \in Nat /\ Unstored' <= Unstored
    BY Zenon, <1>2, <1>8, UnstoredFacts, NatReflexive
  <2> QED
    BY ZenonT(40), <1>1, <1>2, <1>3, <1>5, <1>8, <2>1, DbKept
<1>10. StoredInv'
  <2>1. ChainState' = ChainState /\ WalletState' = WalletState
    BY Zenon, <1>1 DEF ChainState, WalletState
  <2> QED
    BY Zenon, <1>1, <1>2, <2>1, StoredKept
<1>11. NetworkInv'
  <2>1. tip' \in 0 .. MaxTip /\ created' \in [Outpoint -> 0 .. tip']
    BY Zenon, <1>3 DEF Grows
  <2>2. ASSUME NEW o \in Outpoint, created'[o] # 0
        PROVE  Restorable /\ db["wallet"].pubkeyMap[ReceiveScript] # NoKey
    <3>1. CASE created[o] = 0
      BY Zenon, <1>3, <2>2, <3>1
    <3>2. CASE created[o] # 0
      BY Zenon, <1>2, <3>2 DEF NetworkInv
    <3> QED
      BY Zenon, <3>1, <3>2
  <2>3. Restorable' <=> Restorable
    BY Zenon, <1>1 DEF Restorable
  <2> QED
    BY ZenonT(40), <1>1, <1>2, <1>8, <2>1, <2>2, <2>3 DEF NetworkInv
<1> QED
  BY Zenon, <1>7, <1>9, <1>10, <1>11 DEF RestoreInv

\* Payments go to an address that was stored before it was returned, and the change of
\* transactions to scripts that are tracked.
LEMMA NetworkStep ==
  ASSUME RestoreInv, Network, killed' = killed
  PROVE  RestoreInv'
<1>1. UNCHANGED <<wallet_hist, state_vars, sync_vars, scanned, op, step, db, killed>>
  BY Zenon DEF Network
<1>2. MemoryInv /\ DbInv /\ StoredInv /\ NetworkInv
  BY Zenon DEF RestoreInv
<1>3. ReceiveScript \in Script
  BY Zenon DEF Script
<1>4. ASSUME Restorable, db["wallet"].pubkeyMap[ReceiveScript] # NoKey
      PROVE  /\ step # "down" => InSight(ReceiveScript, pubkeyMap)
             /\ InSight(ReceiveScript, db["wallet"].pubkeyMap)
  BY Zenon, <1>2, <1>3, <1>4 DEF DbInv, InSight
<1>5. CASE MinePayment
  <2>1. PICK o \in NewOutpoint, a \in Amount :
          Mine([x \in {o} |-> [script |-> ReceiveScript, amount |-> a]], {})
    BY Zenon, <1>5 DEF MinePayment
  <2> DEFINE outs == [x \in {o} |-> [script |-> ReceiveScript, amount |-> a]]
  <2>2. \A x \in DOMAIN outs : outs[x].script = ReceiveScript
    BY Zenon
  <2>3. Restorable /\ db["wallet"].pubkeyMap[ReceiveScript] # NoKey
    BY Zenon, <1>5 DEF MinePayment
  <2>4. Mine(outs, {})
    BY Zenon, <2>1
  <2> HIDE DEF outs
  <2> QED
    BY Zenon, <1>1, <1>4, <2>2, <2>3, <2>4, MinedStep
<1>6. CASE MineTransaction
  <2>1. PICK i \in Sent :
          IF txs[i].change = 0
            THEN Mine([x \in {} |-> NoTxOut], txs[i].inputs)
            ELSE \E o \in NewOutpoint :
                   Mine([x \in {o} |-> [script |-> txs[i].changeScript,
                                        amount |-> txs[i].change]], txs[i].inputs)
    BY Zenon, <1>6 DEF MineTransaction
  <2>2. i \in 1 .. Len(txs) /\ (~SentUnstored => i \in 1 .. Unstored) /\ Len(txs) \in Nat
    BY <1>2, SentFacts DEF Unstored, Sent, NumSent
  <2>3. Restorable /\ db["wallet"].pubkeyMap[ReceiveScript] # NoKey
    <3>1. txs # <<>>
      BY <2>2
    <3> QED
      BY Zenon, <1>2, <3>1 DEF NetworkInv
  <2>4. step # "down" => InSight(txs[i].changeScript, pubkeyMap)
    <3>1. step # "down" => Tracks(pubkeyMap, changeDepth, Len(txs))
      BY Zenon, <1>2 DEF MemoryInv
    <3>2. CASE "sent" \notin killed
      BY Zenon, <2>2, <3>1, <3>2 DEF Tracks, InSight
    <3>3. CASE "sent" \in killed
      BY Zenon, <1>4, <2>3, <3>3 DEF InSight
    <3> QED
      BY Zenon, <3>2, <3>3
  <2>5. ~SentUnstored => InSight(txs[i].changeScript, db["wallet"].pubkeyMap)
    <3>1. Tracks(db["wallet"].pubkeyMap, db["wallet"].changeDepth, Unstored)
      BY Zenon, <1>2, <2>3 DEF DbInv
    <3>2. CASE "sent" \notin killed
      BY Zenon, <2>2, <3>1, <3>2 DEF Tracks, InSight
    <3>3. CASE "sent" \in killed
      BY Zenon, <1>4, <2>3, <3>3 DEF InSight
    <3> QED
      BY Zenon, <3>2, <3>3
  <2>6. CASE txs[i].change = 0
    <3>1. Mine([x \in {} |-> NoTxOut], txs[i].inputs)
      BY Zenon, <2>1, <2>6
    <3>2. DOMAIN [x \in {} |-> NoTxOut] = {}
      BY Zenon
    <3> QED
      BY Zenon, <1>1, <3>1, <3>2, MinedStep
  <2>7. CASE txs[i].change # 0
    <3>1. PICK o \in NewOutpoint :
            Mine([x \in {o} |-> [script |-> txs[i].changeScript,
                                 amount |-> txs[i].change]], txs[i].inputs)
      BY Zenon, <2>1, <2>7
    <3> DEFINE outs == [x \in {o} |-> [script |-> txs[i].changeScript,
                                       amount |-> txs[i].change]]
    <3>2. \A x \in DOMAIN outs : outs[x].script = txs[i].changeScript
      BY Zenon
    <3>3. Mine(outs, txs[i].inputs)
      BY Zenon, <3>1
    <3> HIDE DEF outs
    <3>4. \A x \in DOMAIN outs :
            /\ Restorable /\ db["wallet"].pubkeyMap[ReceiveScript] # NoKey
            /\ step # "down" => InSight(outs[x].script, pubkeyMap)
            /\ ~SentUnstored => InSight(outs[x].script, db["wallet"].pubkeyMap)
      BY Zenon, <2>3, <2>4, <2>5, <3>2
    <3> QED
      BY ZenonT(40), <1>1, <3>3, <3>4, MinedStep
  <2> QED
    BY Zenon, <2>6, <2>7
<1>7. CASE MineOther
  <2>1. Mine([x \in {} |-> NoTxOut], {})
    BY Zenon, <1>7 DEF MineOther
  <2>2. DOMAIN [x \in {} |-> NoTxOut] = {}
    BY Zenon
  <2> QED
    BY Zenon, <1>1, <2>1, <2>2, MinedStep
<1> QED
  BY Zenon, <1>5, <1>6, <1>7 DEF Network

-----------------------------------------------------------------------------
(* The invariant, and what follows *)

\* Nothing happens.
LEMMA StutterStep == ASSUME RestoreInv, UNCHANGED vars PROVE RestoreInv'
<1>1. /\ UNCHANGED <<pubkeyMap, changeDepth, utxoMap, scanned, txs, tip, created, txout>>
      /\ UNCHANGED <<lastBlockHeight, lastBlockHash, pc, n, block, counter, op, step, db, killed>>
  BY Zenon DEF vars, chain_vars, wallet_hist, wallet_vars, peer_vars, state_vars, sync_vars
<1>2. MemoryInv'
  <2>1. (Kept(utxoMap, scanned) /\ LoopInv)'
    BY ZenonT(40), <1>1 DEF RestoreInv, MemoryInv, Kept, IsUtxo, LoopInv, StartBlock, EndBlock
  <2>2. (OnChain(ChainState) /\ Scanned(scanned, lastBlockHeight))'
    BY ZenonT(40), <1>1 DEF RestoreInv, MemoryInv, OnChain, ChainState, Scanned
  <2>3. (step # "down" => Watches(pubkeyMap))'
    BY ZenonT(40), <1>1 DEF RestoreInv, MemoryInv, Watches
  <2>4. Tracks(pubkeyMap, changeDepth, IF step = "down" THEN 0 ELSE Len(txs))'
    BY ZenonT(40), <1>1 DEF RestoreInv, MemoryInv, Tracks
  <2> QED
    BY ZenonT(40), <1>1, <2>1, <2>2, <2>3, <2>4 DEF RestoreInv, MemoryInv
<1>3. DbInv'
  <2>1. Grows /\ \A keys : NewWatched(keys)
    BY Zenon, <1>1, NothingNew
  <2>2. (SentUnstored' <=> SentUnstored) /\ Unstored' = Unstored
    BY Zenon, <1>1 DEF SentUnstored, Unstored
  <2>3. Unstored \in Nat /\ Unstored' \in Nat /\ Unstored' <= Unstored
    BY Zenon, <2>2, UnstoredFacts, NatReflexive DEF RestoreInv
  <2> QED
    BY ZenonT(40), <1>1, <2>1, <2>2, <2>3, DbKept DEF RestoreInv
<1>4. StoredInv'
  <2>1. ChainState' = ChainState /\ WalletState' = WalletState
    BY Zenon, <1>1 DEF ChainState, WalletState
  <2> QED
    BY Zenon, <1>1, <2>1, StoredKept DEF RestoreInv
<1>5. NetworkInv'
  <2>1. (Restorable' <=> Restorable) /\ (SentUnstored' <=> SentUnstored)
    BY Zenon, <1>1 DEF Restorable, SentUnstored
  <2> QED
    BY ZenonT(40), <1>1, <2>1 DEF RestoreInv, NetworkInv
<1> QED
  BY Zenon, <1>2, <1>3, <1>4, <1>5 DEF RestoreInv

\* Every step of the client and of the network keeps the invariant.
LEMMA NextInv == ASSUME RestoreInv, [Next]_vars PROVE RestoreInv'
<1>1. ASSUME Alive, killed' = killed PROVE RestoreInv'
  <2>1. CASE Syncing
    <3>1. /\ step = "sync" /\ UNCHANGED <<op, step, db>>
          /\ FetchHeaders \/ ScanBatch \/ FinishRound \/ SyncFails
      BY Zenon, <2>1 DEF Syncing, SyncStep
    <3>2. CASE FetchHeaders \/ SyncFails
      BY ZenonT(40), <1>1, <3>1, <3>2, SyncControlStep
    <3> QED
      BY ZenonT(40), <1>1, <3>1, <3>2, ScanBatchNode, FinishRoundNode
  <2>2. CASE AfterSync
    <3>1. db' = db
      BY Zenon, <2>2 DEF AfterSync
    <3> QED
      BY ZenonT(40), <1>1, <2>2, <3>1, SyncControlStep
  <2>3. CASE New \/ Restore \/ CallGetReceiveAddress \/ Network
    BY ZenonT(40), <1>1, <2>3, NewStep, RestoreStep, CallGetReceiveAddressStep, NetworkStep
  <2>4. CASE \E call \in {"balance", "send_to_address"} : CallSync(call)
    BY Zenon, <1>1, <2>4, CallSyncStep
  <2>5. CASE Create \/ Send \/ CreatePanics \/ SendPanics
    BY Zenon, <1>1, <2>5, CreateStep, SendStep, PanicStep
  <2>6. CASE StoreChain \/ StoreWallet \/ StoreSigner \/ StoreNode
    BY Zenon, <1>1, <2>6, StoreChainStep, StoreWalletStep, StoreOthersStep
  <2> QED
    BY ZenonT(40), <1>1, <2>1, <2>2, <2>3, <2>4, <2>5, <2>6 DEF Alive
<1> QED
  BY Zenon, <1>1, CrashStep, StutterStep DEF Next
-----------------------------------------------------------------------------
(* The books: what the wallet has, and what of it is spent *)

\* What is spent stays spent, by blocks that were new when they spent it.
SpentGrows ==
  /\ spent' \in [Outpoint -> 0 .. tip']
  /\ \A o \in Outpoint : spent[o] # 0 => spent'[o] = spent[o]
  /\ \A o \in Outpoint : spent[o] = 0 /\ spent'[o] # 0 => spent'[o] \in Height /\ spent'[o] > tip

\* It does when no block is mined.
LEMMA SpentStays ==
  ASSUME BooksInv, UNCHANGED <<tip, spent>>
  PROVE  SpentGrows
BY Zenon DEF BooksInv, SpentGrows

\* A wallet does not take an output for spent because a new block spends it.
LEMMA BookedGrows ==
  ASSUME NEW utxos, NEW scans, Grows, SpentGrows, Kept(utxos, scans), Booked(utxos, scans)
  PROVE  Booked(utxos, scans)'
<1> SUFFICES ASSUME "sent" \notin killed, NEW o \in Outpoint, utxos[o] # NoUtxo
             PROVE  /\ scans[created'[o]].from # 0 /\ utxos[o].amount = txout'[o].amount
                    /\ utxos[o].isSpent <=> spent'[o] # 0 /\ scans[spent'[o]].from # 0
  BY Zenon DEF Booked, Grows
<1>1. created'[o] = created[o] /\ txout'[o] = txout[o]
  BY Zenon DEF Kept, Grows
<1>2. /\ scans[created[o]].from # 0 /\ utxos[o].amount = txout[o].amount
      /\ utxos[o].isSpent <=> spent[o] # 0 /\ scans[spent[o]].from # 0
  BY Zenon DEF Booked
<1>3. CASE spent[o] # 0
  BY Zenon, <1>1, <1>2, <1>3 DEF SpentGrows
<1>4. CASE spent[o] = 0
  <2>1. ASSUME spent'[o] # 0 PROVE scans[spent'[o]].from = 0
    <3>1. scans[spent'[o]] = NotScanned
      BY Zenon, <1>4, <2>1 DEF SpentGrows, Kept
    <3> QED
      BY <3>1 DEF NotScanned
  <2> QED
    BY ZenonT(40), <1>1, <1>2, <1>4, <2>1
<1> QED
  BY Zenon, <1>3, <1>4

\* A wallet keeps the inputs of its transactions, and the chain state does not go back.
LEMMA SpendsGrows ==
  ASSUME NEW utxos, NEW scans, NEW utxos2, NEW height \in Nat, NEW height2 \in Nat,
         NEW k \in Nat, NEW m \in Nat,
         Grows, Kept(utxos, scans), Spends(utxos, height, k),
         \A o \in Outpoint : utxos[o] # NoUtxo => utxos2[o] # NoUtxo,
         height <= height2,
         "sent" \notin killed' => m <= k /\ \A i \in 1 .. m : txs'[i] = txs[i]
  PROVE  Spends(utxos2, height2, m)'
<1> SUFFICES ASSUME "sent" \notin killed', NEW i \in 1 .. m, NEW o \in txs'[i].inputs
             PROVE  o \in Outpoint /\ utxos2[o] # NoUtxo /\ created'[o] <= height2
  BY ZenonT(40) DEF Spends
<1>1. i \in 1 .. k /\ txs'[i] = txs[i] /\ "sent" \notin killed
  BY DEF Grows
<1>2. o \in Outpoint /\ utxos[o] # NoUtxo /\ created[o] <= height
  BY ZenonT(40), <1>1 DEF Spends
<1>3. created'[o] = created[o] /\ created[o] \in Nat
  BY SMTT(30), <1>2 DEF Kept, Grows
<1>4. created[o] <= height2
  BY <1>2, <1>3
<1> QED
  BY Zenon, <1>2, <1>3, <1>4

\* No block is scanned beyond the end of the chain, where it matters.
LEMMA SettledQuiet ==
  ASSUME pc' \notin {"filters", "synced"}, step' # "create",
         ~(op' = "balance" /\ step' \in StoreStep)
  PROVE  Settled'
BY Zenon DEF Settled

\* The height of the chain state, and the transactions the client knows of.
LEMMA BooksTypes ==
  ASSUME RestoreInv
  PROVE  /\ Kept(utxoMap, scanned) /\ lastBlockHeight \in Nat /\ NetworkInv
         /\ (IF step = "down" THEN 0 ELSE Len(txs)) \in Nat /\ Unstored \in Nat
         /\ Restorable => /\ Kept(db["wallet"].utxoMap, db["wallet"].scanned)
                          /\ db["chain"].height \in Nat
<1>1. MemoryInv /\ DbInv /\ NetworkInv
  BY Zenon DEF RestoreInv
<1>2. Len(txs) \in Nat /\ Unstored \in Nat
  BY Zenon, <1>1, UnstoredFacts
<1>3. (IF step = "down" THEN 0 ELSE Len(txs)) \in Nat
  BY <1>2
<1>4. lastBlockHeight \in Nat
  BY <1>1 DEF MemoryInv, OnChain, ChainState
<1> QED
  BY ZenonT(40), <1>1, <1>2, <1>3, <1>4 DEF MemoryInv, DbInv, OnChain

\* A step that leaves the wallet, the transactions and the database as they are.
LEMMA BooksQuiet ==
  ASSUME RestoreInv, BooksInv, Grows, SpentGrows,
         UNCHANGED <<utxoMap, scanned, txs, db>>,
         \A o \in Outpoint : spent[o] = 0 /\ spent'[o] # 0 => \E i \in Sent : o \in txs[i].inputs,
         Sent \subseteq Sent', Unstored' = Unstored,
         (IF step' = "down" THEN 0 ELSE Len(txs')) = (IF step = "down" THEN 0 ELSE Len(txs)),
         lastBlockHeight' \in Nat, lastBlockHeight <= lastBlockHeight', Settled'
  PROVE  BooksInv'
<1>1. /\ Kept(utxoMap, scanned) /\ lastBlockHeight \in Nat
      /\ (IF step = "down" THEN 0 ELSE Len(txs)) \in Nat /\ Unstored \in Nat
      /\ Restorable => /\ Kept(db["wallet"].utxoMap, db["wallet"].scanned)
                       /\ db["chain"].height \in Nat
  BY Zenon, BooksTypes
<1>2. \A o \in Outpoint : spent'[o] # 0 => \E i \in Sent' : o \in txs'[i].inputs
  <2>1. ASSUME NEW o \in Outpoint, spent'[o] # 0
        PROVE  \E i \in Sent : o \in txs[i].inputs
    BY ZenonT(40), <2>1 DEF BooksInv
  <2> QED
    BY Zenon, <2>1
<1>3. Booked(utxoMap, scanned)'
  <2>1. Booked(utxoMap, scanned)
    BY ZenonT(40) DEF BooksInv
  <2> QED
    BY <1>1, <2>1, BookedGrows
<1>4. Spends(utxoMap, lastBlockHeight, IF step = "down" THEN 0 ELSE Len(txs))'
  <2>1. PICK k \in Nat : k = (IF step = "down" THEN 0 ELSE Len(txs))
    BY Zenon, <1>1
  <2>2. Spends(utxoMap, lastBlockHeight, k)
    BY ZenonT(40), <2>1 DEF BooksInv
  <2>3. k <= k
    OBVIOUS
  <2>4. ASSUME NEW u, u = utxoMap, NEW h \in Nat, h = lastBlockHeight' PROVE Spends(u, h, k)'
    <3>1. Kept(u, scanned) /\ Spends(u, lastBlockHeight, k)
      BY ZenonT(40), <1>1, <2>2, <2>4
    <3> QED
      BY ZenonT(40), <1>1, <2>3, <2>4, <3>1, SpendsGrows
  <2>5. Spends(utxoMap, lastBlockHeight, k)'
    BY <2>4
  <2> QED
    BY <2>1, <2>5
<1>5. ASSUME Restorable
      PROVE  /\ Booked(db["wallet"].utxoMap, db["wallet"].scanned)'
             /\ Spends(db["wallet"].utxoMap, db["chain"].height, Unstored)'
  <2>1. /\ Booked(db["wallet"].utxoMap, db["wallet"].scanned)
        /\ Spends(db["wallet"].utxoMap, db["chain"].height, Unstored)
    BY ZenonT(40), <1>5 DEF BooksInv
  <2>2. Booked(db["wallet"].utxoMap, db["wallet"].scanned)'
    BY SMTT(30), <1>1, <1>5, <2>1, BookedGrows
  <2>3. ASSUME NEW u, u = db["wallet"].utxoMap, NEW h \in Nat, h = db["chain"].height,
               NEW k \in Nat, k = Unstored
        PROVE  Spends(u, h, k)'
    <3>1. Kept(u, db["wallet"].scanned) /\ Spends(u, h, k)
      BY ZenonT(40), <1>1, <1>5, <2>1, <2>3
    <3>2. k <= k /\ h <= h
      BY SMTT(30)
    <3> QED
      BY ZenonT(40), <3>1, <3>2, SpendsGrows
  <2>4. Spends(db["wallet"].utxoMap, db["chain"].height, Unstored)'
    BY <1>1, <1>5, <2>3
  <2> QED
    BY Zenon, <2>2, <2>4
<1>6. Restorable' <=> Restorable
  BY Zenon DEF Restorable
<1> QED
  BY ZenonT(40), <1>2, <1>3, <1>4, <1>5, <1>6 DEF BooksInv, SpentGrows

\* The steps of a call that do not touch the wallet: it begins, sync_state gets headers,
\* fails or returns, the address is given out, the transaction is sent.
LEMMA BooksControl ==
  ASSUME RestoreInv, BooksInv, killed' = killed,
         \/ New
         \/ \E call \in {"balance", "send_to_address"} : CallSync(call)
         \/ CallGetReceiveAddress
         \/ step = "sync" /\ UNCHANGED <<op, step, db>> /\ (FetchHeaders \/ SyncFails)
         \/ AfterSync
         \/ Send
  PROVE  BooksInv'
<1>1. /\ UNCHANGED <<utxoMap, scanned, txs, tip, created, txout, spent>>
      /\ UNCHANGED <<lastBlockHeight, lastBlockHash, db>>
  BY Zenon DEF New, CallSync, StartSync, CallGetReceiveAddress, GetReceiveAddress, FetchHeaders,
     SyncFails, AfterSync, SyncReturns, Send, chain_vars, wallet_hist, wallet_vars, peer_vars,
     state_vars
<1>2. Grows /\ SpentGrows
  <2>1. Grows
    BY ZenonT(40), <1>1, NothingNew
  <2> QED
    BY ZenonT(40), <1>1, <2>1, SpentStays
<1>3. /\ \/ step = "down" /\ step' = "ready" /\ txs = <<>>
         \/ step = "ready" /\ step' = "sync"
         \/ step = "ready" /\ step' = "store chain" /\ op' = "get_receive_address"
         \/ step = "sync" /\ step' = "sync"
         \/ step = "sync" /\ step' \in {"ready", "create"}
         \/ step = "sync" /\ step' = "store chain" /\ op' = "balance"
         \/ step = "send" /\ step' = "store chain" /\ op = "send_to_address" /\ op' = op
  <2>1. New => step = "down" /\ step' = "ready" /\ txs = <<>>
    BY ZenonT(40) DEF New, RestoreInv, NetworkInv
  <2>2. (\E call \in {"balance", "send_to_address"} : CallSync(call)) =>
          step = "ready" /\ step' = "sync"
    BY Zenon DEF CallSync, Goto
  <2>3. CallGetReceiveAddress =>
          step = "ready" /\ step' = "store chain" /\ op' = "get_receive_address"
    BY ZenonT(40) DEF CallGetReceiveAddress, Goto
  <2>4. AfterSync => \/ step = "sync" /\ step' \in {"ready", "create"}
                     \/ step = "sync" /\ step' = "store chain" /\ op' = "balance"
    BY Zenon DEF AfterSync
  <2>5. Send => step = "send" /\ step' = "store chain" /\ op = "send_to_address" /\ op' = op
    <3>1. Send => step = "send" /\ step' = "store chain" /\ op' = op
      BY ZenonT(40) DEF Send, Goto
    <3>2. step = "send" => op = "send_to_address"
      BY DEF RestoreInv, NetworkInv
    <3> QED
      BY ZenonT(40), <3>1, <3>2
  <2> QED
    BY ZenonT(40), <2>1, <2>2, <2>3, <2>4, <2>5
<1>4. Len(txs) \in Nat /\ (txs = <<>> => Len(txs) = 0)
  BY SMTT(30), UnstoredFacts DEF RestoreInv
<1>5. /\ Unstored' = Unstored
      /\ (IF step' = "down" THEN 0 ELSE Len(txs')) = (IF step = "down" THEN 0 ELSE Len(txs))
  BY ZenonT(40), <1>1, <1>3, <1>4 DEF Unstored, SentUnstored
<1>6. Sent \subseteq Sent'
  <2>1. NumSent \in Nat /\ NumSent' \in Nat /\ NumSent <= NumSent'
    <3>1. NumSent \in Nat /\ NumSent <= Len(txs)
      BY SentFacts DEF RestoreInv
    <3>2. NumSent' = Len(txs)
      BY Zenon, <1>1, <1>3 DEF NumSent
    <3> QED
      BY <1>4, <3>1, <3>2
  <2> QED
    BY <2>1 DEF Sent
<1>7. Settled'
  <2>1. CASE FetchHeaders /\ step' = "sync"
    <3>1. /\ n' = Min({MaxHeaders, tip - lastBlockHash})
          /\ pc' = IF n' = 0 THEN "synced" ELSE "filters"
      BY ZenonT(40), <2>1 DEF FetchHeaders
    <3>2. /\ MaxHeaders \in Nat \ {0} /\ tip \in Nat /\ lastBlockHash \in Nat
          /\ lastBlockHash <= tip /\ lastBlockHeight = lastBlockHash
          /\ \A h \in Height : h > tip => scanned[h] = NotScanned
      <4>1. LoopTypes /\ LoopInv
        BY ZenonT(40), LoopReady
      <4> QED
        BY <4>1, ChainAssumption DEF ChainAssumption, LoopTypes, LoopInv, HeightMatchesHash
    <3>3. n' = IF MaxHeaders <= tip - lastBlockHash THEN MaxHeaders ELSE tip - lastBlockHash
      BY SMTT(30), <3>1, <3>2, MinPair
    <3>4. step' = "sync" /\ "sync" \notin StoreStep
      BY SMTT(30), <2>1 DEF StoreStep
    <3>5. pc' = "synced" => lastBlockHeight' = tip
      BY SMTT(30), <1>1, <3>1, <3>2, <3>3
    <3>6. n' < MaxHeaders => EndBlock' = tip
      BY SMTT(30), <1>1, <3>2, <3>3 DEF EndBlock, StartBlock
    <3> QED
      BY SMTT(30), <1>1, <3>2, <3>4, <3>5, <3>6 DEF Settled
  <2>2. CASE AfterSync
    <3>1. pc' = "idle" /\ step = "sync"
      BY ZenonT(40), <2>2 DEF AfterSync, SyncReturns
    <3>2. step' = "create" \/ step' \in StoreStep => pc = "synced"
      BY Zenon, <2>2 DEF AfterSync, SyncReturns, StoreStep
    <3>3. pc' # "filters" /\ pc' # "synced"
      BY <3>1
    <3> QED
      BY ZenonT(40), <1>1, <3>2, <3>3 DEF Settled, BooksInv
  <2>3. CASE ~AfterSync /\ ~(FetchHeaders /\ step' = "sync")
    <3>1. pc' \notin {"filters", "synced"}
      <4>1. pc # "idle" => step = "sync"
        BY ZenonT(40) DEF RestoreInv, MemoryInv
      <4>2. CASE SyncFails \/ \E call \in {"balance", "send_to_address"} : CallSync(call)
        BY <4>2 DEF SyncFails, CallSync, StartSync
      <4>3. CASE New \/ CallGetReceiveAddress \/ Send
        <5>1. pc' = pc /\ step \in {"down", "ready", "send"}
          BY ZenonT(40), <4>3 DEF New, CallGetReceiveAddress, Send, Goto, chain_vars, sync_vars
        <5> QED
          BY SMTT(30), <4>1, <5>1
      <4> QED
        BY ZenonT(40), <2>3, <4>2, <4>3
    <3>2. step' # "create" /\ ~(op' = "balance" /\ step' \in StoreStep)
      BY ZenonT(40), <2>3
      DEF New, CallSync, CallGetReceiveAddress, Send, Goto, StoreStep, RestoreInv, NetworkInv
    <3> QED
      BY ZenonT(40), <3>1, <3>2, SettledQuiet
  <2> QED
    BY ZenonT(40), <2>1, <2>2, <2>3
<1>8. lastBlockHeight' \in Nat /\ lastBlockHeight <= lastBlockHeight'
  BY <1>1, BooksTypes
<1>9. \A o \in Outpoint : ~(spent[o] = 0 /\ spent'[o] # 0)
  BY Zenon, <1>1
<1> QED
  BY ZenonT(40), <1>1, <1>2, <1>5, <1>6, <1>7, <1>8, <1>9, BooksQuiet

\* The chain state moves to the end of a round: where that is the end of the chain, all is
\* scanned.
LEMMA BooksFinish ==
  ASSUME RestoreInv, BooksInv, UNCHANGED <<op, step, db, killed>>, step = "sync", FinishRound
  PROVE  BooksInv'
<1>1. /\ UNCHANGED <<utxoMap, scanned, txs, tip, created, txout, spent, n, block, counter>>
      /\ pc = "filters" /\ lastBlockHeight' = EndBlock
      /\ pc' = IF n < MaxHeaders THEN "synced" ELSE "headers"
  BY Zenon DEF FinishRound, wallet_hist, wallet_vars, peer_vars
<1>2. Grows /\ SpentGrows
  <2>1. Grows
    BY ZenonT(40), <1>1, NothingNew
  <2> QED
    BY ZenonT(40), <1>1, <2>1, SpentStays
<1>3. lastBlockHeight' \in Nat /\ lastBlockHeight <= lastBlockHeight'
  <2>1. EndBlock = lastBlockHeight + n /\ lastBlockHeight \in Nat /\ n \in Nat
    BY ZenonT(40), <1>1, LoopReady, BatchRange
  <2> QED
    BY <1>1, <2>1
<1>4. Settled'
  <2>1. pc' # "filters" /\ (pc' = "synced" => n < MaxHeaders)
    BY <1>1
  <2>2. step' # "create" /\ step' \notin StoreStep
    BY DEF StoreStep
  <2> QED
    BY ZenonT(40), <1>1, <2>1, <2>2 DEF Settled, BooksInv
<1>5. Sent' = Sent /\ Unstored' = Unstored
  BY Zenon, <1>1 DEF Sent, NumSent, Unstored, SentUnstored
<1> QED
  BY ZenonT(40), <1>1, <1>2, <1>3, <1>4, <1>5, BooksQuiet

\* What insert_utxos makes of an output: it is spent if the wallet had it and the batch
\* spends it, and is not if the batch has it and does not.
LEMMA InsertedBooks ==
  ASSUME NEW from, NEW to, utxoMap' = Inserted(FoundUtxos(from, to)),
         NEW o \in Outpoint, o \in Known => IsUtxo(utxoMap[o])
  PROVE  /\ o \in Known /\ spent[o] \in from .. to =>
              utxoMap'[o].isSpent = TRUE /\ utxoMap'[o].amount = utxoMap[o].amount
         /\ o \in Known /\ spent[o] \notin from .. to /\ o \in Found(from, to) =>
              utxoMap'[o].isSpent = FALSE /\ utxoMap'[o].amount = utxoMap[o].amount
         /\ o \in Known /\ spent[o] \notin from .. to /\ o \notin Found(from, to) =>
              utxoMap'[o] = utxoMap[o]
         /\ o \notin Known /\ o \in Found(from, to) =>
              utxoMap'[o].isSpent = FALSE /\ utxoMap'[o].amount = txout[o].amount
<1> DEFINE Spent == {x \in Known : spent[x] \in from .. to}
           F     == Found(from, to)
           news  == FoundUtxos(from, to)
<1>1. /\ DOMAIN news = F \cup Spent
      /\ o \in F \cup Spent =>
           news[o] = [script |-> txout[o].script, amount |-> txout[o].amount,
                      isSpent |-> o \in Spent]
  BY Zenon DEF FoundUtxos
<1>2. utxoMap'[o] = IF o \notin DOMAIN news THEN utxoMap[o]
                    ELSE IF o \in Known THEN [utxoMap[o] EXCEPT !.isSpent = news[o].isSpent]
                    ELSE [script  |-> news[o].script,
                          amount  |-> news[o].amount,
                          key     |-> pubkeyMap[news[o].script],
                          isSpent |-> news[o].isSpent]
  BY Zenon DEF Inserted
<1>3. o \in Spent <=> o \in Known /\ spent[o] \in from .. to
  BY Zenon
<1> HIDE DEF news, Spent, F
<1>4. o \in F \cup Spent =>
        /\ news[o].amount = txout[o].amount
        /\ o \in Spent => news[o].isSpent = TRUE
        /\ o \notin Spent => news[o].isSpent = FALSE
  <2>1. CASE o \in Spent
    <3>1. (o \in Spent) = TRUE
      BY Zenon, <2>1
    <3>2. o \in F \cup Spent => news[o] = [script |-> txout[o].script, amount |-> txout[o].amount,
                                           isSpent |-> TRUE]
      BY ZenonT(40), <1>1, <3>1
    <3> QED
      BY <2>1, <3>2
  <2>2. CASE o \notin Spent
    <3>1. (o \in Spent) = FALSE
      BY <2>2
    <3>2. o \in F \cup Spent => news[o] = [script |-> txout[o].script, amount |-> txout[o].amount,
                                           isSpent |-> FALSE]
      BY Zenon, <1>1, <3>1
    <3> QED
      BY SMTT(30), <2>2, <3>2
  <2> QED
    BY ZenonT(40), <2>1, <2>2
<1>5. ASSUME NEW b, o \in Known
      PROVE  /\ [utxoMap[o] EXCEPT !.isSpent = b].isSpent = b
             /\ [utxoMap[o] EXCEPT !.isSpent = b].amount = utxoMap[o].amount
  <2>1. PICK u : u = utxoMap[o]
    BY SMTT(30)
  <2>2. u = [script |-> u.script, amount |-> u.amount, key |-> u.key, isSpent |-> u.isSpent]
    BY <1>5, <2>1 DEF IsUtxo
  <2>3. [u EXCEPT !.isSpent = b] = [script |-> u.script, amount |-> u.amount, key |-> u.key, isSpent |-> b]
    BY <2>2
  <2>4. [u EXCEPT !.isSpent = b].isSpent = b /\ [u EXCEPT !.isSpent = b].amount = u.amount
    BY <2>3
  <2> QED
    BY ZenonT(40), <2>1, <2>4
<1>6. ASSUME o \in Known, o \in F \cup Spent
      PROVE  /\ utxoMap'[o].amount = utxoMap[o].amount
             /\ utxoMap'[o].isSpent = news[o].isSpent
  <2>1. utxoMap'[o] = [utxoMap[o] EXCEPT !.isSpent = news[o].isSpent]
    BY ZenonT(40), <1>1, <1>2, <1>6
  <2> QED
    BY ZenonT(40), <1>5, <1>6, <2>1
<1>7. ASSUME o \notin Known, o \in F
      PROVE  utxoMap'[o].isSpent = FALSE /\ utxoMap'[o].amount = txout[o].amount
  <2>1. utxoMap'[o] = [script  |-> news[o].script,
                       amount  |-> news[o].amount,
                       key     |-> pubkeyMap[news[o].script],
                       isSpent |-> news[o].isSpent]
    BY ZenonT(40), <1>1, <1>2, <1>7
  <2>2. utxoMap'[o].isSpent = news[o].isSpent /\ utxoMap'[o].amount = news[o].amount
    BY <2>1
  <2> QED
    BY ZenonT(40), <1>3, <1>4, <1>7, <2>2
<1>8. ASSUME o \in Known, o \notin Spent, o \notin F PROVE utxoMap'[o] = utxoMap[o]
  BY ZenonT(40), <1>1, <1>2, <1>8
<1>9. F = Found(from, to)
  BY DEF F
<1> QED
  BY ZenonT(40), <1>3, <1>4, <1>6, <1>7, <1>8, <1>9

\* A turn of the loop: an output that is spent was there before the blocks that are scanned
\* again, so that a batch cannot take it for unspent.
LEMMA BooksScan ==
  ASSUME RestoreInv, BooksInv, UNCHANGED <<op, step, db, killed>>, step = "sync", ScanBatch
  PROVE  BooksInv'
<1>1. /\ utxoMap' = Inserted(FoundUtxos(block, StopHash))
      /\ UNCHANGED <<txs, tip, txout, created, spent, lastBlockHeight, pc, n>>
      /\ pc = "filters"
  BY Zenon DEF ScanBatch, InsertUtxos, peer_vars, state_vars
<1>2. /\ \A h \in Height :
           /\ h \in block .. StopHash => scanned'[h] = [from |-> block, watched |-> GetPubkeys]
           /\ h \notin block .. StopHash => scanned'[h] = scanned[h]
      /\ StopHash \in Nat /\ StopHash <= tip /\ block \in Nat \ {0}
  BY ZenonT(40), LoopReady, ScanLoop
<1>3. /\ lastBlockHeight \in Nat /\ block >= lastBlockHeight + 1 /\ n \in Nat
      /\ EndBlock = lastBlockHeight + n /\ StopHash <= EndBlock
  <2>1. /\ lastBlockHeight \in Nat /\ block >= lastBlockHeight + 1 /\ n \in Nat
        /\ EndBlock = lastBlockHeight + n /\ FilterSize \in Nat
        /\ StopHash = IF block + FilterSize - 1 <= EndBlock THEN block + FilterSize - 1
                                                            ELSE EndBlock
    <3>1. LoopTypes /\ LoopInv
      BY ZenonT(40), LoopReady
    <3>2. FilterSize \in Nat \ {0} => FilterSize \in Nat
      OBVIOUS
    <3> QED
      BY ZenonT(40), <1>1, <3>1, <3>2, BatchRange
  <2> QED
    BY <1>2, <2>1
<1>4. Kept(utxoMap, scanned) /\ NetworkInv
  BY ZenonT(40), BooksTypes
<1>5. \A h \in Height : scanned[h].from # 0 => scanned'[h].from # 0
  BY <1>2
<1>6. Grows /\ SpentGrows
  <2>1. Grows
    BY ZenonT(40), <1>1, NothingNew
  <2> QED
    BY ZenonT(40), <1>1, <2>1, SpentStays
<1>7. /\ created \in [Outpoint -> 0 .. tip] /\ spent \in [Outpoint -> 0 .. tip]
      /\ tip \in 0 .. MaxTip /\ MaxTip \in Nat
  BY ZenonT(40), <1>4, ChainAssumption DEF ChainAssumption, NetworkInv, BooksInv
<1>8. ASSUME NEW o \in Outpoint, spent[o] # 0, "sent" \notin killed
      PROVE  o \in Known /\ o \notin Found(block, StopHash)
  <2>1. PICK i \in Sent : o \in txs[i].inputs
    BY ZenonT(40), <1>8 DEF BooksInv
  <2>2. i \in 1 .. Len(txs)
    BY <1>4, SentFacts DEF Sent
  <2>3. Spends(utxoMap, lastBlockHeight, Len(txs))
    <3>1. step # "down"
      OBVIOUS
    <3> QED
      BY ZenonT(40), <3>1 DEF BooksInv
  <2>4. o \in Known /\ created[o] <= lastBlockHeight
    BY ZenonT(40), <1>8, <2>1, <2>2, <2>3 DEF Spends, Known
  <2>5. created[o] \notin block .. StopHash
    BY SMTT(30), <1>2, <1>3, <1>7, <2>4
  <2> QED
    BY ZenonT(40), <2>4, <2>5 DEF Found
<1>9. \A o \in Outpoint :
        /\ o \in Known \cup Found(block, StopHash) => utxoMap'[o] # NoUtxo /\ IsUtxo(utxoMap'[o])
        /\ o \notin Known \cup Found(block, StopHash) => utxoMap'[o] = NoUtxo
  <2>1. \A o \in Known : IsUtxo(utxoMap[o])
    BY Zenon, <1>4 DEF Kept, Known
  <2> QED
    BY ZenonT(40), <1>1, <2>1, InsertedKeeps
<1>10. Booked(utxoMap, scanned)'
  <2> SUFFICES ASSUME "sent" \notin killed, NEW o \in Outpoint, utxoMap'[o] # NoUtxo
               PROVE  /\ scanned'[created[o]].from # 0 /\ utxoMap'[o].amount = txout[o].amount
                      /\ utxoMap'[o].isSpent <=> spent[o] # 0 /\ scanned'[spent[o]].from # 0
    BY Zenon, <1>1 DEF Booked
  <2>1. o \in Known \cup Found(block, StopHash)
    BY Zenon, <1>9
  <2>2. o \in Known => /\ scanned[created[o]].from # 0 /\ utxoMap[o].amount = txout[o].amount
                       /\ utxoMap[o].isSpent <=> spent[o] # 0 /\ scanned[spent[o]].from # 0
                       /\ created[o] # 0 /\ IsUtxo(utxoMap[o])
    BY ZenonT(40), <1>4 DEF BooksInv, Booked, Known, Kept
  <2>3. /\ created[o] # 0 => created[o] \in Height
        /\ spent[o] # 0 => spent[o] \in Height
    BY <1>7 DEF Height
  <2>4. scanned'[created[o]].from # 0
    <3>1. CASE o \in Known
      BY ZenonT(40), <1>5, <2>2, <2>3, <3>1
    <3>2. CASE o \in Found(block, StopHash)
      <4>1. created[o] \in block .. StopHash /\ created[o] \in Height
        BY SMTT(30), <1>2, <1>7, <3>2 DEF Found, Height
      <4> QED
        BY SMTT(30), <1>2, <4>1
    <3> QED
      BY ZenonT(40), <2>1, <3>1, <3>2
  <2>5. CASE o \in Known /\ spent[o] \in block .. StopHash
    <3>1. utxoMap'[o].isSpent = TRUE /\ utxoMap'[o].amount = utxoMap[o].amount
      BY ZenonT(40), <1>1, <2>2, <2>5, InsertedBooks
    <3>2. spent[o] # 0
      BY SMTT(30), <1>2, <2>5
    <3>3. scanned'[spent[o]].from # 0
      BY SMTT(30), <1>2, <2>3, <2>5, <3>2
    <3> QED
      BY ZenonT(40), <2>2, <2>4, <2>5, <3>1, <3>2, <3>3
  <2>6. CASE o \in Found(block, StopHash) /\ ~(o \in Known /\ spent[o] \in block .. StopHash)
    <3>1. spent[o] = 0
      BY Zenon, <1>8, <2>6
    <3>2. utxoMap'[o].isSpent = FALSE
      BY ZenonT(40), <1>1, <2>2, <2>6, InsertedBooks
    <3>3. utxoMap'[o].amount = txout[o].amount
      BY ZenonT(40), <1>1, <2>2, <2>6, InsertedBooks
    <3> QED
      BY ZenonT(40), <2>4, <3>1, <3>2, <3>3
  <2>7. CASE o \in Known /\ spent[o] \notin block .. StopHash /\ o \notin Found(block, StopHash)
    <3>1. utxoMap'[o] = utxoMap[o]
      BY ZenonT(40), <1>1, <2>2, <2>7, InsertedBooks
    <3>2. spent[o] # 0 => scanned'[spent[o]] = scanned[spent[o]]
      BY ZenonT(40), <1>2, <2>3, <2>7
    <3> QED
      BY ZenonT(40), <2>2, <2>4, <2>7, <3>1, <3>2
  <2> QED
    BY ZenonT(40), <2>1, <2>5, <2>6, <2>7
<1>11. Spends(utxoMap, lastBlockHeight, IF step = "down" THEN 0 ELSE Len(txs))'
  <2>1. ASSUME NEW o \in Outpoint, utxoMap[o] # NoUtxo PROVE utxoMap'[o] # NoUtxo
    BY ZenonT(40), <1>9, <2>1 DEF Known
  <2>2. Spends(utxoMap, lastBlockHeight, IF step = "down" THEN 0 ELSE Len(txs))
    BY Zenon DEF BooksInv
  <2> QED
    BY ZenonT(40), <1>1, <2>1, <2>2 DEF Spends
<1>12. Settled'
  <2>1. step' # "create" /\ step' \notin StoreStep /\ pc' = "filters" /\ pc' # "synced"
    BY <1>1 DEF StoreStep
  <2>2. ASSUME n < MaxHeaders, NEW h \in Height, h > EndBlock
        PROVE  scanned'[h] = NotScanned
    <3>1. h \notin block .. StopHash
      BY SMTT(30), <1>2, <1>3, <2>2 DEF Height
    <3>2. scanned[h] = NotScanned
      BY ZenonT(40), <1>1, <2>2 DEF BooksInv, Settled
    <3> QED
      BY ZenonT(40), <1>2, <3>1, <3>2
  <2>3. EndBlock' = EndBlock
    BY Zenon, <1>1 DEF EndBlock, StartBlock
  <2> QED
    BY ZenonT(40), <1>1, <2>1, <2>2, <2>3 DEF Settled, Height, NotScanned
<1>13. /\ spent' \in [Outpoint -> 0 .. tip']
       /\ \A o \in Outpoint : spent'[o] # 0 => \E i \in Sent' : o \in txs'[i].inputs
  BY ZenonT(40), <1>1 DEF BooksInv, Sent, NumSent
<1>14. Restorable' => /\ Booked(db["wallet"].utxoMap, db["wallet"].scanned)'
                      /\ Spends(db["wallet"].utxoMap, db["chain"].height, Unstored)'
  BY Zenon, <1>1 DEF BooksInv, Restorable, Booked, Spends, Unstored, SentUnstored
<1> QED
  BY ZenonT(40), <1>10, <1>11, <1>12, <1>13, <1>14 DEF BooksInv

\* create_transaction spends outputs of the wallet, which sync_state has left behind.
LEMMA BooksCreate ==
  ASSUME RestoreInv, BooksInv, Create, killed' = killed
  PROVE  BooksInv'
<1>a. PICK target \in Payment : CreateTransaction(target)
  BY Zenon DEF Create
<1>1. PICK s \in Script, S \in Selections(target) :
        /\ txs' = Append(txs, Transaction(S, target, s))
        /\ UNCHANGED utxoMap
  BY Zenon, <1>a DEF CreateTransaction
<1>2. /\ UNCHANGED <<scanned, tip, created, txout, spent, lastBlockHeight, db, op, pc>>
      /\ step = "create" /\ step' = "send"
  BY Zenon DEF Create, Goto, peer_vars, state_vars, sync_vars
<1>3. /\ Kept(utxoMap, scanned) /\ lastBlockHeight \in Nat /\ NetworkInv
      /\ Restorable => /\ Kept(db["wallet"].utxoMap, db["wallet"].scanned)
                       /\ db["chain"].height \in Nat
  BY ZenonT(40), BooksTypes
<1>4. /\ Len(txs) \in Nat /\ Len(txs') = Len(txs) + 1
      /\ \A i \in 1 .. Len(txs) : txs'[i] = txs[i]
      /\ txs'[Len(txs) + 1].inputs = S
  <2> DEFINE t == Transaction(S, target, s)
  <2>1. t.inputs = S
    BY Zenon DEF Transaction
  <2> HIDE DEF t
  <2>2. txs' = Append(txs, t)
    BY Zenon, <1>1 DEF t
  <2>3. txs \in Seq({txs[i] : i \in 1 .. Len(txs)})
    BY Zenon, <1>3 DEF NetworkInv
  <2> QED
    BY SMTT(30), <2>1, <2>2, <2>3
<1>5. S \subseteq Known
  BY ZenonT(40) DEF Selections, BnbSelections, BnbMatches, DrawSelections, Positive
<1>6. Sent' = Sent /\ Unstored = Len(txs) /\ Unstored' = Len(txs) /\ step' # "down" /\ step # "down"
      /\ Sent = 1 .. Len(txs)
  BY SMTT(30), <1>2, <1>4 DEF Sent, NumSent, Unstored, SentUnstored
<1>7. ASSUME "sent" \notin killed, NEW o \in Known
      PROVE  created[o] <= lastBlockHeight
  <2>1. o \in Outpoint /\ created[o] # 0 /\ scanned[created[o]].from # 0
    BY ZenonT(40), <1>3, <1>7 DEF BooksInv, Booked, Known, Kept
  <2>2. created[o] \in Height /\ created[o] \in Nat
    BY SMTT(30), <1>3, <2>1, ChainAssumption DEF ChainAssumption, NetworkInv, Height
  <2>3. \A h \in Height : h > lastBlockHeight => scanned[h] = NotScanned
    BY ZenonT(40), <1>2 DEF BooksInv, Settled
  <2>4. NotScanned.from = 0
    BY SMTT(30) DEF NotScanned
  <2> QED
    BY SMTT(30), <1>3, <2>1, <2>2, <2>3, <2>4
<1>8. Spends(utxoMap, lastBlockHeight, Len(txs))'
  <2> SUFFICES ASSUME "sent" \notin killed, NEW i \in 1 .. Len(txs')
               PROVE  txs'[i].inputs \subseteq
                        {o \in Outpoint : utxoMap[o] # NoUtxo /\ created[o] <= lastBlockHeight}
    BY ZenonT(40), <1>1, <1>2 DEF Spends
  <2>1. CASE i \in 1 .. Len(txs)
    BY ZenonT(40), <1>4, <1>6, <2>1 DEF BooksInv, Spends
  <2>2. CASE i = Len(txs) + 1
    BY ZenonT(40), <1>4, <1>5, <1>7, <2>2 DEF Known
  <2> QED
    BY <1>4, <2>1, <2>2
<1>9. Spends(utxoMap, lastBlockHeight, IF step = "down" THEN 0 ELSE Len(txs))'
  BY Zenon, <1>6, <1>8 DEF Spends
<1>10. Booked(utxoMap, scanned)'
  BY ZenonT(40), <1>1, <1>2 DEF BooksInv, Booked
<1>11. Settled'
  <2>1. pc' \notin {"filters", "synced"}
    BY <1>2 DEF RestoreInv, MemoryInv
  <2>2. step' # "create" /\ step' \notin StoreStep
    BY <1>2 DEF StoreStep
  <2> QED
    BY ZenonT(40), <2>1, <2>2, SettledQuiet
<1>12. \A o \in Outpoint : spent'[o] # 0 => \E i \in Sent' : o \in txs'[i].inputs
  BY Zenon, <1>2, <1>4, <1>6 DEF BooksInv
<1>13. Restorable' => /\ Booked(db["wallet"].utxoMap, db["wallet"].scanned)'
                      /\ Spends(db["wallet"].utxoMap, db["chain"].height, Unstored)'
  <2>1. Restorable' => Restorable
    BY Zenon, <1>2 DEF Restorable
  <2>2. Restorable => Booked(db["wallet"].utxoMap, db["wallet"].scanned)'
    BY Zenon, <1>2 DEF BooksInv, Booked
  <2>3. Restorable => Spends(db["wallet"].utxoMap, db["chain"].height, Unstored)'
    BY ZenonT(40), <1>2, <1>4, <1>6 DEF BooksInv, Spends
  <2> QED
    BY Zenon, <2>1, <2>2, <2>3
<1> QED
  BY ZenonT(40), <1>2, <1>9, <1>10, <1>11, <1>12, <1>13 DEF BooksInv

\* A client ends: the transactions it has sent and not stored are those killed tells of.
LEMMA BooksEnds ==
  ASSUME RestoreInv, BooksInv, Ends, killed \subseteq killed', SentUnstored => "sent" \in killed'
  PROVE  BooksInv'
<1>1. /\ UNCHANGED <<tip, created, txout, spent, db>>
      /\ step' = "down" /\ op' = "none" /\ pc' = "idle"
      /\ txs' = SubSeq(txs, 1, NumSent)
      /\ utxoMap' = [o \in Outpoint |-> NoUtxo]
  BY Zenon DEF Ends, Load, NewWalletState, peer_vars
<1>2. /\ NetworkInv /\ Unstored \in Nat
      /\ Restorable => /\ Kept(db["wallet"].utxoMap, db["wallet"].scanned)
                       /\ db["chain"].height \in Nat
  BY Zenon, BooksTypes
<1>3. Grows /\ SpentGrows
  <2>1. Grows
    BY Zenon, <1>1, NothingNew
  <2> QED
    BY Zenon, <1>1, <2>1, SpentStays
<1>4. PICK k \in Nat : k = NumSent /\ k <= Len(txs)
  BY Zenon, <1>2, SentFacts
<1>5. Len(txs') = k /\ \A i \in 1 .. k : txs'[i] = txs[i]
  <2>1. txs \in Seq({txs[i] : i \in 1 .. Len(txs)})
    BY Zenon, <1>2 DEF NetworkInv
  <2>2. txs' = SubSeq(txs, 1, k)
    BY Zenon, <1>1, <1>4
  <2>3. k \in Nat /\ k <= Len(txs)
    BY Zenon, <1>4
  <2>4. Len(SubSeq(txs, 1, k)) = k /\ \A i \in 1 .. k : SubSeq(txs, 1, k)[i] = txs[i]
    BY ZenonT(40), <2>1, <2>3, FirstOf
  <2> QED
    BY Zenon, <2>2, <2>4
<1>6. Sent' = Sent /\ Unstored' = k /\ (~SentUnstored => Unstored = k)
  <2>1. NumSent' = k
    BY SMTT(30), <1>1, <1>5 DEF NumSent
  <2>2. ~SentUnstored' /\ step' # "send"
    BY Zenon, <1>1 DEF SentUnstored
  <2>3. Unstored' = k
    BY Zenon, <1>5, <2>2 DEF Unstored
  <2>4. ~SentUnstored => Unstored = k
    BY Zenon, <1>4 DEF Unstored, NumSent
  <2>5. Sent' = Sent
    BY ZenonT(40), <1>4, <2>1 DEF Sent
  <2> QED
    BY ZenonT(40), <2>3, <2>4, <2>5
<1>7. \A o \in Outpoint : spent'[o] # 0 => \E i \in Sent' : o \in txs'[i].inputs
  BY ZenonT(40), <1>1, <1>4, <1>5, <1>6 DEF BooksInv, Sent
<1>8. Settled'
  <2>1. pc' \notin {"filters", "synced"} /\ step' # "create" /\ step' \notin StoreStep
    BY <1>1 DEF StoreStep
  <2> QED
    BY ZenonT(40), <2>1, SettledQuiet
<1>9. Booked(utxoMap, scanned)'
  BY Zenon, <1>1 DEF Booked
<1>10. Spends(utxoMap, lastBlockHeight, IF step = "down" THEN 0 ELSE Len(txs))'
  <2>1. \A i : i \notin 1 .. 0
    OBVIOUS
  <2> QED
    BY Zenon, <1>1, <2>1 DEF Spends
<1>11. ASSUME Restorable
       PROVE  /\ Booked(db["wallet"].utxoMap, db["wallet"].scanned)'
              /\ Spends(db["wallet"].utxoMap, db["chain"].height, Unstored)'
  <2>1. Booked(db["wallet"].utxoMap, db["wallet"].scanned)'
    <3>1. Booked(db["wallet"].utxoMap, db["wallet"].scanned)
      BY Zenon, <1>11 DEF BooksInv
    <3> QED
      BY SMTT(30), <1>1, <1>2, <1>3, <1>11, <3>1, BookedGrows
  <2>2. ASSUME "sent" \notin killed' PROVE Unstored = k /\ "sent" \notin killed
    BY ZenonT(40), <1>6, <2>2
  <2>3. Spends(db["wallet"].utxoMap, db["chain"].height, Unstored)'
    <3> SUFFICES ASSUME "sent" \notin killed', NEW i \in 1 .. k
                 PROVE  txs'[i].inputs \subseteq
                          {o \in Outpoint : /\ db["wallet"].utxoMap[o] # NoUtxo
                                            /\ created[o] <= db["chain"].height}
      BY ZenonT(40), <1>1, <1>6 DEF Spends
    <3>1. Spends(db["wallet"].utxoMap, db["chain"].height, k)
      BY ZenonT(40), <1>11, <2>2 DEF BooksInv
    <3> QED
      BY ZenonT(40), <1>5, <2>2, <3>1 DEF Spends
  <2> QED
    BY ZenonT(40), <2>1, <2>3
<1>12. Restorable' => Restorable
  BY Zenon, <1>1 DEF Restorable
<1> QED
  BY ZenonT(40), <1>3, <1>7, <1>8, <1>9, <1>10, <1>11, <1>12 DEF BooksInv, SpentGrows

\* restore: the books are those stored.
LEMMA BooksRestore ==
  ASSUME RestoreInv, BooksInv, Restore, killed' = killed
  PROVE  BooksInv'
<1>1. /\ utxoMap' = db["wallet"].utxoMap /\ scanned' = db["wallet"].scanned
      /\ lastBlockHeight' = db["chain"].height
      /\ UNCHANGED <<txs, tip, created, txout, spent, pc, op, db>>
      /\ step = "down" /\ Restorable /\ step' = "ready"
  BY ZenonT(40) DEF Restore, Load, peer_vars, sync_vars
<1>2. /\ Unstored = Len(txs) /\ Unstored' = Len(txs') /\ Sent' = Sent
      /\ (IF step' = "down" THEN 0 ELSE Len(txs')) = Len(txs)
  BY <1>1 DEF Sent, NumSent, Unstored, SentUnstored
<1>3. /\ Booked(db["wallet"].utxoMap, db["wallet"].scanned)
      /\ Spends(db["wallet"].utxoMap, db["chain"].height, Len(txs))
  BY Zenon, <1>1, <1>2 DEF BooksInv
<1>4. Booked(utxoMap, scanned)' /\ Booked(db["wallet"].utxoMap, db["wallet"].scanned)'
  BY Zenon, <1>1, <1>3 DEF Booked
<1>5. /\ Spends(utxoMap, lastBlockHeight, IF step = "down" THEN 0 ELSE Len(txs))'
      /\ Spends(db["wallet"].utxoMap, db["chain"].height, Unstored)'
  BY ZenonT(40), <1>1, <1>2, <1>3 DEF Spends
<1>6. Settled'
  <2>1. pc' \notin {"filters", "synced"}
    BY SMTT(30), <1>1 DEF RestoreInv, MemoryInv
  <2>2. step' # "create" /\ step' \notin StoreStep
    BY <1>1 DEF StoreStep
  <2> QED
    BY ZenonT(40), <2>1, <2>2, SettledQuiet
<1>7. /\ spent' \in [Outpoint -> 0 .. tip']
      /\ \A o \in Outpoint : spent'[o] # 0 => \E i \in Sent' : o \in txs'[i].inputs
  BY ZenonT(40), <1>1, <1>2 DEF BooksInv
<1> QED
  BY ZenonT(40), <1>4, <1>5, <1>6, <1>7 DEF BooksInv

\* An insert of store_state changes nothing in memory, and no count of transactions is
\* smaller.
LEMMA BooksStored ==
  ASSUME RestoreInv, BooksInv, UNCHANGED <<chain_vars, killed>>,
         step \in StoreStep, step' \in StoreStep \cup {"ready"}, op' = op \/ step' = "ready"
  PROVE  /\ spent' \in [Outpoint -> 0 .. tip']
         /\ \A o \in Outpoint : spent'[o] # 0 => \E i \in Sent' : o \in txs'[i].inputs
         /\ Settled'
         /\ Booked(utxoMap, scanned)'
         /\ Spends(utxoMap, lastBlockHeight, Len(txs))'
         /\ UNCHANGED <<utxoMap, scanned, txs, tip, created, txout, spent, lastBlockHeight>>
         /\ step # "down" /\ step' # "down"
<1>1. UNCHANGED <<utxoMap, scanned, txs, tip, created, txout, spent, lastBlockHeight, pc, n>>
  BY Zenon DEF chain_vars, wallet_hist, wallet_vars, peer_vars, state_vars, sync_vars
<1>2. /\ step # "down" /\ step' # "down" /\ step # "send" /\ step' # "send"
      /\ step # "sync" /\ step' # "create"
      /\ step' \in StoreStep => step' # "ready"
  BY Zenon DEF StoreStep
<1>3. Sent' = Sent
  BY Zenon, <1>1, <1>2 DEF Sent, NumSent
<1>4. Settled'
  <2>1. pc' \notin {"filters", "synced"}
    BY <1>1, <1>2 DEF RestoreInv, MemoryInv
  <2>2. CASE op' = "balance" /\ step' \in StoreStep
    <3>1. op = "balance"
      BY Zenon, <1>2, <2>2
    <3>2. \A h \in Height : h > lastBlockHeight => scanned[h] = NotScanned
      BY Zenon, <3>1 DEF BooksInv, Settled
    <3> QED
      BY Zenon, <1>1, <2>1, <3>2 DEF Settled
  <2>3. CASE ~(op' = "balance" /\ step' \in StoreStep)
    BY ZenonT(40), <1>2, <2>1, <2>3, SettledQuiet
  <2> QED
    BY ZenonT(40), <2>2, <2>3
<1>5. /\ spent' \in [Outpoint -> 0 .. tip']
      /\ \A o \in Outpoint : spent'[o] # 0 => \E i \in Sent' : o \in txs'[i].inputs
  BY ZenonT(40), <1>1, <1>3 DEF BooksInv
<1>6. Booked(utxoMap, scanned)'
  BY ZenonT(40), <1>1 DEF BooksInv, Booked
<1>7. Spends(utxoMap, lastBlockHeight, Len(txs))'
  BY ZenonT(40), <1>1, <1>2 DEF BooksInv, Spends
<1> QED
  BY ZenonT(40), <1>1, <1>2, <1>4, <1>5, <1>6, <1>7

\* The chain state stored first is ahead of the wallet stored, which is no harm to its books.
LEMMA BooksStoreChain ==
  ASSUME RestoreInv, BooksInv, StoreChain, killed' = killed
  PROVE  BooksInv'
<1>1. /\ UNCHANGED chain_vars /\ op' = op /\ step = "store chain" /\ step' = "store wallet"
      /\ db' = DbInsert("chain", ChainState)
  BY Zenon DEF StoreChain, Goto
<1>2. step \in StoreStep /\ step' \in StoreStep \cup {"ready"}
  BY Zenon, <1>1 DEF StoreStep
<1>3. /\ spent' \in [Outpoint -> 0 .. tip']
      /\ \A o \in Outpoint : spent'[o] # 0 => \E i \in Sent' : o \in txs'[i].inputs
      /\ Settled' /\ Booked(utxoMap, scanned)' /\ Spends(utxoMap, lastBlockHeight, Len(txs))'
      /\ UNCHANGED <<utxoMap, scanned, txs, tip, created, txout, spent, lastBlockHeight>>
      /\ step # "down" /\ step' # "down"
  BY ZenonT(40), <1>1, <1>2, BooksStored
<1>4. /\ DOMAIN db' = DOMAIN db \cup {"chain"} /\ db'["chain"] = ChainState
      /\ \A k \in DOMAIN db : k # "chain" => db'[k] = db[k]
  BY ZenonT(40), <1>1, InsertFacts
<1>5. /\ Restorable' <=> Restorable
      /\ Restorable => db'["wallet"] = db["wallet"]
  BY Zenon, <1>4 DEF RestoreInv, StoredInv, NodeKeyLast, Restorable, Key
<1>6. Unstored' = Unstored /\ 1 .. Unstored \subseteq 1 .. Len(txs)
  <2>1. Unstored' = Unstored
    BY ZenonT(40), <1>1, <1>3 DEF SentUnstored, Unstored
  <2>2. Len(txs) \in Nat /\ Unstored \in Nat /\ Unstored <= Len(txs)
    BY UnstoredFacts DEF RestoreInv, Unstored
  <2> QED
    BY SMTT(30), <2>1, <2>2
<1>7. ASSUME Restorable
      PROVE  /\ Booked(db["wallet"].utxoMap, db["wallet"].scanned)'
             /\ Spends(db["wallet"].utxoMap, db["chain"].height, Unstored)'
  <2>1. db'["wallet"] = db["wallet"] /\ db'["chain"].height = lastBlockHeight
    <3>1. ChainState.height = lastBlockHeight
      BY DEF ChainState
    <3> QED
      BY ZenonT(40), <1>4, <1>5, <1>7, <3>1
  <2>2. Booked(db["wallet"].utxoMap, db["wallet"].scanned)'
    BY ZenonT(40), <1>3, <1>7, <2>1 DEF BooksInv, Booked
  <2>3. ASSUME "sent" \notin killed, NEW i \in 1 .. Unstored
        PROVE  txs[i].inputs \subseteq
                 {o \in Outpoint : /\ db["wallet"].utxoMap[o] # NoUtxo
                                   /\ created[o] <= lastBlockHeight}
    <3>1. txs[i].inputs \subseteq {o \in Outpoint : created[o] <= lastBlockHeight}
      BY Zenon, <1>3, <1>6, <2>3 DEF BooksInv, Spends
    <3>2. txs[i].inputs \subseteq {o \in Outpoint : db["wallet"].utxoMap[o] # NoUtxo}
      BY Zenon, <1>7, <2>3 DEF BooksInv, Spends
    <3> QED
      BY Zenon, <3>1, <3>2
  <2>4. Spends(db["wallet"].utxoMap, db["chain"].height, Unstored)'
    BY ZenonT(40), <1>3, <1>6, <2>1, <2>3 DEF Spends
  <2> QED
    BY Zenon, <2>2, <2>4
<1>8. Spends(utxoMap, lastBlockHeight, IF step = "down" THEN 0 ELSE Len(txs))'
  BY Zenon, <1>3 DEF Spends
<1> QED
  BY ZenonT(40), <1>3, <1>5, <1>7, <1>8 DEF BooksInv

\* With the wallet stored, its books are those in memory.
LEMMA BooksStoreRest ==
  ASSUME RestoreInv, BooksInv, StoreWallet \/ StoreSigner \/ StoreNode, killed' = killed,
         RestoreInv'
  PROVE  BooksInv'
<1>1. PICK key \in {"wallet", "signer", "node"} : \E value :
        /\ UNCHANGED chain_vars
        /\ db' = DbInsert(key, value)
        /\ \/ key = "wallet" /\ step = "store wallet" /\ step' = "store signer" /\ op' = op
           \/ key = "signer" /\ step = "store signer" /\ step' = "store node" /\ op' = op
           \/ key = "node" /\ step = "store node" /\ step' = "ready"
  BY ZenonT(40) DEF StoreWallet, StoreSigner, StoreNode, Goto
<1>2. /\ step \in StoreStep /\ step' \in StoreStep \cup {"ready"} /\ (op' = op \/ step' = "ready")
      /\ UNCHANGED chain_vars
  BY Zenon, <1>1 DEF StoreStep
<1>3. /\ spent' \in [Outpoint -> 0 .. tip']
      /\ \A o \in Outpoint : spent'[o] # 0 => \E i \in Sent' : o \in txs'[i].inputs
      /\ Settled' /\ Booked(utxoMap, scanned)' /\ Spends(utxoMap, lastBlockHeight, Len(txs))'
      /\ UNCHANGED <<utxoMap, scanned, txs, tip, created, txout, spent, lastBlockHeight>>
      /\ step # "down" /\ step' # "down"
  BY Zenon, <1>2, BooksStored
<1>4. ChainState' = ChainState /\ WalletState' = WalletState
  BY Zenon, <1>2
  DEF chain_vars, wallet_hist, wallet_vars, state_vars, ChainState, WalletState
<1>5. db'["wallet"] = WalletState' /\ db'["chain"] = ChainState'
  <2>1. CASE step' \in {"store signer", "store node"}
    BY ZenonT(40), <2>1, <1>1 DEF RestoreInv, StoredInv
  <2>2. CASE step' \notin {"store signer", "store node"}
    <3>1. step = "store node" /\ \E value : db' = DbInsert("node", value)
      BY ZenonT(40), <1>1, <2>2
    <3>2. /\ "chain" \in DOMAIN db /\ db["chain"] = ChainState
          /\ "wallet" \in DOMAIN db /\ db["wallet"] = WalletState
      BY Zenon, <3>1 DEF RestoreInv, StoredInv
    <3>3. db'["wallet"] = db["wallet"] /\ db'["chain"] = db["chain"]
      BY Zenon, <3>1, <3>2 DEF DbInsert
    <3> QED
      BY ZenonT(40), <1>4, <3>2, <3>3
  <2> QED
    BY ZenonT(40), <2>1, <2>2
<1>6. /\ db'["wallet"].utxoMap = utxoMap' /\ db'["wallet"].scanned = scanned'
      /\ db'["chain"].height = lastBlockHeight'
  <2>1. /\ WalletState'.utxoMap = utxoMap' /\ WalletState'.scanned = scanned'
        /\ ChainState'.height = lastBlockHeight'
    BY ZenonT(40) DEF WalletState, ChainState
  <2> QED
    BY Zenon, <1>5, <2>1
<1>7. Unstored' = Len(txs')
  BY Zenon, <1>1 DEF Unstored, SentUnstored
<1>8. /\ Booked(db["wallet"].utxoMap, db["wallet"].scanned)'
      /\ Spends(db["wallet"].utxoMap, db["chain"].height, Unstored)'
  BY ZenonT(40), <1>3, <1>6, <1>7 DEF Booked, Spends
<1>9. Spends(utxoMap, lastBlockHeight, IF step = "down" THEN 0 ELSE Len(txs))'
  BY Zenon, <1>3 DEF Spends
<1> QED
  BY ZenonT(40), <1>3, <1>8, <1>9 DEF BooksInv

\* A block that spends only what a transaction does that was sent.
LEMMA BooksMined ==
  ASSUME RestoreInv, BooksInv, NEW outs, NEW S, Mine(outs, S),
         UNCHANGED <<wallet_hist, state_vars, sync_vars, scanned, op, step, db, killed>>,
         \A o \in S : \E i \in Sent : o \in txs[i].inputs
  PROVE  BooksInv'
<1>1. /\ UNCHANGED <<utxoMap, scanned, txs, lastBlockHeight, pc, n, op, step, db, killed>>
  BY Zenon DEF wallet_hist, wallet_vars, state_vars, sync_vars
<1>2. NetworkInv /\ lastBlockHeight \in Nat
  BY Zenon, BooksTypes
<1>3. Grows /\ tip' = tip + 1
  BY ZenonT(40), <1>1, <1>2, MineGrows
<1>4. /\ tip \in 0 .. MaxTip /\ tip < MaxTip /\ MaxTip \in Nat
      /\ spent \in [Outpoint -> 0 .. tip]
      /\ spent' = [o \in Outpoint |-> IF o \in S THEN tip + 1 ELSE spent[o]]
      /\ \A o \in S : spent[o] = 0
  BY ZenonT(40), <1>2, ChainAssumption DEF ChainAssumption, NetworkInv, BooksInv, Mine
<1>5. SpentGrows
  <2>1. spent' \in [Outpoint -> 0 .. tip']
    BY SMTT(30), <1>3, <1>4
  <2>2. tip + 1 \in Height /\ tip + 1 > tip
    BY <1>4 DEF Height
  <2>3. ASSUME NEW o \in Outpoint, spent[o] # 0 PROVE spent'[o] = spent[o]
    BY Zenon, <1>4, <2>3
  <2>4. ASSUME NEW o \in Outpoint, spent[o] = 0, spent'[o] # 0 PROVE spent'[o] = tip + 1
    BY Zenon, <1>4, <2>4
  <2> QED
    BY ZenonT(40), <2>1, <2>2, <2>3, <2>4 DEF SpentGrows
<1>6. \A o \in Outpoint : spent[o] = 0 /\ spent'[o] # 0 => \E i \in Sent : o \in txs[i].inputs
  BY Zenon, <1>4
<1>7. Settled'
  BY ZenonT(40), <1>1 DEF BooksInv, Settled, EndBlock, StartBlock
<1>8. Sent' = Sent /\ Unstored' = Unstored
  BY ZenonT(40), <1>1 DEF Sent, NumSent, Unstored, SentUnstored
<1>9. lastBlockHeight' \in Nat /\ lastBlockHeight <= lastBlockHeight'
  BY <1>1, <1>2
<1> QED
  BY Zenon, <1>1, <1>3, <1>5, <1>6, <1>7, <1>8, <1>9, BooksQuiet

\* The network mines payments and what was sent.
LEMMA BooksNetwork ==
  ASSUME RestoreInv, BooksInv, Network, killed' = killed
  PROVE  BooksInv'
<1>1. UNCHANGED <<wallet_hist, state_vars, sync_vars, scanned, op, step, db, killed>>
  BY Zenon DEF Network
<1>2. CASE MinePayment \/ MineOther
  <2>1. PICK S : S = {}
    BY ZenonT(40)
  <2>2. PICK outs : Mine(outs, S)
    BY Zenon, <1>2, <2>1 DEF MinePayment, MineOther
  <2>3. \A o \in S : \E i \in Sent : o \in txs[i].inputs
    BY <2>1
  <2> QED
    BY ZenonT(40), <1>1, <2>2, <2>3, BooksMined
<1>3. CASE MineTransaction
  <2>1. PICK i \in Sent : \E outs : Mine(outs, txs[i].inputs)
    BY Zenon, <1>3 DEF MineTransaction
  <2>2. PICK outs : Mine(outs, txs[i].inputs)
    BY Zenon, <2>1
  <2> QED
    BY Zenon, <1>1, <2>2, BooksMined
<1> QED
  BY Zenon, <1>2, <1>3 DEF Network

\* At the start there is nothing to keep books of.
LEMMA BooksInit == Init => BooksInv
<1> SUFFICES ASSUME Init PROVE BooksInv
  OBVIOUS
<1>1. /\ utxoMap = [o \in Outpoint |-> NoUtxo] /\ txs = <<>>
      /\ tip = 0 /\ spent = [o \in Outpoint |-> 0]
      /\ pc = "idle" /\ op = "none" /\ step = "down" /\ db = [k \in {} |-> "none"]
  BY Zenon DEF Init, WalletInit, PeerInit, SyncInit
<1>2. Booked(utxoMap, scanned)
  BY Zenon, <1>1 DEF Booked
<1>3. Spends(utxoMap, lastBlockHeight, 0)
  BY DEF Spends
<1>4. Settled
  BY <1>1 DEF Settled
<1>5. ~Restorable
  <2>1. DOMAIN db = {}
    BY Zenon, <1>1
  <2> QED
    BY <2>1 DEF Restorable, Key
<1>6. spent \in [Outpoint -> 0 .. tip] /\ \A o \in Outpoint : spent[o] = 0
  BY <1>1
<1> QED
  BY Zenon, <1>1, <1>2, <1>3, <1>4, <1>5, <1>6 DEF BooksInv

\* Every step keeps the books right.
LEMMA BooksNext == ASSUME RestoreInv, BooksInv, RestoreInv', [Next]_vars PROVE BooksInv'
<1>1. ASSUME Alive, killed' = killed PROVE BooksInv'
  <2>1. CASE Syncing
    <3>1. /\ step = "sync" /\ UNCHANGED <<op, step, db>>
          /\ FetchHeaders \/ ScanBatch \/ FinishRound \/ SyncFails
      BY Zenon, <2>1 DEF Syncing, SyncStep
    <3>2. CASE FetchHeaders \/ SyncFails
      BY ZenonT(40), <1>1, <3>1, <3>2, BooksControl
    <3> QED
      BY ZenonT(40), <1>1, <3>1, <3>2, BooksScan, BooksFinish
  <2>2. CASE New \/ CallGetReceiveAddress \/ AfterSync \/ Send
    BY ZenonT(40), <1>1, <2>2, BooksControl
  <2>3. CASE \E call \in {"balance", "send_to_address"} : CallSync(call)
    BY ZenonT(40), <1>1, <2>3, BooksControl
  <2>4. CASE Restore \/ Create \/ Network
    BY ZenonT(40), <1>1, <2>4, BooksRestore, BooksCreate, BooksNetwork
  <2>5. CASE CreatePanics \/ SendPanics
    <3>1. ~SentUnstored
      BY Zenon, <2>5 DEF CreatePanics, SendPanics, SentUnstored
    <3> QED
      BY ZenonT(40), <1>1, <2>5, <3>1, BooksEnds DEF CreatePanics, SendPanics
  <2>6. CASE StoreChain \/ StoreWallet \/ StoreSigner \/ StoreNode
    BY Zenon, <1>1, <2>6, BooksStoreChain, BooksStoreRest
  <2> QED
    BY ZenonT(40), <1>1, <2>1, <2>2, <2>3, <2>4, <2>5, <2>6 DEF Alive
<1>2. CASE Crash
  <2>1. /\ Ends
        /\ SentUnstored => killed = {} /\ killed' = {"half stored" : i \in {j \in {1} : HalfStored}}
                                                     \cup {"sent" : i \in {j \in {1} : SentUnstored}}
        /\ killed = {} \/ killed' = killed
    BY Zenon, <1>2 DEF Crash
  <2>2. SentUnstored => "sent" \in killed'
    BY Zenon, <2>1
  <2>3. killed \subseteq killed'
    BY Zenon, <2>1
  <2> QED
    BY Zenon, <2>1, <2>2, <2>3, BooksEnds
<1>3. CASE UNCHANGED vars
  <2>1. UNCHANGED <<utxoMap, scanned, txs, tip, created, txout, spent, lastBlockHeight, pc, n,
                    op, step, db, killed>>
    BY Zenon, <1>3 DEF vars, chain_vars, wallet_hist, wallet_vars, peer_vars, state_vars, sync_vars
  <2>2. Settled'
    BY ZenonT(40), <2>1 DEF BooksInv, Settled, EndBlock, StartBlock
  <2>3. Booked(utxoMap, scanned)' /\ (Restorable => Booked(db["wallet"].utxoMap, db["wallet"].scanned)')
    BY ZenonT(40), <2>1 DEF BooksInv, Booked
  <2>4. /\ Spends(utxoMap, lastBlockHeight, IF step = "down" THEN 0 ELSE Len(txs))'
        /\ Restorable => Spends(db["wallet"].utxoMap, db["chain"].height, Unstored)'
    BY Zenon, <2>1 DEF BooksInv, Spends, Unstored, SentUnstored
  <2>5. (Restorable' <=> Restorable) /\ Sent' = Sent
    BY Zenon, <2>1 DEF Restorable, Sent, NumSent
  <2> QED
    BY ZenonT(40), <2>1, <2>2, <2>3, <2>4, <2>5 DEF BooksInv
<1> QED
  BY Zenon, <1>1, <1>2, <1>3 DEF Next

\* Whatever calls are made, fail or are cut short by a kill, and whatever is mined
\* meanwhile, the state in the database is fit for a restore (Node::restore), or killed
\* names the point of store_state at which the client was killed; and the wallet's outputs
\* are those of the blocks it has scanned, spent where such a block spends them.
THEOREM NodeInvariance == Spec => []NodeInv
<1>1. Init => NodeInv
  BY Zenon, InitInv, BooksInit DEF NodeInv
<1>2. NodeInv /\ [Next]_vars => NodeInv'
  BY Zenon, NextInv, BooksNext DEF NodeInv
<1> QED
  BY <1>1, <1>2, PTL DEF Spec

\* A database that has the last key of store_state has them all.
THEOREM NodeKeyIsLast == Spec => []NodeKeyLast
<1>1. RestoreInv => NodeKeyLast
  BY Zenon DEF RestoreInv, StoredInv
<1>2. NodeInv => RestoreInv
  BY Zenon DEF NodeInv
<1> QED
  BY <1>1, <1>2, NodeInvariance, PTL

\* A client that was not killed between the two inserts has, over any number of restarts,
\* every payment of the blocks up to its last_block_height, but for those right after a full
\* batch.
THEOREM PaymentsAreFound == Spec => []PaymentsFound
<1>1. ASSUME RestoreInv PROVE PaymentsFound
  <2> SUFFICES ASSUME "half stored" \notin killed, NEW o \in Outpoint,
                      created[o] \in 1 .. lastBlockHeight
               PROVE  \/ o \in Known
                      \/ "sent" \in killed /\ txout[o].script # ReceiveScript
                      \/ /\ created[o] > FilterSize
                         /\ scanned[created[o] - 1].from = created[o] - FilterSize
    BY Zenon DEF PaymentsFound
  <2>1. Kept(utxoMap, scanned) /\ Scanned(scanned, lastBlockHeight)
    BY ZenonT(40), <1>1 DEF RestoreInv, MemoryInv
  <2>2. created[o] # 0
    <3>1. lastBlockHeight \in Nat
      BY Zenon, <1>1, LoopReady DEF LoopTypes
    <3> QED
      BY Zenon, <3>1, HeightNotZero
  <2>3. CASE scanned[created[o]].from = 0
    BY Zenon, <2>1, <2>3 DEF Scanned
  <2>4. CASE scanned[created[o]].from # 0
    BY ZenonT(40), <2>1, <2>2, <2>4 DEF Kept, Known
  <2> QED
    BY Zenon, <2>3, <2>4
<1>2. NodeInv => RestoreInv
  BY Zenon DEF NodeInv
<1> QED
  BY <1>1, <1>2, NodeInvariance, PTL

\* A client that was not killed between a send and the insert of its wallet watches the
\* change scripts of all it has ever sent, and they are all different.
THEOREM ChangeIsTracked == Spec => []ChangeTracked
<1>1. ASSUME RestoreInv PROVE ChangeTracked
  <2>1. Sent \subseteq 1 .. Len(txs)
    BY <1>1, SentFacts DEF RestoreInv, Sent
  <2>2. ASSUME "sent" \notin killed, step # "down", NEW i \in Sent
        PROVE  txs[i].changeScript \in GetPubkeys
    <3>1. Tracks(pubkeyMap, changeDepth, Len(txs))
      BY ZenonT(40), <1>1, <2>2 DEF RestoreInv, MemoryInv
    <3> QED
      BY Zenon, <2>1, <2>2, <3>1 DEF Tracks, GetPubkeys
  <2>3. ASSUME "sent" \notin killed, NEW i \in Sent, NEW j \in Sent, i # j
        PROVE  txs[i].changeScript # txs[j].changeScript
    BY ZenonT(40), <1>1, <2>1, <2>3 DEF RestoreInv, NetworkInv
  <2> QED
    BY Zenon, <2>2, <2>3 DEF ChangeTracked
<1>2. NodeInv => RestoreInv
  BY Zenon DEF NodeInv
<1> QED
  BY <1>1, <1>2, NodeInvariance, PTL

\* balance returns what the scanned blocks pay to the client less what they spend, over any
\* number of payments, transactions, failed calls and restarts, unless the client was killed
\* between a send and the insert of its wallet.
THEOREM BalanceIsRight == Spec => []BalanceRight
<1>1. ASSUME NodeInv PROVE BalanceRight
  <2> DEFINE Unspent == {o \in Outpoint : OnScanned(created[o]) /\ ~OnScanned(spent[o])}
             Counted == {o \in Known : ~utxoMap[o].isSpent}
  <2> SUFFICES ASSUME "sent" \notin killed, op = "balance", step \in StoreStep
               PROVE  Balance = SumFunction([o \in Unspent |-> txout[o].amount])
    BY Zenon DEF BalanceRight
  <2>1. RestoreInv /\ BooksInv
    BY Zenon, <1>1 DEF NodeInv
  <2>2. Kept(utxoMap, scanned) /\ NetworkInv /\ lastBlockHeight \in Nat
    BY Zenon, <2>1, BooksTypes
  <2>3. \A h \in 1 .. lastBlockHeight : h # 0
    BY ZenonT(40), <2>2, HeightNotZero
  <2>4. \A h \in 0 .. tip : h # 0 /\ scanned[h].from # 0 => h \in 1 .. lastBlockHeight
    <3>1. \A h \in Height : h > lastBlockHeight => scanned[h].from = 0
      BY <2>1 DEF BooksInv, Settled, NotScanned
    <3>2. tip \in 0 .. MaxTip /\ MaxTip \in Nat
      BY Zenon, <2>2, ChainAssumption DEF ChainAssumption, NetworkInv
    <3> QED
      BY SMTT(30), <2>2, <3>1, <3>2 DEF Height
  <2>5. \A h \in 0 .. tip : OnScanned(h) <=> h # 0 /\ scanned[h].from # 0
    BY Zenon, <2>3, <2>4 DEF OnScanned
  <2>6. \A o \in Outpoint : /\ OnScanned(created[o]) <=> created[o] # 0 /\ scanned[created[o]].from # 0
                            /\ OnScanned(spent[o]) <=> spent[o] # 0 /\ scanned[spent[o]].from # 0
    BY ZenonT(40), <2>1, <2>2, <2>5 DEF NetworkInv, BooksInv
  <2>7. Counted = Unspent
    BY ZenonT(40), <2>1, <2>2, <2>6 DEF BooksInv, Booked, Kept, Known
  <2>8. \A o \in Counted : utxoMap[o].amount = txout[o].amount
    BY ZenonT(40), <2>1 DEF BooksInv, Booked, Known
  <2>9. [o \in Counted |-> utxoMap[o].amount] = [o \in Unspent |-> txout[o].amount]
    BY Zenon, <2>7, <2>8
  <2>10. Balance = SumFunction([o \in Counted |-> utxoMap[o].amount])
    BY Zenon DEF Balance, Value
  <2> QED
    BY Zenon, <2>9, <2>10
<1> QED
  BY <1>1, NodeInvariance, PTL

=============================================================================
