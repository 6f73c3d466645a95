---------------------------- MODULE WatchWallet ----------------------------
(***************************************************************************)
(* The watch-only P2WPKH wallet of crates/wallet (watch_wallet.rs): the    *)
(* scripts it has handed out, the outputs paid to them, and the            *)
(* transactions it builds.                                                 *)
(*                                                                         *)
(* Abstractions.                                                           *)
(*  - A script is the derivation path <<keychain, index>> of its key below *)
(*    the account: deriving, hashing and encoding a key is injective.      *)
(*  - Amounts are small integers, and the weights of an input and of a     *)
(*    change output are the fees InputFee and ChangeFee they cost at the   *)
(*    rate of the call.                                                    *)
(*  - Coin selection (coin_selection.rs) is given by what it can return;   *)
(*    CoinSelection has its steps.                                         *)
(***************************************************************************)
EXTENDS Integers, Sequences, FiniteSets, FiniteSetsExt

CONSTANTS
  Outpoint,    \* outputs of transactions
  Amount,      \* values of outputs paid to the wallet
  Payment,     \* amounts the user sends; a payment of 0 selects no output and panics
  InputFee,    \* fee_rate * segwit_weight of an input
  ChangeFee,   \* fee_rate * weight of a change output
  Dust,        \* minimal_non_dust of the change script
  BnbTries,    \* BNB_TOTAL_TRIES
  MaxChange    \* bound: change scripts derived

ASSUME WalletAssumption ==
  /\ IsFiniteSet(Outpoint)
  /\ Amount \subseteq Nat
  /\ Payment \subseteq Nat \ {0}
  /\ InputFee \in Nat
  /\ ChangeFee \in Nat
  /\ Dust \in Nat \ {0}
  /\ BnbTries \in Nat
  /\ MaxChange \in Nat

VARIABLES
  pubkeyMap,   \* pubkey_map: details of the scripts handed out
  changeDepth, \* change_depth (receive_depth is never changed from 0)
  utxoMap,     \* utxo_map
  txs          \* history: the transactions create_psbt_tx returned

wallet_vars == <<pubkeyMap, changeDepth, utxoMap>>

\* KeychainKind
External == 0
Internal == 1

ReceiveDepth == 0

ReceiveScript == <<External, ReceiveDepth>>

ChangeScript(i) == <<Internal, i>>

Script == {ReceiveScript} \cup {ChangeScript(i) : i \in 0 .. MaxChange}

\* PubkeyDetails is the path of the key; NoKey where a script is not in the map.
NoKey == <<2, 0>>

PubkeyDetails == {External, Internal} \X (0 .. MaxChange)

\* Utxo: its output, the path its key is derived from, and is_spent.
Utxo == [script : Script, amount : Nat, key : PubkeyDetails, isSpent : BOOLEAN]

NoUtxo == [script |-> NoKey, amount |-> 0, key |-> NoKey, isSpent |-> FALSE]

\* A transaction of create_psbt_tx: its inputs, what it pays, and its change output.
Tx == [inputs : SUBSET Outpoint, amount : Payment, change : Nat, changeScript : Script,
       fee : Int, valid : BOOLEAN]

Known == {o \in Outpoint : utxoMap[o] # NoUtxo}

GetPubkeys == {s \in Script : pubkeyMap[s] # NoKey}

WalletInit ==
  /\ pubkeyMap = [s \in Script |-> NoKey]
  /\ changeDepth = 0
  /\ utxoMap = [o \in Outpoint |-> NoUtxo]
  /\ txs = <<>>

-----------------------------------------------------------------------------
(* Addresses *)

\* get_receive_address: receive_depth stays 0, so it is always the same address.
GetReceiveAddress ==
  /\ pubkeyMap' = [pubkeyMap EXCEPT ![ReceiveScript] = <<External, ReceiveDepth>>]
  /\ UNCHANGED <<changeDepth, utxoMap>>

\* get_change_script: the script s is entered with the details of the receive
\* address.
GetChangeScript(s) ==
  /\ changeDepth <= MaxChange
  /\ s = ChangeScript(changeDepth)
  /\ changeDepth' = changeDepth + 1
  /\ pubkeyMap' = [pubkeyMap EXCEPT ![s] = <<External, ReceiveDepth>>]

-----------------------------------------------------------------------------
(* Outputs *)

\* Mutant: a new output is entered without the details of its script.
InsertedUnkeyed(news) ==
  [o \in Outpoint |->
     IF o \notin DOMAIN news THEN utxoMap[o]
     ELSE IF o \in Known THEN [utxoMap[o] EXCEPT !.isSpent = news[o].isSpent]
     ELSE [script  |-> news[o].script,
           amount  |-> news[o].amount,
           key     |-> NoKey,
           isSpent |-> news[o].isSpent]]

\* insert_utxos: an output the wallet has only takes the new is_spent, another
\* one is entered with the details of its script.  Of several entries for one
\* output the last one counts: news maps each output to it.  (The error for a
\* script without a key is left out: the chain reports watched scripts only.)
Inserted(news) ==
  [o \in Outpoint |->
     IF o \notin DOMAIN news THEN utxoMap[o]
     ELSE IF o \in Known THEN [utxoMap[o] EXCEPT !.isSpent = news[o].isSpent]
     ELSE [script  |-> news[o].script,
           amount  |-> news[o].amount,
           key     |-> pubkeyMap[news[o].script],
           isSpent |-> news[o].isSpent]]

InsertUtxos(news) ==
  /\ utxoMap' = Inserted(news)
  /\ UNCHANGED <<pubkeyMap, changeDepth>>

Value(S) == SumFunction([o \in S |-> utxoMap[o].amount])

\* balance
Balance == Value({o \in Known : ~utxoMap[o].isSpent})

-----------------------------------------------------------------------------
(* Coin selection and transactions *)

Fee(S) == InputFee * Cardinality(S)

\* The sum of OutputGroup::effective_value.
Effective(S) == Value(S) - Fee(S)

\* Outputs of positive effective value.
Positive == {o \in Known : utxoMap[o].amount > InputFee}

\* Selections that need no change, and the cheapest of them, which branch and bound returns
\* if there is one.
BnbMatches(target) ==
  {S \in SUBSET Positive : Effective(S) \in target .. target + ChangeFee}

BnbSelections(target) ==
  {S \in BnbMatches(target) : \A T \in BnbMatches(target) : Effective(S) <= Effective(T)}

\* Branch and bound is sure to end before its tries do: one for each node of its tree.
Exhaustive == 2 ^ (Cardinality(Positive) + 1) <= BnbTries

\* SingleRandomDraw: outputs in any order, until they cover the target.  (With
\* the smallest first, no set of outputs short of the target covers it before.)
DrawSelections(target) ==
  {S \in SUBSET Known : Effective(S) >= target /\ \E o \in S : Effective(S \ {o}) < target}

\* BranchAndBoundCoinSelection::coin_select over all of utxo_map, spent or not.
Selections(target) ==
  IF Effective(Positive) < target THEN {}
  ELSE IF ~ Exhaustive THEN BnbMatches(target) \cup DrawSelections(target)
  ELSE IF BnbSelections(target) # {} THEN BnbSelections(target)
  ELSE DrawSelections(target)

\* InsufficientFunds: also when the draw takes outputs that cost more than they
\* are worth.
MayBeInsufficient(target) ==
  \/ Effective(Positive) < target
  \/ (BnbSelections(target) = {} \/ ~ Exhaustive) /\ Effective(Known) < target

\* Mutant: the fee of the change output is not deducted.
ChangeOfFull(remaining) == IF remaining >= Dust THEN remaining ELSE 0

\* decide_change: the amount of the change output, 0 when there is none.
ChangeOf(remaining) ==
  LET drain == IF remaining > ChangeFee THEN remaining - ChangeFee ELSE 0
  IN IF drain >= Dust THEN drain ELSE 0

\* Mutant: change goes to the receive address.
TransactionToReceive(S, target, script) ==
  LET change == ChangeOf(Effective(S) - target)
  IN [inputs       |-> S,
      amount       |-> target,
      change       |-> change,
      changeScript |-> ReceiveScript,
      fee          |-> Value(S) - target - change,
      valid        |-> \A o \in S : utxoMap[o].key = utxoMap[o].script]

\* The transaction, valid if every input is signed with the key its output is
\* locked to.
Transaction(S, target, script) ==
  LET change == ChangeOf(Effective(S) - target)
  IN [inputs       |-> S,
      amount       |-> target,
      change       |-> change,
      changeScript |-> script,
      fee          |-> Value(S) - target - change,
      valid        |-> \A o \in S : utxoMap[o].key = utxoMap[o].script]

\* create_psbt_tx: the inputs are not marked as spent.
CreateTransaction(target) ==
  \E s \in Script, S \in Selections(target) :
    /\ GetChangeScript(s)
    /\ txs' = Append(txs, Transaction(S, target, s))
    /\ UNCHANGED utxoMap

\* create_psbt_tx fails: the change script has been entered already.
CreateFails(target) ==
  /\ MayBeInsufficient(target)
  /\ \E s \in Script : GetChangeScript(s)
  /\ UNCHANGED <<utxoMap, txs>>

-----------------------------------------------------------------------------
(* The wallet by itself: what the node may ask of it, in any order.  Outputs are *)
(* paid to the receive address by anyone, to a change script by the transaction  *)
(* made with it, and reported spent only when the wallet has them (chain.rs).    *)

PaidOutputs ==
  [script : GetPubkeys \cap {ReceiveScript}, amount : Amount]
    \cup {[script |-> txs[i].changeScript, amount |-> txs[i].change] :
             i \in {j \in 1 .. Len(txs) : txs[j].change > 0}}

ReportUtxo(o, out, spent) ==
  /\ IF o \in Known THEN out = [script |-> utxoMap[o].script, amount |-> utxoMap[o].amount]
                     ELSE ~spent
  /\ InsertUtxos([x \in {o} |-> [script |-> out.script, amount |-> out.amount,
                                 isSpent |-> spent]])
  /\ UNCHANGED txs

WalletNext ==
  \/ GetReceiveAddress /\ UNCHANGED txs
  \/ \E o \in Outpoint, out \in PaidOutputs, spent \in BOOLEAN : ReportUtxo(o, out, spent)
  \/ \E target \in Payment : CreateTransaction(target)
  \/ \E target \in Payment : CreateFails(target)

wallet_hist == <<wallet_vars, txs>>

WalletSpec == WalletInit /\ [][WalletNext]_wallet_hist

-----------------------------------------------------------------------------
(* Properties *)

\* The types of the wallet's state.
WalletTypeOK ==
  /\ pubkeyMap \in [Script -> PubkeyDetails \cup {NoKey}]
  /\ changeDepth \in 0 .. MaxChange + 1
  /\ utxoMap \in [Outpoint -> Utxo \cup {NoUtxo}]

\* No two transactions of create_psbt_tx share a change script, whatever failed
\* between them, and the wallet watches every change script it has put into a
\* transaction: the change is found when the transaction is mined.
ChangeFresh ==
  /\ \A i, j \in 1 .. Len(txs) : i # j => txs[i].changeScript # txs[j].changeScript
  /\ \A i \in 1 .. Len(txs) : txs[i].changeScript \in GetPubkeys

\* A transaction of create_psbt_tx pays for its inputs, and for its change output
\* if it has one; what it pays beyond that could not have been a change output.
FeeBounded ==
  \A i \in 1 .. Len(txs) :
    LET tx   == txs[i]
        over == tx.fee - Fee(tx.inputs)
    IN IF tx.change = 0 THEN over \in 0 .. ChangeFee + Dust - 1
                        ELSE over = ChangeFee /\ tx.change >= Dust

\* The key create_psbt_tx derives for an input (derive_pubkey) is the one its output
\* is locked to; for change that is a key of the internal keychain.
KeysMatch == \A o \in Known : utxoMap[o].key = utxoMap[o].script

\* create_psbt_tx spends only outputs insert_utxos has not been told are spent.
SpendsUnspent ==
  [][\A i \in Len(txs) + 1 .. Len(txs') :
       \A o \in txs'[i].inputs : ~utxoMap[o].isSpent]_wallet_hist
=============================================================================
