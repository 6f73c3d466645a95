--------------------------- MODULE CoinSelection ---------------------------
(***************************************************************************)
(* create_psbt_tx with the steps of its coin selection (crates/wallet/src/ *)
(* coin_selection.rs): a depth first search for outputs that pay the       *)
(* target and need no change (bnb), and outputs drawn at random when there *)
(* are none (SingleRandomDraw).  It implements WatchWallet, where the      *)
(* selection is one step.                                                  *)
(***************************************************************************)
EXTENDS WatchWallet

VARIABLE cs  \* the selection of the call under way

select_vars == <<wallet_hist, cs>>

\* No best_selection_value yet
NoValue == -1

Idle == [pc |-> "idle"]

\* Bnb: order is optional_utxos, sorted; sel is current_selection, value curr_value, avail
\* curr_available_value.  Draw: drawn are the outputs taken.
Searching == cs.pc = "bnb"
Drawing == cs.pc = "draw"

EffectiveValue(o) == utxoMap[o].amount - InputFee

\* optional_utxos by effective value, the largest first, equal ones in any order.
Orders ==
  {s \in [1 .. Cardinality(Positive) -> Positive] :
     /\ Range(s) = Positive
     /\ \A i \in 1 .. Len(s) - 1 : EffectiveValue(s[i]) >= EffectiveValue(s[i + 1])}

\* The change script of the call, derived before the selection.
CallScript == ChangeScript(changeDepth - 1)

Return(S) ==
  /\ txs' = Append(txs, Transaction(S, cs.target, CallScript))
  /\ cs' = Idle
  /\ UNCHANGED wallet_vars

-----------------------------------------------------------------------------
(* BranchAndBoundCoinSelection::coin_select *)

\* create_psbt_tx up to the search.  No output is required, so curr_value is 0.
CoinSelect(target) ==
  /\ cs = Idle /\ Effective(Positive) >= target
  /\ \E s \in Script : GetChangeScript(s)
  /\ \E order \in Orders :
       cs' = [pc |-> "bnb", target |-> target, order |-> order, sel |-> <<>>, value |-> 0,
              avail |-> Effective(Positive), best |-> <<>>, bestValue |-> NoValue, tries |-> 0]
  /\ UNCHANGED <<utxoMap, txs>>

\* InsufficientFunds before the search
CoinSelectFails(target) ==
  /\ cs = Idle /\ Effective(Positive) < target
  /\ \E s \in Script : GetChangeScript(s)
  /\ UNCHANGED <<utxoMap, txs, cs>>

\* Mutant: a selection above the target is never good.
OutOfRangeStrict ==
  cs.value + cs.avail < cs.target \/ cs.value > cs.target

\* The target is out of reach from here, or passed by more than the cost of change.
OutOfRange ==
  cs.value + cs.avail < cs.target \/ cs.value > cs.target + ChangeFee

InRange == ~ OutOfRange /\ cs.value >= cs.target

\* The best selection after looking at the current one.
Better ==
  IF InRange /\ (cs.bestValue = NoValue \/ cs.value < cs.bestValue)
    THEN [cs EXCEPT !.best = cs.sel, !.bestValue = cs.value]
    ELSE cs

Picked(order, sel) == {order[i] : i \in {j \in 1 .. Len(sel) : sel[j]}}

SelectedBy(best) == Picked(cs.order, best)

Fallback == [pc |-> "draw", target |-> cs.target, drawn |-> {}]

\* A perfect match ends the search.
BnbPerfect ==
  /\ Searching /\ cs.tries < BnbTries /\ InRange /\ cs.value = cs.target
  /\ Return(SelectedBy(Better.best))

\* The last output included, 0 if there is none.
LastIncluded == Max({0} \cup {i \in 1 .. Len(cs.sel) : cs.sel[i]})

\* Mutant: what walking back over the outputs left out makes available is forgotten.
BacktrackForgets(k) ==
  cs' = [Better EXCEPT !.sel = Append(SubSeq(@, 1, k - 1), FALSE),
                       !.value = @ - EffectiveValue(cs.order[k]),
                       !.tries = @ + 1]

\* Leave out the k-th output; those after it are available again.
Backtrack(k) ==
  cs' = [Better EXCEPT !.sel = Append(SubSeq(@, 1, k - 1), FALSE),
                       !.value = @ - EffectiveValue(cs.order[k]),
                       !.avail = @ + Effective({cs.order[i] : i \in k + 1 .. Len(cs.sel)}),
                       !.tries = @ + 1]

BnbBacktrack ==
  /\ Searching /\ cs.tries < BnbTries /\ (OutOfRange \/ InRange) /\ cs.value # cs.target
  /\ LastIncluded > 0
  /\ Backtrack(LastIncluded)
  /\ UNCHANGED wallet_hist

\* Every branch was walked: the best selection, or NoExactMatch.
BnbEnd ==
  /\ Searching /\ cs.tries < BnbTries /\ (OutOfRange \/ InRange) /\ cs.value # cs.target
  /\ LastIncluded = 0
  /\ IF Better.best = <<>> THEN cs' = Fallback /\ UNCHANGED wallet_hist
                           ELSE Return(SelectedBy(Better.best))

\* Include the next output.
BnbForward ==
  /\ Searching /\ cs.tries < BnbTries /\ ~ OutOfRange /\ ~ InRange
  /\ LET v == EffectiveValue(cs.order[Len(cs.sel) + 1])
     IN cs' = [cs EXCEPT !.sel = Append(@, TRUE), !.value = @ + v, !.avail = @ - v, !.tries = @ + 1]
  /\ UNCHANGED wallet_hist

\* The tries ran out: the best selection so far, or TotalTriesExceeded.
BnbExceeded ==
  /\ Searching /\ cs.tries = BnbTries
  /\ IF cs.best = <<>> THEN cs' = Fallback /\ UNCHANGED wallet_hist
                       ELSE Return(SelectedBy(cs.best))

-----------------------------------------------------------------------------
(* SingleRandomDraw and select_sorted_utxos *)

Short == Value(cs.drawn) < cs.target + Fee(cs.drawn)

\* The next output of the shuffled ones, of all the wallet knows.
DrawNext ==
  /\ Drawing /\ Short
  /\ \E o \in Known \ cs.drawn : cs' = [cs EXCEPT !.drawn = @ \cup {o}]
  /\ UNCHANGED wallet_hist

\* Mutant: only a draw from nothing fails.
DrawFailsEmpty ==
  /\ Drawing /\ Short /\ Known = {}
  /\ cs' = Idle
  /\ UNCHANGED wallet_hist

\* InsufficientFunds after all
DrawFails ==
  /\ Drawing /\ Short /\ cs.drawn = Known
  /\ cs' = Idle
  /\ UNCHANGED wallet_hist

DrawEnd == Drawing /\ ~ Short /\ Return(cs.drawn)

-----------------------------------------------------------------------------

SelectInit == WalletInit /\ cs = Idle

SelectStep ==
  \/ BnbPerfect \/ BnbBacktrack \/ BnbEnd \/ BnbForward \/ BnbExceeded
  \/ DrawNext \/ DrawFails \/ DrawEnd

\* The call is synchronous: nothing else happens to the wallet meanwhile.
SelectNext ==
  \/ cs = Idle /\ GetReceiveAddress /\ UNCHANGED <<txs, cs>>
  \/ /\ cs = Idle
     /\ \E o \in Outpoint, out \in PaidOutputs, spent \in BOOLEAN : ReportUtxo(o, out, spent)
     /\ UNCHANGED cs
  \/ \E target \in Payment : CoinSelect(target) \/ CoinSelectFails(target)
  \/ SelectStep

SelectSpec == SelectInit /\ [][SelectNext]_select_vars /\ WF_select_vars(SelectStep)

-----------------------------------------------------------------------------
(* Properties *)

\* The wallet before the call, while its selection is under way.
CallDepth == IF cs = Idle THEN changeDepth ELSE changeDepth - 1

CallKeys == IF cs = Idle THEN pubkeyMap ELSE [pubkeyMap EXCEPT ![CallScript] = NoKey]

\* What is in the wallet's maps and in its transactions.
ScriptInv ==
  /\ \A j \in 0 .. MaxChange :
       pubkeyMap[ChangeScript(j)] = IF j < changeDepth THEN <<External, ReceiveDepth>> ELSE NoKey
  /\ cs # Idle => changeDepth > 0
  /\ txs \in Seq(Tx)
  /\ \A i \in 1 .. Len(txs) : \E j \in 0 .. CallDepth - 1 : txs[i].changeScript = ChangeScript(j)
  /\ \A i, j \in 1 .. Len(txs) : i # j => txs[i].changeScript # txs[j].changeScript

\* What is not decided upon yet.
Undecided(order, sel) == {order[i] : i \in Len(sel) + 1 .. Len(order)}

\* The search is past the selection T: it has left out an output of T, and T has those it
\* includes before that.
Walked(order, sel, T) ==
  \E k \in 1 .. Len(sel) :
    /\ ~ sel[k] /\ order[k] \in T
    /\ \A i \in 1 .. k - 1 : sel[i] => order[i] \in T

\* The nodes of the tree of the search before the current one, for n outputs.  A node is the
\* set of the positions it includes, and the next position.
Before(n, sel) ==
  {C \in SUBSET (1 .. n + 1) :
     \E k \in 1 .. Len(sel) :
       /\ k \in C /\ \A i \in 1 .. k - 1 : i \in C <=> sel[i]
       /\ sel[k] => \A i \in C : i <= k}

\* The search keeps its books (bnb): curr_value is what is selected, curr_available_value what
\* is not decided upon; the best selection needs no change, and none of those walked
\* is cheaper; each try is another node.
SearchOK(c) ==
  /\ c \in [pc : {"bnb"}, target : Payment, order : Orders, sel : Seq(BOOLEAN), value : Int,
            avail : Int, best : Seq(BOOLEAN), bestValue : Int, tries : Nat]
  /\ Len(c.sel) <= Len(c.order) /\ Len(c.best) <= Len(c.order)
  /\ Effective(Positive) >= c.target
  /\ c.value = Effective(Picked(c.order, c.sel))
  /\ c.avail = Effective(Undecided(c.order, c.sel))
  /\ c.best = <<>> <=> c.bestValue = NoValue
  /\ c.best # <<>> =>
       /\ Picked(c.order, c.best) \in BnbMatches(c.target)
       /\ c.bestValue = Effective(Picked(c.order, c.best))
  /\ \A T \in BnbMatches(c.target) :
       Walked(c.order, c.sel, T) => c.best # <<>> /\ c.bestValue <= Effective(T)
  /\ c.tries <= Cardinality(Before(Len(c.order), c.sel))

\* A draw follows a search in vain, and did not cover the target before its last output.
DrawOK(c) ==
  /\ c \in [pc : {"draw"}, target : Payment, drawn : SUBSET Known]
  /\ Effective(Positive) >= c.target
  /\ Exhaustive => BnbSelections(c.target) = {}
  /\ c.drawn # {} => \E o \in c.drawn : Effective(c.drawn \ {o}) < c.target

\* The inductive invariant of create_psbt_tx: what coin_select knows at each of its turns.
SelectInv ==
  /\ WalletTypeOK /\ ScriptInv /\ FeeBounded
  /\ \/ cs = Idle
     \/ Searching /\ SearchOK(cs)
     \/ Drawing /\ DrawOK(cs)

\* coin_select ends: with a selection or with InsufficientFunds.
SelectionEnds == [](cs # Idle => <>(cs = Idle))
=============================================================================
