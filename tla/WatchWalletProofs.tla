------------------------- MODULE WatchWalletProofs -------------------------
(***************************************************************************)
(* Proofs about what the wallet computes: sums over finite sets of outputs,*)
(* the value of a selection, and the transaction made of one.  They are    *)
(* used for CoinSelection and for Node, which are both built on            *)
(* WatchWallet.                                                            *)
(***************************************************************************)
EXTENDS WatchWallet, FiniteSetTheorems, TLAPS

-----------------------------------------------------------------------------
(* Sums over finite sets.  A property of all subsets of a finite set is proved    *)
(* from a smallest one that would not have it.                                    *)

Total(f, S) == SumFunctionOnSet(f, S)

\* Among sets of outputs that have a property, one has no proper subset that has it: what
\* stands in for induction over the outputs coin_select goes through.
LEMMA MinimalSubset ==
  ASSUME NEW S, IsFiniteSet(S), NEW T, T \subseteq SUBSET S, T # {}
  PROVE  \E x \in T : \A y \in T : ~(y \subseteq x /\ y # x)
<1>1. IsWellFoundedOn(StrictSubsetOrdering(S), SUBSET S)
  BY FS_FiniteSubsetsOfFinite, FS_StrictSubsetOrderingWellFounded, Zenon
<1>2. PICK x \in T : \A y \in T : ~ (<<y, x>> \in StrictSubsetOrdering(S))
  BY <1>1, WFMin, Zenon
<1>3. ASSUME NEW y \in T, y \subseteq x, y # x PROVE FALSE
  <2>1. <<y, x>> \in StrictSubsetOrdering(S)
    BY <1>3 DEF StrictSubsetOrdering
  <2> QED BY <2>1, <1>2
<1> QED BY <1>3, Zenon

\* The element the recursion takes out of a set.
First(s) == CHOOSE x \in s : TRUE

\* g gives the sums of f over the subsets of S.
IsSum(g, f, S) ==
  g = [s \in SUBSET S |-> IF s = {} THEN 0 ELSE f[First(s)] + g[s \ {First(s)}]]

\* A sum is what the recursion over the chosen elements gives (the iter().sum() of coin_select).
LEMMA TotalDef == ASSUME NEW f, NEW S PROVE Total(f, S) = (CHOOSE g : IsSum(g, f, S))[S]
BY Zenon DEF Total, SumFunctionOnSet, FoldFunctionOnSet, MapThenFoldSet, IsSum, First

\* The element a sum takes first is one of its set.
LEMMA FirstIn == ASSUME NEW s, s # {} PROVE First(s) \in s
BY Zenon DEF First

\* The recursion of a sum, at a subset.
LEMMA SumAt ==
  ASSUME NEW f, NEW S, NEW g, IsSum(g, f, S), NEW s \in SUBSET S
  PROVE  g[s] = IF s = {} THEN 0 ELSE f[First(s)] + g[s \ {First(s)}]
BY Zenon DEF IsSum

\* The recursion of a sum, at a subset that is not empty.
LEMMA SumOf ==
  ASSUME NEW f, NEW S, NEW g, IsSum(g, f, S), NEW s \in SUBSET S, s # {}
  PROVE  g[s] = f[First(s)] + g[s \ {First(s)}]
BY Zenon DEF IsSum

\* The recursions of a sum over two sets agree on the smaller one.
LEMMA SumUnique ==
  ASSUME NEW f, NEW S, IsFiniteSet(S), NEW T \in SUBSET S, NEW g, NEW h, IsSum(g, f, S), IsSum(h, f, T)
  PROVE  \A t \in SUBSET T : g[t] = h[t]
<1> DEFINE Bad == {t \in SUBSET T : g[t] # h[t]}
<1> SUFFICES ASSUME Bad # {} PROVE FALSE
  BY Zenon
<1>1. PICK t \in Bad : \A y \in Bad : ~(y \subseteq t /\ y # t)
  <2>1. Bad \subseteq SUBSET S
    BY Zenon
  <2> HIDE DEF Bad
  <2> QED
    BY SMT, <2>1, MinimalSubset
<1>2. t \in SUBSET T /\ t \in SUBSET S
  BY Zenon
<1>3. CASE t = {}
  <2>1. g[t] = 0 /\ h[t] = 0
    BY ZenonT(40), <1>2, <1>3, SumAt
  <2> QED
    BY Zenon, <2>1
<1>4. CASE t # {}
  <2>a. g[t] = f[First(t)] + g[t \ {First(t)}]
    <3> HIDE DEF Bad
    <3> QED BY <1>2, <1>4, SumOf
  <2>b. h[t] = f[First(t)] + h[t \ {First(t)}]
    <3> HIDE DEF Bad
    <3> QED BY <1>2, <1>4, SumOf
  <2>1. g[t] = f[First(t)] + g[t \ {First(t)}] /\ h[t] = f[First(t)] + h[t \ {First(t)}]
    BY <2>a, <2>b
  <2>2. t \ {First(t)} \notin Bad
    BY Zenon, <1>1, <1>4, FirstIn
  <2>3. t \ {First(t)} \in SUBSET T
    BY Zenon, <1>2
  <2> QED
    BY Zenon, <2>1, <2>2, <2>3
<1> QED
  BY Zenon, <1>3, <1>4

\* A sum over a subset is what the recursion over the whole gives there.
LEMMA TotalIs ==
  ASSUME NEW f, NEW S, IsFiniteSet(S), NEW g, IsSum(g, f, S), NEW T \in SUBSET S, NEW h, IsSum(h, f, T)
  PROVE  Total(f, T) = g[T]
<1>1. IsSum(CHOOSE k : IsSum(k, f, T), f, T)
  BY Zenon
<1>2. T \in SUBSET T
  BY Zenon
<1> QED
  BY SMT, <1>1, <1>2, SumUnique, TotalDef

\* The recursion of a sum has a solution for every finite set.
LEMMA SumExists ==
  ASSUME NEW f, NEW S, IsFiniteSet(S)
  PROVE  \A T \in SUBSET S : \E g : IsSum(g, f, T)
<1> DEFINE Bad == {T \in SUBSET S : ~ \E g : IsSum(g, f, T)}
<1> SUFFICES ASSUME Bad # {} PROVE FALSE
  BY Zenon
<1>1. PICK T \in Bad : \A y \in Bad : ~(y \subseteq T /\ y # T)
  <2>1. Bad \subseteq SUBSET S
    BY Zenon
  <2> HIDE DEF Bad
  <2> QED
    BY SMT, <2>1, MinimalSubset
<1>2. T \in SUBSET S
  BY Zenon
<1> DEFINE g == [s \in SUBSET T |-> IF s = {} THEN 0 ELSE f[First(s)] + Total(f, s \ {First(s)})]
<1>3. ASSUME NEW r \in SUBSET T, r # T PROVE Total(f, r) = g[r]
  <2>1. PICK h : IsSum(h, f, r)
    BY Zenon, <1>1, <1>2, <1>3
  <2>2. IsFiniteSet(r) /\ r \in SUBSET r
    BY Zenon, <1>2, FS_Subset
  <2>3. Total(f, r) = h[r]
    BY SMT, <2>1, <2>2, TotalIs
  <2>4. h[r] = IF r = {} THEN 0 ELSE f[First(r)] + h[r \ {First(r)}]
    BY SMT, <2>1, <2>2, SumAt
  <2>5. ASSUME r # {} PROVE Total(f, r \ {First(r)}) = h[r \ {First(r)}]
    <3> DEFINE q == r \ {First(r)}
    <3>1. q \in SUBSET r /\ q \in SUBSET S /\ q \subseteq T /\ q # T
      BY Zenon, <1>2, <1>3, <2>5, FirstIn
    <3>2. PICK k : IsSum(k, f, q)
      BY Zenon, <1>1, <3>1
    <3> HIDE DEF q
    <3>3. Total(f, q) = h[q]
      BY SMT, <2>1, <2>2, <3>1, <3>2, TotalIs
    <3> QED
      BY Zenon, <3>3 DEF q
  <2> QED
    BY Zenon, <2>3, <2>4, <2>5
<1>4. ASSUME NEW s \in SUBSET T, s # {} PROVE Total(f, s \ {First(s)}) = g[s \ {First(s)}]
  <2>1. s \ {First(s)} \in SUBSET T /\ s \ {First(s)} # T
    BY Zenon, <1>4, FirstIn
  <2> HIDE DEF g
  <2> QED
    BY Zenon, <2>1, <1>3
<1>5. IsSum(g, f, T)
  <2>1. \A s \in SUBSET T : g[s] = IF s = {} THEN 0 ELSE f[First(s)] + Total(f, s \ {First(s)})
    BY Zenon
  <2>2. g = [s \in SUBSET T |-> g[s]]
    BY Zenon
  <2> HIDE DEF g
  <2>3. \A s \in SUBSET T : g[s] = IF s = {} THEN 0 ELSE f[First(s)] + g[s \ {First(s)}]
    BY Zenon, <2>1, <1>4
  <2> QED
    BY Zenon, <2>2, <2>3 DEF IsSum
<1> QED
  BY Zenon, <1>5

\* The sum over no outputs is 0 (curr_value at the start of bnb).
LEMMA TotalNone == ASSUME NEW f PROVE Total(f, {}) = 0
<1>1. IsFiniteSet({}) /\ {} \in SUBSET {}
  BY Zenon, FS_EmptySet
<1>2. PICK g : IsSum(g, f, {})
  BY Zenon, <1>1, SumExists
<1>3. Total(f, {}) = g[{}]
  BY <1>1, <1>2, TotalIs
<1> QED
  BY <1>1, <1>2, <1>3, SumAt

\* A sum over a finite set takes its first element, and the sum of the rest.
LEMMA TotalFirst ==
  ASSUME NEW f, NEW S, IsFiniteSet(S), S # {}
  PROVE  Total(f, S) = f[First(S)] + Total(f, S \ {First(S)})
<1> DEFINE T == S \ {First(S)}
<1>1. S \in SUBSET S /\ T \in SUBSET S
  BY Zenon
<1>2. PICK g : IsSum(g, f, S)
  BY Zenon, <1>1, SumExists
<1>3. PICK h : IsSum(h, f, T)
  BY Zenon, <1>1, SumExists
<1>4. Total(f, S) = g[S]
  BY <1>1, <1>2, TotalIs
<1>5. g[S] = f[First(S)] + g[T]
  BY <1>1, <1>2, SumOf
<1> HIDE DEF T
<1>6. Total(f, T) = g[T]
  BY <1>1, <1>2, <1>3, TotalIs
<1> QED
  BY Zenon, <1>4, <1>5, <1>6 DEF T

\* A sum of integers is an integer.
LEMMA TotalInt ==
  ASSUME NEW f, NEW S, IsFiniteSet(S), \A x \in S : f[x] \in Int
  PROVE  Total(f, S) \in Int
<1> DEFINE Bad == {T \in SUBSET S : Total(f, T) \notin Int}
<1> SUFFICES ASSUME Bad # {} PROVE FALSE
  BY Zenon
<1>1. PICK T \in Bad : \A y \in Bad : ~(y \subseteq T /\ y # T)
  <2>1. Bad \subseteq SUBSET S
    BY Zenon
  <2> HIDE DEF Bad
  <2> QED
    BY SMT, <2>1, MinimalSubset
<1>2. T \in SUBSET S /\ Total(f, T) \notin Int /\ IsFiniteSet(T)
  BY Zenon, FS_Subset
<1>3. T # {}
  BY <1>2, TotalNone
<1>4. First(T) \in T /\ T \ {First(T)} \subseteq T /\ T \ {First(T)} # T
  BY Zenon, <1>3, FirstIn
<1>5. Total(f, T \ {First(T)}) \in Int
  BY Zenon, <1>1, <1>2, <1>4
<1>6. f[First(T)] \in Int
  BY Zenon, <1>2, <1>4
<1> HIDE DEF Bad
<1>7. Total(f, T) = f[First(T)] + Total(f, T \ {First(T)})
  BY <1>2, <1>3, TotalFirst
<1>8. f[First(T)] + Total(f, T \ {First(T)}) \in Int
  BY <1>5, <1>6
<1> QED
  BY Zenon, <1>2, <1>7, <1>8

\* A sum of naturals is a natural: the value of a selection.
LEMMA TotalNat ==
  ASSUME NEW f, NEW S, IsFiniteSet(S), \A x \in S : f[x] \in Nat
  PROVE  Total(f, S) \in Nat
<1> DEFINE Bad == {T \in SUBSET S : Total(f, T) \notin Nat}
<1> SUFFICES ASSUME Bad # {} PROVE FALSE
  BY Zenon
<1>1. PICK T \in Bad : \A y \in Bad : ~(y \subseteq T /\ y # T)
  <2>1. Bad \subseteq SUBSET S
    BY Zenon
  <2> HIDE DEF Bad
  <2> QED
    BY SMT, <2>1, MinimalSubset
<1>2. T \in SUBSET S /\ Total(f, T) \notin Nat /\ IsFiniteSet(T)
  BY Zenon, FS_Subset
<1>3. T # {}
  BY <1>2, TotalNone
<1>4. First(T) \in T /\ T \ {First(T)} \subseteq T /\ T \ {First(T)} # T
  BY Zenon, <1>3, FirstIn
<1>5. Total(f, T \ {First(T)}) \in Nat
  BY Zenon, <1>1, <1>2, <1>4
<1>6. f[First(T)] \in Nat
  BY Zenon, <1>2, <1>4
<1> HIDE DEF Bad
<1>7. Total(f, T) = f[First(T)] + Total(f, T \ {First(T)})
  BY <1>2, <1>3, TotalFirst
<1>8. f[First(T)] + Total(f, T \ {First(T)}) \in Nat
  BY <1>5, <1>6
<1> QED
  BY Zenon, <1>2, <1>7, <1>8

\* A sum does not depend on the order: any element may be taken out first, as bnb
\* does when it backtracks.
LEMMA TotalRemove ==
  ASSUME NEW f, NEW S, IsFiniteSet(S), \A x \in S : f[x] \in Int
  PROVE  \A x \in S : Total(f, S) = f[x] + Total(f, S \ {x})
<1> DEFINE Bad == {T \in SUBSET S : ~ \A x \in T : Total(f, T) = f[x] + Total(f, T \ {x})}
<1> SUFFICES ASSUME Bad # {} PROVE FALSE
  BY Zenon
<1>1. PICK T \in Bad : \A y \in Bad : ~(y \subseteq T /\ y # T)
  <2>1. Bad \subseteq SUBSET S
    BY Zenon
  <2> HIDE DEF Bad
  <2> QED
    BY SMT, <2>1, MinimalSubset
<1>2. T \in SUBSET S /\ IsFiniteSet(T)
  BY Zenon, FS_Subset
<1>3. PICK x \in T : Total(f, T) # f[x] + Total(f, T \ {x})
  BY Zenon
<1> DEFINE c == First(T)
<1>4. c \in T
  BY Zenon, <1>3, FirstIn
<1>5. \A y \in SUBSET T : y # T => \A z \in y : Total(f, y) = f[z] + Total(f, y \ {z})
  BY Zenon, <1>1, <1>2
<1> HIDE DEF Bad, c
<1>6. Total(f, T) = f[c] + Total(f, T \ {c})
  BY <1>2, <1>3, TotalFirst DEF c
<1>7. x # c
  BY Zenon, <1>3, <1>6
<1>8. Total(f, T \ {c}) = f[x] + Total(f, (T \ {c}) \ {x})
  BY Zenon, <1>3, <1>4, <1>5, <1>7
<1>9. Total(f, T \ {x}) = f[c] + Total(f, (T \ {x}) \ {c})
  BY Zenon, <1>3, <1>4, <1>5, <1>7
<1>10. (T \ {x}) \ {c} = (T \ {c}) \ {x}
  BY Zenon
<1> DEFINE R == (T \ {c}) \ {x}
<1>11. Total(f, R) \in Int
  <2>1. R \in SUBSET S
    BY Zenon, <1>2
  <2>2. IsFiniteSet(R) /\ \A y \in R : f[y] \in Int
    BY Zenon, <2>1, FS_Subset
  <2> HIDE DEF R
  <2> QED
    BY <2>2, TotalInt
<1>12. f[x] \in Int /\ f[c] \in Int
  BY Zenon, <1>2, <1>3, <1>4
<1>13. \A p, q, r \in Int : p + (q + r) = q + (p + r)
  OBVIOUS
<1> HIDE DEF R
<1>14. f[c] + (f[x] + Total(f, R)) = f[x] + (f[c] + Total(f, R))
  BY Zenon, <1>11, <1>12, <1>13
<1> QED
  BY Zenon, <1>3, <1>6, <1>8, <1>9, <1>10, <1>14 DEF R

\* Functions that agree on a set have the same sum over it.
LEMMA TotalSame ==
  ASSUME NEW f, NEW g, NEW S, IsFiniteSet(S), \A x \in S : f[x] = g[x]
  PROVE  Total(f, S) = Total(g, S)
<1> DEFINE Bad == {T \in SUBSET S : Total(f, T) # Total(g, T)}
<1> SUFFICES ASSUME Bad # {} PROVE FALSE
  BY Zenon
<1>1. PICK T \in Bad : \A y \in Bad : ~(y \subseteq T /\ y # T)
  <2>1. Bad \subseteq SUBSET S
    BY Zenon
  <2> HIDE DEF Bad
  <2> QED
    BY SMT, <2>1, MinimalSubset
<1>2. T \in SUBSET S /\ Total(f, T) # Total(g, T) /\ IsFiniteSet(T)
  BY Zenon, FS_Subset
<1>3. T # {}
  BY <1>2, TotalNone
<1>4. First(T) \in T /\ T \ {First(T)} \subseteq T /\ T \ {First(T)} # T
  BY Zenon, <1>3, FirstIn
<1>5. Total(f, T \ {First(T)}) = Total(g, T \ {First(T)})
  BY Zenon, <1>1, <1>2, <1>4
<1> HIDE DEF Bad
<1>6. Total(f, T) = f[First(T)] + Total(f, T \ {First(T)})
  BY <1>2, <1>3, TotalFirst
<1>7. Total(g, T) = g[First(T)] + Total(g, T \ {First(T)})
  BY <1>2, <1>3, TotalFirst
<1> QED
  BY Zenon, <1>2, <1>4, <1>5, <1>6, <1>7
-----------------------------------------------------------------------------
(* The effective value of a set of outputs *)

\* The amounts of outputs are naturals, and there are finitely many outputs.
Sound ==
  /\ IsFiniteSet(Outpoint) /\ InputFee \in Nat
  /\ \A o \in Outpoint : utxoMap[o].amount \in Nat

Amounts == [o \in Outpoint |-> utxoMap[o].amount]

\* The type of the wallet makes it Sound (Utxo holds a TxOut, whose value is unsigned).
LEMMA WalletSound == ASSUME WalletTypeOK PROVE Sound
<1>1. \A o \in Outpoint : utxoMap[o] \in Utxo \cup {NoUtxo}
  BY Zenon DEF WalletTypeOK
<1>2. \A o \in Outpoint : utxoMap[o].amount \in Nat
  BY <1>1 DEF Utxo, NoUtxo
<1> QED
  BY <1>2, WalletAssumption, Zenon DEF Sound

\* The value of a set of outputs is a sum over the wallet's amounts.
LEMMA ValueTotal == ASSUME Sound, NEW S \in SUBSET Outpoint PROVE Value(S) = Total(Amounts, S)
<1> DEFINE f == [o \in S |-> utxoMap[o].amount]
<1>1. Value(S) = Total(f, S)
  BY Zenon DEF Value, SumFunction, Total
<1>2. IsFiniteSet(S)
  BY FS_Subset, Zenon DEF Sound
<1>3. \A x \in S : f[x] = Amounts[x]
  BY Zenon DEF Amounts
<1> HIDE DEF f
<1> QED
  BY <1>1, <1>2, <1>3, TotalSame

\* The effective value of a selection is an integer (SelectionResult's amounts are i64).
LEMMA EffectiveInt == ASSUME Sound, NEW S \in SUBSET Outpoint PROVE Effective(S) \in Int
<1>1. IsFiniteSet(S)
  BY FS_Subset, Zenon DEF Sound
<1>a. \A x \in S : Amounts[x] \in Int
  BY DEF Sound, Amounts
<1>2. Value(S) \in Int
  BY <1>1, <1>a, ValueTotal, TotalInt
<1>3. Cardinality(S) \in Nat /\ InputFee \in Nat
  BY <1>1, FS_CardinalityType, Zenon DEF Sound
<1> QED
  BY <1>2, <1>3 DEF Effective, Fee

\* Nothing selected has no value (curr_value starts at 0).
LEMMA EffectiveNone == ASSUME Sound PROVE Effective({}) = 0
<1>1. Value({}) = 0
  BY ValueTotal, TotalNone, Zenon
<1>2. Cardinality({}) = 0 /\ InputFee \in Nat
  BY FS_EmptySet, Zenon DEF Sound
<1> QED
  BY <1>1, <1>2 DEF Effective, Fee

\* The value and the fee of a selection are integers.
LEMMA ValueFeeInt ==
  ASSUME Sound, NEW S \in SUBSET Outpoint
  PROVE  Value(S) \in Int /\ Fee(S) \in Int /\ Effective(S) = Value(S) - Fee(S)
<1>1. IsFiniteSet(S)
  BY FS_Subset, Zenon DEF Sound
<1>2. \A x \in S : Amounts[x] \in Int
  BY DEF Sound, Amounts
<1>3. Value(S) \in Int
  BY <1>1, <1>2, ValueTotal, TotalInt
<1>4. Cardinality(S) \in Nat /\ InputFee \in Nat
  BY <1>1, FS_CardinalityType, Zenon DEF Sound
<1>5. Fee(S) \in Int
  BY <1>4 DEF Fee
<1> QED
  BY <1>3, <1>5, ZenonT(40) DEF Effective

-----------------------------------------------------------------------------
(* The transactions of create_psbt_tx *)

FeeOK(tx) ==
  LET over == tx.fee - Fee(tx.inputs)
  IN IF tx.change = 0 THEN over \in 0 .. ChangeFee + Dust - 1
                      ELSE over = ChangeFee /\ tx.change >= Dust

\* What decide_change makes of what remains.
LEMMA ChangeFacts ==
  ASSUME ChangeFee \in Nat, Dust \in Nat, NEW r \in Nat
  PROVE  /\ ChangeOf(r) \in Nat
         /\ ChangeOf(r) = 0 => Dust = 0 \/ r < ChangeFee + Dust
         /\ ChangeOf(r) # 0 => ChangeOf(r) >= Dust /\ ChangeOf(r) = r - ChangeFee
BY DEF ChangeOf

\* A transaction that spends what meets its target pays the fee it should (create_psbt_tx).
LEMMA TransactionFacts ==
  ASSUME Sound, NEW t \in Payment, NEW S \in SUBSET Outpoint, Effective(S) \in Int, Effective(S) >= t,
         NEW s \in Script
  PROVE  /\ Transaction(S, t, s) \in Tx
         /\ Transaction(S, t, s).changeScript = s
         /\ FeeOK(Transaction(S, t, s))
<1> DEFINE r == Effective(S) - t
           change == ChangeOf(r)
           fee == Value(S) - t - change
           valid == \A o \in S : utxoMap[o].key = utxoMap[o].script
           tx == [inputs |-> S, amount |-> t, change |-> change, changeScript |-> s,
                  fee |-> fee, valid |-> valid]
<1>1. Transaction(S, t, s) = tx
  BY Zenon DEF Transaction
<1>2. t \in Nat /\ ChangeFee \in Nat /\ Dust \in Nat \ {0}
  BY WalletAssumption, Zenon
<1>3. Dust \in Nat /\ Dust # 0 /\ r \in Nat
  BY <1>2
<1>4. /\ change \in Nat
      /\ change = 0 => Dust = 0 \/ r < ChangeFee + Dust
      /\ change # 0 => change >= Dust /\ change = r - ChangeFee
  <2> HIDE DEF r
  <2> QED
    BY <1>2, <1>3, ChangeFacts
<1>5. Value(S) \in Int /\ Fee(S) \in Int /\ Effective(S) = Value(S) - Fee(S)
  BY ValueFeeInt
<1> HIDE DEF change
<1>6. fee \in Int /\ fee - Fee(S) = r - change
  BY <1>2, <1>4, <1>5
<1>7. valid \in BOOLEAN
  BY Zenon
<1> HIDE DEF fee, valid, r
<1>8. /\ tx \in Tx /\ tx.changeScript = s /\ tx.fee = fee /\ tx.inputs = S /\ tx.change = change
  BY SMTT(30), <1>4, <1>6, <1>7 DEF Tx
<1> HIDE DEF tx
<1>9. IF change = 0 THEN r - change \in 0 .. ChangeFee + Dust - 1
                    ELSE r - change = ChangeFee /\ change >= Dust
  BY <1>2, <1>3, <1>4
<1>10. FeeOK(tx)
  BY <1>6, <1>8, <1>9, ZenonT(40) DEF FeeOK
<1> QED
  BY <1>1, <1>8, <1>10, ZenonT(40)

=============================================================================
