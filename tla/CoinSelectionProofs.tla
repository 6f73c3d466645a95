------------------------ MODULE CoinSelectionProofs ------------------------
(***************************************************************************)
(* Proofs for CoinSelection, for any outputs, amounts, fees and number of  *)
(* tries: the invariant of the steps of coin_select, what it says of the   *)
(* transactions of create_psbt_tx, and that the turns of coin_select       *)
(* implement the selection of WatchWallet: a turn changes nothing the      *)
(* wallet has, and the turn that ends the search takes what WatchWallet    *)
(* may take.                                                               *)
(***************************************************************************)
EXTENDS SelectionRefinement, WatchWalletProofs, TLAPS

-----------------------------------------------------------------------------
(* The effective value of a set of outputs, one output more or less *)

\* The fee of one more input.
LEMMA FeeMore == \A a, b \in Nat : a * (b + 1) = a * b + a
OBVIOUS

\* Taking an output out of a selection takes its effective value (bnb: curr_value -= ...).
LEMMA EffectiveRemove ==
  ASSUME Sound, NEW S \in SUBSET Outpoint, NEW o \in S
  PROVE  /\ Effective(S) = Effective(S \ {o}) + EffectiveValue(o)
         /\ EffectiveValue(o) \in Int
<1> DEFINE R == S \ {o}
<1>1. IsFiniteSet(S) /\ IsFiniteSet(R) /\ R \in SUBSET Outpoint
  BY FS_Subset, Zenon DEF Sound
<1>2. \A x \in S : Amounts[x] \in Nat
  BY DEF Amounts, Sound
<1>3. Total(Amounts, S) = Amounts[o] + Total(Amounts, R)
  BY <1>1, <1>2, TotalRemove
<1>4. Total(Amounts, R) \in Int
  BY <1>1, <1>2, TotalInt
<1>5. Cardinality(S) = Cardinality(R) + 1 /\ Cardinality(R) \in Nat
  BY <1>1, FS_RemoveElement, FS_CardinalityType
<1>6. InputFee * Cardinality(S) = InputFee * Cardinality(R) + InputFee
  BY <1>5, FeeMore, Zenon DEF Sound
<1>7. Amounts[o] = utxoMap[o].amount /\ utxoMap[o].amount \in Nat /\ InputFee \in Nat
  BY Zenon DEF Sound, Amounts
<1>8. InputFee * Cardinality(R) \in Int
  BY <1>5, <1>7
<1>9. Value(S) = Total(Amounts, S) /\ Value(R) = Total(Amounts, R)
  BY <1>1, ValueTotal, Zenon
<1> QED
  BY <1>3, <1>4, <1>6, <1>7, <1>8, <1>9 DEF Effective, Fee, EffectiveValue

\* Adding an output to a selection adds its effective value (bnb: curr_value += ...).
LEMMA EffectiveAdd ==
  ASSUME Sound, NEW S \in SUBSET Outpoint, NEW o \in Outpoint, o \notin S
  PROVE  /\ Effective(S \cup {o}) = Effective(S) + EffectiveValue(o)
         /\ EffectiveValue(o) \in Int
<1> DEFINE R == S \cup {o}
<1>1. R \in SUBSET Outpoint /\ o \in R /\ R \ {o} = S
  BY Zenon
<1> HIDE DEF R
<1>2. Effective(R) = Effective(R \ {o}) + EffectiveValue(o) /\ EffectiveValue(o) \in Int
  BY <1>1, EffectiveRemove
<1> QED
  BY <1>1, <1>2, Zenon DEF R

\* The effective values of two selections without a common output add up.
LEMMA EffectiveUnion ==
  ASSUME Sound, NEW A \in SUBSET Outpoint, NEW B \in SUBSET Outpoint, A \cap B = {}
  PROVE  Effective(A \cup B) = Effective(A) + Effective(B)
<1> DEFINE Bad == {T \in SUBSET B : Effective(A \cup T) # Effective(A) + Effective(T)}
<1> SUFFICES ASSUME Bad # {} PROVE FALSE
  BY Zenon
<1>1. PICK T \in Bad : \A y \in Bad : ~(y \subseteq T /\ y # T)
  <2>1. Bad \subseteq SUBSET B /\ IsFiniteSet(B)
    BY FS_Subset, Zenon DEF Sound
  <2> HIDE DEF Bad
  <2> QED
    BY SMT, <2>1, MinimalSubset
<1>2. T \in SUBSET B /\ Effective(A \cup T) # Effective(A) + Effective(T)
  BY Zenon
<1>3. Effective(A) \in Int
  BY EffectiveInt
<1>4. T # {}
  <2>1. A \cup {} = A
    BY Zenon
  <2>2. Effective({}) = 0
    BY EffectiveNone
  <2>3. \A p \in Int : p + 0 = p
    OBVIOUS
  <2> HIDE DEF Bad
  <2> QED
    BY <1>2, <1>3, <2>1, <2>2, <2>3, Zenon
<1> DEFINE o == First(T)
        R == T \ {o}
<1>5. /\ o \in T /\ o \in Outpoint /\ R \in SUBSET B /\ R \in SUBSET Outpoint /\ T \in SUBSET Outpoint
      /\ R \subseteq T /\ R # T /\ (A \cup T) \ {o} = A \cup R
      /\ A \cup T \in SUBSET Outpoint /\ o \in A \cup T
  BY <1>2, <1>4, FirstIn, ZenonT(40)
<1>6. Effective(A \cup R) = Effective(A) + Effective(R)
  BY <1>1, <1>5, Zenon
<1> HIDE DEF Bad, o, R
<1>7. Effective(A \cup T) = Effective((A \cup T) \ {o}) + EffectiveValue(o)
  BY <1>5, EffectiveRemove
<1>8. Effective(T) = Effective(R) + EffectiveValue(o) /\ EffectiveValue(o) \in Int
  BY Zenon, <1>5, EffectiveRemove DEF R
<1>9. Effective(R) \in Int
  BY <1>5, EffectiveInt
<1>10. \A p, q, r \in Int : (p + q) + r = p + (q + r)
  OBVIOUS
<1>11. Effective(A \cup T) = (Effective(A) + Effective(R)) + EffectiveValue(o)
  BY <1>5, <1>6, <1>7, Zenon
<1>12. (Effective(A) + Effective(R)) + EffectiveValue(o) = Effective(A) + (Effective(R) + EffectiveValue(o))
  BY <1>3, <1>8, <1>9, <1>10, ZenonT(40)
<1> QED
  BY <1>2, <1>8, <1>11, <1>12, Zenon

\* Outputs of positive effective value are worth something together.
LEMMA EffectiveNat ==
  ASSUME Sound, NEW S \in SUBSET Positive
  PROVE  Effective(S) \in Nat
<1> DEFINE Bad == {T \in SUBSET S : Effective(T) \notin Nat}
<1> SUFFICES ASSUME Bad # {} PROVE FALSE
  BY Zenon
<1>0. S \in SUBSET Outpoint
  BY Zenon DEF Positive, Known
<1>1. PICK T \in Bad : \A y \in Bad : ~(y \subseteq T /\ y # T)
  <2>1. Bad \subseteq SUBSET S /\ IsFiniteSet(S)
    BY <1>0, FS_Subset, Zenon DEF Sound
  <2> HIDE DEF Bad
  <2> QED
    BY SMT, <2>1, MinimalSubset
<1>2. T \in SUBSET S /\ Effective(T) \notin Nat
  BY Zenon
<1>3. T # {}
  <2> HIDE DEF Bad
  <2> QED
    BY <1>2, EffectiveNone
<1> DEFINE o == First(T)
<1>4. o \in T /\ T \in SUBSET Outpoint /\ T \ {o} \subseteq T /\ T \ {o} # T /\ o \in Positive
  BY <1>0, <1>2, <1>3, FirstIn, Zenon
<1>5. Effective(T \ {o}) \in Nat
  BY <1>1, <1>2, <1>4, Zenon
<1>6. utxoMap[o].amount > InputFee /\ utxoMap[o].amount \in Nat /\ InputFee \in Nat
  BY <1>4, Zenon DEF Positive, Known, Sound
<1> HIDE DEF Bad, o
<1>7. Effective(T) = Effective(T \ {o}) + EffectiveValue(o)
  BY <1>4, EffectiveRemove
<1> QED
  BY <1>2, <1>5, <1>6, <1>7 DEF EffectiveValue

\* More outputs of positive effective value are worth more.
LEMMA EffectiveMono ==
  ASSUME Sound, NEW B \in SUBSET Positive, NEW A \in SUBSET B
  PROVE  Effective(A) <= Effective(B)
<1> DEFINE R == B \ A
<1>1. /\ A \in SUBSET Outpoint /\ R \in SUBSET Outpoint /\ A \cap R = {} /\ A \cup R = B
      /\ R \in SUBSET Positive
  BY Zenon DEF Positive, Known
<1> HIDE DEF R
<1>2. Effective(B) = Effective(A) + Effective(R)
  BY <1>1, EffectiveUnion
<1>3. Effective(A) \in Int /\ Effective(R) \in Nat
  BY <1>1, EffectiveInt, EffectiveNat
<1> QED
  BY <1>2, <1>3

-----------------------------------------------------------------------------
(* The outputs in the order of the search, and the decisions on them *)

\* The same for sets that belong to the elements of a finite set.
LEMMA MinimalImage ==
  ASSUME NEW S, IsFiniteSet(S), S # {}, NEW F \in [S -> SUBSET S]
  PROVE  \E x \in S : \A y \in S : ~(F[y] \subseteq F[x] /\ F[y] # F[x])
<1> DEFINE T == {F[x] : x \in S}
<1>1. T \subseteq SUBSET S /\ T # {} /\ \A x \in S : F[x] \in T
  BY Zenon
<1>2. \A t \in T : \E x \in S : t = F[x]
  BY Zenon
<1> HIDE DEF T
<1>3. PICK t \in T : \A y \in T : ~(y \subseteq t /\ y # t)
  BY <1>1, MinimalSubset
<1>4. PICK x \in S : t = F[x]
  BY <1>2, Zenon
<1>5. \A y \in S : ~(F[y] \subseteq F[x] /\ F[y] # F[x])
  BY <1>1, <1>3, <1>4
<1> QED
  BY <1>5, Zenon

\* A finite set of numbers has a largest one (the backtracking of bnb looks for it).
LEMMA Largest ==
  ASSUME NEW n \in Nat, NEW S, S \subseteq 0 .. n, S # {}
  PROVE  \E x \in S : \A y \in S : x >= y
<1> DEFINE F == [x \in S |-> {y \in S : y > x}]
<1>1. IsFiniteSet(S)
  <2>1. IsFiniteSet(0 .. n)
    BY FS_Interval
  <2> QED
    BY <2>1, FS_Subset, Zenon
<1>2. F \in [S -> SUBSET S]
  BY Zenon
<1>3. PICK x \in S : \A y \in S : ~(F[y] \subseteq F[x] /\ F[y] # F[x])
  <2>1. \A G \in [S -> SUBSET S] : \E x \in S : \A y \in S : ~(G[y] \subseteq G[x] /\ G[y] # G[x])
    BY Zenon, <1>1, MinimalImage
  <2> HIDE DEF F
  <2> QED
    BY <1>2, <2>1, Zenon
<1>4. \A y \in S : y \in Int
  OBVIOUS
<1>5. ASSUME NEW z \in S, z > x PROVE FALSE
  <2>1. ~(z > z) /\ \A y \in S : y > z => y > x
    BY <1>4, <1>5
  <2>2. z \in F[x] /\ z \notin F[z] /\ F[z] \subseteq F[x]
    BY <1>5, <2>1, Zenon
  <2> QED
    BY <1>3, <2>2, Zenon
<1>6. \A y \in S : x >= y
  BY <1>4, <1>5
<1> QED
  BY <1>6, Zenon

\* LastIncluded is the last position included, or 0 when nothing is (bnb's backtracking).
LEMMA LastOf ==
  ASSUME NEW sel \in Seq(BOOLEAN), NEW k, k = Max({0} \cup {i \in 1 .. Len(sel) : sel[i]})
  PROVE  /\ k \in 0 .. Len(sel)
         /\ \A i \in 1 .. Len(sel) : i > k => ~ sel[i]
         /\ k > 0 => sel[k]
<1> DEFINE S == {0} \cup {i \in 1 .. Len(sel) : sel[i]}
<1>1. Len(sel) \in Nat /\ S \subseteq 0 .. Len(sel) /\ S # {}
  OBVIOUS
<1> HIDE DEF S
<1>2. \E x \in S : \A y \in S : x >= y
  BY Zenon, <1>1, Largest
<1>3. k = CHOOSE x \in S : \A y \in S : x >= y
  BY Zenon DEF Max, S
<1>4. k \in S /\ \A y \in S : k >= y
  BY <1>2, <1>3, Zenon
<1>5. k \in 0 .. Len(sel)
  BY <1>1, <1>4, Zenon
<1>6. ASSUME NEW i \in 1 .. Len(sel), i > k, sel[i] PROVE FALSE
  <2>1. i \in S
    BY <1>6, Zenon DEF S
  <2> QED
    BY <1>4, <1>5, <1>6, <2>1
<1>7. ASSUME k > 0 PROVE sel[k]
  <2>1. k # 0
    BY <1>7
  <2> QED
    BY <1>4, <2>1, Zenon DEF S
<1> QED
  BY <1>5, <1>6, <1>7, Zenon

\* The search goes through the outputs of positive effective value, each once
\* (optional_utxos, filtered and sorted).
LEMMA OrderFacts ==
  ASSUME Sound, NEW order \in Orders
  PROVE  /\ order \in Seq(Positive) /\ Len(order) = Cardinality(Positive)
         /\ Len(order) \in Nat
         /\ \A i \in 1 .. Len(order) : order[i] \in Positive
         /\ \A o \in Positive : \E i \in 1 .. Len(order) : order[i] = o
         /\ \A i, j \in 1 .. Len(order) : order[i] = order[j] => i = j
<1> DEFINE n == Cardinality(Positive)
<1>1. IsFiniteSet(Positive) /\ n \in Nat
  <2>1. Positive \subseteq Outpoint
    BY Zenon DEF Positive, Known
  <2> QED
    BY <2>1, FS_Subset, FS_CardinalityType, Zenon DEF Sound
<1>2. order \in [1 .. n -> Positive] /\ Range(order) = Positive
  BY Zenon DEF Orders
<1> HIDE DEF n
<1>3. order \in Seq(Positive) /\ Len(order) = n
  BY <1>1, <1>2
<1>4. \A o \in Positive : \E i \in 1 .. n : order[i] = o
  BY <1>2, Zenon DEF Range
<1>5. order \in Surjection(1 .. n, Positive)
  BY <1>2, <1>4, Zenon DEF Surjection
<1>6. IsFiniteSet(1 .. n) /\ Cardinality(1 .. n) = n
  BY <1>1, FS_Interval
<1>7. order \in Injection(1 .. n, Positive)
  BY <1>1, <1>5, <1>6, FS_SurjSameCardinalityImpliesInj, Zenon DEF n
<1>8. \A i, j \in 1 .. n : order[i] = order[j] => i = j
  BY <1>7, Zenon DEF Injection, IsInjective
<1> QED
  BY <1>1, <1>2, <1>3, <1>4, <1>8, Zenon DEF n

\* A decision more leaves the earlier ones as they were (current_selection.push).
LEMMA AppendOld ==
  ASSUME NEW s \in Seq(BOOLEAN), NEW b \in BOOLEAN
  PROVE  \A i \in 1 .. Len(s) : Append(s, b)[i] = s[i]
OBVIOUS

\* What is selected and what is not decided upon are different outputs (bnb).
LEMMA Books ==
  ASSUME Sound, NEW order \in Orders, NEW sel \in Seq(BOOLEAN), Len(sel) <= Len(order)
  PROVE  /\ Picked(order, sel) \in SUBSET Positive
         /\ Undecided(order, sel) \in SUBSET Positive
         /\ Picked(order, sel) \cap Undecided(order, sel) = {}
<1>0. Len(sel) \in Nat
  OBVIOUS
<1>1. /\ Len(order) \in Nat /\ Len(sel) \in Nat
      /\ \A i \in 1 .. Len(order) : order[i] \in Positive
      /\ \A i, j \in 1 .. Len(order) : order[i] = order[j] => i = j
  BY <1>0, OrderFacts, Zenon
<1>2. \A j \in 1 .. Len(sel) : j \in 1 .. Len(order)
  BY <1>1
<1>3. \A i \in Len(sel) + 1 .. Len(order) : i \in 1 .. Len(order) /\ i \notin 1 .. Len(sel)
  BY <1>1
<1>4. Picked(order, sel) \subseteq Positive
  BY <1>1, <1>2, Zenon DEF Picked
<1>5. Undecided(order, sel) \subseteq Positive
  BY <1>1, <1>3, Zenon DEF Undecided
<1>6. ASSUME NEW o \in Picked(order, sel), o \in Undecided(order, sel) PROVE FALSE
  BY <1>1, <1>2, <1>3, <1>6, Zenon DEF Picked, Undecided
<1> QED
  BY <1>4, <1>5, <1>6, Zenon

\* Including the next output moves it from what is undecided to what is selected.
LEMMA BooksForward ==
  ASSUME Sound, NEW order \in Orders, NEW sel \in Seq(BOOLEAN), Len(sel) < Len(order)
  PROVE  LET s2 == Append(sel, TRUE)
             o  == order[Len(sel) + 1]
         IN
         /\ s2 \in Seq(BOOLEAN) /\ Len(s2) = Len(sel) + 1 /\ s2[Len(sel) + 1]
         /\ \A i \in 1 .. Len(sel) : s2[i] = sel[i]
         /\ o \in Positive
         /\ Picked(order, s2) = Picked(order, sel) \cup {o} /\ o \notin Picked(order, sel)
         /\ Undecided(order, sel) = Undecided(order, s2) \cup {o} /\ o \notin Undecided(order, s2)
<1> SUFFICES ASSUME NEW s2, s2 = Append(sel, TRUE), NEW o, o = order[Len(sel) + 1]
  PROVE  /\ s2 \in Seq(BOOLEAN) /\ Len(s2) = Len(sel) + 1 /\ s2[Len(sel) + 1]
         /\ \A i \in 1 .. Len(sel) : s2[i] = sel[i]
         /\ o \in Positive
         /\ Picked(order, s2) = Picked(order, sel) \cup {o} /\ o \notin Picked(order, sel)
         /\ Undecided(order, sel) = Undecided(order, s2) \cup {o} /\ o \notin Undecided(order, s2)
  BY Zenon
<1>0. Len(sel) \in Nat
  OBVIOUS
<1>1. /\ Len(order) \in Nat /\ Len(sel) \in Nat
      /\ \A i \in 1 .. Len(order) : order[i] \in Positive
      /\ \A i, j \in 1 .. Len(order) : order[i] = order[j] => i = j
  BY <1>0, OrderFacts, Zenon
<1>2. /\ s2 \in Seq(BOOLEAN) /\ Len(s2) = Len(sel) + 1 /\ s2[Len(sel) + 1]
      /\ \A i \in 1 .. Len(sel) : s2[i] = sel[i]
  OBVIOUS
<1>3. Len(sel) + 1 \in 1 .. Len(order)
  BY <1>1
<1>4. o \in Positive
  BY <1>1, <1>3, Zenon
<1>5. \A i : i \in 1 .. Len(s2) <=> i \in 1 .. Len(sel) \/ i = Len(sel) + 1
  BY <1>1, <1>2
<1>6. Picked(order, s2) = Picked(order, sel) \cup {o}
  BY <1>2, <1>5, Zenon DEF Picked
<1>7. \A i : i \in Len(sel) + 1 .. Len(order) <=> i \in Len(s2) + 1 .. Len(order) \/ i = Len(sel) + 1
  BY <1>1, <1>2
<1>8. Undecided(order, sel) = Undecided(order, s2) \cup {o}
  BY <1>7, Zenon DEF Undecided
<1>9. \A i \in 1 .. Len(sel) : i \in 1 .. Len(order) /\ i # Len(sel) + 1
  BY <1>1
<1>10. \A i \in Len(s2) + 1 .. Len(order) : i \in 1 .. Len(order) /\ i # Len(sel) + 1
  BY <1>1, <1>2
<1>11. o \notin Picked(order, sel)
  BY <1>1, <1>3, <1>9, Zenon DEF Picked
<1>12. o \notin Undecided(order, s2)
  BY <1>1, <1>3, <1>10, Zenon DEF Undecided
<1> QED
  BY <1>2, <1>4, <1>6, <1>8, <1>11, <1>12, Zenon

\* Leaving out the last output included makes those after it available again.
LEMMA BooksBack ==
  ASSUME Sound, NEW order \in Orders, NEW sel \in Seq(BOOLEAN), Len(sel) <= Len(order),
         NEW k \in 1 .. Len(sel), sel[k], \A i \in 1 .. Len(sel) : i > k => ~ sel[i]
  PROVE  LET s2 == Append(SubSeq(sel, 1, k - 1), FALSE)
             M  == {order[i] : i \in k + 1 .. Len(sel)}
         IN
         /\ s2 \in Seq(BOOLEAN) /\ Len(s2) = k /\ ~ s2[k]
         /\ \A i \in 1 .. k - 1 : s2[i] = sel[i]
         /\ order[k] \in Picked(order, sel) /\ M \in SUBSET Positive
         /\ Picked(order, s2) = Picked(order, sel) \ {order[k]}
         /\ Undecided(order, s2) = Undecided(order, sel) \cup M
         /\ Undecided(order, sel) \cap M = {}
<1> SUFFICES ASSUME NEW s2, s2 = Append(SubSeq(sel, 1, k - 1), FALSE),
                    NEW M, M = {order[i] : i \in k + 1 .. Len(sel)}
  PROVE  /\ s2 \in Seq(BOOLEAN) /\ Len(s2) = k /\ ~ s2[k]
         /\ \A i \in 1 .. k - 1 : s2[i] = sel[i]
         /\ order[k] \in Picked(order, sel) /\ M \in SUBSET Positive
         /\ Picked(order, s2) = Picked(order, sel) \ {order[k]}
         /\ Undecided(order, s2) = Undecided(order, sel) \cup M
         /\ Undecided(order, sel) \cap M = {}
  BY Zenon
<1>0. Len(sel) \in Nat /\ k \in Nat
  OBVIOUS
<1>1. /\ Len(order) \in Nat /\ Len(sel) \in Nat /\ k \in Nat
      /\ \A i \in 1 .. Len(order) : order[i] \in Positive
      /\ \A i, j \in 1 .. Len(order) : order[i] = order[j] => i = j
  BY <1>0, OrderFacts, Zenon
<1> DEFINE s1 == SubSeq(sel, 1, k - 1)
<1>2. s1 \in Seq(BOOLEAN) /\ Len(s1) = k - 1 /\ \A i \in 1 .. k - 1 : s1[i] = sel[i]
  BY <1>1
<1> HIDE DEF s1
<1>3. /\ s2 \in Seq(BOOLEAN) /\ Len(s2) = k /\ ~ s2[k]
      /\ \A i \in 1 .. k - 1 : s2[i] = sel[i]
  <2>1. s2 = Append(s1, FALSE)
    BY Zenon DEF s1
  <2>2. s2 \in Seq(BOOLEAN) /\ Len(s2) = (k - 1) + 1 /\ ~ s2[(k - 1) + 1]
    BY <1>1, <1>2, <2>1
  <2>3. \A i \in 1 .. k - 1 : s2[i] = s1[i]
    BY <1>2, <2>1, AppendOld, ZenonT(40)
  <2>4. (k - 1) + 1 = k
    BY <1>1
  <2> QED
    BY <1>2, <2>2, <2>3, <2>4, Zenon
<1>4. \A i \in 1 .. Len(sel) : i \in 1 .. Len(order)
  BY <1>1
<1>5. \A i : i \in 1 .. Len(s2) /\ s2[i] <=> i \in 1 .. Len(sel) /\ sel[i] /\ i # k
  <2>1. \A i \in 1 .. k - 1 : i \in 1 .. Len(sel) /\ i # k
    BY <1>1
  <2>2. \A i \in 1 .. Len(s2) : i = k \/ i \in 1 .. k - 1
    BY <1>1, <1>3
  <2>3. \A i \in 1 .. Len(sel) : i = k \/ i > k \/ i \in 1 .. k - 1
    BY <1>1
  <2>4. \A i \in 1 .. k - 1 : i \in 1 .. Len(s2)
    BY <1>1, <1>3
  <2> QED
    BY <1>3, <2>1, <2>2, <2>3, <2>4, Zenon
<1>6. order[k] \in Picked(order, sel)
  BY Zenon DEF Picked
<1>7. Picked(order, s2) = Picked(order, sel) \ {order[k]}
  BY <1>1, <1>4, <1>5, ZenonT(40) DEF Picked
<1>8. \A i : i \in Len(s2) + 1 .. Len(order) <=> i \in Len(sel) + 1 .. Len(order) \/ i \in k + 1 .. Len(sel)
  BY <1>1, <1>3
<1>9. Undecided(order, s2) = Undecided(order, sel) \cup M
  BY <1>8, Zenon DEF Undecided
<1>10. \A i \in k + 1 .. Len(sel) : i \in 1 .. Len(order) /\ i \notin Len(sel) + 1 .. Len(order)
  BY <1>1
<1>11. \A i \in Len(sel) + 1 .. Len(order) : i \in 1 .. Len(order)
  BY <1>1
<1>12. ASSUME NEW o \in Undecided(order, sel), o \in M PROVE FALSE
  BY <1>1, <1>10, <1>11, <1>12, Zenon DEF Undecided
<1>13. M \in SUBSET Positive
  BY <1>1, <1>10, Zenon
<1> QED
  BY <1>3, <1>6, <1>7, <1>9, <1>12, <1>13, Zenon

-----------------------------------------------------------------------------
(* The tree of the search *)

\* What a selection can be worth that agrees with the decisions so far: at least what is
\* selected, and at most that and all that is undecided (what bnb cuts the search by).
LEMMA LeafBounds ==
  ASSUME Sound, NEW order \in Orders, NEW sel \in Seq(BOOLEAN), Len(sel) <= Len(order),
         NEW T \in SUBSET Positive,
         \A i \in 1 .. Len(sel) : sel[i] => order[i] \in T,
         \A i \in 1 .. Len(sel) : ~ sel[i] => order[i] \notin T
  PROVE  /\ Effective(Picked(order, sel)) <= Effective(T)
         /\ Effective(T) <= Effective(Picked(order, sel)) + Effective(Undecided(order, sel))
<1> DEFINE P == Picked(order, sel)
           R == Undecided(order, sel)
<1>1. P \in SUBSET Positive /\ R \in SUBSET Positive /\ P \cap R = {}
  BY Books
<1>2. P \in SUBSET T
  BY Zenon DEF Picked
<1>3. Len(sel) \in Nat
  OBVIOUS
<1>4. Len(order) \in Nat /\ \A o \in Positive : \E i \in 1 .. Len(order) : order[i] = o
  BY OrderFacts, Zenon
<1>5. \A i \in 1 .. Len(order) : i \in 1 .. Len(sel) \/ i \in Len(sel) + 1 .. Len(order)
  BY <1>3, <1>4
<1>6. T \in SUBSET (P \cup R)
  BY <1>4, <1>5, ZenonT(40) DEF Picked, Undecided
<1>7. P \cup R \in SUBSET Positive /\ P \in SUBSET Outpoint /\ R \in SUBSET Outpoint
  BY <1>1, Zenon DEF Positive, Known
<1> HIDE DEF P, R
<1>8. Effective(P) <= Effective(T)
  BY <1>2, EffectiveMono
<1>9. Effective(T) <= Effective(P \cup R)
  BY <1>6, <1>7, EffectiveMono
<1>10. Effective(P \cup R) = Effective(P) + Effective(R)
  BY <1>1, <1>7, EffectiveUnion
<1> QED
  BY <1>8, <1>9, <1>10, Zenon DEF P, R

\* A set with one element more has a cardinality of at least one more.
LEMMA OneMore ==
  ASSUME NEW A, NEW B, IsFiniteSet(B), A \subseteq B, NEW c \in B, c \notin A
  PROVE  Cardinality(A) + 1 <= Cardinality(B)
<1>1. IsFiniteSet(A) /\ A \cup {c} \subseteq B /\ IsFiniteSet(A \cup {c})
  BY FS_Subset, Zenon
<1>2. Cardinality(A \cup {c}) = Cardinality(A) + 1
  BY <1>1, FS_AddElement
<1>3. Cardinality(A \cup {c}) <= Cardinality(B)
  BY <1>1, FS_Subset
<1> QED
  BY <1>2, <1>3

\* There are finitely many nodes, fewer than the sets of positions and the one after them.
LEMMA BeforeBound ==
  ASSUME NEW n \in Nat, NEW sel \in Seq(BOOLEAN)
  PROVE  /\ IsFiniteSet(Before(n, sel)) /\ Cardinality(Before(n, sel)) \in Nat
         /\ Cardinality(Before(n, sel)) < 2 ^ (n + 1) /\ 2 ^ (n + 1) \in Nat
<1> DEFINE U == SUBSET (1 .. n + 1)
<1>1. IsFiniteSet(1 .. n + 1) /\ Cardinality(1 .. n + 1) = n + 1
  <2>1. n + 1 \in Nat /\ n + 1 >= 1
    OBVIOUS
  <2> QED
    BY <2>1, FS_Interval
<1>2. IsFiniteSet(U) /\ Cardinality(U) = 2 ^ (n + 1)
  BY <1>1, FS_SUBSET, Zenon
<1>3. Before(n, sel) \subseteq U /\ {} \in U /\ {} \notin Before(n, sel)
  BY Zenon DEF Before
<1> HIDE DEF U
<1>4. IsFiniteSet(Before(n, sel)) /\ Cardinality(Before(n, sel)) \in Nat
  BY <1>2, <1>3, FS_Subset, FS_CardinalityType, Zenon
<1>5. Cardinality(Before(n, sel)) + 1 <= Cardinality(U)
  BY <1>2, <1>3, OneMore
<1>6. Cardinality(U) \in Nat
  BY <1>2, FS_CardinalityType, Zenon
<1>7. Cardinality(Before(n, sel)) < Cardinality(U)
  BY <1>4, <1>5, <1>6
<1> QED
  BY <1>2, <1>4, <1>6, <1>7, Zenon

\* The node the search stands at.
NodeOf(sel) == {i \in 1 .. Len(sel) : sel[i]} \cup {Len(sel) + 1}

\* The search has not been at the node it stands at.
LEMMA NodeNew ==
  ASSUME NEW n \in Nat, NEW sel \in Seq(BOOLEAN), Len(sel) <= n
  PROVE  /\ NodeOf(sel) \in SUBSET (1 .. n + 1)
         /\ NodeOf(sel) \notin Before(n, sel)
         /\ \A i \in 1 .. Len(sel) : i \in NodeOf(sel) <=> sel[i]
         /\ Len(sel) + 1 \in NodeOf(sel)
         /\ \A i \in NodeOf(sel) : i <= Len(sel) + 1
<1>1. Len(sel) \in Nat
  OBVIOUS
<1>2. \A i \in 1 .. Len(sel) : i \in 1 .. n + 1 /\ i # Len(sel) + 1 /\ i <= Len(sel) + 1 /\ ~(Len(sel) + 1 <= i)
  BY <1>1
<1>3. Len(sel) + 1 \in 1 .. n + 1 /\ Len(sel) + 1 <= Len(sel) + 1
  BY <1>1
<1>4. NodeOf(sel) \in SUBSET (1 .. n + 1) /\ Len(sel) + 1 \in NodeOf(sel)
  BY <1>2, <1>3, Zenon DEF NodeOf
<1>5. \A i \in 1 .. Len(sel) : i \in NodeOf(sel) <=> sel[i]
  BY <1>2, Zenon DEF NodeOf
<1>6. \A i \in NodeOf(sel) : i <= Len(sel) + 1
  BY <1>2, <1>3, Zenon DEF NodeOf
<1>7. NodeOf(sel) \notin Before(n, sel)
  BY <1>2, <1>4, <1>5, Zenon DEF Before
<1> QED
  BY <1>4, <1>5, <1>6, <1>7, Zenon

\* Going on to the next output leaves one node more behind.
LEMMA BeforeForward ==
  ASSUME NEW n \in Nat, NEW sel \in Seq(BOOLEAN), Len(sel) < n, NEW s2, s2 = Append(sel, TRUE)
  PROVE  Cardinality(Before(n, sel)) + 1 <= Cardinality(Before(n, s2))
<1> DEFINE l == Len(sel)
<1>1. /\ s2 \in Seq(BOOLEAN) /\ Len(s2) = l + 1 /\ l \in Nat /\ l <= n /\ s2[l + 1] = TRUE
      /\ \A i \in 1 .. l : s2[i] = sel[i]
  OBVIOUS
<1>2. /\ NodeOf(sel) \in SUBSET (1 .. n + 1)
      /\ NodeOf(sel) \notin Before(n, sel)
      /\ \A i \in 1 .. l : i \in NodeOf(sel) <=> sel[i]
      /\ l + 1 \in NodeOf(sel)
      /\ \A i \in NodeOf(sel) : i <= l + 1
  BY <1>1, NodeNew
<1> HIDE DEF l
<1>3. l + 1 \in 1 .. Len(s2) /\ \A i \in 1 .. (l + 1) - 1 : i \in 1 .. l
  BY <1>1
<1>4. NodeOf(sel) \in Before(n, s2)
  BY <1>1, <1>2, <1>3, Zenon DEF Before
<1>5. \A k \in 1 .. l : k \in 1 .. Len(s2) /\ \A i \in 1 .. k - 1 : i \in 1 .. l
  BY <1>1
<1>6. ASSUME NEW C \in Before(n, sel) PROVE C \in Before(n, s2)
  <2>1. PICK k \in 1 .. l : /\ k \in C /\ \A i \in 1 .. k - 1 : i \in C <=> sel[i]
                            /\ sel[k] => \A i \in C : i <= k
    BY Zenon DEF Before, l
  <2>2. C \in SUBSET (1 .. n + 1)
    BY Zenon DEF Before
  <2>3. k \in 1 .. Len(s2) /\ (s2[k] <=> sel[k]) /\ \A i \in 1 .. k - 1 : s2[i] <=> sel[i]
    BY <1>1, <1>5
  <2>4. /\ k \in C /\ \A i \in 1 .. k - 1 : i \in C <=> s2[i]
        /\ s2[k] => \A i \in C : i <= k
    BY <2>1, <2>3, Zenon
  <2> QED
    BY <2>2, <2>3, <2>4, Zenon DEF Before
<1>7. IsFiniteSet(Before(n, s2))
  BY <1>1, BeforeBound, Zenon
<1>8. Before(n, sel) \subseteq Before(n, s2)
  BY <1>6, Zenon
<1> QED
  BY Zenon, <1>2, <1>4, <1>7, <1>8, OneMore

\* Leaving out the last output included leaves one node more behind.
LEMMA BeforeBack ==
  ASSUME NEW n \in Nat, NEW sel \in Seq(BOOLEAN), Len(sel) <= n,
         NEW k \in 1 .. Len(sel), sel[k], \A i \in 1 .. Len(sel) : i > k => ~ sel[i],
         NEW s2 \in Seq(BOOLEAN), Len(s2) = k, ~ s2[k], \A i \in 1 .. k - 1 : s2[i] = sel[i]
  PROVE  Cardinality(Before(n, sel)) + 1 <= Cardinality(Before(n, s2))
<1>1. Len(sel) \in Nat /\ k \in Nat /\ k \in 1 .. Len(s2)
  OBVIOUS
<1>2. /\ NodeOf(sel) \in SUBSET (1 .. n + 1)
      /\ NodeOf(sel) \notin Before(n, sel)
      /\ \A i \in 1 .. Len(sel) : i \in NodeOf(sel) <=> sel[i]
  BY NodeNew
<1>3. \A i \in 1 .. k - 1 : i \in 1 .. Len(sel)
  BY <1>1
<1>4. NodeOf(sel) \in Before(n, s2)
  BY <1>1, <1>2, <1>3, Zenon DEF Before
<1>5. ASSUME NEW C \in Before(n, sel) PROVE C \in Before(n, s2)
  <2>1. PICK j \in 1 .. Len(sel) : /\ j \in C /\ \A i \in 1 .. j - 1 : i \in C <=> sel[i]
                                   /\ sel[j] => \A i \in C : i <= j
    BY Zenon DEF Before
  <2>2. C \in SUBSET (1 .. n + 1)
    BY Zenon DEF Before
  <2>3. CASE j < k
    <3>1. j \in 1 .. Len(s2) /\ j \in 1 .. k - 1 /\ \A i \in 1 .. j - 1 : i \in 1 .. k - 1
      BY <1>1, <2>3
    <3> QED
      BY <2>1, <2>2, <3>1, ZenonT(40) DEF Before
  <2>4. CASE j = k
    BY <1>1, <2>1, <2>2, <2>4, Zenon DEF Before
  <2>5. CASE j > k
    <3>1. k \in 1 .. j - 1 /\ \A i \in 1 .. k - 1 : i \in 1 .. j - 1
      BY <1>1, <2>5
    <3> QED
      BY <1>1, <2>1, <2>2, <3>1, ZenonT(40) DEF Before
  <2>6. j < k \/ j = k \/ j > k
    BY <1>1
  <2> QED
    BY <2>3, <2>4, <2>5, <2>6, Zenon
<1>6. IsFiniteSet(Before(n, s2))
  BY BeforeBound, Zenon
<1>7. Before(n, sel) \subseteq Before(n, s2)
  BY <1>5, Zenon
<1> QED
  BY SMTT(30), <1>2, <1>4, <1>6, <1>7, OneMore

-----------------------------------------------------------------------------
(* The turns of the search *)

\* The state of a search, field by field.
LEMMA SearchFields ==
  ASSUME NEW c, SearchOK(c)
  PROVE  /\ c.pc = "bnb" /\ c.target \in Payment /\ c.target \in Nat /\ c.target > 0
         /\ c.order \in Orders /\ c.sel \in Seq(BOOLEAN) /\ c.best \in Seq(BOOLEAN)
         /\ c.value \in Int /\ c.avail \in Int /\ c.bestValue \in Int /\ c.tries \in Nat
         /\ ChangeFee \in Nat
<1>1. c \in [pc : {"bnb"}, target : Payment, order : Orders, sel : Seq(BOOLEAN), value : Int,
             avail : Int, best : Seq(BOOLEAN), bestValue : Int, tries : Nat]
  BY Zenon DEF SearchOK
<1>2. /\ c.pc = "bnb" /\ c.target \in Payment
      /\ c.order \in Orders /\ c.sel \in Seq(BOOLEAN) /\ c.best \in Seq(BOOLEAN)
      /\ c.value \in Int /\ c.avail \in Int /\ c.bestValue \in Int /\ c.tries \in Nat
  BY <1>1
<1>3. c.target \in Nat \ {0} /\ ChangeFee \in Nat
  BY <1>2, WalletAssumption, Zenon
<1>4. c.target \in Nat /\ c.target > 0
  BY <1>3
<1> QED
  BY <1>2, <1>3, <1>4, Zenon

\* A search that has selected what meets the target has decided on something.
LEMMA SelectsSome ==
  ASSUME Sound, NEW c, SearchOK(c), c.value >= c.target
  PROVE  c.sel # <<>>
<1>1. c.target \in Nat /\ c.target > 0
  BY SearchFields
<1>2. SUFFICES ASSUME c.sel = <<>> PROVE FALSE
  BY Zenon
<1>3. Picked(c.order, c.sel) = {}
  BY <1>2 DEF Picked
<1>4. c.value = 0
  BY <1>3, EffectiveNone, Zenon DEF SearchOK
<1> QED
  BY <1>1, <1>4

\* Looking at the current selection (bnb: "if curr_value < best_selection_value") keeps the
\* books; afterwards no better selection is known than the current one, if it is good.
LEMMA BetterOK ==
  ASSUME Sound, SearchOK(cs)
  PROVE  /\ SearchOK(Better)
         /\ Better.order = cs.order /\ Better.sel = cs.sel /\ Better.target = cs.target
         /\ Better.value = cs.value /\ Better.avail = cs.avail /\ Better.tries = cs.tries
         /\ InRange => Better.best # <<>> /\ Better.bestValue <= cs.value
<1>1. /\ cs.pc = "bnb" /\ cs.target \in Payment /\ cs.target \in Nat /\ cs.target > 0
      /\ cs.order \in Orders /\ cs.sel \in Seq(BOOLEAN) /\ cs.best \in Seq(BOOLEAN)
      /\ cs.value \in Int /\ cs.avail \in Int /\ cs.bestValue \in Int /\ cs.tries \in Nat
      /\ ChangeFee \in Nat
  BY SearchFields
<1>2. CASE ~(InRange /\ (cs.bestValue = NoValue \/ cs.value < cs.bestValue))
  <2>1. Better = cs
    BY <1>2, Zenon DEF Better
  <2>2. ASSUME InRange PROVE cs.best # <<>> /\ cs.bestValue <= cs.value
    <3>1. cs.bestValue # NoValue /\ ~(cs.value < cs.bestValue)
      BY <1>2, <2>2, Zenon
    <3>2. cs.best # <<>>
      BY <3>1, Zenon DEF SearchOK
    <3> QED
      BY <1>1, <3>1, <3>2
  <2> QED
    BY <2>1, <2>2, Zenon
<1>3. CASE InRange /\ (cs.bestValue = NoValue \/ cs.value < cs.bestValue)
  <2> DEFINE b == [cs EXCEPT !.best = cs.sel, !.bestValue = cs.value]
  <2>1. Better = b
    BY <1>3, Zenon DEF Better
  <2>0. cs \in [pc : {"bnb"}, target : Payment, order : Orders, sel : Seq(BOOLEAN), value : Int,
             avail : Int, best : Seq(BOOLEAN), bestValue : Int, tries : Nat]
    BY Zenon DEF SearchOK
  <2>2. /\ b.order = cs.order /\ b.sel = cs.sel /\ b.target = cs.target
        /\ b.value = cs.value /\ b.avail = cs.avail /\ b.tries = cs.tries
        /\ b.best = cs.sel /\ b.bestValue = cs.value
        /\ b \in [pc : {"bnb"}, target : Payment, order : Orders, sel : Seq(BOOLEAN), value : Int,
             avail : Int, best : Seq(BOOLEAN), bestValue : Int, tries : Nat]
    BY Zenon, <2>0
  <2> HIDE DEF b
  <2>3. cs.value >= cs.target /\ cs.value <= cs.target + ChangeFee
    BY <1>1, <1>3 DEF InRange, OutOfRange
  <2>4. cs.sel # <<>>
    BY <2>3, SelectsSome
  <2>5. Picked(cs.order, cs.sel) \in BnbMatches(cs.target) /\ cs.value = Effective(Picked(cs.order, cs.sel))
    <3>1. cs.value = Effective(Picked(cs.order, cs.sel)) /\ Len(cs.sel) <= Len(cs.order)
      BY Zenon DEF SearchOK
    <3>2. Picked(cs.order, cs.sel) \in SUBSET Positive
      BY <1>1, <3>1, Books
    <3>3. cs.value \in cs.target .. cs.target + ChangeFee
      BY <1>1, <2>3
    <3> QED
      BY <3>1, <3>2, <3>3, Zenon DEF BnbMatches
  <2>6. cs.value # NoValue
    BY <1>1, <2>3 DEF NoValue
  <2>7. ASSUME NEW T \in BnbMatches(cs.target), Walked(cs.order, cs.sel, T)
        PROVE  cs.value <= Effective(T)
    <3>1. cs.best # <<>> /\ cs.bestValue <= Effective(T)
      BY <2>7, Zenon DEF SearchOK
    <3>2. cs.bestValue # NoValue
      BY <3>1, Zenon DEF SearchOK
    <3>3. cs.value < cs.bestValue
      BY <1>3, <3>2, Zenon
    <3>4. Effective(T) \in Int
      <4>1. T \in SUBSET Outpoint
        BY Zenon DEF BnbMatches, Positive, Known
      <4> QED
        BY <4>1, EffectiveInt
    <3> QED
      BY <1>1, <3>1, <3>3, <3>4
  <2>8. SearchOK(b)
    <3>1. /\ Len(cs.sel) <= Len(cs.order) /\ Effective(Positive) >= cs.target
          /\ cs.avail = Effective(Undecided(cs.order, cs.sel))
          /\ cs.tries <= Cardinality(Before(Len(cs.order), cs.sel))
      BY Zenon DEF SearchOK
    <3> QED
      BY <2>2, <2>4, <2>5, <2>6, <2>7, <3>1, ZenonT(40) DEF SearchOK
  <2>9. b.bestValue <= cs.value
    BY <1>1, <2>2
  <2> QED
    BY <2>1, <2>2, <2>4, <2>8, <2>9, ZenonT(40)
<1> QED
  BY <1>2, <1>3, Zenon

\* Where the search turns back, it has seen all that agrees with its decisions: what it cuts
\* off is no match, or not better than what it has.
LEMMA LeafOK ==
  ASSUME Sound, SearchOK(cs), OutOfRange \/ InRange,
         NEW T \in BnbMatches(cs.target), \A i \in 1 .. Len(cs.sel) : cs.sel[i] => cs.order[i] \in T
  PROVE  Better.best # <<>> /\ Better.bestValue <= Effective(T)
<1>1. /\ cs.target \in Nat /\ cs.order \in Orders /\ cs.sel \in Seq(BOOLEAN)
      /\ cs.value \in Int /\ cs.avail \in Int /\ ChangeFee \in Nat
  BY SearchFields
<1>2. /\ SearchOK(Better)
      /\ Better.order = cs.order /\ Better.sel = cs.sel /\ Better.target = cs.target
      /\ InRange => Better.best # <<>> /\ Better.bestValue <= cs.value
  BY BetterOK
<1>3. T \in SUBSET Positive /\ Effective(T) \in cs.target .. cs.target + ChangeFee
  BY Zenon DEF BnbMatches
<1>4. CASE \E k \in 1 .. Len(cs.sel) : ~ cs.sel[k] /\ cs.order[k] \in T
  <2>1. PICK k \in 1 .. Len(cs.sel) : ~ cs.sel[k] /\ cs.order[k] \in T
    BY <1>4, Zenon
  <2>2. \A i \in 1 .. k - 1 : i \in 1 .. Len(cs.sel)
    BY <1>1
  <2>3. Walked(cs.order, cs.sel, T)
    BY <2>1, <2>2, Zenon DEF Walked
  <2> QED
    BY <1>2, <2>3, Zenon DEF SearchOK
<1>5. CASE \A k \in 1 .. Len(cs.sel) : ~ cs.sel[k] => cs.order[k] \notin T
  <2>1. /\ cs.value = Effective(Picked(cs.order, cs.sel)) /\ Len(cs.sel) <= Len(cs.order)
        /\ cs.avail = Effective(Undecided(cs.order, cs.sel))
    BY Zenon DEF SearchOK
  <2>2. /\ Effective(Picked(cs.order, cs.sel)) <= Effective(T)
        /\ Effective(T) <= Effective(Picked(cs.order, cs.sel)) + Effective(Undecided(cs.order, cs.sel))
    BY SMTT(30), <1>1, <1>3, <1>5, <2>1, LeafBounds
  <2>3. cs.value <= Effective(T) /\ Effective(T) <= cs.value + cs.avail
    BY <2>1, <2>2, Zenon
  <2>4. ~ OutOfRange
    BY <1>1, <1>3, <2>3 DEF OutOfRange
  <2>5. Better.best # <<>> /\ Better.bestValue <= cs.value /\ Better.bestValue \in Int
    BY <1>2, <2>4, SearchFields, Zenon
  <2> QED
    BY <1>1, <1>3, <2>3, <2>5
<1> QED
  BY <1>4, <1>5, Zenon

\* Leaving out the last output included keeps the books of the search (bnb's backtracking).
LEMMA BacktrackOK ==
  ASSUME Sound, SearchOK(cs), OutOfRange \/ InRange, LastIncluded > 0, Backtrack(LastIncluded)
  PROVE  SearchOK(cs')
<1> DEFINE b == Better
           k == LastIncluded
           sel == cs.sel
           order == cs.order
           s2 == Append(SubSeq(sel, 1, k - 1), FALSE)
           M == {order[i] : i \in k + 1 .. Len(sel)}
           d == [b EXCEPT !.sel = s2, !.value = @ - EffectiveValue(order[k]),
                          !.avail = @ + Effective(M), !.tries = @ + 1]
<1>1. /\ order \in Orders /\ sel \in Seq(BOOLEAN)
      /\ cs.value \in Int /\ cs.avail \in Int /\ cs.tries \in Nat
  BY SearchFields
<1>2. /\ SearchOK(b) /\ b.order = order /\ b.sel = sel /\ b.target = cs.target
      /\ b.value = cs.value /\ b.avail = cs.avail /\ b.tries = cs.tries
  BY BetterOK
<1>3. /\ Len(sel) <= Len(order)
      /\ cs.value = Effective(Picked(order, sel)) /\ cs.avail = Effective(Undecided(order, sel))
      /\ cs.tries <= Cardinality(Before(Len(order), sel))
  BY Zenon DEF SearchOK
<1>4. /\ k \in 1 .. Len(sel) /\ sel[k]
      /\ \A i \in 1 .. Len(sel) : i > k => ~ sel[i]
  <2> HIDE DEF sel
  <2>1. k = Max({0} \cup {i \in 1 .. Len(sel) : sel[i]})
    BY Zenon DEF LastIncluded, sel
  <2>2. /\ k \in 0 .. Len(sel)
        /\ \A i \in 1 .. Len(sel) : i > k => ~ sel[i]
        /\ k > 0 => sel[k]
    <3> HIDE DEF k
    <3> QED
      BY SMTT(30), <1>1, <2>1, LastOf
  <2>3. k \in 1 .. Len(sel)
    <3> HIDE DEF k
    <3>1. k > 0
      BY Zenon DEF k
    <3> QED
      BY <1>1, <2>2, <3>1
  <2> QED
    BY <2>2, <2>3, Zenon
<1>5. cs' = d
  BY <1>2, Zenon DEF Backtrack
<1>6. ASSUME NEW T \in BnbMatches(cs.target), \A i \in 1 .. Len(sel) : sel[i] => order[i] \in T
      PROVE  b.best # <<>> /\ b.bestValue <= Effective(T)
  BY SMTT(30), <1>6, LeafOK
<1> HIDE DEF b, k, sel, order
<1>7. /\ s2 \in Seq(BOOLEAN) /\ Len(s2) = k /\ ~ s2[k]
      /\ \A i \in 1 .. k - 1 : s2[i] = sel[i]
      /\ order[k] \in Picked(order, sel) /\ M \in SUBSET Positive
      /\ Picked(order, s2) = Picked(order, sel) \ {order[k]}
      /\ Undecided(order, s2) = Undecided(order, sel) \cup M
      /\ Undecided(order, sel) \cap M = {}
  BY Zenon, <1>1, <1>3, <1>4, BooksBack
<1> HIDE DEF s2, M
<1>8. Len(order) \in Nat
  BY <1>1, OrderFacts, Zenon
<1>9. Len(sel) \in Nat /\ k \in Nat /\ k <= Len(sel)
  BY <1>1, <1>4
<1>10. Picked(order, sel) \in SUBSET Outpoint /\ Undecided(order, sel) \in SUBSET Outpoint /\ M \in SUBSET Outpoint
  <2>1. Picked(order, sel) \in SUBSET Positive /\ Undecided(order, sel) \in SUBSET Positive
    BY SMTT(30), <1>1, <1>3, Books
  <2> QED
    BY <1>7, <2>1, Zenon DEF Positive, Known
<1>11. /\ cs.value - EffectiveValue(order[k]) = Effective(Picked(order, s2))
       /\ cs.value - EffectiveValue(order[k]) \in Int
  <2>1. /\ Effective(Picked(order, sel)) = Effective(Picked(order, sel) \ {order[k]}) + EffectiveValue(order[k])
        /\ EffectiveValue(order[k]) \in Int
    BY Zenon, <1>7, <1>10, EffectiveRemove
  <2>2. Effective(Picked(order, s2)) \in Int
    <3>1. Picked(order, s2) \in SUBSET Outpoint
      BY <1>7, <1>10, Zenon
    <3> QED
      BY <3>1, EffectiveInt
  <2> QED
    BY SMTT(30), <1>1, <1>3, <1>7, <2>1, <2>2
<1>12. /\ cs.avail + Effective(M) = Effective(Undecided(order, s2))
       /\ cs.avail + Effective(M) \in Int
  <2>1. Effective(Undecided(order, sel) \cup M) = Effective(Undecided(order, sel)) + Effective(M)
    BY <1>7, <1>10, EffectiveUnion
  <2>2. Effective(M) \in Int
    BY <1>10, EffectiveInt
  <2>3. cs.avail + Effective(M) \in Int
    BY <1>1, <2>2
  <2> QED
    BY <1>3, <1>7, <2>1, <2>3, Zenon
<1>13. cs.tries + 1 <= Cardinality(Before(Len(order), s2)) /\ cs.tries + 1 \in Nat
  <2>1. Cardinality(Before(Len(order), sel)) + 1 <= Cardinality(Before(Len(order), s2))
    BY SMTT(30), <1>1, <1>3, <1>4, <1>7, <1>8, BeforeBack
  <2>2. Cardinality(Before(Len(order), sel)) \in Nat /\ Cardinality(Before(Len(order), s2)) \in Nat
    BY <1>1, <1>7, <1>8, BeforeBound, Zenon
  <2> QED
    BY SMTT(30), <1>1, <1>3, <2>1, <2>2
<1>14. ASSUME NEW T \in BnbMatches(cs.target), Walked(order, s2, T)
       PROVE  b.best # <<>> /\ b.bestValue <= Effective(T)
  <2>1. PICK j \in 1 .. Len(s2) : /\ ~ s2[j] /\ order[j] \in T
                                  /\ \A i \in 1 .. j - 1 : s2[i] => order[i] \in T
    BY <1>14, Zenon DEF Walked
  <2>2. CASE j < k
    <3>1. j \in 1 .. k - 1 /\ j \in 1 .. Len(sel) /\ \A i \in 1 .. j - 1 : i \in 1 .. k - 1
      BY <1>7, <1>9, <2>2
    <3>2. Walked(order, sel, T)
      BY <1>7, <2>1, <3>1, Zenon DEF Walked
    <3> QED
      BY <1>2, <3>2, ZenonT(40) DEF SearchOK
  <2>3. CASE j = k
    <3>1. \A i \in 1 .. Len(sel) : i \in 1 .. k - 1 \/ i = k \/ i > k
      BY <1>9
    <3>2. \A i \in 1 .. Len(sel) : sel[i] => order[i] \in T
      BY <1>4, <1>7, <2>1, <2>3, <3>1, ZenonT(40)
    <3> QED
      BY <1>6, <3>2, Zenon
  <2>4. j < k \/ j = k
    BY <1>7, <1>9
  <2> QED
    BY <2>2, <2>3, <2>4, ZenonT(40)
<1>15. /\ d.order = order /\ d.sel = s2 /\ d.target = cs.target
       /\ d.value = cs.value - EffectiveValue(order[k]) /\ d.avail = cs.avail + Effective(M)
       /\ d.tries = cs.tries + 1 /\ d.best = b.best /\ d.bestValue = b.bestValue
       /\ d \in [pc : {"bnb"}, target : Payment, order : Orders, sel : Seq(BOOLEAN), value : Int,
             avail : Int, best : Seq(BOOLEAN), bestValue : Int, tries : Nat]
  <2>1. b \in [pc : {"bnb"}, target : Payment, order : Orders, sel : Seq(BOOLEAN), value : Int,
             avail : Int, best : Seq(BOOLEAN), bestValue : Int, tries : Nat]
    BY <1>2, Zenon DEF SearchOK
  <2> QED
    BY Zenon, <1>2, <1>7, <1>11, <1>12, <1>13, <2>1
<1> HIDE DEF d
<1>16. Len(s2) <= Len(order)
  BY <1>3, <1>7, <1>8, <1>9
<1>17. SearchOK(d)
  <2>1. /\ Len(b.best) <= Len(order) /\ Effective(Positive) >= cs.target
        /\ b.best = <<>> <=> b.bestValue = NoValue
        /\ b.best # <<>> => /\ Picked(order, b.best) \in BnbMatches(cs.target)
                            /\ b.bestValue = Effective(Picked(order, b.best))
    BY <1>2, Zenon DEF SearchOK
  <2> QED
    BY <1>11, <1>12, <1>13, <1>14, <1>15, <1>16, <2>1, ZenonT(40) DEF SearchOK
<1> QED
  BY <1>5, <1>17, Zenon

\* There is an output to go on with as long as the target can be reached (bnb's forward branch).
LEMMA ForwardLeft ==
  ASSUME Sound, SearchOK(cs), ~ OutOfRange, ~ InRange
  PROVE  Len(cs.sel) < Len(cs.order)
<1>1. /\ cs.target \in Nat /\ cs.order \in Orders /\ cs.sel \in Seq(BOOLEAN)
      /\ cs.value \in Int /\ cs.avail \in Int
  BY SearchFields
<1>2. cs.avail > 0
  BY <1>1 DEF OutOfRange, InRange
<1>3. Len(cs.sel) <= Len(cs.order) /\ cs.avail = Effective(Undecided(cs.order, cs.sel))
  BY Zenon DEF SearchOK
<1>4. Undecided(cs.order, cs.sel) # {}
  <2>1. Effective({}) = 0
    BY EffectiveNone
  <2>2. cs.avail # 0
    BY <1>1, <1>2
  <2> QED
    BY <1>3, <2>1, <2>2, Zenon
<1>5. PICK i \in Len(cs.sel) + 1 .. Len(cs.order) : TRUE
  BY <1>4, Zenon DEF Undecided
<1>6. Len(cs.sel) \in Nat /\ Len(cs.order) \in Nat
  BY <1>1, OrderFacts
<1> QED
  BY <1>5, <1>6

\* Including the next output keeps the books of the search (bnb's forward branch).
LEMMA ForwardOK ==
  ASSUME Sound, SearchOK(cs), BnbForward
  PROVE  SearchOK(cs')
<1> DEFINE sel == cs.sel
           order == cs.order
           o == order[Len(sel) + 1]
           v == EffectiveValue(o)
           s2 == Append(sel, TRUE)
           d == [cs EXCEPT !.sel = s2, !.value = @ + v, !.avail = @ - v, !.tries = @ + 1]
<1>1. /\ order \in Orders /\ sel \in Seq(BOOLEAN)
      /\ cs.value \in Int /\ cs.avail \in Int /\ cs.tries \in Nat
  BY SearchFields
<1>2. Len(sel) < Len(order)
  BY ForwardLeft, Zenon DEF BnbForward
<1>3. /\ cs.value = Effective(Picked(order, sel)) /\ cs.avail = Effective(Undecided(order, sel))
      /\ cs.tries <= Cardinality(Before(Len(order), sel))
  BY Zenon DEF SearchOK
<1>4. cs' = d
  BY Zenon DEF BnbForward
<1> HIDE DEF sel, order
<1>5. /\ s2 \in Seq(BOOLEAN) /\ Len(s2) = Len(sel) + 1 /\ s2[Len(sel) + 1]
      /\ \A i \in 1 .. Len(sel) : s2[i] = sel[i]
      /\ o \in Positive
      /\ Picked(order, s2) = Picked(order, sel) \cup {o} /\ o \notin Picked(order, sel)
      /\ Undecided(order, sel) = Undecided(order, s2) \cup {o} /\ o \notin Undecided(order, s2)
  BY Zenon, <1>1, <1>2, BooksForward
<1>6. Len(order) \in Nat /\ Len(sel) \in Nat
  BY <1>1, OrderFacts
<1>7. Cardinality(Before(Len(order), sel)) + 1 <= Cardinality(Before(Len(order), s2))
  <2> HIDE DEF s2
  <2>1. s2 = Append(sel, TRUE)
    BY Zenon DEF s2
  <2> QED
    BY Zenon, <1>1, <1>2, <1>6, <2>1, BeforeForward
<1> HIDE DEF s2, o
<1>8. cs.tries + 1 <= Cardinality(Before(Len(order), s2)) /\ cs.tries + 1 \in Nat
  <2>1. Cardinality(Before(Len(order), sel)) \in Nat /\ Cardinality(Before(Len(order), s2)) \in Nat
    BY <1>1, <1>5, <1>6, BeforeBound, ZenonT(40)
  <2> QED
    BY <1>1, <1>3, <1>7, <2>1
<1>9. Len(s2) <= Len(order) /\ Len(sel) <= Len(order)
  BY <1>2, <1>5, <1>6
<1>10. /\ Picked(order, sel) \in SUBSET Outpoint /\ Undecided(order, s2) \in SUBSET Outpoint
       /\ o \in Outpoint
  <2>1. Picked(order, sel) \in SUBSET Positive
    BY <1>1, <1>9, Books
  <2>2. Undecided(order, s2) \in SUBSET Positive
    BY <1>1, <1>5, <1>9, Books
  <2> QED
    BY <1>5, <2>1, <2>2, ZenonT(40) DEF Positive, Known
<1>11. cs.value + v = Effective(Picked(order, s2)) /\ v \in Int /\ cs.value + v \in Int
  <2>1. Effective(Picked(order, sel) \cup {o}) = Effective(Picked(order, sel)) + v /\ v \in Int
    BY Zenon, <1>5, <1>10, EffectiveAdd
  <2>2. cs.value + v \in Int
    BY SMTT(30), <1>1, <2>1
  <2> QED
    BY <1>3, <1>5, <2>1, <2>2, ZenonT(40)
<1>12. cs.avail - v = Effective(Undecided(order, s2)) /\ cs.avail - v \in Int
  <2>1. Effective(Undecided(order, s2) \cup {o}) = Effective(Undecided(order, s2)) + v
    BY <1>5, <1>10, EffectiveAdd
  <2>2. Effective(Undecided(order, s2)) \in Int
    BY <1>10, EffectiveInt
  <2> QED
    BY SMTT(30), <1>1, <1>3, <1>5, <1>11, <2>1, <2>2
<1> HIDE DEF v
<1>13. ASSUME NEW T \in BnbMatches(cs.target), Walked(order, s2, T)
       PROVE  cs.best # <<>> /\ cs.bestValue <= Effective(T)
  <2>1. PICK j \in 1 .. Len(s2) : /\ ~ s2[j] /\ order[j] \in T
                                  /\ \A i \in 1 .. j - 1 : s2[i] => order[i] \in T
    BY <1>13, Zenon DEF Walked
  <2>2. j # Len(sel) + 1
    BY <1>5, <2>1, Zenon
  <2>3. j \in 1 .. Len(sel) /\ \A i \in 1 .. j - 1 : i \in 1 .. Len(sel)
    BY <1>5, <1>6, <2>2
  <2>4. Walked(order, sel, T)
    BY <1>5, <2>1, <2>3, Zenon DEF Walked
  <2> QED
    BY <2>4, Zenon DEF SearchOK, sel, order
<1>14. /\ d.order = order /\ d.sel = s2 /\ d.target = cs.target
       /\ d.value = cs.value + v /\ d.avail = cs.avail - v
       /\ d.tries = cs.tries + 1 /\ d.best = cs.best /\ d.bestValue = cs.bestValue
       /\ d \in [pc : {"bnb"}, target : Payment, order : Orders, sel : Seq(BOOLEAN), value : Int,
             avail : Int, best : Seq(BOOLEAN), bestValue : Int, tries : Nat]
  <2>1. cs \in [pc : {"bnb"}, target : Payment, order : Orders, sel : Seq(BOOLEAN), value : Int,
             avail : Int, best : Seq(BOOLEAN), bestValue : Int, tries : Nat]
    BY Zenon DEF SearchOK
  <2> QED
    BY Zenon, <1>5, <1>8, <1>11, <1>12, <2>1 DEF order
<1> HIDE DEF d
<1>15. SearchOK(d)
  <2>1. /\ Len(cs.best) <= Len(order) /\ Effective(Positive) >= cs.target
        /\ cs.best = <<>> <=> cs.bestValue = NoValue
        /\ cs.best # <<>> => /\ Picked(order, cs.best) \in BnbMatches(cs.target)
                             /\ cs.bestValue = Effective(Picked(order, cs.best))
    BY Zenon DEF SearchOK, order
  <2> QED
    BY <1>8, <1>9, <1>11, <1>12, <1>13, <1>14, <2>1, ZenonT(40) DEF SearchOK
<1> QED
  BY <1>4, <1>15, Zenon

-----------------------------------------------------------------------------
(* The results of coin_select *)

\* A selection coin_select may return is of outputs the wallet has and meets the target.
LEMMA SelectionFacts ==
  ASSUME Sound, ChangeFee \in Nat, NEW t \in Nat, NEW S \in Selections(t)
  PROVE  S \in SUBSET Known /\ S \in SUBSET Outpoint /\ Effective(S) \in Int /\ Effective(S) >= t
<1>1. S \in BnbMatches(t) \/ S \in DrawSelections(t)
  BY Zenon DEF Selections, BnbSelections
<1>2. CASE S \in BnbMatches(t)
  <2>1. S \in SUBSET Known /\ S \in SUBSET Outpoint /\ Effective(S) \in t .. t + ChangeFee
    BY <1>2, Zenon DEF BnbMatches, Positive, Known
  <2> QED
    BY <2>1
<1>3. CASE S \in DrawSelections(t)
  <2>1. S \in SUBSET Known /\ S \in SUBSET Outpoint /\ Effective(S) >= t
    BY <1>3, Zenon DEF DrawSelections, Known
  <2> QED
    BY <2>1, EffectiveInt
<1> QED
  BY <1>1, <1>2, <1>3, Zenon

\* A cheapest selection without change is always one coin_select may return.
LEMMA CheapestSelected ==
  ASSUME NEW t, ~(Effective(Positive) < t), NEW S \in BnbSelections(t)
  PROVE  S \in Selections(t)
<1>1. S \in BnbMatches(t) /\ BnbSelections(t) # {}
  BY Zenon DEF BnbSelections
<1> QED
  BY <1>1, Zenon DEF Selections

\* A search has funds to find: the check before it has passed.
LEMMA SearchFunds ==
  ASSUME Sound, NEW c, SearchOK(c)
  PROVE  ~(Effective(Positive) < c.target)
<1>1. Effective(Positive) >= c.target
  BY Zenon DEF SearchOK
<1>2. c.target \in Nat
  BY SearchFields
<1>3. Positive \in SUBSET Outpoint
  BY Zenon DEF Positive, Known
<1>4. Effective(Positive) \in Int
  BY <1>3, EffectiveInt
<1> QED
  BY <1>1, <1>2, <1>4

\* A perfect match is a cheapest selection (bnb returns it at once).
LEMMA PerfectSelected ==
  ASSUME Sound, SearchOK(cs), BnbPerfect
  PROVE  SelectedBy(Better.best) \in Selections(cs.target)
<1>1. /\ SearchOK(Better) /\ Better.order = cs.order /\ Better.target = cs.target
      /\ InRange => Better.best # <<>> /\ Better.bestValue <= cs.value
  BY BetterOK
<1>2. InRange /\ cs.value = cs.target
  BY Zenon DEF BnbPerfect
<1> DEFINE S == Picked(cs.order, Better.best)
<1>3. S \in BnbMatches(cs.target) /\ Effective(S) = Better.bestValue /\ Better.bestValue <= cs.target
  BY <1>1, <1>2, ZenonT(40) DEF SearchOK
<1>4. cs.target \in Nat /\ ChangeFee \in Nat /\ Better.bestValue \in Int
  BY <1>1, SearchFields, Zenon
<1>5. \A T \in BnbMatches(cs.target) : Effective(T) \in cs.target .. cs.target + ChangeFee
  BY Zenon DEF BnbMatches
<1> HIDE DEF S
<1>6. \A T \in BnbMatches(cs.target) : Effective(S) <= Effective(T)
  BY <1>3, <1>4, <1>5
<1>7. S \in BnbSelections(cs.target)
  BY <1>3, <1>6, Zenon DEF BnbSelections
<1>8. ~(Effective(Positive) < cs.target)
  BY SearchFunds, Zenon
<1> QED
  BY <1>7, <1>8, CheapestSelected, ZenonT(40) DEF S, SelectedBy

\* When every branch was walked, the best selection is a cheapest one, and there is none if the
\* search has none (NoExactMatch).
LEMMA EndSelected ==
  ASSUME Sound, SearchOK(cs), BnbEnd
  PROVE  /\ Better.best # <<>> => SelectedBy(Better.best) \in Selections(cs.target)
         /\ Better.best = <<>> => BnbSelections(cs.target) = {}
<1>1. SearchOK(Better) /\ Better.order = cs.order /\ Better.target = cs.target
  BY BetterOK
<1>2. cs.sel \in Seq(BOOLEAN)
  BY SearchFields
<1>3. LastIncluded = 0 /\ (OutOfRange \/ InRange)
  BY Zenon DEF BnbEnd
<1>4. \A i \in 1 .. Len(cs.sel) : ~ cs.sel[i]
  <2>1. \A i \in 1 .. Len(cs.sel) : i > 0 => ~ cs.sel[i]
    BY <1>2, <1>3, LastOf, Zenon DEF LastIncluded
  <2>2. \A i \in 1 .. Len(cs.sel) : i > 0
    OBVIOUS
  <2> QED
    BY <2>1, <2>2, Zenon
<1>5. ASSUME NEW T \in BnbMatches(cs.target)
      PROVE  Better.best # <<>> /\ Better.bestValue <= Effective(T)
  BY <1>3, <1>4, LeafOK, ZenonT(40)
<1>6. ASSUME Better.best # <<>> PROVE SelectedBy(Better.best) \in Selections(cs.target)
  <2> DEFINE S == Picked(cs.order, Better.best)
  <2>1. S \in BnbMatches(cs.target) /\ Effective(S) = Better.bestValue
    BY <1>1, <1>6, Zenon DEF SearchOK
  <2>2. S \in BnbSelections(cs.target)
    BY <1>5, <2>1, Zenon DEF BnbSelections
  <2>3. ~(Effective(Positive) < cs.target)
    BY SearchFunds, Zenon
  <2> QED
    BY <2>2, <2>3, CheapestSelected, Zenon DEF SelectedBy
<1>7. ASSUME Better.best = <<>> PROVE BnbSelections(cs.target) = {}
  BY <1>5, <1>7, Zenon DEF BnbSelections
<1> QED
  BY <1>6, <1>7, Zenon

\* The tries run out only if they are fewer than the nodes of the tree (TotalTriesExceeded).
LEMMA ExceededTries ==
  ASSUME Sound, SearchOK(cs), BnbExceeded
  PROVE  ~ Exhaustive
<1>1. cs.order \in Orders /\ cs.sel \in Seq(BOOLEAN) /\ cs.tries \in Nat
  BY SearchFields
<1>2. cs.tries <= Cardinality(Before(Len(cs.order), cs.sel)) /\ cs.tries = BnbTries
  BY Zenon DEF SearchOK, BnbExceeded
<1>3. Len(cs.order) = Cardinality(Positive) /\ Len(cs.order) \in Nat
  BY <1>1, OrderFacts, Zenon
<1>4. /\ Cardinality(Before(Len(cs.order), cs.sel)) \in Nat
      /\ Cardinality(Before(Len(cs.order), cs.sel)) < 2 ^ (Len(cs.order) + 1)
      /\ 2 ^ (Len(cs.order) + 1) \in Nat
  BY <1>1, <1>3, BeforeBound, Zenon
<1>5. ~(2 ^ (Len(cs.order) + 1) <= BnbTries)
  BY <1>1, <1>2, <1>4
<1> QED
  BY <1>3, <1>5, Zenon DEF Exhaustive


\* The first turn: nothing selected, everything available (coin_select before bnb).
LEMMA SearchStarts ==
  ASSUME Sound, NEW t \in Payment, Effective(Positive) >= t, NEW order \in Orders
  PROVE  SearchOK([pc |-> "bnb", target |-> t, order |-> order, sel |-> <<>>, value |-> 0,
                   avail |-> Effective(Positive), best |-> <<>>, bestValue |-> NoValue, tries |-> 0])
<1> DEFINE e == <<>>
           c == [pc |-> "bnb", target |-> t, order |-> order, sel |-> e, value |-> 0,
                 avail |-> Effective(Positive), best |-> e, bestValue |-> NoValue, tries |-> 0]
<1>1. e \in Seq(BOOLEAN) /\ Len(e) = 0
  OBVIOUS
<1>2. /\ Len(order) \in Nat /\ \A i \in 1 .. Len(order) : order[i] \in Positive
      /\ \A o \in Positive : \E i \in 1 .. Len(order) : order[i] = o
  BY OrderFacts, Zenon
<1> HIDE DEF e
<1>3. \A i : i \notin 1 .. Len(e)
  BY <1>1
<1>4. Picked(order, e) = {} /\ \A T : ~ Walked(order, e, T)
  BY <1>3, Zenon DEF Picked, Walked
<1>5. Len(e) + 1 = 1
  BY <1>1
<1>6. Undecided(order, e) = Positive
  BY <1>2, <1>5, Zenon DEF Undecided
<1>7. Effective({}) = 0
  BY EffectiveNone
<1>8. Effective(Positive) \in Int
  <2>1. Positive \in SUBSET Outpoint
    BY Zenon DEF Positive, Known
  <2> QED
    BY <2>1, EffectiveInt
<1>9. 0 <= Cardinality(Before(Len(order), e)) /\ Len(e) <= Len(order)
  <2>1. Cardinality(Before(Len(order), e)) \in Nat
    BY <1>1, <1>2, BeforeBound, Zenon
  <2> QED
    BY <1>1, <1>2, <2>1
<1>10. NoValue \in Int /\ 0 \in Int /\ 0 \in Nat
  BY SMTT(30) DEF NoValue
<1>11. /\ c.order = order /\ c.sel = e /\ c.target = t /\ c.value = 0
       /\ c.avail = Effective(Positive) /\ c.tries = 0 /\ c.best = e /\ c.bestValue = NoValue
       /\ c \in [pc : {"bnb"}, target : Payment, order : Orders, sel : Seq(BOOLEAN), value : Int,
             avail : Int, best : Seq(BOOLEAN), bestValue : Int, tries : Nat]
  BY <1>1, <1>8, <1>10
<1> HIDE DEF c
<1>12. e = <<>>
  BY Zenon DEF e
<1>13. SearchOK(c)
  BY <1>4, <1>6, <1>7, <1>9, <1>11, <1>12, ZenonT(40) DEF SearchOK
<1> QED
  BY <1>13, Zenon DEF c, e

\* The state of a draw, field by field.
LEMMA DrawFields ==
  ASSUME Sound, NEW c, DrawOK(c)
  PROVE  /\ c.pc = "draw" /\ c.target \in Payment /\ c.target \in Nat /\ c.target > 0
         /\ c.drawn \in SUBSET Known /\ c.drawn \in SUBSET Outpoint
         /\ Effective(c.drawn) \in Int /\ ~(Effective(Positive) < c.target)
         /\ c.drawn # {} => \E o \in c.drawn : Effective(c.drawn \ {o}) < c.target
         /\ Exhaustive => BnbSelections(c.target) = {}
         /\ c \in [pc : {"draw"}, target : Payment, drawn : SUBSET Known]
<1>1. /\ c \in [pc : {"draw"}, target : Payment, drawn : SUBSET Known]
      /\ Effective(Positive) >= c.target
      /\ c.drawn # {} => \E o \in c.drawn : Effective(c.drawn \ {o}) < c.target
      /\ Exhaustive => BnbSelections(c.target) = {}
  BY Zenon DEF DrawOK
<1>2. c.pc = "draw" /\ c.target \in Payment /\ c.drawn \in SUBSET Known
  BY <1>1
<1>3. c.target \in Nat \ {0}
  BY <1>2, WalletAssumption, Zenon
<1>4. c.target \in Nat /\ c.target > 0
  BY <1>3
<1>5. c.drawn \in SUBSET Outpoint /\ Positive \in SUBSET Outpoint
  BY <1>2, Zenon DEF Known, Positive
<1>6. Effective(c.drawn) \in Int /\ Effective(Positive) \in Int
  BY <1>5, EffectiveInt
<1>7. ~(Effective(Positive) < c.target)
  BY <1>1, <1>4, <1>6
<1> QED
  BY <1>1, <1>2, <1>4, <1>5, <1>6, <1>7, ZenonT(40)

\* The draw goes on while the effective value of what it has is below the target
\* (select_sorted_utxos: "accumulated < target + fee").
LEMMA ShortIs ==
  ASSUME Sound, DrawOK(cs)
  PROVE  Short <=> Effective(cs.drawn) < cs.target
<1>1. cs.target \in Nat /\ cs.drawn \in SUBSET Outpoint
  BY DrawFields, Zenon
<1>2. /\ Value(cs.drawn) \in Int /\ Fee(cs.drawn) \in Int
      /\ Effective(cs.drawn) = Value(cs.drawn) - Fee(cs.drawn)
  BY <1>1, ValueFeeInt
<1> QED
  BY <1>1, <1>2 DEF Short

\* An output more keeps the draw minimal (select_sorted_utxos).
LEMMA DrawNextOK ==
  ASSUME Sound, DrawOK(cs), DrawNext
  PROVE  DrawOK(cs')
<1>1. PICK o \in Known \ cs.drawn : cs' = [cs EXCEPT !.drawn = @ \cup {o}]
  BY Zenon DEF DrawNext
<1>2. /\ cs.drawn \in SUBSET Known
      /\ Exhaustive => BnbSelections(cs.target) = {}
      /\ cs \in [pc : {"draw"}, target : Payment, drawn : SUBSET Known]
  BY DrawFields, Zenon
<1>3. Effective(cs.drawn) < cs.target
  BY ShortIs, Zenon DEF DrawNext
<1> DEFINE d == [cs EXCEPT !.drawn = @ \cup {o}]
<1>4. /\ d.target = cs.target /\ d.drawn = cs.drawn \cup {o}
      /\ d \in [pc : {"draw"}, target : Payment, drawn : SUBSET Known]
  BY <1>2
<1> HIDE DEF d
<1>5. o \in d.drawn /\ d.drawn \ {o} = cs.drawn
  BY <1>4, Zenon
<1>6. Effective(Positive) >= cs.target
  BY Zenon DEF DrawOK
<1>7. DrawOK(d)
  BY <1>2, <1>3, <1>4, <1>5, <1>6, ZenonT(40) DEF DrawOK
<1> QED
  BY <1>1, <1>7, Zenon DEF d

\* A draw that meets the target is one coin_select may return.
LEMMA DrawSelected ==
  ASSUME Sound, DrawOK(cs), DrawEnd
  PROVE  cs.drawn \in Selections(cs.target)
<1>1. /\ cs.target \in Nat /\ cs.target > 0 /\ cs.drawn \in SUBSET Known
      /\ Effective(cs.drawn) \in Int /\ ~(Effective(Positive) < cs.target)
      /\ cs.drawn # {} => \E o \in cs.drawn : Effective(cs.drawn \ {o}) < cs.target
      /\ Exhaustive => BnbSelections(cs.target) = {}
  BY DrawFields, Zenon
<1>2. ~(Effective(cs.drawn) < cs.target)
  BY ShortIs, Zenon DEF DrawEnd
<1>3. Effective(cs.drawn) >= cs.target /\ Effective(cs.drawn) # 0
  BY <1>1, <1>2
<1>4. Effective({}) = 0
  BY EffectiveNone
<1>5. cs.drawn \in DrawSelections(cs.target)
  BY <1>1, <1>3, <1>4, Zenon DEF DrawSelections
<1> QED
  BY <1>1, <1>5, Zenon DEF Selections

\* A turn of the selection goes on, returns a selection WatchWallet allows, or fails where it
\* allows that (coin_select and what create_psbt_tx makes of its result).
LEMMA StepOutcome ==
  ASSUME Sound, (cs = Idle) \/ (Searching /\ SearchOK(cs)) \/ (Drawing /\ DrawOK(cs)), SelectStep
  PROVE  /\ cs # Idle /\ cs.target \in Payment
         /\ \/ \E S \in Selections(cs.target) : Return(S)
            \/ UNCHANGED wallet_hist /\ cs'.pc = "bnb" /\ SearchOK(cs')
            \/ UNCHANGED wallet_hist /\ cs'.pc = "draw" /\ DrawOK(cs')
            \/ UNCHANGED wallet_hist /\ cs' = Idle /\ MayBeInsufficient(cs.target)
<1>1. Idle.pc = "idle"
  BY DEF Idle
<1>2. CASE Searching /\ SearchOK(cs)
  <2>1. cs # Idle /\ ~ Drawing
    BY <1>1, <1>2 DEF Searching, Drawing
  <2>2. cs.target \in Payment
    BY <1>2, SearchFields, Zenon
  <2>3. ASSUME NEW c, c = Fallback, Exhaustive => BnbSelections(cs.target) = {} PROVE c.pc = "draw" /\ DrawOK(c)
    <3>1. /\ c.pc = "draw" /\ c.target = cs.target /\ c.drawn = {}
          /\ c \in [pc : {"draw"}, target : Payment, drawn : SUBSET Known]
      BY <2>2, <2>3 DEF Fallback
    <3>2. Effective(Positive) >= cs.target
      BY <1>2, Zenon DEF SearchOK
    <3> QED
      BY <2>3, <3>1, <3>2, ZenonT(40) DEF DrawOK
  <2>4. CASE BnbPerfect
    <3>1. SelectedBy(Better.best) \in Selections(cs.target)
      BY <1>2, <2>4, PerfectSelected, Zenon
    <3> QED
      BY <2>1, <2>2, <2>4, <3>1, Zenon DEF BnbPerfect
  <2>5. CASE BnbBacktrack
    <3>1. SearchOK(cs')
      BY <1>2, <2>5, BacktrackOK, Zenon DEF BnbBacktrack
    <3>2. cs'.pc = "bnb"
      BY <3>1, SearchFields, Zenon
    <3> QED
      BY <2>1, <2>2, <2>5, <3>1, <3>2, ZenonT(40) DEF BnbBacktrack
  <2>6. CASE BnbEnd
    <3>1. /\ Better.best # <<>> => SelectedBy(Better.best) \in Selections(cs.target)
          /\ Better.best = <<>> => BnbSelections(cs.target) = {}
      BY <1>2, <2>6, EndSelected, Zenon
    <3>2. CASE Better.best = <<>>
      <4>1. cs' = Fallback /\ UNCHANGED wallet_hist
        BY <2>6, <3>2, Zenon DEF BnbEnd
      <4> QED
        BY <2>1, <2>2, <2>3, <3>1, <3>2, <4>1, ZenonT(40)
    <3>3. CASE Better.best # <<>>
      <4>1. Return(SelectedBy(Better.best))
        BY <2>6, <3>3, Zenon DEF BnbEnd
      <4> QED
        BY <2>1, <2>2, <3>1, <3>3, <4>1, Zenon
    <3> QED
      BY <3>2, <3>3, Zenon
  <2>7. CASE BnbForward
    <3>1. SearchOK(cs')
      BY <1>2, <2>7, ForwardOK, ZenonT(40)
    <3>2. cs'.pc = "bnb"
      BY <3>1, SearchFields, Zenon
    <3> QED
      BY <2>1, <2>2, <2>7, <3>1, <3>2, ZenonT(40) DEF BnbForward
  <2>8. CASE BnbExceeded
    <3>1. ~ Exhaustive
      BY <1>2, <2>8, ExceededTries, Zenon
    <3>2. CASE cs.best = <<>>
      <4>1. cs' = Fallback /\ UNCHANGED wallet_hist
        BY <2>8, <3>2, Zenon DEF BnbExceeded
      <4> QED
        BY <2>1, <2>2, <2>3, <3>1, <4>1, ZenonT(40)
    <3>3. CASE cs.best # <<>>
      <4>1. Return(SelectedBy(cs.best))
        BY <2>8, <3>3, ZenonT(40) DEF BnbExceeded
      <4>2. SelectedBy(cs.best) \in BnbMatches(cs.target)
        BY <1>2, <3>3, ZenonT(40) DEF SearchOK, SelectedBy
      <4>3. ~(Effective(Positive) < cs.target)
        BY <1>2, SearchFunds, Zenon
      <4>4. SelectedBy(cs.best) \in Selections(cs.target)
        BY <3>1, <4>2, <4>3, ZenonT(40) DEF Selections
      <4> QED
        BY <2>1, <2>2, <4>1, <4>4, ZenonT(40)
    <3> QED
      BY <3>2, <3>3, Zenon
  <2>9. ~ DrawNext /\ ~ DrawFails /\ ~ DrawEnd
    BY <2>1, Zenon DEF DrawNext, DrawFails, DrawEnd
  <2> QED
    BY <2>4, <2>5, <2>6, <2>7, <2>8, <2>9, ZenonT(40) DEF SelectStep
<1>3. CASE Drawing /\ DrawOK(cs)
  <2>1. cs # Idle /\ ~ Searching
    BY <1>1, <1>3 DEF Searching, Drawing
  <2>2. cs.target \in Payment
    BY <1>3, DrawFields, Zenon
  <2>3. CASE DrawNext
    <3>1. DrawOK(cs')
      BY <1>3, <2>3, DrawNextOK, Zenon
    <3>2. cs'.pc = "draw"
      BY <3>1, DrawFields, Zenon
    <3> QED
      BY <2>1, <2>2, <2>3, <3>1, <3>2, ZenonT(40) DEF DrawNext
  <2>4. CASE DrawFails
    <3>1. Effective(Known) < cs.target
      BY <1>3, <2>4, ShortIs, ZenonT(40) DEF DrawFails
    <3>2. Exhaustive => BnbSelections(cs.target) = {}
      BY <1>3, DrawFields, Zenon
    <3>3. MayBeInsufficient(cs.target)
      BY <3>1, <3>2, Zenon DEF MayBeInsufficient
    <3> QED
      BY <2>1, <2>2, <2>4, <3>3, ZenonT(40) DEF DrawFails
  <2>5. CASE DrawEnd
    <3>1. cs.drawn \in Selections(cs.target)
      BY <1>3, <2>5, DrawSelected, ZenonT(40)
    <3> QED
      BY <2>1, <2>2, <2>5, <3>1, ZenonT(40) DEF DrawEnd
  <2>6. ~ BnbPerfect /\ ~ BnbBacktrack /\ ~ BnbEnd /\ ~ BnbForward /\ ~ BnbExceeded
    BY <2>1, Zenon DEF BnbPerfect, BnbBacktrack, BnbEnd, BnbForward, BnbExceeded
  <2> QED
    BY <2>3, <2>4, <2>5, <2>6, ZenonT(40) DEF SelectStep
<1>4. CASE cs = Idle
  <2>1. ~ Searching /\ ~ Drawing
    BY <1>1, <1>4 DEF Searching, Drawing
  <2> QED
    BY <2>1, Zenon DEF SelectStep, BnbPerfect, BnbBacktrack, BnbEnd, BnbForward, BnbExceeded,
       DrawNext, DrawFails, DrawEnd
<1> QED
  BY <1>2, <1>3, <1>4, Zenon

-----------------------------------------------------------------------------
(* The transactions of create_psbt_tx *)

\* A transaction more leaves the earlier ones as they were.
LEMMA AppendTx ==
  ASSUME NEW s \in Seq(Tx), NEW t \in Tx
  PROVE  /\ Append(s, t) \in Seq(Tx) /\ Len(Append(s, t)) = Len(s) + 1 /\ Len(s) \in Nat
         /\ \A i \in 1 .. Len(s) : Append(s, t)[i] = s[i]
         /\ Append(s, t)[Len(s) + 1] = t
OBVIOUS

\* The paths of the wallet: those of change are all different, and none is the receive path.
LEMMA ScriptFacts ==
  /\ ReceiveScript \in Script /\ <<External, ReceiveDepth>> \in PubkeyDetails
  /\ <<External, ReceiveDepth>> # NoKey /\ NoKey \notin PubkeyDetails
  /\ \A j \in 0 .. MaxChange : ChangeScript(j) \in Script /\ ChangeScript(j) # ReceiveScript
  /\ \A i, j \in Int : ChangeScript(i) = ChangeScript(j) => i = j
<1>1. MaxChange \in Nat
  BY WalletAssumption, Zenon
<1> QED
  BY <1>1 DEF ReceiveScript, Script, ChangeScript, External, Internal, ReceiveDepth, PubkeyDetails, NoKey

\* The change scripts a call has entered are in the wallet's map (get_change_script).
LEMMA GetChangeOK ==
  ASSUME WalletTypeOK, NEW s \in Script, GetChangeScript(s),
         \A j \in 0 .. MaxChange :
           pubkeyMap[ChangeScript(j)] = IF j < changeDepth THEN <<External, ReceiveDepth>> ELSE NoKey
  PROVE  /\ pubkeyMap' \in [Script -> PubkeyDetails \cup {NoKey}]
         /\ changeDepth' \in 0 .. MaxChange + 1 /\ changeDepth' = changeDepth + 1
         /\ changeDepth \in 0 .. MaxChange /\ s = ChangeScript(changeDepth)
         /\ pubkeyMap' = [pubkeyMap EXCEPT ![ChangeScript(changeDepth)] = <<External, ReceiveDepth>>]
         /\ \A j \in 0 .. MaxChange :
              pubkeyMap'[ChangeScript(j)] = IF j < changeDepth' THEN <<External, ReceiveDepth>> ELSE NoKey
<1> DEFINE k == <<External, ReceiveDepth>>
<1>1. /\ MaxChange \in Nat /\ changeDepth \in 0 .. MaxChange + 1 /\ changeDepth <= MaxChange
      /\ s = ChangeScript(changeDepth) /\ changeDepth' = changeDepth + 1
      /\ pubkeyMap' = [pubkeyMap EXCEPT ![s] = k]
      /\ pubkeyMap \in [Script -> PubkeyDetails \cup {NoKey}]
  BY WalletAssumption, Zenon DEF GetChangeScript, WalletTypeOK
<1>2. changeDepth \in 0 .. MaxChange /\ changeDepth + 1 \in 0 .. MaxChange + 1
  BY <1>1
<1>3. /\ k \in PubkeyDetails
      /\ \A j \in 0 .. MaxChange : ChangeScript(j) \in Script
      /\ \A i, j \in Int : ChangeScript(i) = ChangeScript(j) => i = j
  BY ScriptFacts, Zenon
<1> HIDE DEF k
<1>4. pubkeyMap' \in [Script -> PubkeyDetails \cup {NoKey}]
  BY <1>1, <1>3, Zenon
<1>5. ASSUME NEW j \in 0 .. MaxChange
      PROVE  pubkeyMap'[ChangeScript(j)] = IF j < changeDepth + 1 THEN k ELSE NoKey
  <2>1. CASE j = changeDepth
    <3>1. j < changeDepth + 1
      BY <1>2, <2>1
    <3>2. pubkeyMap'[ChangeScript(j)] = k
      BY <1>1, <1>3, <2>1, ZenonT(40)
    <3> QED
      BY <3>1, <3>2, ZenonT(40)
  <2>2. CASE j # changeDepth
    <3>1. (j < changeDepth + 1 <=> j < changeDepth) /\ j \in Int /\ changeDepth \in Int
      BY <1>2, <2>2
    <3>2. ChangeScript(j) # s
      BY <1>1, <1>3, <2>2, <3>1, ZenonT(40)
    <3>3. pubkeyMap'[ChangeScript(j)] = pubkeyMap[ChangeScript(j)]
      BY <1>1, <1>3, <3>2, ZenonT(40)
    <3> QED
      BY <3>1, <3>3, ZenonT(40) DEF k
  <2> QED
    BY <2>1, <2>2, Zenon
<1> QED
  BY <1>1, <1>2, <1>4, <1>5, ZenonT(40) DEF k

-----------------------------------------------------------------------------
(* The invariant *)

\* What the invariant says of a search or a draw depends on the outputs of the wallet only.
LEMMA StaysOK ==
  ASSUME utxoMap' = utxoMap, NEW c
  PROVE  /\ SearchOK(c)' <=> SearchOK(c)
         /\ DrawOK(c)' <=> DrawOK(c)
BY ZenonT(40) DEF SearchOK, DrawOK, Known, Positive, BnbMatches, BnbSelections, Exhaustive, Effective, Value, Fee,
       Orders, EffectiveValue

\* create_psbt_tx returns: its transaction has a change script of its own and pays its fee.
LEMMA ReturnInv ==
  ASSUME SelectInv, cs # Idle, cs.target \in Payment, NEW S \in Selections(cs.target), Return(S)
  PROVE  SelectInv'
<1> DEFINE tx == Transaction(S, cs.target, CallScript)
           n == Len(txs)
<1>1. WalletTypeOK /\ ScriptInv /\ FeeBounded /\ Sound
  BY WalletSound, Zenon DEF SelectInv
<1>2. txs' = Append(txs, tx) /\ cs' = Idle /\ UNCHANGED <<pubkeyMap, changeDepth, utxoMap>>
  BY Zenon DEF Return, wallet_vars
<1>3. cs.target \in Nat /\ ChangeFee \in Nat /\ MaxChange \in Nat
  <2>1. cs.target \in Nat \ {0} /\ ChangeFee \in Nat /\ MaxChange \in Nat
    BY WalletAssumption, Zenon
  <2> QED
    BY <2>1
<1>4. S \in SUBSET Outpoint /\ Effective(S) \in Int /\ Effective(S) >= cs.target
  BY <1>1, <1>3, SelectionFacts, ZenonT(40)
<1>5. changeDepth > 0 /\ changeDepth \in 0 .. MaxChange + 1
  BY <1>1, Zenon DEF ScriptInv, WalletTypeOK
<1>6. changeDepth - 1 \in 0 .. MaxChange /\ changeDepth - 1 \in 0 .. changeDepth - 1 /\ changeDepth - 1 \in Int
  BY <1>3, <1>5
<1>7. CallScript = ChangeScript(changeDepth - 1) /\ CallScript \in Script
  BY <1>6, ScriptFacts, Zenon DEF CallScript
<1>8. tx \in Tx /\ tx.changeScript = CallScript /\ FeeOK(tx)
  BY <1>1, <1>4, <1>7, TransactionFacts, ZenonT(40)
<1> HIDE DEF tx
<1>9. /\ txs' \in Seq(Tx) /\ Len(txs') = n + 1 /\ n \in Nat
      /\ \A i \in 1 .. n : txs'[i] = txs[i]
      /\ txs'[n + 1] = tx
  BY <1>1, <1>2, <1>8, AppendTx, ZenonT(40) DEF ScriptInv
<1>10. \A i \in 1 .. Len(txs') : i \in 1 .. n \/ i = n + 1
  BY <1>9
<1>11. WalletTypeOK'
  BY <1>1, <1>2, Zenon DEF WalletTypeOK
<1>12. FeeBounded'
  <2>1. \A i \in 1 .. n : FeeOK(txs[i])
    BY <1>1, Zenon DEF FeeBounded, FeeOK
  <2>2. \A i \in 1 .. Len(txs') : FeeOK(txs'[i])
    BY <1>8, <1>9, <1>10, <2>1, ZenonT(40)
  <2> QED
    BY <2>2, Zenon DEF FeeBounded, FeeOK, Fee
<1>13. ScriptInv'
  <2>1. CallDepth = changeDepth - 1 /\ CallDepth' = changeDepth
    BY <1>2, Zenon DEF CallDepth
  <2>2. \A i \in 1 .. n : \E j \in 0 .. changeDepth - 1 - 1 : txs[i].changeScript = ChangeScript(j)
    BY <1>1, <2>1, ZenonT(40) DEF ScriptInv
  <2>3. \A j \in 0 .. changeDepth - 1 - 1 : j \in 0 .. changeDepth - 1 /\ j \in Int /\ j # changeDepth - 1
    BY <1>5
  <2>4. \A i \in 1 .. Len(txs') : \E j \in 0 .. changeDepth - 1 : txs'[i].changeScript = ChangeScript(j)
    BY <1>6, <1>7, <1>8, <1>9, <1>10, <2>2, <2>3, ZenonT(40)
  <2>5. \A i \in 1 .. n : txs[i].changeScript # CallScript
    BY <1>6, <1>7, <2>2, <2>3, ScriptFacts, ZenonT(40)
  <2>6. \A i, j \in 1 .. n : i # j => txs[i].changeScript # txs[j].changeScript
    BY <1>1, Zenon DEF ScriptInv
  <2>7. \A i, j \in 1 .. Len(txs') : i # j => txs'[i].changeScript # txs'[j].changeScript
    BY <1>8, <1>9, <1>10, <2>5, <2>6, ZenonT(40)
  <2>8. \A j \in 0 .. MaxChange :
          pubkeyMap'[ChangeScript(j)] = IF j < changeDepth' THEN <<External, ReceiveDepth>> ELSE NoKey
    BY <1>1, <1>2, ZenonT(40) DEF ScriptInv
  <2> QED
    BY <1>2, <1>9, <2>1, <2>4, <2>7, <2>8, ZenonT(40) DEF ScriptInv, ChangeScript
<1> QED
  BY <1>2, <1>11, <1>12, <1>13, Zenon DEF SelectInv

\* The change scripts below a depth are below a greater one.
LEMMA MoreScripts == \A a, b \in Int : a <= b => \A j \in 0 .. a - 1 : j \in 0 .. b - 1
OBVIOUS

\* A step that makes no transaction and forgets no change script keeps what is known of both.
LEMMA SameTxs ==
  ASSUME ScriptInv, FeeBounded, txs' = txs, CallDepth \in Int, CallDepth' \in Int, CallDepth <= CallDepth',
         cs' # Idle => changeDepth' > 0,
         \A j \in 0 .. MaxChange :
           pubkeyMap'[ChangeScript(j)] = IF j < changeDepth' THEN <<External, ReceiveDepth>> ELSE NoKey
  PROVE  ScriptInv' /\ FeeBounded'
<1>1. FeeBounded'
  BY Zenon DEF FeeBounded, Fee
<1>2. \A j \in 0 .. CallDepth - 1 : j \in 0 .. CallDepth' - 1
  BY MoreScripts, Zenon
<1>3. \A i \in 1 .. Len(txs) : \E j \in 0 .. CallDepth' - 1 : txs[i].changeScript = ChangeScript(j)
  BY <1>2, ZenonT(40) DEF ScriptInv
<1> QED
  BY <1>1, <1>3, ZenonT(40) DEF ScriptInv, ChangeScript

\* An output reported to the wallet pays a script it has (insert_utxos looks its details up).
LEMMA PaidFacts ==
  ASSUME SelectInv, cs = Idle, NEW out \in PaidOutputs
  PROVE  out.script \in Script /\ out.amount \in Nat /\ pubkeyMap[out.script] \in PubkeyDetails
<1>1. WalletTypeOK /\ ScriptInv /\ MaxChange \in Nat /\ Amount \subseteq Nat
  BY WalletAssumption, Zenon DEF SelectInv
<1>2. CASE out \in [script : GetPubkeys \cap {ReceiveScript}, amount : Amount]
  <2>1. out.script \in GetPubkeys /\ out.amount \in Amount
    BY <1>2
  <2> QED
    BY <1>1, <2>1, Zenon DEF GetPubkeys, WalletTypeOK
<1>3. CASE \E i \in {j \in 1 .. Len(txs) : txs[j].change > 0} :
             out = [script |-> txs[i].changeScript, amount |-> txs[i].change]
  <2>1. PICK i \in 1 .. Len(txs) : out = [script |-> txs[i].changeScript, amount |-> txs[i].change]
    BY <1>3, ZenonT(40)
  <2>2. out.script = txs[i].changeScript /\ out.amount = txs[i].change
    BY <2>1
  <2>3. txs[i] \in Tx
    <3>1. txs \in Seq(Tx)
      BY <1>1, ZenonT(40) DEF ScriptInv
    <3> QED
      BY <3>1
  <2>4. txs[i].change \in Nat /\ txs[i].changeScript \in Script
    BY <2>3 DEF Tx
  <2>5. PICK j \in 0 .. changeDepth - 1 : txs[i].changeScript = ChangeScript(j)
    BY <1>1, Zenon DEF ScriptInv, CallDepth
  <2>6. changeDepth \in 0 .. MaxChange + 1
    BY <1>1, ZenonT(40) DEF WalletTypeOK
  <2>7. j \in 0 .. MaxChange /\ j < changeDepth
    BY SMTT(30), <1>1, <2>6
  <2>8. pubkeyMap[ChangeScript(j)] = <<External, ReceiveDepth>>
    BY <1>1, <2>7, ZenonT(40) DEF ScriptInv
  <2> QED
    BY <2>2, <2>4, <2>5, <2>8, ScriptFacts, ZenonT(40)
<1> QED
  BY <1>2, <1>3, ZenonT(40) DEF PaidOutputs

\* A reported output keeps the wallet's types (insert_utxos).
LEMMA ReportInv ==
  ASSUME SelectInv, cs = Idle, cs' = cs, NEW o \in Outpoint, NEW out \in PaidOutputs,
         NEW spent \in BOOLEAN, ReportUtxo(o, out, spent)
  PROVE  SelectInv'
<1> DEFINE news == [x \in {o} |-> [script |-> out.script, amount |-> out.amount, isSpent |-> spent]]
<1>1. out.script \in Script /\ out.amount \in Nat /\ pubkeyMap[out.script] \in PubkeyDetails
  BY PaidFacts
<1>2. WalletTypeOK /\ ScriptInv /\ FeeBounded
  BY Zenon DEF SelectInv
<1>3. utxoMap' = Inserted(news) /\ UNCHANGED <<pubkeyMap, changeDepth, txs>>
  BY ZenonT(40) DEF ReportUtxo, InsertUtxos
<1>4. /\ DOMAIN news = {o} /\ news[o].script = out.script
      /\ news[o].amount = out.amount /\ news[o].isSpent = spent
  OBVIOUS
<1> HIDE DEF news
<1>5. utxoMap \in [Outpoint -> Utxo \cup {NoUtxo}]
  BY <1>2, ZenonT(40) DEF WalletTypeOK
<1>6. [script |-> news[o].script, amount |-> news[o].amount, key |-> pubkeyMap[news[o].script],
       isSpent |-> news[o].isSpent] \in Utxo
  BY <1>1, <1>4 DEF Utxo
<1>7. ASSUME o \in Known PROVE [utxoMap[o] EXCEPT !.isSpent = news[o].isSpent] \in Utxo
  <2>1. utxoMap[o] \in Utxo
    BY <1>5, <1>7, ZenonT(40) DEF Known
  <2> QED
    BY <1>4, <2>1 DEF Utxo
<1>8. ASSUME NEW x \in Outpoint PROVE Inserted(news)[x] \in Utxo \cup {NoUtxo}
  <2>1. CASE x # o
    BY <1>4, <1>5, <2>1, ZenonT(40) DEF Inserted
  <2>2. CASE x = o
    BY <1>4, <1>6, <1>7, <2>2, ZenonT(40) DEF Inserted
  <2> QED
    BY <2>1, <2>2, ZenonT(40)
<1>9. utxoMap' \in [Outpoint -> Utxo \cup {NoUtxo}]
  BY <1>3, <1>8, Zenon DEF Inserted
<1>10. WalletTypeOK'
  BY <1>2, <1>3, <1>9, ZenonT(40) DEF WalletTypeOK
<1>11. ScriptInv' /\ FeeBounded'
  BY <1>2, <1>3, ZenonT(40) DEF ScriptInv, FeeBounded, CallDepth, Fee, ChangeScript
<1> QED
  BY <1>10, <1>11, ZenonT(40) DEF SelectInv

\* create_psbt_tx enters its change script before it selects (also when it then fails).
LEMMA CallInv ==
  ASSUME SelectInv, cs = Idle, UNCHANGED <<utxoMap, txs>>, NEW s \in Script, GetChangeScript(s)
  PROVE  /\ WalletTypeOK' /\ ScriptInv' /\ FeeBounded'
         /\ changeDepth \in 0 .. MaxChange /\ s = ChangeScript(changeDepth)
         /\ changeDepth' = changeDepth + 1
<1>1. WalletTypeOK /\ ScriptInv /\ FeeBounded /\ MaxChange \in Nat
  BY WalletAssumption, Zenon DEF SelectInv
<1>2. \A j \in 0 .. MaxChange :
        pubkeyMap[ChangeScript(j)] = IF j < changeDepth THEN <<External, ReceiveDepth>> ELSE NoKey
  BY <1>1, Zenon DEF ScriptInv
<1>3. /\ pubkeyMap' \in [Script -> PubkeyDetails \cup {NoKey}]
      /\ changeDepth' \in 0 .. MaxChange + 1 /\ changeDepth' = changeDepth + 1
      /\ changeDepth \in 0 .. MaxChange /\ s = ChangeScript(changeDepth)
      /\ \A j \in 0 .. MaxChange :
           pubkeyMap'[ChangeScript(j)] = IF j < changeDepth' THEN <<External, ReceiveDepth>> ELSE NoKey
  BY <1>1, <1>2, GetChangeOK, ZenonT(40)
<1>4. WalletTypeOK'
  BY <1>1, <1>3, ZenonT(40) DEF WalletTypeOK
<1>5. CallDepth = changeDepth /\ (CallDepth' = changeDepth' \/ CallDepth' = changeDepth' - 1)
  BY Zenon DEF CallDepth
<1>6. CallDepth \in Int /\ CallDepth' \in Int /\ CallDepth <= CallDepth' /\ changeDepth' > 0
  BY <1>3, <1>5
<1>7. ScriptInv' /\ FeeBounded'
  BY <1>1, <1>3, <1>6, SameTxs, ZenonT(40)
<1> QED
  BY <1>3, <1>4, <1>7, Zenon

\* The invariant holds in a new wallet (WatchOnly::new).
LEMMA SelectInitInv == SelectInit => SelectInv
<1> SUFFICES ASSUME SelectInit PROVE SelectInv
  OBVIOUS
<1>1. /\ pubkeyMap = [s \in Script |-> NoKey] /\ changeDepth = 0
      /\ utxoMap = [o \in Outpoint |-> NoUtxo] /\ txs = <<>> /\ cs = Idle /\ MaxChange \in Nat
  BY WalletAssumption, ZenonT(40) DEF SelectInit, WalletInit
<1>2. 0 \in 0 .. MaxChange + 1 /\ \A j \in 0 .. MaxChange : ~(j < 0)
  BY <1>1
<1>3. WalletTypeOK
  BY <1>1, <1>2, ZenonT(40) DEF WalletTypeOK
<1>4. txs \in Seq(Tx) /\ \A i : i \notin 1 .. Len(txs)
  BY <1>1
<1>5. FeeBounded
  BY <1>4, ZenonT(40) DEF FeeBounded
<1>6. ScriptInv
  BY <1>1, <1>2, <1>4, ScriptFacts, ZenonT(40) DEF ScriptInv
<1> QED
  BY <1>1, <1>3, <1>5, <1>6, ZenonT(40) DEF SelectInv

\* Every step of the wallet keeps the invariant.
LEMMA SelectNextInv == SelectInv /\ [SelectNext]_select_vars => SelectInv'
<1> SUFFICES ASSUME SelectInv, [SelectNext]_select_vars PROVE SelectInv'
  OBVIOUS
<1>0. WalletTypeOK /\ ScriptInv /\ FeeBounded /\ Sound /\ MaxChange \in Nat
  BY WalletSound, WalletAssumption, ZenonT(40) DEF SelectInv
<1>1. CASE cs = Idle /\ GetReceiveAddress /\ UNCHANGED <<txs, cs>>
  <2>1. /\ pubkeyMap' = [pubkeyMap EXCEPT ![ReceiveScript] = <<External, ReceiveDepth>>]
        /\ UNCHANGED <<changeDepth, utxoMap, txs, cs>> /\ cs = Idle
    BY <1>1, Zenon DEF GetReceiveAddress
  <2>2. WalletTypeOK'
    BY <1>0, <2>1, ScriptFacts, ZenonT(40) DEF WalletTypeOK
  <2>3. \A j \in 0 .. MaxChange : pubkeyMap'[ChangeScript(j)] = pubkeyMap[ChangeScript(j)]
    BY <1>0, <2>1, ScriptFacts, ZenonT(40) DEF WalletTypeOK
  <2>4. CallDepth' = CallDepth /\ CallDepth = changeDepth /\ changeDepth \in 0 .. MaxChange + 1
    BY <1>0, <2>1, ZenonT(40) DEF CallDepth, WalletTypeOK
  <2>5. CallDepth \in Int /\ CallDepth' \in Int /\ CallDepth <= CallDepth'
    BY <1>0, <2>4
  <2>6. ScriptInv' /\ FeeBounded'
    <3>1. \A j \in 0 .. MaxChange :
            pubkeyMap'[ChangeScript(j)] = IF j < changeDepth' THEN <<External, ReceiveDepth>> ELSE NoKey
      BY <1>0, <2>1, <2>3, ZenonT(40) DEF ScriptInv
    <3> QED
      BY <1>0, <2>1, <2>5, <3>1, SameTxs, ZenonT(40)
  <2> QED
    BY <2>1, <2>2, <2>6, ZenonT(40) DEF SelectInv
<1>2. CASE /\ cs = Idle
           /\ \E o \in Outpoint, out \in PaidOutputs, spent \in BOOLEAN : ReportUtxo(o, out, spent)
           /\ UNCHANGED cs
  BY <1>2, ReportInv, ZenonT(40)
<1>3. ASSUME NEW t \in Payment, CoinSelect(t) PROVE SelectInv'
  <2>1. PICK s \in Script : GetChangeScript(s)
    BY <1>3, Zenon DEF CoinSelect
  <2>2. cs = Idle /\ UNCHANGED <<utxoMap, txs>> /\ Effective(Positive) >= t
    BY <1>3, Zenon DEF CoinSelect
  <2>3. WalletTypeOK' /\ ScriptInv' /\ FeeBounded'
    BY <2>1, <2>2, CallInv, ZenonT(40)
  <2>4. PICK order \in Orders :
          cs' = [pc |-> "bnb", target |-> t, order |-> order, sel |-> <<>>, value |-> 0,
                 avail |-> Effective(Positive), best |-> <<>>, bestValue |-> NoValue, tries |-> 0]
    BY <1>3, Zenon DEF CoinSelect
  <2>5. SearchOK(cs') /\ cs'.pc = "bnb"
    BY <1>0, <2>2, <2>4, SearchStarts, SearchFields, ZenonT(40)
  <2>6. SearchOK(cs)' /\ Searching'
    BY <2>2, <2>5, StaysOK, ZenonT(40) DEF Searching
  <2> QED
    BY <2>3, <2>6, ZenonT(40) DEF SelectInv
<1>4. ASSUME NEW t \in Payment, CoinSelectFails(t) PROVE SelectInv'
  <2>1. PICK s \in Script : GetChangeScript(s)
    BY <1>4, Zenon DEF CoinSelectFails
  <2>2. cs = Idle /\ UNCHANGED <<utxoMap, txs>> /\ cs' = Idle
    BY <1>4, Zenon DEF CoinSelectFails
  <2>3. WalletTypeOK' /\ ScriptInv' /\ FeeBounded'
    BY <2>1, <2>2, CallInv, ZenonT(40)
  <2> QED
    BY <2>2, <2>3, ZenonT(40) DEF SelectInv
<1>5. CASE SelectStep
  <2>1. /\ cs # Idle /\ cs.target \in Payment
        /\ \/ \E S \in Selections(cs.target) : Return(S)
           \/ UNCHANGED wallet_hist /\ cs'.pc = "bnb" /\ SearchOK(cs')
           \/ UNCHANGED wallet_hist /\ cs'.pc = "draw" /\ DrawOK(cs')
           \/ UNCHANGED wallet_hist /\ cs' = Idle /\ MayBeInsufficient(cs.target)
    BY <1>0, <1>5, StepOutcome, ZenonT(40) DEF SelectInv
  <2>2. CASE \E S \in Selections(cs.target) : Return(S)
    BY <2>1, <2>2, ReturnInv, ZenonT(40)
  <2>3. CASE UNCHANGED wallet_hist
    <3>1. UNCHANGED <<pubkeyMap, changeDepth, utxoMap, txs>>
      BY <2>3, Zenon DEF wallet_hist, wallet_vars
    <3>2. WalletTypeOK'
      BY <1>0, <3>1, ZenonT(40) DEF WalletTypeOK
    <3>3. changeDepth > 0 /\ changeDepth \in 0 .. MaxChange + 1
      BY <1>0, <2>1, ZenonT(40) DEF ScriptInv, WalletTypeOK
    <3>4. CallDepth = changeDepth - 1 /\ (CallDepth' = changeDepth \/ CallDepth' = changeDepth - 1)
      BY <2>1, <3>1, ZenonT(40) DEF CallDepth
    <3>5. CallDepth \in Int /\ CallDepth' \in Int /\ CallDepth <= CallDepth'
      BY SMTT(30), <1>0, <3>3, <3>4
    <3>6. \A j \in 0 .. MaxChange :
            pubkeyMap'[ChangeScript(j)] = IF j < changeDepth' THEN <<External, ReceiveDepth>> ELSE NoKey
      BY <1>0, <3>1, ZenonT(40) DEF ScriptInv
    <3>7. ScriptInv' /\ FeeBounded'
      BY <1>0, <3>1, <3>3, <3>5, <3>6, SameTxs, ZenonT(40)
    <3>8. CASE cs'.pc = "bnb" /\ SearchOK(cs')
      <4>1. SearchOK(cs)' /\ Searching'
        BY <3>1, <3>8, StaysOK, ZenonT(40) DEF Searching
      <4> QED
        BY <3>2, <3>7, <4>1, ZenonT(40) DEF SelectInv
    <3>9. CASE cs'.pc = "draw" /\ DrawOK(cs')
      <4>1. DrawOK(cs)' /\ Drawing'
        BY <3>1, <3>9, StaysOK, ZenonT(40) DEF Drawing
      <4> QED
        BY <3>2, <3>7, <4>1, ZenonT(40) DEF SelectInv
    <3>10. CASE cs' = Idle
      BY <3>2, <3>7, <3>10, ZenonT(40) DEF SelectInv
    <3>11. CASE \E S \in Selections(cs.target) : Return(S)
      BY <2>1, <3>11, ReturnInv, Zenon
    <3> QED
      BY <2>1, <3>8, <3>9, <3>10, <3>11, ZenonT(40)
  <2> QED
    BY <2>1, <2>2, <2>3, ZenonT(40)
<1>6. CASE UNCHANGED select_vars
  <2>1. UNCHANGED <<pubkeyMap, changeDepth, utxoMap, txs, cs>>
    BY <1>6, Zenon DEF select_vars, wallet_hist, wallet_vars
  <2>2. WalletTypeOK' /\ ScriptInv' /\ FeeBounded'
    BY <1>0, <2>1, ZenonT(40) DEF WalletTypeOK, ScriptInv, FeeBounded, CallDepth, Fee, ChangeScript
  <2>3. /\ SearchOK(cs) => SearchOK(cs)'
        /\ DrawOK(cs) => DrawOK(cs)'
    BY <2>1, StaysOK
  <2> QED
    BY <2>1, <2>2, <2>3, ZenonT(40) DEF SelectInv, Searching, Drawing
<1> QED
  BY <1>1, <1>2, <1>3, <1>4, <1>5, <1>6, ZenonT(40) DEF SelectNext

\* The inductive invariant of create_psbt_tx and coin_select, for any wallet.
THEOREM SelectInvariance == SelectSpec => []SelectInv
BY SelectInitInv, SelectNextInv, PTL DEF SelectSpec

\* The types of the wallet's state hold for any wallet (insert_utxos, get_change_script).
THEOREM WalletTypeCorrect == SelectSpec => []WalletTypeOK
<1>1. SelectInv => WalletTypeOK
  BY ZenonT(40) DEF SelectInv
<1> QED
  BY <1>1, SelectInvariance, PTL

\* No two transactions share a change script, and the wallet watches every one of them
\* (get_change_script), for any number of calls and failures between them.
THEOREM ChangeIsFresh == SelectSpec => []ChangeFresh
<1>1. SelectInv => ChangeFresh
  <2> SUFFICES ASSUME SelectInv PROVE ChangeFresh
    OBVIOUS
  <2>1. WalletTypeOK /\ ScriptInv /\ MaxChange \in Nat
    BY WalletAssumption, ZenonT(40) DEF SelectInv
  <2>2. ASSUME NEW i \in 1 .. Len(txs) PROVE txs[i].changeScript \in GetPubkeys
    <3>1. PICK j \in 0 .. CallDepth - 1 : txs[i].changeScript = ChangeScript(j)
      BY <2>1, Zenon DEF ScriptInv
    <3>2. changeDepth \in 0 .. MaxChange + 1 /\ (CallDepth = changeDepth \/ CallDepth = changeDepth - 1)
      BY <2>1, ZenonT(40) DEF WalletTypeOK, CallDepth
    <3>3. j \in 0 .. MaxChange /\ j < changeDepth
      BY <2>1, <3>2
    <3>4. pubkeyMap[ChangeScript(j)] = <<External, ReceiveDepth>>
      BY <2>1, <3>3, ZenonT(40) DEF ScriptInv
    <3> QED
      BY <3>1, <3>3, <3>4, ScriptFacts, ZenonT(40) DEF GetPubkeys
  <2> QED
    BY <2>1, <2>2, ZenonT(40) DEF ScriptInv, ChangeFresh
<1> QED
  BY <1>1, SelectInvariance, PTL

\* Every transaction pays for its inputs and its change output, and what it pays beyond that
\* could not have been a change output (decide_change), whatever coin_select selected.
THEOREM FeeIsBounded == SelectSpec => []FeeBounded
<1>1. SelectInv => FeeBounded
  BY Zenon DEF SelectInv
<1> QED
  BY <1>1, SelectInvariance, PTL

-----------------------------------------------------------------------------
(* The refinement of WatchWallet *)

\* Sums and cardinalities are the same in both specifications.
LEMMA SameSums ==
  /\ \A f : Wallet!SumFunction(f) = SumFunction(f)
  /\ \A S : Wallet!Cardinality(S) = Cardinality(S)
<1>1. \A f : Wallet!SumFunction(f) = SumFunction(f)
  BY Zenon DEF SumFunction, Wallet!SumFunction, SumFunctionOnSet, Wallet!SumFunctionOnSet, FoldFunctionOnSet,
    Wallet!FoldFunctionOnSet, MapThenFoldSet, Wallet!MapThenFoldSet
<1>2. \A S : Wallet!Cardinality(S) = Cardinality(S)
  BY Zenon DEF Cardinality, Wallet!Cardinality, IsFiniteSet, Wallet!IsFiniteSet
<1> QED
  BY <1>1, <1>2

\* Both specifications mean the same by what depends on the outputs only.
LEMMA SameSelections ==
  /\ Wallet!Known = Known
  /\ \A t : Wallet!Selections(t) = Selections(t)
  /\ \A t : Wallet!MayBeInsufficient(t) <=> MayBeInsufficient(t)
  /\ \A S, t, s : Wallet!Transaction(S, t, s) = Transaction(S, t, s)
  /\ Wallet!Script = Script /\ \A i : Wallet!ChangeScript(i) = ChangeScript(i)
<1>1. Wallet!Known = Known
  BY Zenon DEF Known, Wallet!Known, NoUtxo, Wallet!NoUtxo, NoKey, Wallet!NoKey
<1>2. \A S : Wallet!Value(S) = Value(S) /\ Wallet!Effective(S) = Effective(S)
  BY SameSums, Zenon DEF Value, Wallet!Value, Fee, Wallet!Fee, Effective, Wallet!Effective
<1>3. Wallet!Positive = Positive
  BY <1>1, Zenon DEF Positive, Wallet!Positive
<1>4. Wallet!Exhaustive <=> Exhaustive
  BY <1>3, SameSums, Zenon DEF Exhaustive, Wallet!Exhaustive
<1>5. \A t : Wallet!BnbMatches(t) = BnbMatches(t)
  BY <1>2, <1>3, Zenon DEF BnbMatches, Wallet!BnbMatches
<1>6. \A t : Wallet!BnbSelections(t) = BnbSelections(t)
  BY <1>2, <1>5, Zenon DEF BnbSelections, Wallet!BnbSelections
<1>7. \A t : Wallet!DrawSelections(t) = DrawSelections(t)
  BY <1>1, <1>2, Zenon DEF DrawSelections, Wallet!DrawSelections
<1>8. \A t : Wallet!Selections(t) = Selections(t)
  BY SMTT(30), <1>2, <1>3, <1>4, <1>5, <1>6, <1>7 DEF Selections, Wallet!Selections
<1>9. \A t : Wallet!MayBeInsufficient(t) <=> MayBeInsufficient(t)
  BY <1>1, <1>2, <1>3, <1>4, <1>6, ZenonT(40) DEF MayBeInsufficient, Wallet!MayBeInsufficient
<1>10. \A S, t, s : Wallet!Transaction(S, t, s) = Transaction(S, t, s)
  BY <1>2, ZenonT(40) DEF Transaction, Wallet!Transaction, ChangeOf, Wallet!ChangeOf
<1>11. Wallet!Script = Script /\ \A i : Wallet!ChangeScript(i) = ChangeScript(i)
  BY Zenon DEF Script, Wallet!Script, ReceiveScript, Wallet!ReceiveScript, External, Wallet!External,
    Internal, Wallet!Internal, ReceiveDepth, Wallet!ReceiveDepth, ChangeScript, Wallet!ChangeScript
<1> QED
  BY <1>1, <1>8, <1>9, <1>10, <1>11, ZenonT(40)

\* The wallet starts as WatchWallet does.
LEMMA WalletInitImplemented == SelectInit => Wallet!WalletInit
BY Zenon DEF SelectInit, WalletInit, Wallet!WalletInit, CallDepth, CallKeys, Wallet!Script, Script,
  ReceiveScript, Wallet!ReceiveScript, External, Wallet!External, Internal, Wallet!Internal,
  ReceiveDepth, Wallet!ReceiveDepth, ChangeScript, Wallet!ChangeScript, NoKey, Wallet!NoKey,
  NoUtxo, Wallet!NoUtxo

\* A call that returns or fails after its selection enters its change script then.
LEMMA CallImplemented ==
  ASSUME SelectInv, cs # Idle, cs' = Idle, UNCHANGED <<pubkeyMap, changeDepth, utxoMap>>
  PROVE  CallScript \in Script /\ Wallet!GetChangeScript(CallScript)
<1> DEFINE k == <<External, ReceiveDepth>>
           K == [pubkeyMap EXCEPT ![CallScript] = NoKey]
<1>1. WalletTypeOK /\ ScriptInv /\ MaxChange \in Nat
  BY WalletAssumption, Zenon DEF SelectInv
<1>2. changeDepth > 0 /\ changeDepth \in 0 .. MaxChange + 1
  BY <1>1, Zenon DEF ScriptInv, WalletTypeOK
<1>3. changeDepth - 1 \in 0 .. MaxChange /\ changeDepth - 1 < changeDepth /\ changeDepth - 1 <= MaxChange
      /\ changeDepth = changeDepth - 1 + 1
  BY SMTT(30), <1>1, <1>2
<1>4. CallScript = ChangeScript(changeDepth - 1) /\ CallScript \in Script
  BY <1>3, ScriptFacts, ZenonT(40) DEF CallScript
<1>5. pubkeyMap[CallScript] = k
  BY <1>1, <1>3, <1>4, ZenonT(40) DEF ScriptInv
<1>6. CallDepth = changeDepth - 1 /\ CallDepth' = changeDepth /\ CallKeys = K /\ CallKeys' = pubkeyMap
  BY Zenon DEF CallDepth, CallKeys
<1>7. pubkeyMap \in [Script -> PubkeyDetails \cup {NoKey}]
  BY <1>1, Zenon DEF WalletTypeOK
<1>8. pubkeyMap = [K EXCEPT ![CallScript] = k]
  <2> HIDE DEF k
  <2>1. ASSUME NEW f, NEW x, NEW y, f \in [Script -> PubkeyDetails \cup {NoKey}], f[x] = y, x \in Script
        PROVE  f = [[f EXCEPT ![x] = NoKey] EXCEPT ![x] = y]
    BY Zenon, <2>1
  <2> QED
    BY <1>4, <1>5, <1>7, <2>1, ZenonT(40)
<1>9. k = <<Wallet!External, Wallet!ReceiveDepth>>
  BY Zenon DEF Wallet!External, Wallet!ReceiveDepth, External, ReceiveDepth
<1>10. Wallet!ChangeScript(CallDepth) = CallScript
  BY <1>4, <1>6, SameSelections, Zenon
<1> HIDE DEF K, k
<1> QED
  BY <1>3, <1>4, <1>6, <1>8, <1>9, <1>10, Zenon DEF Wallet!GetChangeScript

\* Every step of the search is a step of WatchWallet or leaves it as it is.
LEMMA WalletNextImplemented ==
  ASSUME SelectInv, [SelectNext]_select_vars
  PROVE  [Wallet!WalletNext]_Wallet!wallet_hist
<1>0. WalletTypeOK /\ ScriptInv /\ Sound /\ MaxChange \in Nat
  BY WalletSound, WalletAssumption, Zenon DEF SelectInv
<1>1. CASE cs = Idle /\ GetReceiveAddress /\ UNCHANGED <<txs, cs>>
  <2>1. Wallet!GetReceiveAddress /\ UNCHANGED txs
    BY <1>1, Zenon DEF GetReceiveAddress, Wallet!GetReceiveAddress, CallDepth, CallKeys, ReceiveScript,
       Wallet!ReceiveScript, External, Wallet!External, ReceiveDepth, Wallet!ReceiveDepth
  <2> QED
    BY <2>1, Zenon DEF Wallet!WalletNext
<1>2. CASE /\ cs = Idle
           /\ \E o \in Outpoint, out \in PaidOutputs, spent \in BOOLEAN : ReportUtxo(o, out, spent)
           /\ UNCHANGED cs
  <2>1. PICK o \in Outpoint, out \in PaidOutputs, spent \in BOOLEAN : ReportUtxo(o, out, spent)
    BY <1>2, Zenon
  <2>2. CallKeys = pubkeyMap /\ CallDepth = changeDepth /\ CallKeys' = pubkeyMap' /\ CallDepth' = changeDepth'
    BY <1>2, Zenon DEF CallDepth, CallKeys
  <2>3. Wallet!GetPubkeys = GetPubkeys /\ Wallet!ReceiveScript = ReceiveScript
    BY <2>2, SameSelections, Zenon DEF GetPubkeys, Wallet!GetPubkeys, NoKey, Wallet!NoKey, ReceiveScript,
       Wallet!ReceiveScript, External, Wallet!External, ReceiveDepth, Wallet!ReceiveDepth
  <2>4. Wallet!PaidOutputs = PaidOutputs
    BY <2>3, Zenon DEF PaidOutputs, Wallet!PaidOutputs
  <2>5. \A news : Wallet!Inserted(news) = Inserted(news)
    BY SMTT(30), <2>2, SameSelections DEF Inserted, Wallet!Inserted
  <2>6. Wallet!ReportUtxo(o, out, spent)
    BY <2>1, <2>2, <2>5, SameSelections, ZenonT(40) DEF ReportUtxo, Wallet!ReportUtxo, InsertUtxos, Wallet!InsertUtxos
  <2> QED
    BY <2>4, <2>6, Zenon DEF Wallet!WalletNext
<1>3. ASSUME NEW t \in Payment, CoinSelect(t) PROVE UNCHANGED Wallet!wallet_hist
  <2>1. PICK s \in Script : GetChangeScript(s)
    BY <1>3, Zenon DEF CoinSelect
  <2>2. cs = Idle /\ UNCHANGED <<utxoMap, txs>>
    BY <1>3, Zenon DEF CoinSelect
  <2>3. cs' # Idle
    <3>1. cs'.pc = "bnb"
      BY <1>3 DEF CoinSelect
    <3> QED
      BY <3>1 DEF Idle
  <2>4. changeDepth \in 0 .. MaxChange /\ s = ChangeScript(changeDepth) /\ changeDepth' = changeDepth + 1
    BY <2>1, <2>2, CallInv, ZenonT(40)
  <2>5. changeDepth' - 1 = changeDepth /\ ~(changeDepth < changeDepth)
    BY <1>0, <2>4
  <2>6. CallDepth = changeDepth /\ CallDepth' = changeDepth
    BY <2>2, <2>3, <2>5, ZenonT(40) DEF CallDepth
  <2>7. pubkeyMap[s] = NoKey
    BY <1>0, <2>4, <2>5, ZenonT(40) DEF ScriptInv
  <2>8. CallScript' = s
    BY <2>4, <2>5, Zenon DEF CallScript, ChangeScript
  <2>9. pubkeyMap' = [pubkeyMap EXCEPT ![s] = <<External, ReceiveDepth>>]
    BY <2>1, Zenon DEF GetChangeScript
  <2>10. CallKeys = pubkeyMap /\ CallKeys' = [pubkeyMap' EXCEPT ![s] = NoKey]
    BY <2>2, <2>3, <2>8, ZenonT(40) DEF CallKeys, NoKey
  <2>11. pubkeyMap \in [Script -> PubkeyDetails \cup {NoKey}]
    BY <1>0, Zenon DEF WalletTypeOK
  <2>12. CallKeys' = pubkeyMap
    <3>1. ASSUME NEW f, NEW x, NEW y, f \in [Script -> PubkeyDetails \cup {NoKey}], f[x] = NoKey, x \in Script
          PROVE  f = [[f EXCEPT ![x] = y] EXCEPT ![x] = NoKey]
      BY ZenonT(40), <3>1
    <3> QED
      BY <2>7, <2>9, <2>10, <2>11, <3>1, ZenonT(40)
  <2> QED
    BY <2>2, <2>6, <2>10, <2>12, ZenonT(40) DEF Wallet!wallet_hist, Wallet!wallet_vars
<1>4. ASSUME NEW t \in Payment, CoinSelectFails(t) PROVE Wallet!CreateFails(t)
  <2>1. PICK s \in Script : GetChangeScript(s)
    BY <1>4, Zenon DEF CoinSelectFails
  <2>2. cs = Idle /\ UNCHANGED <<utxoMap, txs>> /\ cs' = Idle /\ MayBeInsufficient(t)
    BY <1>4, Zenon DEF CoinSelectFails, MayBeInsufficient
  <2>3. CallKeys = pubkeyMap /\ CallDepth = changeDepth /\ CallKeys' = pubkeyMap' /\ CallDepth' = changeDepth'
    BY <2>2, Zenon DEF CallDepth, CallKeys
  <2>4. Wallet!GetChangeScript(s)
    BY <2>1, <2>3, SameSelections, Zenon DEF GetChangeScript, Wallet!GetChangeScript, External, ReceiveDepth,
       Wallet!External, Wallet!ReceiveDepth
  <2> QED
    BY <2>2, <2>4, SameSelections, Zenon DEF Wallet!CreateFails
<1>5. CASE SelectStep
  <2>1. /\ cs # Idle /\ cs.target \in Payment
        /\ \/ \E S \in Selections(cs.target) : Return(S)
           \/ UNCHANGED wallet_hist /\ cs'.pc = "bnb" /\ SearchOK(cs')
           \/ UNCHANGED wallet_hist /\ cs'.pc = "draw" /\ DrawOK(cs')
           \/ UNCHANGED wallet_hist /\ cs' = Idle /\ MayBeInsufficient(cs.target)
    BY <1>0, <1>5, StepOutcome, ZenonT(40) DEF SelectInv
  <2>2. CASE \E S \in Selections(cs.target) : Return(S)
    <3>1. PICK S \in Selections(cs.target) : Return(S)
      BY <2>2, Zenon
    <3>2. /\ txs' = Append(txs, Transaction(S, cs.target, CallScript)) /\ cs' = Idle
          /\ UNCHANGED <<pubkeyMap, changeDepth, utxoMap>>
      BY <3>1, Zenon DEF Return, wallet_vars
    <3>3. CallScript \in Script /\ Wallet!GetChangeScript(CallScript)
      BY <2>1, <3>2, CallImplemented, ZenonT(40)
    <3>4. Wallet!CreateTransaction(cs.target)
      BY <3>2, <3>3, SameSelections, ZenonT(40) DEF Wallet!CreateTransaction
    <3> QED
      BY <2>1, <3>4, Zenon DEF Wallet!WalletNext
  <2>3. CASE UNCHANGED wallet_hist /\ (cs'.pc = "bnb" \/ cs'.pc = "draw")
    <3>1. cs' # Idle
      BY <2>3 DEF Idle
    <3>2. UNCHANGED <<pubkeyMap, changeDepth, utxoMap, txs>>
      BY <2>3, Zenon DEF wallet_hist, wallet_vars
    <3>3. CallDepth' = CallDepth /\ CallKeys' = CallKeys
      BY <2>1, <3>1, <3>2, ZenonT(40) DEF CallDepth, CallKeys, CallScript, ChangeScript, NoKey
    <3> QED
      BY <3>2, <3>3, Zenon DEF Wallet!wallet_hist, Wallet!wallet_vars
  <2>4. CASE UNCHANGED wallet_hist /\ cs' = Idle /\ MayBeInsufficient(cs.target)
    <3>1. UNCHANGED <<pubkeyMap, changeDepth, utxoMap, txs>>
      BY <2>4, Zenon DEF wallet_hist, wallet_vars
    <3>2. CallScript \in Script /\ Wallet!GetChangeScript(CallScript)
      BY <2>1, <2>4, <3>1, CallImplemented, ZenonT(40)
    <3>3. Wallet!CreateFails(cs.target)
      BY <2>4, <3>1, <3>2, SameSelections, ZenonT(40) DEF Wallet!CreateFails
    <3> QED
      BY <2>1, <3>3, ZenonT(40) DEF Wallet!WalletNext
  <2> QED
    BY <2>1, <2>2, <2>3, <2>4, ZenonT(40)
<1>6. CASE UNCHANGED select_vars
  BY <1>6, Zenon DEF select_vars, wallet_hist, wallet_vars, Wallet!wallet_hist, Wallet!wallet_vars, CallDepth,
     CallKeys, CallScript, ChangeScript
<1> QED
  BY <1>1, <1>2, <1>3, <1>4, <1>5, <1>6, Zenon DEF SelectNext, Wallet!WalletNext

\* coin_select returns what WatchWallet says it may, and fails only where that allows it, for any
\* outputs, fees and number of tries: the search with its turns implements the one-step selection.
THEOREM SearchImplementsWallet == SelectSpec => ImplementsWallet
<1>1. SelectInv /\ [SelectNext]_select_vars => [Wallet!WalletNext]_Wallet!wallet_hist
  BY WalletNextImplemented
<1> QED
  BY <1>1, WalletInitImplemented, SelectInvariance, PTL DEF SelectSpec, ImplementsWallet, Wallet!WalletSpec

=============================================================================
