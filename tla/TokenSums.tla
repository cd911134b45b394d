----------------------------- MODULE TokenSums -----------------------------
(***************************************************************************)
(* Sums of token amounts over a finite set of holders, written as a count: *)
(* <<i, k>> is the k-th unit of holder i's amount, and the sum of the      *)
(* amounts is the number of units.  Unlike a fold or a recursion, a count  *)
(* is something the theorems about finite sets speak of.                   *)
(***************************************************************************)
EXTENDS Integers, FiniteSets, FiniteSetTheorems, TLAPS

\* The units of the amounts of the holders in ids.
Units(amount, ids) == UNION {{i} \X (1 .. amount[i]) : i \in ids}

\* The sum of amount[i] over i \in ids.
Total(amount, ids) == Cardinality(Units(amount, ids))

-----------------------------------------------------------------------------
(* What the proofs about balances need to know of a sum: it is a natural   *)
(* number, it is 0 over nobody, and it grows and shrinks by the amount of  *)
(* the holder that comes or goes.  Amounts are bounded by M, which is what *)
(* makes the set of units finite.                                          *)

\* The units of finitely many bounded amounts are finitely many.
LEMMA UnitsFinite ==
    ASSUME NEW I, IsFiniteSet(I), NEW M \in Nat,
           NEW amount \in [I -> 0 .. M], NEW ids \in SUBSET I
    PROVE  IsFiniteSet(Units(amount, ids))
<1>1. IsFiniteSet(1 .. M)
  BY FS_Interval
<1>2. IsFiniteSet(I \X (1 .. M))
  BY <1>1, FS_Product
<1>3. Units(amount, ids) \subseteq I \X (1 .. M)
  BY DEF Units
<1>4. QED
  BY <1>2, <1>3, FS_Subset

\* A sum is a natural number.
LEMMA TotalType ==
    ASSUME NEW I, IsFiniteSet(I), NEW M \in Nat,
           NEW amount \in [I -> 0 .. M], NEW ids \in SUBSET I
    PROVE  Total(amount, ids) \in Nat
BY UnitsFinite, FS_CardinalityType DEF Total

\* The sum over nobody is 0.
LEMMA TotalEmpty ==
    ASSUME NEW amount
    PROVE  Total(amount, {}) = 0
<1>1. Units(amount, {}) = {}
  BY DEF Units
<1>2. QED
  BY <1>1, FS_EmptySet DEF Total

\* One holder's units are as many as its amount.
LEMMA UnitsOfOne ==
    ASSUME NEW i, NEW n \in Nat
    PROVE  /\ IsFiniteSet({i} \X (1 .. n))
           /\ Cardinality({i} \X (1 .. n)) = n
<1> DEFINE S == {i}
           T == 1 .. n
<1>1. IsFiniteSet(S) /\ Cardinality(S) = 1
  BY FS_Singleton
<1>2. IsFiniteSet(T)
  BY FS_Interval
<1>3. Cardinality(T) = n
  BY FS_Interval
<1> HIDE DEF S, T
<1>4. IsFiniteSet(S \X T) /\ Cardinality(S \X T) = Cardinality(S) * Cardinality(T)
  BY <1>1, <1>2, FS_Product
<1>5. Cardinality(S \X T) = n
  BY <1>1, <1>3, <1>4
<1>6. QED
  BY <1>4, <1>5 DEF S, T

\* A holder that comes in adds its amount.
LEMMA TotalAdd ==
    ASSUME NEW I, IsFiniteSet(I), NEW M \in Nat,
           NEW amount \in [I -> 0 .. M], NEW ids \in SUBSET I,
           NEW i \in I, i \notin ids
    PROVE  Total(amount, ids \cup {i}) = Total(amount, ids) + amount[i]
<1> DEFINE own == {i} \X (1 .. amount[i])
<1>1. Units(amount, ids \cup {i}) = Units(amount, ids) \cup own
  BY DEF Units
<1>2. Units(amount, ids) \cap own = {}
  BY DEF Units
<1>3. IsFiniteSet(Units(amount, ids)) /\ Cardinality(Units(amount, ids)) \in Nat
  BY UnitsFinite, FS_CardinalityType
<1>4. amount[i] \in Nat
  OBVIOUS
<1>5. IsFiniteSet(own) /\ Cardinality(own) = amount[i]
  BY <1>4, UnitsOfOne
<1>6. Cardinality({}) = 0
  BY FS_EmptySet
<1> HIDE DEF own
<1>7. Cardinality(Units(amount, ids) \cup own)
        = Cardinality(Units(amount, ids)) + Cardinality(own)
            - Cardinality(Units(amount, ids) \cap own)
  BY <1>3, <1>5, FS_Union
<1>8. Cardinality(Units(amount, ids) \cup own)
        = Cardinality(Units(amount, ids)) + amount[i]
  BY <1>2, <1>3, <1>4, <1>5, <1>6, <1>7
<1>9. QED
  BY <1>1, <1>8 DEF Total

\* A holder that goes takes its amount away.
LEMMA TotalRemove ==
    ASSUME NEW I, IsFiniteSet(I), NEW M \in Nat,
           NEW amount \in [I -> 0 .. M], NEW ids \in SUBSET I, NEW i \in ids
    PROVE  Total(amount, ids \ {i}) = Total(amount, ids) - amount[i]
<1>1. (ids \ {i}) \cup {i} = ids /\ i \notin ids \ {i} /\ ids \ {i} \in SUBSET I
  OBVIOUS
<1>2. Total(amount, ids) = Total(amount, ids \ {i}) + amount[i]
  BY <1>1, TotalAdd
<1>3. Total(amount, ids \ {i}) \in Nat /\ amount[i] \in Nat
  BY <1>1, TotalType
<1>4. QED
  BY <1>2, <1>3

\* Every holder's amount is within the sum.
LEMMA TotalCovers ==
    ASSUME NEW I, IsFiniteSet(I), NEW M \in Nat,
           NEW amount \in [I -> 0 .. M], NEW ids \in SUBSET I, NEW i \in ids
    PROVE  amount[i] <= Total(amount, ids)
<1>1. ids \ {i} \in SUBSET I
  OBVIOUS
<1>2. Total(amount, ids \ {i}) \in Nat /\ Total(amount, ids) \in Nat /\ amount[i] \in Nat
  BY <1>1, TotalType
<1>3. QED
  BY <1>2, TotalRemove

\* Only the amounts of the holders in the set count.
LEMMA TotalDependsOnAmounts ==
    ASSUME NEW ids, NEW amount, NEW other, \A i \in ids : amount[i] = other[i]
    PROVE  Total(amount, ids) = Total(other, ids)
<1>1. Units(amount, ids) = Units(other, ids)
  BY DEF Units
<1>2. QED
  BY <1>1 DEF Total

\* A holder whose amount changes changes the sum by as much.
LEMMA TotalChange ==
    ASSUME NEW I, IsFiniteSet(I), NEW M \in Nat,
           NEW amount \in [I -> 0 .. M], NEW changed \in [I -> 0 .. M], NEW ids \in SUBSET I,
           NEW i \in ids, \A j \in ids : j # i => changed[j] = amount[j]
    PROVE  Total(changed, ids) = Total(amount, ids) - amount[i] + changed[i]
<1>1. Total(changed, ids \ {i}) = Total(amount, ids \ {i})
  <2>1. \A j \in ids \ {i} : changed[j] = amount[j]
    OBVIOUS
  <2>2. QED
    BY <2>1, TotalDependsOnAmounts
<1>2. /\ Total(amount, ids \ {i}) = Total(amount, ids) - amount[i]
      /\ Total(changed, ids \ {i}) = Total(changed, ids) - changed[i]
  BY TotalRemove
<1>3. Total(amount, ids) \in Nat /\ Total(changed, ids) \in Nat /\ amount[i] \in Nat /\ changed[i] \in Nat
  BY TotalType
<1>4. QED
  BY <1>1, <1>2, <1>3

\* A sum is at most what it would be if every holder had the most.
LEMMA TotalBounded ==
    ASSUME NEW I, IsFiniteSet(I), NEW M \in Nat,
           NEW amount \in [I -> 0 .. M], NEW ids \in SUBSET I
    PROVE  Total(amount, ids) <= Cardinality(ids) * M
<1> DEFINE most == 1 .. M
<1>1. IsFiniteSet(ids) /\ Cardinality(ids) \in Nat
  BY FS_Subset, FS_CardinalityType
<1>2. IsFiniteSet(most) /\ Cardinality(most) = M
  BY FS_Interval
<1>3. Units(amount, ids) \subseteq ids \X most
  BY DEF Units
<1> HIDE DEF most
<1>4. IsFiniteSet(ids \X most) /\ Cardinality(ids \X most) = Cardinality(ids) * Cardinality(most)
  BY <1>1, <1>2, FS_Product
<1>5. Cardinality(Units(amount, ids)) <= Cardinality(ids \X most)
  BY <1>3, <1>4, FS_Subset
<1>6. QED
  BY <1>2, <1>4, <1>5 DEF Total

\* Nothing sums to nothing.
LEMMA TotalOfZeros ==
    ASSUME NEW ids, NEW amount, \A i \in ids : amount[i] = 0
    PROVE  Total(amount, ids) = 0
<1>1. Units(amount, ids) = {}
  BY DEF Units
<1>2. QED
  BY <1>1, FS_EmptySet DEF Total

\* What holds of a set when it holds of its proper subsets holds of every subset of a finite set.
LEMMA SubsetsWellFounded ==
    ASSUME NEW I, IsFiniteSet(I), NEW F,
           \A S \in SUBSET I : (\A T \in SUBSET S : T # S => T \in F) => S \in F
    PROVE  SUBSET I \subseteq F
<1> DEFINE bad == {S \in SUBSET I : S \notin F}
           below == StrictSubsetOrdering(I)
<1>1. IsWellFoundedOn(below, FiniteSubsetsOf(I))
  BY FS_StrictSubsetOrderingWellFounded
<1>2. FiniteSubsetsOf(I) = SUBSET I
  BY FS_Subset DEF FiniteSubsetsOf
<1>3. SUFFICES ASSUME bad # {}
               PROVE  FALSE
  OBVIOUS
<1>4. PICK S \in bad : \A T \in bad : <<T, S>> \notin below
  <2> HIDE DEF below
  <2>1. bad \subseteq SUBSET I
    OBVIOUS
  <2> HIDE DEF bad
  <2>2. QED
    BY <1>1, <1>2, <1>3, <2>1, WFMin
<1>5. \A T \in SUBSET S : T # S => T \in F
  BY <1>4 DEF StrictSubsetOrdering
<1>6. QED
  BY <1>4, <1>5

\* Induction over a finite set, of a family of its subsets.
LEMMA SubsetInduction ==
    ASSUME NEW I, IsFiniteSet(I), NEW F, {} \in F,
           \A S \in SUBSET I, i \in I : S \in F /\ i \notin S => S \cup {i} \in F
    PROVE  I \in F
<1>1. ASSUME NEW S \in SUBSET I, \A T \in SUBSET S : T # S => T \in F
      PROVE  S \in F
  <2>1. CASE S = {}
    BY <2>1
  <2>2. CASE S # {}
    <3>1. PICK i \in S : TRUE
      BY <2>2
    <3>2. S \ {i} \in F /\ (S \ {i}) \cup {i} = S
      BY <1>1, <3>1
    <3>3. QED
      BY <3>1, <3>2
  <2>3. QED
    BY <2>1, <2>2
<1>2. SUBSET I \subseteq F
  BY <1>1, SubsetsWellFounded
<1>3. QED
  BY <1>2

LEMMA ScaledAdds ==
    ASSUME NEW d \in Nat, NEW x \in Nat, NEW y \in Nat
    PROVE  d * x \in Nat /\ d * (x + y) = d * x + d * y
BY Z3

\* What holds of each holder's amounts, scaled, holds of their sums.
LEMMA TotalLinear ==
    ASSUME NEW I, IsFiniteSet(I), NEW M \in Nat, NEW d \in Nat, NEW e \in Nat,
           NEW x \in [I -> 0 .. M], NEW y \in [I -> 0 .. M], NEW z \in [I -> 0 .. M],
           \A i \in I : d * x[i] + d * y[i] <= e * z[i]
    PROVE  d * Total(x, I) + d * Total(y, I) <= e * Total(z, I)
<1> DEFINE F == {S \in SUBSET I : d * Total(x, S) + d * Total(y, S) <= e * Total(z, S)}
<1>1. {} \in F
  <2>1. d * 0 = 0 /\ e * 0 = 0
    BY Z3
  <2>2. QED
    BY <2>1, TotalEmpty
<1>2. ASSUME NEW S \in SUBSET I, NEW i \in I, S \in F, i \notin S
      PROVE  S \cup {i} \in F
  <2>1. /\ Total(x, S \cup {i}) = Total(x, S) + x[i]
        /\ Total(y, S \cup {i}) = Total(y, S) + y[i]
        /\ Total(z, S \cup {i}) = Total(z, S) + z[i]
    BY <1>2, TotalAdd
  <2>2. Total(x, S) \in Nat /\ Total(y, S) \in Nat /\ Total(z, S) \in Nat
    BY TotalType
  <2>3. x[i] \in Nat /\ y[i] \in Nat /\ z[i] \in Nat
    OBVIOUS
  <2>4. /\ d * Total(x, S) \in Nat /\ d * x[i] \in Nat /\ d * (Total(x, S) + x[i]) = d * Total(x, S) + d * x[i]
        /\ d * Total(y, S) \in Nat /\ d * y[i] \in Nat /\ d * (Total(y, S) + y[i]) = d * Total(y, S) + d * y[i]
        /\ e * Total(z, S) \in Nat /\ e * z[i] \in Nat /\ e * (Total(z, S) + z[i]) = e * Total(z, S) + e * z[i]
    BY <2>2, <2>3, ScaledAdds
  <2>5. d * Total(x, S) + d * Total(y, S) <= e * Total(z, S) /\ d * x[i] + d * y[i] <= e * z[i]
    BY <1>2
  <2>6. d * (Total(x, S) + x[i]) + d * (Total(y, S) + y[i]) <= e * (Total(z, S) + z[i])
    BY <2>4, <2>5
  <2>7. QED
    BY <1>2, <2>1, <2>6
<1>3. I \in F
  <2> HIDE DEF F
  <2>1. QED
    BY <1>1, <1>2, SubsetInduction
<1>4. QED
  BY <1>3
=============================================================================
