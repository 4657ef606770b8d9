------------------------------- MODULE Ranks -------------------------------
(***************************************************************************)
(* Ranks in a finite set with a strict total order, which pages and prunes *)
(* count with: the rank of an element is the number of elements below it.  *)
(* Used by KeysetSync_proofs (pages by primary key) and Services_proofs    *)
(* (the oldest records).                                                   *)
(***************************************************************************)
EXTENDS Integers, FiniteSets, FiniteSetTheorems, TLAPS

\* below[k] is the set of the elements before k, in a strict total order of S.
Orders(below, S) ==
  /\ below \in [S -> SUBSET S]
  /\ \A k \in S : k \notin below[k]
  /\ \A j, k \in S : j \in below[k] => below[j] \subseteq below[k]
  /\ \A j, k \in S : j = k \/ j \in below[k] \/ k \in below[j]

\* Ranks are below the size of the set, and in the order of the elements.
LEMMA RanksOrdered ==
  ASSUME NEW S, IsFiniteSet(S), NEW below, Orders(below, S)
  PROVE  /\ Cardinality(S) \in Nat
         /\ \A k \in S : Cardinality(below[k]) \in 0 .. Cardinality(S) - 1
         /\ \A j, k \in S : j \in below[k] <=> Cardinality(below[j]) < Cardinality(below[k])
         /\ \A j, k \in S : Cardinality(below[j]) = Cardinality(below[k]) => j = k
<1>0. Cardinality(S) \in Nat
  BY FS_CardinalityType
<1>1. ASSUME NEW k \in S
      PROVE  /\ IsFiniteSet(below[k]) /\ Cardinality(below[k]) \in Nat
             /\ Cardinality(below[k]) < Cardinality(S)
  <2>1. below[k] \in SUBSET S /\ below[k] # S
    BY DEF Orders
  <2>2. IsFiniteSet(below[k]) /\ Cardinality(below[k]) <= Cardinality(S)
    BY <2>1, FS_Subset
  <2>3. Cardinality(below[k]) # Cardinality(S)
    BY <2>1, FS_Subset
  <2>4. Cardinality(below[k]) \in Nat
    BY <2>2, FS_CardinalityType
  <2>5. QED
    BY <1>0, <2>2, <2>3, <2>4
<1>2. ASSUME NEW j \in S, NEW k \in S, j \in below[k]
      PROVE  Cardinality(below[j]) < Cardinality(below[k])
  <2>1. below[j] \in SUBSET below[k] /\ below[j] # below[k]
    BY <1>2 DEF Orders
  <2>2. Cardinality(below[j]) <= Cardinality(below[k]) /\ Cardinality(below[j]) # Cardinality(below[k])
    BY <1>1, <2>1, FS_Subset
  <2>3. QED
    BY <1>1, <2>2
<1>3. \A k \in S : Cardinality(below[k]) \in 0 .. Cardinality(S) - 1
  BY <1>0, <1>1
<1>4. \A j, k \in S : j = k \/ j \in below[k] \/ k \in below[j]
  BY DEF Orders
<1>5. \A j, k \in S : j \in below[k] <=> Cardinality(below[j]) < Cardinality(below[k])
  BY <1>1, <1>2, <1>4
<1>6. \A j, k \in S : Cardinality(below[j]) = Cardinality(below[k]) => j = k
  BY <1>1, <1>2, <1>4
<1>7. QED
  BY <1>0, <1>3, <1>5, <1>6

\* Every number below the size of the set is a rank.
LEMMA RanksOnto ==
  ASSUME NEW S, IsFiniteSet(S), NEW below, Orders(below, S), NEW n \in 0 .. Cardinality(S) - 1
  PROVE  \E k \in S : Cardinality(below[k]) = n
<1> DEFINE T == 0 .. Cardinality(S) - 1
           rank == [k \in S |-> Cardinality(below[k])]
<1>1. Cardinality(S) \in Nat /\ rank \in Injection(S, T)
  BY RanksOrdered DEF Injection, IsInjective
<1>2. IsFiniteSet(T) /\ Cardinality(T) = Cardinality(S)
  <2>1. PICK m \in Int : m = Cardinality(S) - 1
    BY <1>1
  <2>2. IsFiniteSet(0 .. m) /\ Cardinality(0 .. m) = IF 0 > m THEN 0 ELSE m - 0 + 1
    BY FS_Interval
  <2>3. QED
    BY <1>1, <2>1, <2>2
<1>3. rank \in Surjection(S, T)
  BY <1>1, <1>2, FS_Injection
<1>4. QED
  BY <1>3 DEF Surjection

\* There are as many elements as ranks in an interval of ranks.
LEMMA RanksCounted ==
  ASSUME NEW S, IsFiniteSet(S), NEW below, Orders(below, S),
         NEW a \in Nat, NEW b \in Nat, a <= b, b <= Cardinality(S)
  PROVE  Cardinality({k \in S : Cardinality(below[k]) \in a .. b - 1}) = b - a
<1> DEFINE D == {k \in S : Cardinality(below[k]) \in a .. b - 1}
           T == a .. b - 1
           rank == [k \in D |-> Cardinality(below[k])]
<1>1. IsFiniteSet(D)
  <2>1. D \in SUBSET S
    OBVIOUS
  <2>2. QED
    BY <2>1, FS_Subset
<1>2. \A n \in T : \E k \in D : rank[k] = n
  <2>1. Cardinality(S) \in Nat
    BY FS_CardinalityType
  <2>2. ASSUME NEW n \in T PROVE \E k \in D : rank[k] = n
    <3>1. n \in 0 .. Cardinality(S) - 1
      BY <2>1
    <3>2. PICK k \in S : Cardinality(below[k]) = n
      BY <3>1, RanksOnto
    <3>3. QED
      BY <3>2
  <2>3. QED
    BY <2>2
<1>3. rank \in Bijection(D, T)
  <2>1. rank \in [D -> T]
    OBVIOUS
  <2>2. \A j, k \in D : rank[j] = rank[k] => j = k
    BY RanksOrdered
  <2>3. QED
    BY <1>2, <2>1, <2>2 DEF Bijection, Injection, Surjection, IsInjective
<1>4. Cardinality(T) = Cardinality(D)
  <2>1. ExistsBijection(D, T)
    BY <1>3 DEF ExistsBijection
  <2>2. QED
    BY <1>1, <2>1, FS_Bijection
<1>5. Cardinality(T) = b - a
  <2>1. Cardinality(T) = IF a > b - 1 THEN 0 ELSE b - 1 - a + 1
    BY FS_Interval
  <2>2. QED
    BY <2>1
<1>6. QED
  BY <1>4, <1>5
=============================================================================
