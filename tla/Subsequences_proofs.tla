------------------------ MODULE Subsequences_proofs -------------------------
(***************************************************************************)
(* What InOrder and Those return, for every finite set of numbers and      *)
(* every sequence.                                                         *)
(***************************************************************************)
EXTENDS Subsequences, FiniteSetTheorems, SequenceTheorems, WellFoundedInduction, TLAPS

Enumerates(q, S) == q \in [1 .. Cardinality(S) -> S] /\ Ascending(q)

(* The least number of a set of numbers.                                    *)
LEMMA LeastNumber ==
  ASSUME NEW S \in SUBSET Nat, S # {}
  PROVE  \E x \in S : \A y \in S : x =< y
<1>1. PICK x \in S : \A y \in S : ~(<<y, x>> \in OpToRel(<, Nat))
  BY NatLessThanWellFounded, WFMin
<1>2. \A y \in S : ~(y < x)
  BY <1>1, Zenon DEF OpToRel
<1> QED
  BY <1>2

(* The least element goes before the others in their order.                 *)
LEMMA LeastFirst ==
  ASSUME NEW S \in SUBSET Nat, IsFiniteSet(S), NEW x \in S, \A y \in S : x =< y,
         NEW q, Enumerates(q, S \ {x})
  PROVE  \E r : Enumerates(r, S)
<1> DEFINE n == Cardinality(S)
           r == [i \in 1 .. n |-> IF i = 1 THEN x ELSE q[i - 1]]
<1>1. n \in Nat /\ n # 0 /\ Cardinality(S \ {x}) = n - 1
  BY FS_CardinalityType, FS_RemoveElement, FS_EmptySet
<1>2. q \in [1 .. n - 1 -> S \ {x}] /\ Ascending(q)
  BY <1>1 DEF Enumerates
<1> HIDE DEF n
<1>3. \A i \in 1 .. n : i # 1 => i - 1 \in 1 .. n - 1 /\ q[i - 1] \in S \ {x}
  BY <1>1, <1>2
<1>4. r \in [1 .. n -> S]
  BY <1>3
<1>5. ASSUME NEW i \in 1 .. n, NEW j \in 1 .. n, i < j
      PROVE  r[i] < r[j]
  <2>1. r[j] = q[j - 1] /\ r[j] \in S \ {x} /\ j # 1
    BY <1>1, <1>3, <1>5
  <2>2. CASE i = 1
    <3>1. r[i] = x
      BY <2>2
    <3>2. x \in Nat /\ r[j] \in Nat /\ x =< r[j] /\ r[j] # x
      BY <2>1
    <3> HIDE DEF r
    <3> QED
      BY <3>1, <3>2
  <2>3. CASE i # 1
    <3>1. i - 1 \in 1 .. n - 1 /\ j - 1 \in 1 .. n - 1 /\ i - 1 < j - 1
      BY <1>1, <1>3, <1>5, <2>1, <2>3
    <3>2. r[i] = q[i - 1]
      BY <2>3
    <3> QED
      BY <1>2, <2>1, <3>1, <3>2 DEF Ascending
  <2> QED
    BY <2>2, <2>3
<1>6. Ascending(r)
  BY <1>5 DEF Ascending
<1> QED
  BY <1>4, <1>6 DEF Enumerates, n

(* Every finite set of numbers can be put in order: otherwise take a        *)
(* smallest one that cannot, and its least element away.                    *)
LEMMA OrderExists ==
  ASSUME NEW S \in SUBSET Nat, IsFiniteSet(S)
  PROVE  \E q : Enumerates(q, S)
<1> DEFINE Without(T) == ~\E q : Enumerates(q, T)
           Bad == {n \in Nat : \E T \in SUBSET Nat :
                                 IsFiniteSet(T) /\ Cardinality(T) = n /\ Without(T)}
<1>1. ASSUME Bad # {} PROVE FALSE
  <2>1. PICK n \in Bad : \A m \in Bad : n =< m
    <3> HIDE DEF Bad
    <3>1. Bad \in SUBSET Nat
      BY DEF Bad
    <3> QED
      BY <1>1, <3>1, LeastNumber
  <2>2. PICK T \in SUBSET Nat : IsFiniteSet(T) /\ Cardinality(T) = n /\ Without(T)
    BY <2>1
  <2>3. CASE T = {}
    <3>1. <<>> \in [1 .. 0 -> {}] /\ Ascending(<<>>)
      BY DEF Ascending
    <3>2. Enumerates(<<>>, T)
      BY <2>3, <3>1, FS_EmptySet DEF Enumerates
    <3> QED
      BY <2>2, <3>2
  <2>4. CASE T # {}
    <3>1. PICK x \in T : \A y \in T : x =< y
      BY <2>2, <2>4, LeastNumber
    <3>2. IsFiniteSet(T \ {x}) /\ Cardinality(T \ {x}) = n - 1
      BY <2>2, FS_RemoveElement
    <3>3. n \in Nat /\ n # 0
      BY <2>2, <2>4, FS_EmptySet, FS_CardinalityType
    <3>4. n - 1 \notin Bad /\ n - 1 \in Nat
      <4> HIDE DEF Bad
      <4> QED
        BY <2>1, <3>3
    <3>5. PICK q : Enumerates(q, T \ {x})
      BY <3>2, <3>4
    <3> QED
      BY <2>2, <3>1, <3>5, LeastFirst
  <2> QED
    BY <2>3, <2>4
<1>2. Cardinality(S) \in Nat
  BY FS_CardinalityType
<1> QED
  BY <1>1, <1>2

(* InOrder lists every element of a finite set of numbers once, ascending.  *)
THEOREM InOrderLists ==
  ASSUME NEW S \in SUBSET Nat, IsFiniteSet(S)
  PROVE  /\ InOrder(S) \in Seq(S) /\ Len(InOrder(S)) = Cardinality(S)
         /\ Ascending(InOrder(S))
         /\ IsInjective(InOrder(S)) /\ Range(InOrder(S)) = S
<1> DEFINE q == InOrder(S)
           n == Cardinality(S)
<1>1. Enumerates(q, S)
  BY OrderExists DEF InOrder, Enumerates
<1>2. q \in [1 .. n -> S] /\ Ascending(q) /\ n \in Nat
  BY <1>1, FS_CardinalityType DEF Enumerates
<1> HIDE DEF q
<1>3. IsInjective(q)
  <2> SUFFICES ASSUME NEW i \in 1 .. n, NEW j \in 1 .. n, q[i] = q[j] PROVE i = j
    BY <1>2 DEF IsInjective
  <2>1. ~(i < j) /\ ~(j < i)
    <3>1. \A k, l \in 1 .. n : k < l => q[k] < q[l]
      BY <1>2 DEF Ascending
    <3>2. q[i] \in Nat /\ q[j] \in Nat
      BY <1>2
    <3> QED
      BY <3>1, <3>2
  <2>2. i \in Nat /\ j \in Nat
    BY <1>2
  <2> QED
    BY <2>1, <2>2
<1>4. Range(q) = S
  <2>1. q \in Injection(1 .. n, S)
    BY <1>2, <1>3 DEF Injection
  <2>2. Cardinality(1 .. n) = n
    <3>1. 1 \in Int /\ n \in Int
      BY <1>2
    <3> QED
      BY <1>2, <3>1, FS_Interval
  <2>3. q \in Surjection(1 .. n, S)
    BY <2>1, <2>2, FS_Injection
  <2> QED
    BY <1>2, <2>3 DEF Surjection, Range
<1> QED
  BY <1>2, <1>3, <1>4 DEF q

(* Those(q, S) has the elements of q that are in S, each as often as q has  *)
(* a place for it: once if q has it once.                                   *)
THEOREM ThoseOf ==
  ASSUME NEW T, NEW q \in Seq(T), NEW S
  PROVE  /\ Those(q, S) \in Seq(T)
         /\ Range(Those(q, S)) = Range(q) \cap S
         /\ IsInjective(q) => IsInjective(Those(q, S))
<1> DEFINE P == {i \in DOMAIN q : q[i] \in S}
           at == InOrder(P)
           r == Those(q, S)
<1>1. DOMAIN q = 1 .. Len(q) /\ Len(q) \in Nat /\ \A i \in DOMAIN q : q[i] \in T
  OBVIOUS
<1>2. P \in SUBSET Nat /\ IsFiniteSet(P) /\ P \subseteq DOMAIN q
  <2>1. 1 \in Int /\ Len(q) \in Int
    BY <1>1
  <2>2. P \in SUBSET (1 .. Len(q)) /\ IsFiniteSet(1 .. Len(q))
    BY <1>1, <2>1, FS_Interval
  <2> QED
    BY <1>1, <2>2, FS_Subset
<1>3. at \in Seq(P) /\ IsInjective(at) /\ Range(at) = P
  BY <1>2, InOrderLists
<1>4. r = [i \in DOMAIN at |-> q[at[i]]]
  BY DEF Those
<1> HIDE DEF at, r
<1>5. \A i \in DOMAIN at : at[i] \in P
  BY <1>3
<1>6. r \in Seq(T)
  <2>1. DOMAIN at = 1 .. Len(at) /\ Len(at) \in Nat
    BY <1>3
  <2>2. \A i \in DOMAIN at : q[at[i]] \in T
    BY <1>1, <1>5
  <2>3. r \in [1 .. Len(at) -> T]
    BY <1>4, <2>1, <2>2
  <2> QED
    BY <2>1, <2>3
<1>7. Range(r) = Range(q) \cap S
  <2>1. ASSUME NEW x \in Range(r) PROVE x \in Range(q) \cap S
    BY <1>4, <1>5 DEF Range
  <2>2. ASSUME NEW x \in Range(q) \cap S PROVE x \in Range(r)
    <3>1. PICK k \in P : q[k] = x
      BY DEF Range
    <3>2. PICK i \in DOMAIN at : at[i] = k
      BY <1>3, <3>1 DEF Range
    <3> QED
      BY <1>4, <3>1, <3>2 DEF Range
  <2> QED
    BY <2>1, <2>2
<1>8. ASSUME IsInjective(q) PROVE IsInjective(r)
  BY <1>3, <1>4, <1>5, <1>8 DEF IsInjective
<1> QED
  BY <1>6, <1>7, <1>8 DEF r
=============================================================================
