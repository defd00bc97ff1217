----------------------------- MODULE Subsequence -----------------------------
(***************************************************************************)
(* What filter leaves of an array, written without recursion so that it    *)
(* can be reasoned about, and what there is to know about it.              *)
(***************************************************************************)
EXTENDS Integers, Sequences, FiniteSets, SequencesExt, FiniteSetTheorems, TLAPS

\* The k-th of the positions in P.
Place(P, k) == CHOOSE i \in P : Cardinality({j \in P : j <= i}) = k

\* The elements of s at the positions in P, in order.
Subsequence(s, P) == [k \in 1..Cardinality(P) |-> s[Place(P, k)]]

\* The elements of s that pass Test.
Filter(s, Test(_)) == Subsequence(s, {i \in DOMAIN s : Test(s[i])})

\* Of the positions in P the one that k others come before, where Prior is the
\* set of pairs whose first comes before their second.
Ranked(P, Prior, k) == CHOOSE i \in P : Cardinality({j \in P : <<j, i>> \in Prior}) = k

\* The elements of s sorted by Prior.
Sorted(s, Prior) == [k \in DOMAIN s |-> s[Ranked(DOMAIN s, Prior, k - 1)]]

\* A subsequence takes its elements from the positions in P: each position once,
\* the k-th one where k of them have been passed.
THEOREM SubsequencePlaces ==
    ASSUME NEW s, NEW n \in Nat, NEW P \in SUBSET (1..n)
    PROVE  /\ IsFiniteSet(P) /\ Cardinality(P) \in Nat
           /\ Subsequence(s, P) = [k \in 1..Cardinality(P) |-> s[Place(P, k)]]
           /\ \A k \in 1..Cardinality(P) : Place(P, k) \in P /\ Cardinality({j \in P : j <= Place(P, k)}) = k
           /\ \A i \in P : /\ Cardinality({j \in P : j <= i}) \in 1..Cardinality(P)
                           /\ Place(P, Cardinality({j \in P : j <= i})) = i
<1> DEFINE N == Cardinality(P)
           Upto(i) == {j \in P : j <= i}
           place == [i \in P |-> Cardinality(Upto(i))]
<1>0. IsFiniteSet(1..n)
  BY FS_Interval
<1>1. IsFiniteSet(P) /\ N \in Nat
  BY <1>0, FS_Subset, FS_CardinalityType
<1>2. ASSUME NEW i \in P
      PROVE  IsFiniteSet(Upto(i)) /\ Cardinality(Upto(i)) \in 1..N
  <2>1. Upto(i) \in SUBSET P /\ i \in Upto(i)
    OBVIOUS
  <2>2. IsFiniteSet(Upto(i)) /\ Cardinality(Upto(i)) <= N
    BY <1>1, <2>1, FS_Subset
  <2>3. Cardinality(Upto(i)) \in Nat /\ Cardinality(Upto(i)) # 0
    BY <2>1, <2>2, FS_CardinalityType, FS_EmptySet
  <2> QED
    BY <1>1, <2>2, <2>3
<1>3. ASSUME NEW i \in P, NEW j \in P, i < j
      PROVE  Cardinality(Upto(i)) # Cardinality(Upto(j))
  <2>1. \A k \in P : k <= i => k <= j
    BY <1>3
  <2>2. j <= j /\ ~(j <= i)
    BY <1>3
  <2>3. Upto(i) \in SUBSET Upto(j) /\ j \in Upto(j) /\ j \notin Upto(i)
    BY <2>1, <2>2
  <2> QED
    BY <1>2, <2>3, FS_Subset
<1>4. \A i, j \in P : i # j => i < j \/ j < i
  OBVIOUS
<1>5. \A i, j \in P : place[i] = place[j] => i = j
  BY <1>3, <1>4
<1>6. place \in [P -> 1..N]
  BY <1>2
<1>7. place \in Injection(P, 1..N)
  BY <1>5, <1>6 DEF Injection, IsInjective
<1>8. IsFiniteSet(1..N) /\ Cardinality(1..N) = N
  BY <1>1, FS_Interval
<1>9. place \in Surjection(P, 1..N)
  BY <1>7, <1>8, FS_Injection
<1>10. \A k \in 1..N : \E i \in P : Cardinality({j \in P : j <= i}) = k
  BY <1>9 DEF Surjection
<1>11. \A k \in 1..N : Place(P, k) \in P /\ Cardinality({j \in P : j <= Place(P, k)}) = k
  BY <1>10 DEF Place
<1>12. ASSUME NEW i \in P PROVE Place(P, Cardinality(Upto(i))) = i
  <2>1. Place(P, place[i]) \in P /\ place[Place(P, place[i])] = place[i]
    BY <1>2, <1>11
  <2> QED
    BY <1>5, <2>1
<1> QED
  BY <1>1, <1>2, <1>11, <1>12 DEF Subsequence

\* What holds of the elements at the positions in P holds of the subsequence.
THEOREM SubsequenceTyped ==
    ASSUME NEW s, NEW n \in Nat, NEW P \in SUBSET (1..n), NEW S, \A i \in P : s[i] \in S
    PROVE  Subsequence(s, P) \in Seq(S) /\ Len(Subsequence(s, P)) = Cardinality(P)
<1> DEFINE N == Cardinality(P)
           t == Subsequence(s, P)
<1>1. N \in Nat /\ \A k \in 1..N : Place(P, k) \in P
  BY SubsequencePlaces
<1>2. t = [k \in 1..N |-> s[Place(P, k)]]
  BY DEF Subsequence
<1> HIDE DEF t, N
<1>3. t \in [1..N -> S]
  BY <1>1, <1>2
<1>4. t \in Seq(S) /\ Len(t) = N
  BY <1>1, <1>3
<1> QED
  BY <1>4 DEF t, N

\* A finite set that Prior puts in an order has an element of each rank.
THEOREM RankedPlaces ==
    ASSUME NEW P, IsFiniteSet(P), NEW Prior,
           \A i, j \in P : i = j \/ <<i, j>> \in Prior \/ <<j, i>> \in Prior,
           \A i, j \in P : <<i, j>> \in Prior => i # j /\ <<j, i>> \notin Prior,
           \A i, j, k \in P : <<i, j>> \in Prior /\ <<j, k>> \in Prior => <<i, k>> \in Prior
    PROVE  /\ Cardinality(P) \in Nat
           /\ \A k \in 0..(Cardinality(P) - 1) :
                 Ranked(P, Prior, k) \in P /\ Cardinality({j \in P : <<j, Ranked(P, Prior, k)>> \in Prior}) = k
<1> DEFINE N == Cardinality(P)
           Below(i) == {j \in P : <<j, i>> \in Prior}
           rank == [i \in P |-> Cardinality(Below(i))]
<1>1. N \in Nat
  BY FS_CardinalityType
<1>2. ASSUME NEW i \in P
      PROVE  IsFiniteSet(Below(i)) /\ Cardinality(Below(i)) \in 0..(N - 1)
  <2>1. Below(i) \in SUBSET P /\ Below(i) # P
    OBVIOUS
  <2>2. IsFiniteSet(Below(i)) /\ Cardinality(Below(i)) <= N /\ Cardinality(Below(i)) # N
    BY <2>1, FS_Subset
  <2>3. Cardinality(Below(i)) \in Nat
    BY <2>2, FS_CardinalityType
  <2> QED
    BY <1>1, <2>2, <2>3
<1>3. ASSUME NEW i \in P, NEW j \in P, <<i, j>> \in Prior
      PROVE  Cardinality(Below(i)) # Cardinality(Below(j))
  <2>1. Below(i) \in SUBSET Below(j)
    BY <1>3
  <2>2. i \in Below(j) /\ i \notin Below(i)
    BY <1>3
  <2> QED
    BY <1>2, <2>1, <2>2, FS_Subset
<1>4. \A i, j \in P : rank[i] = rank[j] => i = j
  <2> SUFFICES ASSUME NEW i \in P, NEW j \in P, rank[i] = rank[j], i # j PROVE FALSE
    OBVIOUS
  <2>1. Cardinality(Below(i)) = Cardinality(Below(j))
    OBVIOUS
  <2>2. <<i, j>> \in Prior \/ <<j, i>> \in Prior
    OBVIOUS
  <2> HIDE DEF Below
  <2> QED
    BY <1>3, <2>1, <2>2
<1>5. rank \in [P -> 0..(N - 1)]
  BY <1>2
<1>6. rank \in Injection(P, 0..(N - 1))
  BY <1>4, <1>5 DEF Injection, IsInjective
<1>7. IsFiniteSet(0..(N - 1)) /\ Cardinality(0..(N - 1)) = N
  BY <1>1, FS_Interval
<1>8. rank \in Surjection(P, 0..(N - 1))
  BY <1>6, <1>7, FS_Injection
<1>9. \A k \in 0..(N - 1) : \E i \in P : Cardinality({j \in P : <<j, i>> \in Prior}) = k
  BY <1>8 DEF Surjection
<1> QED
  BY <1>1, <1>9 DEF Ranked

\* Sorting takes its elements from the sequence, and keeps their number.
THEOREM SortedTyped ==
    ASSUME NEW S, NEW s \in Seq(S), NEW Prior,
           \A i, j \in DOMAIN s : i = j \/ <<i, j>> \in Prior \/ <<j, i>> \in Prior,
           \A i, j \in DOMAIN s : <<i, j>> \in Prior => i # j /\ <<j, i>> \notin Prior,
           \A i, j, k \in DOMAIN s : <<i, j>> \in Prior /\ <<j, k>> \in Prior => <<i, k>> \in Prior
    PROVE  Sorted(s, Prior) \in Seq(S) /\ DOMAIN Sorted(s, Prior) = DOMAIN s
<1> DEFINE n == Len(s)
<1>1. n \in Nat /\ DOMAIN s = 1..n /\ \A i \in 1..n : s[i] \in S
  OBVIOUS
<1>2. IsFiniteSet(1..n) /\ Cardinality(1..n) = n
  BY <1>1, FS_Interval
<1>3. IsFiniteSet(DOMAIN s) /\ Cardinality(DOMAIN s) = n
  BY <1>1, <1>2
<1>4. \A k \in 0..(n - 1) : Ranked(DOMAIN s, Prior, k) \in DOMAIN s
  BY <1>3, RankedPlaces
<1>5. \A k \in 1..n : Ranked(DOMAIN s, Prior, k - 1) \in 1..n
  BY <1>1, <1>4
<1>6. Sorted(s, Prior) = [k \in 1..n |-> s[Ranked(DOMAIN s, Prior, k - 1)]]
  BY <1>1 DEF Sorted
<1> HIDE DEF n
<1>7. Sorted(s, Prior) \in [1..n -> S]
  BY <1>1, <1>5, <1>6
<1> QED
  BY <1>1, <1>7

\* A set of positions that is not empty has a last one.
THEOREM LastPlace ==
    ASSUME NEW n \in Nat, NEW P \in SUBSET (1..n), P # {}
    PROVE  \E i \in P : \A j \in P : j <= i
<1> DEFINE N == Cardinality(P)
           last == Place(P, N)
           upto == {j \in P : j <= last}
<1>1. IsFiniteSet(P) /\ N \in Nat /\ \A k \in 1..N : Place(P, k) \in P /\ Cardinality({j \in P : j <= Place(P, k)}) = k
  BY SubsequencePlaces
<1>2. N # 0
  BY <1>1, FS_EmptySet
<1>3. last \in P /\ Cardinality(upto) = N
  BY <1>1, <1>2
<1>4. upto \in SUBSET P
  OBVIOUS
<1>5. upto = P
  BY <1>1, <1>3, <1>4, FS_Subset
<1> QED
  BY <1>3, <1>5

\* The elements of a finite set in some order, each one once.
THEOREM SetToSeqIs ==
    ASSUME NEW S, IsFiniteSet(S)
    PROVE  LET n == Cardinality(S)
               s == SetToSeq(S)
           IN  /\ n \in Nat /\ s \in [1..n -> S] /\ s \in Seq(S) /\ Len(s) = n
               /\ \A i, j \in 1..n : s[i] = s[j] => i = j
               /\ \A x \in S : \E i \in 1..n : s[i] = x
<1> DEFINE n == Cardinality(S)
           s == SetToSeq(S)
<1>1. n \in Nat /\ ExistsBijection(1..n, S)
  BY FS_CardinalityType
<1>2. \E f \in [1..n -> S] : IsInjective(f)
  BY <1>1 DEF ExistsBijection, Bijection, Injection
<1>3. s \in [1..n -> S] /\ IsInjective(s)
  BY <1>2 DEF SetToSeq
<1>4. IsFiniteSet(1..n) /\ Cardinality(1..n) = Cardinality(S)
  BY <1>1, FS_Interval
<1> HIDE DEF n, s
<1>5. s \in Injection(1..n, S)
  BY <1>3 DEF Injection
<1>6. s \in Surjection(1..n, S)
  BY <1>4, <1>5, FS_Injection
<1>7. \A x \in S : \E i \in 1..n : s[i] = x
  BY <1>6 DEF Surjection
<1>8. \A i, j \in 1..n : s[i] = s[j] => i = j
  BY <1>3 DEF IsInjective
<1>9. s \in Seq(S) /\ Len(s) = n
  BY <1>1, <1>3
<1> QED
  BY <1>1, <1>3, <1>7, <1>8, <1>9 DEF n, s
=============================================================================
