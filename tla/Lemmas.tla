-------------------------------- MODULE Lemmas --------------------------------
(***************************************************************************)
(* Facts about numbers and lists that the proofs of several components     *)
(* rest on: least numbers, induction over a set of numbers, and what       *)
(* Places makes of a list.                                                 *)
(***************************************************************************)
EXTENDS Places, Integers, FiniteSetsExt, FiniteSetTheorems, WellFoundedInduction, TLAPS

-----------------------------------------------------------------------------
(* Numbers.                                                                *)

LEMMA LessThanIs == OpToRel(<, Nat) = {ss \in Nat \X Nat : ss[1] < ss[2]}
  BY Zenon DEF OpToRel

\* A set of natural numbers has a least one.
LEMMA LeastIs ==
  ASSUME NEW T \in SUBSET Nat, T # {}
  PROVE  \E n \in T : \A m \in T : n <= m
  <1> DEFINE less == {ss \in Nat \X Nat : ss[1] < ss[2]}
  <1>1. IsWellFoundedOn(less, Nat)
    BY LessThanIs, NatLessThanWellFounded, Zenon
  <1>2. PICK n \in T : \A m \in T : ~(<<m, n>> \in less)
    <2> HIDE DEF less
    <2> QED
      BY <1>1, WFMin
  <1>3. ASSUME NEW m \in T PROVE n <= m
    <2>1. m \in Nat /\ n \in Nat /\ ~(<<m, n>> \in less)
      BY <1>2
    <2>2. ~(m < n)
      BY <2>1
    <2> QED
      BY <2>1, <2>2
  <1> QED
    BY <1>2, <1>3

\* Min is that one.
LEMMA MinIs ==
  ASSUME NEW T \in SUBSET Nat, T # {}
  PROVE  Min(T) \in T /\ \A k \in T : Min(T) <= k
  <1>1. PICK n \in T : \A k \in T : n <= k
    BY LeastIs
  <1> QED
    BY <1>1 DEF Min

\* Induction, for sets of numbers.
LEMMA InductionIs ==
  ASSUME NEW G \in SUBSET Nat, 0 \in G, \A n \in G : n + 1 \in G
  PROVE  G = Nat
  <1> SUFFICES ASSUME Nat \ G # {} PROVE FALSE
    OBVIOUS
  <1>1. PICK n \in Nat \ G : \A m \in Nat \ G : n <= m
    BY LeastIs
  <1>2. n # 0 /\ n - 1 \in Nat /\ ~(n <= n - 1)
    BY <1>1
  <1>3. n - 1 \in G
    BY <1>1, <1>2
  <1>4. (n - 1) + 1 \in G
    BY <1>3
  <1> QED
    BY <1>1, <1>2, <1>4

\* Max is the largest of finitely many numbers.
LEMMA MaxIs ==
  ASSUME NEW n \in Nat, NEW s \in SUBSET (1 .. n), s # {}
  PROVE  Max(s) \in s /\ \A i \in s : i <= Max(s)
  <1> DEFINE T == {n - i : i \in s}
  <1>1. T \in SUBSET Nat /\ T # {}
    <2>1. \A i \in s : n - i \in Nat
      OBVIOUS
    <2> QED
      BY <2>1
  <1>2. PICK d \in T : \A m \in T : d <= m
    <2> HIDE DEF T
    <2> QED
      BY <1>1, LeastIs
  <1>3. PICK i \in s : d = n - i
    BY <1>2
  <1>4. \A k \in s : i >= k
    <2> SUFFICES ASSUME NEW k \in s PROVE i >= k
      OBVIOUS
    <2>1. n - i <= n - k
      BY <1>2, <1>3
    <2> QED
      BY <2>1
  <1>5. Max(s) \in s /\ \A k \in s : Max(s) >= k
    BY <1>3, <1>4 DEF Max
  <1> QED
    BY <1>5

-----------------------------------------------------------------------------
(* The links that are left of a list.                                      *)

\* The places of a set have ranks 1, 2, ...
LEMMA NthPlaceIs ==
  ASSUME NEW n \in Nat, NEW P \in SUBSET (1 .. n)
  PROVE  /\ IsFiniteSet(P) /\ Cardinality(P) \in Nat
         /\ \A m \in 1 .. Cardinality(P) :
              NthPlace(P, m) \in P /\ Cardinality({j \in P : j <= NthPlace(P, m)}) = m
         /\ \A i \in P : \E m \in 1 .. Cardinality(P) : NthPlace(P, m) = i
         /\ \A m, k \in 1 .. Cardinality(P) : m < k => NthPlace(P, m) < NthPlace(P, k)
  <1> DEFINE upto(i) == {j \in P : j <= i}
             T == 1 .. Cardinality(P)
             f == [i \in P |-> Cardinality(upto(i))]
  <1>1. IsFiniteSet(P) /\ Cardinality(P) \in Nat /\ P \subseteq Int
    <2>1. IsFiniteSet(1 .. n)
      BY FS_Interval
    <2>2. IsFiniteSet(P)
      BY <2>1, FS_Subset
    <2> QED
      BY <2>2, FS_CardinalityType
  <1>2. \A i : upto(i) \in SUBSET P
    OBVIOUS
  <1>3. \A i : IsFiniteSet(upto(i)) /\ Cardinality(upto(i)) \in Nat
               /\ Cardinality(upto(i)) <= Cardinality(P)
    BY <1>1, <1>2, FS_Subset, FS_CardinalityType
  <1>4. ASSUME NEW i \in P PROVE Cardinality(upto(i)) # 0
    <2>1. i \in upto(i)
      BY <1>1
    <2> QED
      BY <1>3, <2>1, FS_EmptySet
  <1>5. f \in [P -> T]
    <2>1. \A i \in P : Cardinality(upto(i)) \in T
      <3> HIDE DEF upto
      <3> QED
        BY <1>1, <1>3, <1>4
    <2> QED
      BY <2>1
  <1>6. ASSUME NEW i \in P, NEW k \in P, i < k PROVE Cardinality(upto(i)) < Cardinality(upto(k))
    <2>1. upto(i) \in SUBSET upto(k) /\ upto(i) # upto(k)
      <3>1. i \in Int /\ k \in Int
        BY <1>1
      <3>2. \A j \in P : j <= i => j <= k
        BY <1>1, <1>6
      <3>3. k \in upto(k) /\ k \notin upto(i)
        BY <1>6, <3>1
      <3> QED
        BY <3>2, <3>3
    <2>2. Cardinality(upto(i)) <= Cardinality(upto(k))
          /\ Cardinality(upto(i)) # Cardinality(upto(k))
      BY <1>3, <2>1, FS_Subset
    <2> QED
      BY <1>3, <2>2
  <1>7. \A i, k \in P : f[i] = f[k] => i = k
    <2> SUFFICES ASSUME NEW i \in P, NEW k \in P, f[i] = f[k], i # k PROVE FALSE
      OBVIOUS
    <2>1. i < k \/ k < i
      BY <1>1
    <2>2. Cardinality(upto(i)) = Cardinality(upto(k))
      OBVIOUS
    <2> HIDE DEF upto, f
    <2> QED
      BY <1>3, <1>6, <2>1, <2>2
  <1>8. f \in Injection(P, T)
    BY <1>5, <1>7 DEF Injection, IsInjective
  <1>9. IsFiniteSet(T) /\ Cardinality(T) = Cardinality(P)
    BY <1>1, FS_Interval
  <1>10. f \in Surjection(P, T)
    BY <1>8, <1>9, FS_Injection
  <1>11. \A m \in T : \E i \in P : f[i] = m
    BY <1>10 DEF Surjection
  <1>12. ASSUME NEW m \in T PROVE NthPlace(P, m) \in P /\ Cardinality(upto(NthPlace(P, m))) = m
    BY <1>11 DEF NthPlace
  <1>13. ASSUME NEW i \in P PROVE NthPlace(P, f[i]) = i
    <2>1. f[i] \in T
      BY <1>5
    <2>2. NthPlace(P, f[i]) \in P /\ f[NthPlace(P, f[i])] = f[i]
      BY <1>12, <2>1
    <2> QED
      BY <1>7, <2>2
  <1>14. ASSUME NEW m \in T, NEW k \in T, m < k PROVE NthPlace(P, m) < NthPlace(P, k)
    <2> DEFINE i == NthPlace(P, m)
               j == NthPlace(P, k)
    <2>1. i \in P /\ j \in P /\ Cardinality(upto(i)) = m /\ Cardinality(upto(j)) = k
      BY <1>12
    <2> HIDE DEF i, j, upto
    <2>2. i # j /\ ~(j < i)
      BY <1>6, <1>14, <2>1
    <2>3. i < j
      BY <1>1, <2>1, <2>2
    <2> QED
      BY <2>3 DEF i, j
  <1> QED
    BY <1>1, <1>5, <1>12, <1>13, <1>14

\* What is left is a list of the same links in their order.
LEMMA AtPlacesIs ==
  ASSUME NEW S, NEW s \in Seq(S), NEW P \in SUBSET (1 .. Len(s))
  PROVE  /\ AtPlaces(s, P) \in Seq(S) /\ Len(AtPlaces(s, P)) = Cardinality(P)
         /\ \A m \in 1 .. Cardinality(P) : /\ AtPlaces(s, P)[m] = s[NthPlace(P, m)]
                                         /\ AtPlaces(s, P)[m] \in S
  <1> DEFINE c == Cardinality(P)
             w == [n \in 1 .. c |-> s[NthPlace(P, n)]]
  <1>1. Len(s) \in Nat /\ \A i \in P : s[i] \in S
    OBVIOUS
  <1>2. c \in Nat /\ \A m \in 1 .. c : NthPlace(P, m) \in P
    BY <1>1, NthPlaceIs
  <1>3. \A m \in 1 .. c : s[NthPlace(P, m)] \in S
    BY <1>1, <1>2
  <1>4. AtPlaces(s, P) = w
    BY DEF AtPlaces
  <1> HIDE DEF c
  <1>5. w \in Seq(S) /\ Len(w) = c
    BY <1>2, <1>3
  <1> QED
    BY <1>3, <1>4, <1>5 DEF c
=============================================================================
