----------------------------- MODULE RankLemmas -----------------------------
(***************************************************************************)
(* Lemmas about listing a finite set by rank, the way the models write a   *)
(* sort or a filter without recursion: the k-th element is the one with    *)
(* k - 1 elements before it.  ArmoryMain's combined ledger and wallet      *)
(* filters and WalletRegistry's directory scan are built this way.         *)
(***************************************************************************)
EXTENDS Integers, FiniteSetTheorems, TLAPS

\* R, a set of pairs, is a strict total order on S.
IsStrictTotal(S, R) ==
    /\ \A x \in S : <<x, x>> \notin R
    /\ \A x, y, z \in S : <<x, y>> \in R /\ <<y, z>> \in R => <<x, z>> \in R
    /\ \A x, y \in S : x # y => <<x, y>> \in R \/ <<y, x>> \in R

\* Every position 1..Cardinality(S) is the rank of some element.
RankOnto(S, R) ==
    \A k \in 1..Cardinality(S) : \E e \in S : Cardinality({d \in S : <<d, e>> \in R}) + 1 = k

\* The rank of e in S under R: one more than the number of elements before it.
RankIn(e, S, R) == Cardinality({d \in S : <<d, e>> \in R}) + 1

(***************************************************************************)
(* Ranks lie in 1..Cardinality(S), grow along R, and tell elements apart.  *)
(***************************************************************************)
LEMMA RankFacts ==
    \A S, R : IsFiniteSet(S) /\ IsStrictTotal(S, R) =>
        /\ Cardinality(S) \in Nat
        /\ \A e \in S : RankIn(e, S, R) \in 1..Cardinality(S)
        /\ \A a, b \in S : <<a, b>> \in R => RankIn(a, S, R) < RankIn(b, S, R)
        /\ \A a, b \in S : RankIn(a, S, R) = RankIn(b, S, R) => a = b
<1> SUFFICES ASSUME NEW S, NEW R, IsFiniteSet(S), IsStrictTotal(S, R)
             PROVE  /\ Cardinality(S) \in Nat
                    /\ \A e \in S : RankIn(e, S, R) \in 1..Cardinality(S)
                    /\ \A a, b \in S : <<a, b>> \in R => RankIn(a, S, R) < RankIn(b, S, R)
                    /\ \A a, b \in S : RankIn(a, S, R) = RankIn(b, S, R) => a = b
  OBVIOUS
<1> USE DEF IsStrictTotal
<1> DEFINE Below(e) == {d \in S : <<d, e>> \in R}
<1>1. Cardinality(S) \in Nat
  BY FS_CardinalityType
<1>2. ASSUME NEW e \in S
      PROVE  /\ IsFiniteSet(Below(e))
             /\ Cardinality(Below(e)) \in Nat
             /\ Cardinality(Below(e)) < Cardinality(S)
  <2>1. IsFiniteSet(Below(e)) /\ Cardinality(Below(e)) <= Cardinality(S)
        /\ (Cardinality(S) = Cardinality(Below(e)) => S = Below(e))
    BY FS_Subset
  <2>2. Below(e) # S
    OBVIOUS
  <2>3. Cardinality(Below(e)) \in Nat
    BY <2>1, FS_CardinalityType
  <2>. QED
    BY <2>1, <2>2, <2>3, <1>1
<1>3. ASSUME NEW a \in S, NEW b \in S, <<a, b>> \in R
      PROVE  Cardinality(Below(a)) < Cardinality(Below(b))
  <2>1. Below(a) \subseteq Below(b)
    <3> SUFFICES ASSUME NEW d \in S, <<d, a>> \in R PROVE <<d, b>> \in R
      OBVIOUS
    <3> QED
      BY <1>3
  <2>2. a \in Below(b) /\ a \notin Below(a)
    BY <1>3
  <2>3. IsFiniteSet(Below(b))
    BY <1>2
  <2>4. Cardinality(Below(a)) <= Cardinality(Below(b))
        /\ (Cardinality(Below(b)) = Cardinality(Below(a)) => Below(b) = Below(a))
    BY <2>1, <2>3, FS_Subset
  <2>5. Cardinality(Below(a)) \in Nat /\ Cardinality(Below(b)) \in Nat
    BY <1>2
  <2>. QED
    BY <2>2, <2>4, <2>5
<1>4. \A e \in S : RankIn(e, S, R) \in 1..Cardinality(S)
  <2> SUFFICES ASSUME NEW e \in S PROVE RankIn(e, S, R) \in 1..Cardinality(S)
    OBVIOUS
  <2>1. Cardinality(Below(e)) \in Nat /\ Cardinality(Below(e)) < Cardinality(S)
    BY <1>2
  <2> QED
    BY <2>1, <1>1 DEF RankIn
<1>5. \A a, b \in S : <<a, b>> \in R => RankIn(a, S, R) < RankIn(b, S, R)
  <2> SUFFICES ASSUME NEW a \in S, NEW b \in S, <<a, b>> \in R
               PROVE  RankIn(a, S, R) < RankIn(b, S, R)
    OBVIOUS
  <2>1. Cardinality(Below(a)) < Cardinality(Below(b))
    BY <1>3
  <2>2. Cardinality(Below(a)) \in Nat /\ Cardinality(Below(b)) \in Nat
    BY <1>2
  <2> QED
    BY <2>1, <2>2 DEF RankIn
<1>6. \A a, b \in S : RankIn(a, S, R) = RankIn(b, S, R) => a = b
  <2> SUFFICES ASSUME NEW a \in S, NEW b \in S, a # b
               PROVE  RankIn(a, S, R) # RankIn(b, S, R)
    OBVIOUS
  <2>1. <<a, b>> \in R \/ <<b, a>> \in R
    OBVIOUS
  <2>2. RankIn(a, S, R) \in Nat /\ RankIn(b, S, R) \in Nat
    BY <1>4
  <2> QED
    BY <1>5, <2>1, <2>2
<1> QED
  BY <1>1, <1>4, <1>5, <1>6

(***************************************************************************)
(* Ranking under a strict total order R (a set of pairs) on a finite set S *)
(* reaches every position 1..Cardinality(S): the k-th element of a sorted  *)
(* listing, the one with k - 1 elements before it, exists.                 *)
(***************************************************************************)
LEMMA RankOntoLemma ==
    \A S, R : IsFiniteSet(S) /\ IsStrictTotal(S, R) => RankOnto(S, R)
<1> SUFFICES ASSUME NEW S, NEW R, IsFiniteSet(S), IsStrictTotal(S, R)
             PROVE  RankOnto(S, R)
  OBVIOUS
<1>1. /\ Cardinality(S) \in Nat
      /\ \A e \in S : RankIn(e, S, R) \in 1..Cardinality(S)
      /\ \A a, b \in S : RankIn(a, S, R) = RankIn(b, S, R) => a = b
  BY RankFacts
<1>2. \A k \in 1..Cardinality(S) : \E e \in S : RankIn(e, S, R) = k
  <2> DEFINE f == [e \in S |-> RankIn(e, S, R)]
  <2>1. f \in Injection(S, 1..Cardinality(S))
    <3>1. f \in [S -> 1..Cardinality(S)]
      BY <1>1
    <3>2. \A a, b \in S : f[a] = f[b] => a = b
      BY <1>1
    <3> QED
      BY <3>1, <3>2 DEF Injection, IsInjective
  <2>2. IsFiniteSet(1..Cardinality(S)) /\ Cardinality(1..Cardinality(S)) = Cardinality(S)
    BY <1>1, FS_Interval
  <2>3. f \in Surjection(S, 1..Cardinality(S))
    BY <2>1, <2>2, FS_Injection
  <2>. QED
    BY <2>3 DEF Surjection
<1>. QED
  BY <1>2 DEF RankOnto, RankIn

(***************************************************************************)
(* A listing that puts at each position k the element of rank k holds     *)
(* every element of S, and never an element after one it precedes in R.    *)
(***************************************************************************)
LEMMA RankListSorted ==
    \A S, R, L :
        /\ IsFiniteSet(S) /\ IsStrictTotal(S, R)
        /\ L \in [1..Cardinality(S) -> S]
        /\ \A k \in 1..Cardinality(S) : RankIn(L[k], S, R) = k
        => /\ {L[k] : k \in 1..Cardinality(S)} = S
           /\ \A k \in 1..Cardinality(S) - 1 : <<L[k + 1], L[k]>> \notin R
<1> SUFFICES ASSUME NEW S, NEW R, NEW L, IsFiniteSet(S), IsStrictTotal(S, R),
                    L \in [1..Cardinality(S) -> S],
                    \A k \in 1..Cardinality(S) : RankIn(L[k], S, R) = k
             PROVE  /\ {L[k] : k \in 1..Cardinality(S)} = S
                    /\ \A k \in 1..Cardinality(S) - 1 : <<L[k + 1], L[k]>> \notin R
  OBVIOUS
<1>1. /\ Cardinality(S) \in Nat
      /\ \A e \in S : RankIn(e, S, R) \in 1..Cardinality(S)
      /\ \A a, b \in S : <<a, b>> \in R => RankIn(a, S, R) < RankIn(b, S, R)
      /\ \A a, b \in S : RankIn(a, S, R) = RankIn(b, S, R) => a = b
  BY RankFacts
<1>2. S \subseteq {L[k] : k \in 1..Cardinality(S)}
  <2> SUFFICES ASSUME NEW e \in S PROVE \E k \in 1..Cardinality(S) : L[k] = e
    OBVIOUS
  <2>1. RankIn(e, S, R) \in 1..Cardinality(S)
    BY <1>1
  <2>2. RankIn(L[RankIn(e, S, R)], S, R) = RankIn(e, S, R)
    BY <2>1
  <2> QED
    BY <1>1, <2>1, <2>2
<1>3. ASSUME NEW k \in 1..Cardinality(S) - 1 PROVE <<L[k + 1], L[k]>> \notin R
  <2>1. k \in 1..Cardinality(S) /\ k + 1 \in 1..Cardinality(S)
    BY <1>1
  <2>2. RankIn(L[k], S, R) = k /\ RankIn(L[k + 1], S, R) = k + 1
    BY <2>1
  <2> QED
    BY <1>1, <2>1, <2>2
<1> QED
  BY <1>2, <1>3

(***************************************************************************)
(* Filtering a finite set of indices I, in index order: every position    *)
(* 1..Cardinality(I) is taken by the index with that many smaller ones.    *)
(***************************************************************************)
LEMMA IndexRankOnto ==
    \A I : IsFiniteSet(I) /\ I \subseteq Int =>
        \A k \in 1..Cardinality(I) : \E i \in I : Cardinality({j \in I : j < i}) + 1 = k
<1> SUFFICES ASSUME NEW I, IsFiniteSet(I), I \subseteq Int
             PROVE  \A k \in 1..Cardinality(I) : \E i \in I : Cardinality({j \in I : j < i}) + 1 = k
  OBVIOUS
<1> DEFINE R == {pr \in I \X I : pr[1] < pr[2]}
<1>1. IsStrictTotal(I, R)
  BY DEF IsStrictTotal
<1>2. \A i \in I : {d \in I : <<d, i>> \in R} = {j \in I : j < i}
  OBVIOUS
<1> HIDE DEF R
<1>3. RankOnto(I, R)
  BY <1>1, RankOntoLemma
<1> QED
  BY <1>2, <1>3 DEF RankOnto

=============================================================================
