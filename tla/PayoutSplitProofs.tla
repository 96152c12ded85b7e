------------------------- MODULE PayoutSplitProofs -------------------------
(***************************************************************************)
(* The routing policy, for any list of payments, any batch size and any    *)
(* thresholds.                                                             *)
(*                                                                         *)
(* The sort is a rank among finitely many, the greedy loop a fold.  What   *)
(* needs induction uses that inclusion is well-founded on the subsets of a *)
(* finite set, and < on the naturals: there is no smallest counterexample. *)
(***************************************************************************)
EXTENDS MCPayoutSplit, PayoutGroups, SumTheorems, TLAPS

(* A strict total order on a finite set numbers its elements from 1.       *)
IsOrder(R, I) ==
    /\ \A i \in I : <<i, i>> \notin R
    /\ \A i, j, k \in I : <<i, j>> \in R /\ <<j, k>> \in R => <<i, k>> \in R
    /\ \A i, j \in I : i /= j => <<i, j>> \in R \/ <<j, i>> \in R
Rank(R, I, i) == 1 + Cardinality({j \in I : <<j, i>> \in R})
ByRank(R, I, k) == CHOOSE i \in I : Rank(R, I, i) = k

LEMMA RankGrows ==
    ASSUME NEW I, IsFiniteSet(I), NEW R, IsOrder(R, I), NEW i \in I, NEW j \in I, <<i, j>> \in R
    PROVE  /\ Rank(R, I, i) \in 1..Cardinality(I) /\ Rank(R, I, j) \in 1..Cardinality(I)
           /\ Rank(R, I, i) < Rank(R, I, j)
<1> DEFINE Below(m) == {l \in I : <<l, m>> \in R}
<1>1. ASSUME NEW m \in I
      PROVE  /\ IsFiniteSet(Below(m)) /\ Cardinality(Below(m)) \in Nat
             /\ Cardinality(Below(m)) + 1 <= Cardinality(I)
             /\ Cardinality(I) \in Nat
  <2>1. m \notin Below(m) /\ Below(m) \in SUBSET (I \ {m})
    BY DEF IsOrder
  <2>2. IsFiniteSet(I \ {m}) /\ Cardinality(I \ {m}) = Cardinality(I) - 1
    BY FS_RemoveElement
  <2>3. IsFiniteSet(Below(m)) /\ Cardinality(Below(m)) <= Cardinality(I \ {m})
    <3> HIDE DEF Below
    <3> QED
      BY <2>1, <2>2, FS_Subset
  <2> HIDE DEF Below
  <2> QED
    BY <2>2, <2>3, FS_CardinalityType
<1>2. Cardinality(Below(i)) < Cardinality(Below(j))
  <2>1. Below(i) \in SUBSET Below(j)
    BY DEF IsOrder
  <2>2. i \in Below(j) /\ i \notin Below(i)
    BY DEF IsOrder
  <2> HIDE DEF Below
  <2>3. Cardinality(Below(i)) <= Cardinality(Below(j)) /\ Cardinality(Below(i)) /= Cardinality(Below(j))
    BY <1>1, <2>1, <2>2, FS_Subset
  <2> QED
    BY <1>1, <2>3
<1>3. \A m \in I : Rank(R, I, m) = 1 + Cardinality(Below(m))
  BY DEF Rank
<1> HIDE DEF Below
<1> QED
  BY <1>1, <1>2, <1>3

LEMMA RankOne ==
    ASSUME NEW I, IsFiniteSet(I), NEW R, IsOrder(R, I), NEW i \in I
    PROVE  Rank(R, I, i) \in 1..Cardinality(I)
<1>1. CASE \E j \in I : j /= i
  BY <1>1, RankGrows DEF IsOrder
<1>2. CASE I = {i}
  <2>1. {j \in I : <<j, i>> \in R} = {}
    BY <1>2 DEF IsOrder
  <2>2. Cardinality(I) = 1
    BY <1>2, FS_Singleton
  <2>3. Rank(R, I, i) = 1 + 0
    BY <2>1, FS_EmptySet DEF Rank
  <2> QED
    BY <2>2, <2>3
<1> QED
  BY <1>1, <1>2

LEMMA Ranked ==
    ASSUME NEW I, IsFiniteSet(I), NEW R, IsOrder(R, I)
    PROVE  /\ Cardinality(I) \in Nat
           /\ \A k \in 1..Cardinality(I) : ByRank(R, I, k) \in I
           /\ \A k, m \in 1..Cardinality(I) : k < m => <<ByRank(R, I, k), ByRank(R, I, m)>> \in R
           /\ \A i \in I : \E k \in 1..Cardinality(I) : ByRank(R, I, k) = i
           /\ \A k \in 1..Cardinality(I) : Rank(R, I, ByRank(R, I, k)) = k
           /\ \A i \in I : ByRank(R, I, Rank(R, I, i)) = i
<1> DEFINE n == Cardinality(I)
           f == [i \in I |-> Rank(R, I, i)]
<1>0. n \in Nat
  BY FS_CardinalityType
<1>1. \A i, j \in I : Rank(R, I, i) = Rank(R, I, j) => i = j
  <2> SUFFICES ASSUME NEW i \in I, NEW j \in I, i /= j PROVE Rank(R, I, i) /= Rank(R, I, j)
    OBVIOUS
  <2>1. <<i, j>> \in R \/ <<j, i>> \in R
    BY DEF IsOrder
  <2>2. CASE <<i, j>> \in R
    BY <1>0, <2>2, RankGrows
  <2>3. CASE <<j, i>> \in R
    BY <1>0, <2>3, RankGrows
  <2> QED
    BY <2>1, <2>2, <2>3
<1>2. f \in Injection(I, 1..n)
  <2>1. f \in [I -> 1..n]
    BY RankOne
  <2> QED
    BY <1>1, <2>1 DEF Injection, IsInjective
<1>3. f \in Surjection(I, 1..n)
  <2>1. IsFiniteSet(1..n) /\ Cardinality(1..n) = n
    BY <1>0, FS_Interval
  <2> HIDE DEF f
  <2> QED
    BY <1>2, <2>1, FS_Injection
<1>4. \A k \in 1..n : \E i \in I : Rank(R, I, i) = k
  BY <1>3 DEF Surjection
<1>5. \A k \in 1..n : ByRank(R, I, k) \in I /\ Rank(R, I, ByRank(R, I, k)) = k
  BY <1>4 DEF ByRank
<1>6. \A i \in I : Rank(R, I, i) \in 1..n /\ ByRank(R, I, Rank(R, I, i)) = i
  <2> SUFFICES ASSUME NEW i \in I
               PROVE  Rank(R, I, i) \in 1..n /\ ByRank(R, I, Rank(R, I, i)) = i
    OBVIOUS
  <2>1. Rank(R, I, i) \in 1..n
    BY RankOne
  <2> QED
    BY <1>1, <1>5, <2>1
<1>7. ASSUME NEW k \in 1..n, NEW m \in 1..n, k < m
      PROVE  <<ByRank(R, I, k), ByRank(R, I, m)>> \in R
  <2> DEFINE i == ByRank(R, I, k)
             j == ByRank(R, I, m)
  <2>1. i \in I /\ j \in I /\ Rank(R, I, i) = k /\ Rank(R, I, j) = m
    BY <1>5
  <2> HIDE DEF i, j
  <2>2. i /= j
    BY <1>7, <2>1
  <2>3. ~(<<j, i>> \in R)
    <3> SUFFICES ASSUME <<j, i>> \in R PROVE FALSE
      OBVIOUS
    <3>1. m < k
      BY <2>1, RankGrows
    <3> QED
      BY <1>0, <1>7, <3>1
  <2>4. <<i, j>> \in R
    BY <2>1, <2>2, <2>3 DEF IsOrder
  <2> QED
    BY <2>4 DEF i, j
<1> QED
  BY <1>0, <1>5, <1>6, <1>7
-----------------------------------------------------------------------------
(* What sort.SliceStable makes of a list: its elements at the indices in   *)
(* I, each once, and out of order nowhere.  `at` says which stands where.  *)
Arranged(out, s, I, at) ==
    /\ at \in [DOMAIN out -> I]
    /\ \A k, m \in DOMAIN out : at[k] = at[m] => k = m
    /\ \A i \in I : \E k \in DOMAIN out : at[k] = i
    /\ \A k \in DOMAIN out : out[k] = s[at[k]]
    /\ out \in Seq({s[i] : i \in I})

LEMMA SequenceOf ==
    ASSUME NEW n \in Nat, NEW s, NEW I, NEW at \in [1..n -> I],
           NEW out, out = [k \in 1..n |-> s[at[k]]]
    PROVE  out \in Seq({s[i] : i \in I}) /\ DOMAIN out = 1..n /\ Len(out) = n
<1> DEFINE E == {s[i] : i \in I}
<1>1. out \in [1..n -> E]
  OBVIOUS
<1> HIDE DEF E
<1>2. out \in Seq(E) /\ DOMAIN out = 1..n
  BY <1>1
<1> QED
  BY <1>2 DEF E


LEMMA Arrange ==
    ASSUME NEW s, NEW n \in Nat, NEW I \in SUBSET (1..n), NEW R, IsOrder(R, I),
           NEW out, out = [k \in 1..Cardinality(I) |-> s[ByRank(R, I, k)]]
    PROVE  \E at : /\ Arranged(out, s, I, at)
                   /\ \A k, m \in DOMAIN out : k < m => <<at[k], at[m]>> \in R
<1> DEFINE at == [k \in 1..Cardinality(I) |-> ByRank(R, I, k)]
<1>1. IsFiniteSet(I)
  <2>1. IsFiniteSet(1..n)
    BY FS_Interval
  <2> QED
    BY <2>1, FS_Subset
<1>2. /\ Cardinality(I) \in Nat
      /\ \A k \in 1..Cardinality(I) : ByRank(R, I, k) \in I
      /\ \A k, m \in 1..Cardinality(I) : k < m => <<ByRank(R, I, k), ByRank(R, I, m)>> \in R
      /\ \A i \in I : \E k \in 1..Cardinality(I) : ByRank(R, I, k) = i
  BY <1>1, Ranked
<1>3. at \in [1..Cardinality(I) -> I] /\ out = [k \in 1..Cardinality(I) |-> s[at[k]]]
  BY <1>2
<1>4. out \in Seq({s[i] : i \in I}) /\ DOMAIN out = 1..Cardinality(I)
  <2> HIDE DEF at
  <2> QED
    BY <1>2, <1>3, SequenceOf
<1>5. \A k, m \in 1..Cardinality(I) : k < m => <<at[k], at[m]>> \in R
  BY <1>2
<1>6. \A k, m \in 1..Cardinality(I) : at[k] = at[m] => k = m
  <2> SUFFICES ASSUME NEW k \in 1..Cardinality(I), NEW m \in 1..Cardinality(I), at[k] = at[m], k < m \/ m < k
               PROVE  FALSE
    BY <1>2
  <2>1. <<at[k], at[m]>> \in R \/ <<at[m], at[k]>> \in R
    BY <1>5
  <2> QED
    BY <1>3, <2>1 DEF IsOrder
<1>7. \A i \in I : \E k \in 1..Cardinality(I) : at[k] = i
  BY <1>2
<1>8. \A k \in 1..Cardinality(I) : out[k] = s[at[k]]
  BY <1>3
<1> HIDE DEF at
<1>9. Arranged(out, s, I, at)
  BY <1>3, <1>4, <1>6, <1>7, <1>8 DEF Arranged
<1> QED
  BY <1>4, <1>5, <1>9

(* The three orders splitPayments sorts by.                                *)
LEMMA ArrangedAsListed ==
    ASSUME NEW S, NEW s \in Seq(S), NEW I \in SUBSET DOMAIN s
    PROVE  \E at : /\ Arranged(SliceStable(s, I, AsListed), s, I, at)
                   /\ \A k, m \in DOMAIN SliceStable(s, I, AsListed) : k < m =>
                         at[k] < at[m]
<1> DEFINE R == {ij \in I \X I : ij[1] < ij[2]}
           Behind(i) == {j \in I : AsListed(s[j], s[i]) \/ (~AsListed(s[i], s[j]) /\ j < i)}
<1>1. Len(s) \in Nat /\ DOMAIN s = 1..Len(s) /\ I \in SUBSET (1..Len(s)) /\ IsFiniteSet(I)
  <2>1. IsFiniteSet(1..Len(s))
    BY FS_Interval
  <2> QED
    BY <2>1, FS_Subset
<1>2. \A i \in I : i \in Int
  BY <1>1
<1>3. \A i, j \in I : <<i, j>> \in R <=> i < j
  OBVIOUS
<1>4. \A i \in I : Behind(i) = {j \in I : <<j, i>> \in R}
  BY <1>2, <1>3 DEF AsListed
<1> HIDE DEF R
<1>5. IsOrder(R, I)
  BY <1>2, <1>3 DEF IsOrder
<1>6. ASSUME NEW k \in 1..Cardinality(I)
      PROVE  (CHOOSE i \in I : 1 + Cardinality(Behind(i)) = k) = ByRank(R, I, k)
  <2> DEFINE c == CHOOSE i \in I : 1 + Cardinality(Behind(i)) = k
  <2>1. \A i \in I : 1 + Cardinality(Behind(i)) = Rank(R, I, i)
    BY <1>4 DEF Rank
  <2>2. \E i \in I : 1 + Cardinality(Behind(i)) = k
    <3>1. ByRank(R, I, k) \in I /\ Rank(R, I, ByRank(R, I, k)) = k
      BY <1>1, <1>5, Ranked
    <3> HIDE DEF Behind
    <3> QED
      BY <2>1, <3>1
  <2> HIDE DEF Behind
  <2>3. c \in I /\ 1 + Cardinality(Behind(c)) = k
    BY <2>2
  <2> HIDE DEF c
  <2>4. ByRank(R, I, k) = c
    BY <1>1, <1>5, <2>1, <2>3, Ranked
  <2> QED
    BY <2>4 DEF c
<1>7. SliceStable(s, I, AsListed) = [k \in 1..Cardinality(I) |-> s[ByRank(R, I, k)]]
  <2> DEFINE c(k) == CHOOSE i \in I : 1 + Cardinality(Behind(i)) = k
  <2>1. SliceStable(s, I, AsListed) = [k \in 1..Cardinality(I) |-> s[c(k)]]
    BY DEF SliceStable
  <2>2. \A k \in 1..Cardinality(I) : c(k) = ByRank(R, I, k)
    BY <1>6
  <2> HIDE DEF c
  <2> QED
    BY <2>1, <2>2
<1>8. PICK at : /\ Arranged(SliceStable(s, I, AsListed), s, I, at)
               /\ \A k, m \in DOMAIN SliceStable(s, I, AsListed) : k < m => <<at[k], at[m]>> \in R
  <2> DEFINE out == SliceStable(s, I, AsListed)
  <2>1. out = [k \in 1..Cardinality(I) |-> s[ByRank(R, I, k)]]
    BY <1>7
  <2> HIDE DEF out
  <2>2. \E at : Arranged(out, s, I, at) /\ \A k, m \in DOMAIN out : k < m => <<at[k], at[m]>> \in R
    BY <1>1, <1>5, <2>1, Arrange
  <2> QED
    BY <2>2 DEF out
<1>9. \A k \in DOMAIN SliceStable(s, I, AsListed) : at[k] \in I
  BY <1>8 DEF Arranged
<1> QED
  BY <1>3, <1>8, <1>9


LEMMA ArrangedHighestFirst ==
    ASSUME NEW S, NEW s \in Seq(S), \A i \in DOMAIN s : s[i].amount \in Nat, NEW I \in SUBSET DOMAIN s
    PROVE  \E at : /\ Arranged(SliceStable(s, I, HighestFirst), s, I, at)
                   /\ \A k, m \in DOMAIN SliceStable(s, I, HighestFirst) : k < m =>
                         s[at[k]].amount > s[at[m]].amount \/ (s[at[k]].amount = s[at[m]].amount /\ at[k] < at[m])
<1> DEFINE R == {ij \in I \X I : s[ij[1]].amount > s[ij[2]].amount \/ (s[ij[1]].amount = s[ij[2]].amount /\ ij[1] < ij[2])}
           Behind(i) == {j \in I : HighestFirst(s[j], s[i]) \/ (~HighestFirst(s[i], s[j]) /\ j < i)}
<1>1. Len(s) \in Nat /\ DOMAIN s = 1..Len(s) /\ I \in SUBSET (1..Len(s)) /\ IsFiniteSet(I)
  <2>1. IsFiniteSet(1..Len(s))
    BY FS_Interval
  <2> QED
    BY <2>1, FS_Subset
<1>2. \A i \in I : i \in Int /\ s[i].amount \in Int
  BY <1>1
<1>3. \A i, j \in I : <<i, j>> \in R <=> s[i].amount > s[j].amount \/ (s[i].amount = s[j].amount /\ i < j)
  OBVIOUS
<1>4. \A i \in I : Behind(i) = {j \in I : <<j, i>> \in R}
  BY <1>2, <1>3 DEF HighestFirst
<1> HIDE DEF R
<1>5. IsOrder(R, I)
  BY <1>2, <1>3 DEF IsOrder
<1>6. ASSUME NEW k \in 1..Cardinality(I)
      PROVE  (CHOOSE i \in I : 1 + Cardinality(Behind(i)) = k) = ByRank(R, I, k)
  <2> DEFINE c == CHOOSE i \in I : 1 + Cardinality(Behind(i)) = k
  <2>1. \A i \in I : 1 + Cardinality(Behind(i)) = Rank(R, I, i)
    BY <1>4 DEF Rank
  <2>2. \E i \in I : 1 + Cardinality(Behind(i)) = k
    <3>1. ByRank(R, I, k) \in I /\ Rank(R, I, ByRank(R, I, k)) = k
      BY <1>1, <1>5, Ranked
    <3> HIDE DEF Behind
    <3> QED
      BY <2>1, <3>1
  <2> HIDE DEF Behind
  <2>3. c \in I /\ 1 + Cardinality(Behind(c)) = k
    BY <2>2
  <2> HIDE DEF c
  <2>4. ByRank(R, I, k) = c
    BY <1>1, <1>5, <2>1, <2>3, Ranked
  <2> QED
    BY <2>4 DEF c
<1>7. SliceStable(s, I, HighestFirst) = [k \in 1..Cardinality(I) |-> s[ByRank(R, I, k)]]
  <2> DEFINE c(k) == CHOOSE i \in I : 1 + Cardinality(Behind(i)) = k
  <2>1. SliceStable(s, I, HighestFirst) = [k \in 1..Cardinality(I) |-> s[c(k)]]
    BY DEF SliceStable
  <2>2. \A k \in 1..Cardinality(I) : c(k) = ByRank(R, I, k)
    BY <1>6
  <2> HIDE DEF c
  <2> QED
    BY <2>1, <2>2
<1>8. PICK at : /\ Arranged(SliceStable(s, I, HighestFirst), s, I, at)
               /\ \A k, m \in DOMAIN SliceStable(s, I, HighestFirst) : k < m => <<at[k], at[m]>> \in R
  <2> DEFINE out == SliceStable(s, I, HighestFirst)
  <2>1. out = [k \in 1..Cardinality(I) |-> s[ByRank(R, I, k)]]
    BY <1>7
  <2> HIDE DEF out
  <2>2. \E at : Arranged(out, s, I, at) /\ \A k, m \in DOMAIN out : k < m => <<at[k], at[m]>> \in R
    BY <1>1, <1>5, <2>1, Arrange
  <2> QED
    BY <2>2 DEF out
<1>9. \A k \in DOMAIN SliceStable(s, I, HighestFirst) : at[k] \in I
  BY <1>8 DEF Arranged
<1> QED
  BY <1>3, <1>8, <1>9


LEMMA ArrangedLowestFirst ==
    ASSUME NEW S, NEW s \in Seq(S), \A i \in DOMAIN s : s[i].amount \in Nat, NEW I \in SUBSET DOMAIN s
    PROVE  \E at : /\ Arranged(SliceStable(s, I, LowestFirst), s, I, at)
                   /\ \A k, m \in DOMAIN SliceStable(s, I, LowestFirst) : k < m =>
                         s[at[k]].amount < s[at[m]].amount \/ (s[at[k]].amount = s[at[m]].amount /\ at[k] < at[m])
<1> DEFINE R == {ij \in I \X I : s[ij[1]].amount < s[ij[2]].amount \/ (s[ij[1]].amount = s[ij[2]].amount /\ ij[1] < ij[2])}
           Behind(i) == {j \in I : LowestFirst(s[j], s[i]) \/ (~LowestFirst(s[i], s[j]) /\ j < i)}
<1>1. Len(s) \in Nat /\ DOMAIN s = 1..Len(s) /\ I \in SUBSET (1..Len(s)) /\ IsFiniteSet(I)
  <2>1. IsFiniteSet(1..Len(s))
    BY FS_Interval
  <2> QED
    BY <2>1, FS_Subset
<1>2. \A i \in I : i \in Int /\ s[i].amount \in Int
  BY <1>1
<1>3. \A i, j \in I : <<i, j>> \in R <=> s[i].amount < s[j].amount \/ (s[i].amount = s[j].amount /\ i < j)
  OBVIOUS
<1>4. \A i \in I : Behind(i) = {j \in I : <<j, i>> \in R}
  BY <1>2, <1>3 DEF LowestFirst
<1> HIDE DEF R
<1>5. IsOrder(R, I)
  BY <1>2, <1>3 DEF IsOrder
<1>6. ASSUME NEW k \in 1..Cardinality(I)
      PROVE  (CHOOSE i \in I : 1 + Cardinality(Behind(i)) = k) = ByRank(R, I, k)
  <2> DEFINE c == CHOOSE i \in I : 1 + Cardinality(Behind(i)) = k
  <2>1. \A i \in I : 1 + Cardinality(Behind(i)) = Rank(R, I, i)
    BY <1>4 DEF Rank
  <2>2. \E i \in I : 1 + Cardinality(Behind(i)) = k
    <3>1. ByRank(R, I, k) \in I /\ Rank(R, I, ByRank(R, I, k)) = k
      BY <1>1, <1>5, Ranked
    <3> HIDE DEF Behind
    <3> QED
      BY <2>1, <3>1
  <2> HIDE DEF Behind
  <2>3. c \in I /\ 1 + Cardinality(Behind(c)) = k
    BY <2>2
  <2> HIDE DEF c
  <2>4. ByRank(R, I, k) = c
    BY <1>1, <1>5, <2>1, <2>3, Ranked
  <2> QED
    BY <2>4 DEF c
<1>7. SliceStable(s, I, LowestFirst) = [k \in 1..Cardinality(I) |-> s[ByRank(R, I, k)]]
  <2> DEFINE c(k) == CHOOSE i \in I : 1 + Cardinality(Behind(i)) = k
  <2>1. SliceStable(s, I, LowestFirst) = [k \in 1..Cardinality(I) |-> s[c(k)]]
    BY DEF SliceStable
  <2>2. \A k \in 1..Cardinality(I) : c(k) = ByRank(R, I, k)
    BY <1>6
  <2> HIDE DEF c
  <2> QED
    BY <2>1, <2>2
<1>8. PICK at : /\ Arranged(SliceStable(s, I, LowestFirst), s, I, at)
               /\ \A k, m \in DOMAIN SliceStable(s, I, LowestFirst) : k < m => <<at[k], at[m]>> \in R
  <2> DEFINE out == SliceStable(s, I, LowestFirst)
  <2>1. out = [k \in 1..Cardinality(I) |-> s[ByRank(R, I, k)]]
    BY <1>7
  <2> HIDE DEF out
  <2>2. \E at : Arranged(out, s, I, at) /\ \A k, m \in DOMAIN out : k < m => <<at[k], at[m]>> \in R
    BY <1>1, <1>5, <2>1, Arrange
  <2> QED
    BY <2>2 DEF out
<1>9. \A k \in DOMAIN SliceStable(s, I, LowestFirst) : at[k] \in I
  BY <1>8 DEF Arranged
<1> QED
  BY <1>3, <1>8, <1>9

-----------------------------------------------------------------------------
(* A fold over a list takes the largest index first.                       *)
Below(t) == t \ {Max(t)}

LEMMA UpTo == \A k \in Nat \ {0} : Max(1..k) = k /\ Below(1..k) = 1..(k - 1)
<1> SUFFICES ASSUME NEW k \in Nat \ {0} PROVE Max(1..k) = k /\ Below(1..k) = 1..(k - 1)
  OBVIOUS
<1>1. k \in 1..k /\ \A y \in 1..k : k >= y
  OBVIOUS
<1>2. \A x \in 1..k : (\A y \in 1..k : x >= y) => x = k
  OBVIOUS
<1>3. Max(1..k) = k
  BY <1>1, <1>2 DEF Max
<1> QED
  BY <1>3 DEF Below

LEMMA BelowLess ==
    ASSUME NEW n \in Nat, NEW t \in SUBSET (1..n), t /= {}
    PROVE  Below(t) \in SUBSET t /\ Below(t) /= t
<1>1. \E x \in t : \A y \in t : x >= y
  <2> DEFINE B == {k \in Nat : \A y \in t : k >= y}
  <2>1. n \in B /\ B \in SUBSET Nat
    OBVIOUS
  <2>2. PICK m \in B : \A k \in B : m <= k
    <3> HIDE DEF B
    <3> QED
      BY <2>1, LeastNumber
  <2>3. ASSUME m \notin t PROVE FALSE
    <3>1. PICK y \in t : TRUE
      OBVIOUS
    <3>2. m - 1 \in Nat /\ \A z \in t : m - 1 >= z
      BY <2>2, <2>3, <3>1
    <3> QED
      BY <2>2, <3>2
  <2> QED
    BY <2>2, <2>3
<1>2. Max(t) \in t
  BY <1>1 DEF Max
<1> QED
  BY <1>2 DEF Below

(* The greedy loop over the payments at the indices in T.                  *)
Loop(tier, batch, ps, T) ==
    MapThenFoldSet(LAMBDA p, acc : NextPayment(tier, batch, acc, p), NoBatch,
                   LAMBDA i : ps[i], LAMBDA S : Max(S), T)
LoopSolves(f, tier, batch, ps, T) ==
    f = [t \in SUBSET T |-> IF t = {} THEN NoBatch ELSE NextPayment(tier, batch, f[t \ {Max(t)}], ps[Max(t)])]
LoopUnfolds(tier, batch, ps, t) ==
    Loop(tier, batch, ps, t) = IF t = {} THEN NoBatch ELSE NextPayment(tier, batch, Loop(tier, batch, ps, Below(t)), ps[Max(t)])

LEMMA LoopIsChosen ==
    ASSUME NEW tier, NEW batch, NEW ps
    PROVE  \A T : Loop(tier, batch, ps, T) = (CHOOSE f : LoopSolves(f, tier, batch, ps, T))[T]
BY DEF Loop, MapThenFoldSet, LoopSolves

LEMMA LoopEquation ==
    ASSUME NEW T, NEW f, NEW tier, NEW batch, NEW ps
    PROVE  LoopSolves(f, tier, batch, ps, T) <=>
              /\ f = [t \in SUBSET T |-> f[t]]
              /\ \A t \in SUBSET T : f[t] = IF t = {} THEN NoBatch
                                              ELSE NextPayment(tier, batch, f[Below(t)], ps[Max(t)])
BY DEF LoopSolves, Below

LEMMA LoopTerminates ==
    ASSUME NEW n \in Nat, NEW tier, NEW batch, NEW ps
    PROVE  \A t \in SUBSET (1..n) : LoopUnfolds(tier, batch, ps, t)
<1> DEFINE S == 1..n
           B == {t \in SUBSET S : ~LoopUnfolds(tier, batch, ps, t)}
<1> SUFFICES ASSUME B /= {} PROVE FALSE
  OBVIOUS
<1>0. IsFiniteSet(S)
  BY FS_Interval
<1>1. PICK t \in B : \A u \in B : u \subseteq t => u = t
  <2>1. B \in SUBSET SUBSET S
    OBVIOUS
  <2> HIDE DEF B, S
  <2> QED
    BY <1>0, <2>1, MinimalSubset
<1>2. \A u \in SUBSET t : u /= t => LoopUnfolds(tier, batch, ps, u)
  BY <1>1
<1>3. \A u \in SUBSET t : u /= {} => Below(u) \in SUBSET t /\ Below(u) /= t
  <2> SUFFICES ASSUME NEW u \in SUBSET t, u /= {} PROVE Below(u) \in SUBSET t /\ Below(u) /= t
    OBVIOUS
  <2>1. u \in SUBSET (1..n)
    BY <1>1
  <2>2. Below(u) \in SUBSET u /\ Below(u) /= u
    BY <2>1, BelowLess
  <2> QED
    BY <2>2
<1> DEFINE G == [u \in SUBSET t |->
                   IF u = t THEN IF t = {} THEN NoBatch ELSE NextPayment(tier, batch, Loop(tier, batch, ps, Below(t)), ps[Max(t)])
                            ELSE Loop(tier, batch, ps, u)]
           f == CHOOSE h : LoopSolves(h, tier, batch, ps, t)
<1>4. ASSUME NEW u \in SUBSET t
      PROVE  G[u] = IF u = {} THEN NoBatch ELSE NextPayment(tier, batch, G[Below(u)], ps[Max(u)])
  <2>1. CASE u = t
    BY <1>3, <2>1
  <2>2. CASE u /= t
    BY <1>2, <1>3, <2>2 DEF LoopUnfolds
  <2> QED
    BY <2>1, <2>2
<1>5. LoopSolves(G, tier, batch, ps, t)
  <2>1. G = [u \in SUBSET t |-> G[u]]
    OBVIOUS
  <2> HIDE DEF G
  <2> QED
    BY <1>4, <2>1, LoopEquation
<1>6. LoopSolves(f, tier, batch, ps, t)
  <2> HIDE DEF G
  <2> QED
    BY <1>5
<1>7. \A u \in SUBSET t : f[u] = IF u = {} THEN NoBatch ELSE NextPayment(tier, batch, f[Below(u)], ps[Max(u)])
  <2> HIDE DEF f
  <2> QED
    BY <1>6, LoopEquation
<1>8. Loop(tier, batch, ps, t) = f[t]
  BY LoopIsChosen
<1> HIDE DEF f, G
<1>9. \A u \in SUBSET t : u /= t => f[u] = Loop(tier, batch, ps, u)
  <2> DEFINE C == {u \in SUBSET t : u /= t /\ f[u] /= Loop(tier, batch, ps, u)}
  <2> SUFFICES ASSUME C /= {} PROVE FALSE
    OBVIOUS
  <2>1. C \in SUBSET SUBSET S
    BY <1>1
  <2>2. PICK m \in C : \A u \in C : u \subseteq m => u = m
    <3> HIDE DEF C, S
    <3> QED
      BY <1>0, <2>1, MinimalSubset
  <2>3. m /= {} => f[Below(m)] = Loop(tier, batch, ps, Below(m))
    <3>1. m \in SUBSET S /\ m \in SUBSET t
      BY <1>1, <2>2
    <3>2. m /= {} => Below(m) \in SUBSET m /\ Below(m) /= m
      BY <3>1, BelowLess
    <3> QED
      BY <2>2, <3>1, <3>2
  <2> QED
    BY <1>2, <1>7, <2>2, <2>3 DEF LoopUnfolds
<1>10. t /= {} => f[Below(t)] = Loop(tier, batch, ps, Below(t))
  BY <1>3, <1>9
<1> QED
  BY <1>1, <1>7, <1>8, <1>10 DEF LoopUnfolds

LEMMA LoopEmpty ==
    ASSUME NEW tier, NEW batch, NEW ps
    PROVE  Loop(tier, batch, ps, 1..0) = NoBatch
<1>1. 1..0 = {} /\ {} \in SUBSET (1..0) /\ 0 \in Nat
  OBVIOUS
<1>2. LoopUnfolds(tier, batch, ps, {})
  BY <1>1, LoopTerminates
<1> QED
  BY <1>1, <1>2 DEF LoopUnfolds

LEMMA LoopStep ==
    ASSUME NEW k \in Nat \ {0}, NEW tier, NEW batch, NEW ps
    PROVE  Loop(tier, batch, ps, 1..k) = NextPayment(tier, batch, Loop(tier, batch, ps, 1..(k - 1)), ps[k])
<1>1. k \in Nat /\ 1..k \in SUBSET (1..k) /\ 1..k /= {}
  OBVIOUS
<1>2. Max(1..k) = k /\ Below(1..k) = 1..(k - 1)
  BY UpTo
<1>3. LoopUnfolds(tier, batch, ps, 1..k)
  BY <1>1, LoopTerminates
<1> QED
  BY <1>1, <1>2, <1>3 DEF LoopUnfolds

(* The amount of the payments at the indices in T.                         *)
SumOf(ps, T) == 
    MapThenFoldSet(LAMBDA p, sum : sum + p.amount, 0, LAMBDA i : ps[i], LAMBDA S : Max(S), T)
SumOfSolves(f, ps, T) ==
    f = [t \in SUBSET T |-> IF t = {} THEN 0 ELSE f[t \ {Max(t)}] + ps[Max(t)].amount]
SumOfUnfolds(ps, t) ==
    SumOf(ps, t) = IF t = {} THEN 0 ELSE SumOf(ps, Below(t)) + ps[Max(t)].amount

LEMMA SumOfIsChosen ==
    ASSUME NEW ps
    PROVE  \A T : SumOf(ps, T) = (CHOOSE f : SumOfSolves(f, ps, T))[T]
BY DEF SumOf, MapThenFoldSet, SumOfSolves

LEMMA SumOfEquation ==
    ASSUME NEW T, NEW f, NEW ps
    PROVE  SumOfSolves(f, ps, T) <=>
              /\ f = [t \in SUBSET T |-> f[t]]
              /\ \A t \in SUBSET T : f[t] = IF t = {} THEN 0
                                              ELSE f[Below(t)] + ps[Max(t)].amount
BY DEF SumOfSolves, Below

LEMMA SumOfTerminates ==
    ASSUME NEW n \in Nat, NEW ps
    PROVE  \A t \in SUBSET (1..n) : SumOfUnfolds(ps, t)
<1> DEFINE S == 1..n
           B == {t \in SUBSET S : ~SumOfUnfolds(ps, t)}
<1> SUFFICES ASSUME B /= {} PROVE FALSE
  OBVIOUS
<1>0. IsFiniteSet(S)
  BY FS_Interval
<1>1. PICK t \in B : \A u \in B : u \subseteq t => u = t
  <2>1. B \in SUBSET SUBSET S
    OBVIOUS
  <2> HIDE DEF B, S
  <2> QED
    BY <1>0, <2>1, MinimalSubset
<1>2. \A u \in SUBSET t : u /= t => SumOfUnfolds(ps, u)
  BY <1>1
<1>3. \A u \in SUBSET t : u /= {} => Below(u) \in SUBSET t /\ Below(u) /= t
  <2> SUFFICES ASSUME NEW u \in SUBSET t, u /= {} PROVE Below(u) \in SUBSET t /\ Below(u) /= t
    OBVIOUS
  <2>1. u \in SUBSET (1..n)
    BY <1>1
  <2>2. Below(u) \in SUBSET u /\ Below(u) /= u
    BY <2>1, BelowLess
  <2> QED
    BY <2>2
<1> DEFINE G == [u \in SUBSET t |->
                   IF u = t THEN IF t = {} THEN 0 ELSE SumOf(ps, Below(t)) + ps[Max(t)].amount
                            ELSE SumOf(ps, u)]
           f == CHOOSE h : SumOfSolves(h, ps, t)
<1>4. ASSUME NEW u \in SUBSET t
      PROVE  G[u] = IF u = {} THEN 0 ELSE G[Below(u)] + ps[Max(u)].amount
  <2>1. CASE u = t
    BY <1>3, <2>1
  <2>2. CASE u /= t
    BY <1>2, <1>3, <2>2 DEF SumOfUnfolds
  <2> QED
    BY <2>1, <2>2
<1>5. SumOfSolves(G, ps, t)
  <2>1. G = [u \in SUBSET t |-> G[u]]
    OBVIOUS
  <2> HIDE DEF G
  <2> QED
    BY <1>4, <2>1, SumOfEquation
<1>6. SumOfSolves(f, ps, t)
  <2> HIDE DEF G
  <2> QED
    BY <1>5
<1>7. \A u \in SUBSET t : f[u] = IF u = {} THEN 0 ELSE f[Below(u)] + ps[Max(u)].amount
  <2> HIDE DEF f
  <2> QED
    BY <1>6, SumOfEquation
<1>8. SumOf(ps, t) = f[t]
  BY SumOfIsChosen
<1> HIDE DEF f, G
<1>9. \A u \in SUBSET t : u /= t => f[u] = SumOf(ps, u)
  <2> DEFINE C == {u \in SUBSET t : u /= t /\ f[u] /= SumOf(ps, u)}
  <2> SUFFICES ASSUME C /= {} PROVE FALSE
    OBVIOUS
  <2>1. C \in SUBSET SUBSET S
    BY <1>1
  <2>2. PICK m \in C : \A u \in C : u \subseteq m => u = m
    <3> HIDE DEF C, S
    <3> QED
      BY <1>0, <2>1, MinimalSubset
  <2>3. m /= {} => f[Below(m)] = SumOf(ps, Below(m))
    <3>1. m \in SUBSET S /\ m \in SUBSET t
      BY <1>1, <2>2
    <3>2. m /= {} => Below(m) \in SUBSET m /\ Below(m) /= m
      BY <3>1, BelowLess
    <3> QED
      BY <2>2, <3>1, <3>2
  <2> QED
    BY <1>2, <1>7, <2>2, <2>3 DEF SumOfUnfolds
<1>10. t /= {} => f[Below(t)] = SumOf(ps, Below(t))
  BY <1>3, <1>9
<1> QED
  BY <1>1, <1>7, <1>8, <1>10 DEF SumOfUnfolds

LEMMA SumOfSteps ==
    ASSUME NEW n \in Nat, NEW ps
    PROVE  /\ SumOf(ps, 1..0) = 0
           /\ \A k \in 1..n : SumOf(ps, 1..k) = SumOf(ps, 1..(k - 1)) + ps[k].amount
<1>1. SumOf(ps, 1..0) = 0
  <2>1. 1..0 = {} /\ {} \in SUBSET (1..n)
    OBVIOUS
  <2>2. SumOfUnfolds(ps, {})
    BY <2>1, SumOfTerminates
  <2> QED
    BY <2>1, <2>2 DEF SumOfUnfolds
<1>2. ASSUME NEW k \in 1..n
      PROVE  SumOf(ps, 1..k) = SumOf(ps, 1..(k - 1)) + ps[k].amount
  <2>1. 1..k \in SUBSET (1..n) /\ 1..k /= {}
    OBVIOUS
  <2>2. Max(1..k) = k /\ Below(1..k) = 1..(k - 1)
    BY UpTo
  <2>3. SumOfUnfolds(ps, 1..k)
    BY <2>1, SumOfTerminates
  <2> QED
    BY <2>1, <2>2, <2>3 DEF SumOfUnfolds
<1> QED
  BY <1>1, <1>2
-----------------------------------------------------------------------------
Counts(ps) == \A i \in DOMAIN ps : ps[i].amount \in Nat

LEMMA AmountIsSum ==
    ASSUME NEW ps
    PROVE  Amount(ps) = SumOf(ps, DOMAIN ps)
BY DEF Amount, FoldLeft, SumOf, MapThenFoldSet

LEMMA SumOfNat ==
    ASSUME NEW n \in Nat, NEW ps, \A i \in 1..n : ps[i].amount \in Nat
    PROVE  \A k \in 0..n : SumOf(ps, 1..k) \in Nat
<1> DEFINE B == {k \in 0..n : SumOf(ps, 1..k) \notin Nat}
<1> SUFFICES ASSUME B /= {} PROVE FALSE
  OBVIOUS
<1>1. PICK m \in B : \A k \in B : m <= k
  <2>1. B \in SUBSET Nat
    OBVIOUS
  <2> HIDE DEF B
  <2> QED
    BY <2>1, LeastNumber
<1>2. m /= 0
  BY <1>1, SumOfSteps
<1>3. m \in 1..n /\ m - 1 \in 0..n /\ m - 1 \notin B
  BY <1>1, <1>2
<1>4. SumOf(ps, 1..m) = SumOf(ps, 1..(m - 1)) + ps[m].amount
  BY <1>3, SumOfSteps
<1> QED
  BY <1>1, <1>3, <1>4

LEMMA SumAgrees ==
    ASSUME NEW n \in Nat, NEW ps, NEW qs, \A i \in 1..n : ps[i] = qs[i]
    PROVE  SumOf(ps, 1..n) = SumOf(qs, 1..n)
<1> DEFINE B == {k \in 0..n : SumOf(ps, 1..k) /= SumOf(qs, 1..k)}
<1> SUFFICES ASSUME B /= {} PROVE FALSE
  OBVIOUS
<1>1. PICK m \in B : \A k \in B : m <= k
  <2>1. B \in SUBSET Nat
    OBVIOUS
  <2> HIDE DEF B
  <2> QED
    BY <2>1, LeastNumber
<1>2. m /= 0
  BY <1>1, SumOfSteps
<1>3. m \in 1..n /\ m - 1 \in 0..n /\ m - 1 \notin B
  BY <1>1, <1>2
<1>4. /\ SumOf(ps, 1..m) = SumOf(ps, 1..(m - 1)) + ps[m].amount
      /\ SumOf(qs, 1..m) = SumOf(qs, 1..(m - 1)) + qs[m].amount
  BY <1>3, SumOfSteps
<1> QED
  BY <1>1, <1>3, <1>4

(* What the greedy loop needs of the amount of a list.                     *)
LEMMA AmountEmpty == Amount(<<>>) = 0
<1>1. DOMAIN <<>> = 1..0
  OBVIOUS
<1> QED
  BY <1>1, AmountIsSum, SumOfSteps

LEMMA AmountNat ==
    ASSUME NEW S, NEW ps \in Seq(S), Counts(ps)
    PROVE  Amount(ps) \in Nat
<1>1. DOMAIN ps = 1..Len(ps) /\ Len(ps) \in Nat /\ Len(ps) \in 0..Len(ps)
  OBVIOUS
<1> QED
  BY <1>1, AmountIsSum, SumOfNat DEF Counts

LEMMA AmountAppend ==
    ASSUME NEW S, NEW ps \in Seq(S), NEW p \in S
    PROVE  Amount(Append(ps, p)) = Amount(ps) + p.amount
<1> DEFINE n == Len(ps)
           qs == Append(ps, p)
<1>1. /\ n \in Nat /\ DOMAIN ps = 1..n /\ DOMAIN qs = 1..(n + 1) /\ n + 1 \in Nat
      /\ qs[n + 1] = p /\ \A i \in 1..n : qs[i] = ps[i]
  OBVIOUS
<1> HIDE DEF n, qs
<1>2. SumOf(qs, 1..(n + 1)) = SumOf(qs, 1..(n + 1 - 1)) + qs[n + 1].amount
  BY <1>1, SumOfSteps
<1>3. SumOf(qs, 1..n) = SumOf(ps, 1..n)
  BY <1>1, SumAgrees
<1>4. Amount(qs) = Amount(ps) + p.amount
  <2>1. n + 1 - 1 = n
    BY <1>1
  <2> QED
    BY <1>1, <1>2, <1>3, <2>1, AmountIsSum
<1> QED
  BY <1>4 DEF qs
-----------------------------------------------------------------------------
(* A list cut into groups: each group is a piece of the list, start[m] is  *)
(* the place before its first payment, and the pieces cover the first e.   *)
Priced(P) == \A p \in P : p.amount \in Nat
GroupOf(P) == [tier : 1..4, isIndividual : BOOLEAN, payments : Seq(P), batchIndex : Nat]
Cut(gs, ps, start, e) ==
    /\ start \in [DOMAIN gs -> Nat]
    /\ e \in 0..Len(ps)
    /\ \A m \in DOMAIN gs :
          /\ gs[m].payments /= <<>>
          /\ start[m] + Len(gs[m].payments) <= e
          /\ \A j \in DOMAIN gs[m].payments : gs[m].payments[j] = ps[start[m] + j]
    /\ \A m, l \in DOMAIN gs : m < l => start[m] + Len(gs[m].payments) <= start[l]
    /\ \A i \in 1..e : \E m \in DOMAIN gs : \E j \in DOMAIN gs[m].payments : i = start[m] + j

LEMMA CutGrows ==
    ASSUME NEW P, NEW gs \in Seq(GroupOf(P)), NEW ps \in Seq(P), NEW start, NEW e, Cut(gs, ps, start, e),
           NEW b \in GroupOf(P), b.payments /= <<>>, e + Len(b.payments) <= Len(ps),
           \A j \in DOMAIN b.payments : b.payments[j] = ps[e + j]
    PROVE  \E s : Cut(Append(gs, b), ps, s, e + Len(b.payments))
<1> DEFINE n == Len(gs)
           hs == Append(gs, b)
           s == [m \in 1..(n + 1) |-> IF m = n + 1 THEN e ELSE start[m]]
           d == e + Len(b.payments)
<1>1. /\ n \in Nat /\ DOMAIN gs = 1..n /\ DOMAIN hs = 1..(n + 1)
      /\ hs[n + 1] = b /\ \A m \in 1..n : hs[m] = gs[m]
  OBVIOUS
<1> HIDE DEF n, hs
<1>2. b.payments \in Seq(P) /\ Len(b.payments) \in Nat /\ DOMAIN b.payments = 1..Len(b.payments)
  BY DEF GroupOf
<1>3. /\ e \in Nat /\ Len(ps) \in Nat /\ d \in 0..Len(ps) /\ start \in [1..n -> Nat]
      /\ \A m \in 1..n : start[m] + Len(gs[m].payments) <= e
  <2>1. /\ e \in 0..Len(ps) /\ start \in [1..n -> Nat]
        /\ \A m \in 1..n : start[m] + Len(gs[m].payments) <= e
    BY <1>1 DEF Cut
  <2>2. Len(ps) \in Nat
    OBVIOUS
  <2> QED
    BY <1>2, <2>1, <2>2
<1>4. \A m \in 1..n : gs[m].payments \in Seq(P) /\ Len(gs[m].payments) \in Nat
  <2>1. \A m \in 1..n : gs[m] \in GroupOf(P)
    BY <1>1
  <2> QED
    BY <2>1 DEF GroupOf
<1>5. s \in [1..(n + 1) -> Nat] /\ s[n + 1] = e /\ \A m \in 1..n : s[m] = start[m]
  BY <1>1, <1>3
<1> HIDE DEF s
<1>6. ASSUME NEW m \in 1..(n + 1)
      PROVE  /\ hs[m].payments /= <<>>
             /\ s[m] + Len(hs[m].payments) <= d
             /\ \A j \in DOMAIN hs[m].payments : hs[m].payments[j] = ps[s[m] + j]
  <2>1. CASE m = n + 1
    <3>1. hs[m] = b /\ s[m] = e
      BY <1>1, <1>5, <2>1
    <3>2. s[m] + Len(hs[m].payments) <= d
      BY <1>2, <1>3, <3>1
    <3>3. \A j \in DOMAIN b.payments : hs[m].payments[j] = ps[s[m] + j]
      BY <3>1
    <3> QED
      BY <3>1, <3>2, <3>3
  <2>2. CASE m \in 1..n
    <3>1. hs[m] = gs[m] /\ s[m] = start[m]
      BY <1>1, <1>5, <2>2
    <3>2. /\ gs[m].payments /= <<>>
          /\ start[m] + Len(gs[m].payments) <= e
          /\ \A j \in DOMAIN gs[m].payments : gs[m].payments[j] = ps[start[m] + j]
      BY <1>1, <2>2 DEF Cut
    <3>3. start[m] \in Nat /\ Len(gs[m].payments) \in Nat
      BY <1>3, <1>4, <2>2
    <3> QED
      BY <1>2, <1>3, <3>1, <3>2, <3>3
  <2> QED
    BY <1>1, <2>1, <2>2
<1>7. ASSUME NEW m \in 1..(n + 1), NEW l \in 1..(n + 1), m < l
      PROVE  s[m] + Len(hs[m].payments) <= s[l]
  <2>1. m \in 1..n /\ hs[m] = gs[m] /\ s[m] = start[m]
    BY <1>1, <1>5, <1>7
  <2>2. CASE l = n + 1
    BY <1>3, <1>5, <2>1, <2>2
  <2>3. CASE l \in 1..n
    BY <1>1, <1>5, <1>7, <2>1, <2>3 DEF Cut
  <2> QED
    BY <1>1, <2>2, <2>3
<1>8. ASSUME NEW i \in 1..d
      PROVE  \E m \in 1..(n + 1) : \E j \in DOMAIN hs[m].payments : i = s[m] + j
  <2>1. CASE i <= e
    <3>1. i \in 1..e
      BY <1>3, <2>1
    <3>2. PICK m \in 1..n : \E j \in DOMAIN gs[m].payments : i = start[m] + j
      BY <1>1, <3>1 DEF Cut
    <3> QED
      BY <1>1, <1>5, <3>2
  <2>2. CASE i > e
    <3>1. i - e \in DOMAIN b.payments /\ i = e + (i - e)
      BY <1>2, <1>3, <2>2
    <3> QED
      BY <1>1, <1>5, <3>1
  <2> QED
    BY <1>3, <2>1, <2>2
<1> HIDE DEF d
<1>9. Cut(hs, ps, s, d)
  <2>1. s \in [DOMAIN hs -> Nat] /\ d \in 0..Len(ps)
    BY <1>1, <1>3, <1>5
  <2>2. \A m \in DOMAIN hs : /\ hs[m].payments /= <<>>
                            /\ s[m] + Len(hs[m].payments) <= d
                            /\ \A j \in DOMAIN hs[m].payments : hs[m].payments[j] = ps[s[m] + j]
    BY <1>1, <1>6
  <2>3. \A m, l \in DOMAIN hs : m < l => s[m] + Len(hs[m].payments) <= s[l]
    BY <1>1, <1>7
  <2>4. \A i \in 1..d : \E m \in DOMAIN hs : \E j \in DOMAIN hs[m].payments : i = s[m] + j
    BY <1>1, <1>8
  <2> QED
    BY <2>1, <2>2, <2>3, <2>4 DEF Cut
<1> QED
  BY <1>9 DEF hs, d

(* The batches of a tier: within both limits, numbered from 0, and none    *)
(* closed that could have taken the next payment as well.                  *)
Limit(batch) == IF batch = 0 THEN 1 ELSE batch
Fits(ps, batch) == Amount(ps) <= batchAmountCap /\ Len(ps) <= Limit(batch)
NoRoom(ps, p, batch) == Amount(ps) + p.amount > batchAmountCap \/ Len(ps) >= batch
GoodBatches(gs, tier, batch) ==
    \A m \in DOMAIN gs :
        /\ gs[m].tier = tier /\ ~gs[m].isIndividual /\ gs[m].batchIndex = m - 1
        /\ Fits(gs[m].payments, batch)
        /\ m > 1 => NoRoom(gs[m - 1].payments, gs[m].payments[1], batch)

LEMMA GoodGrows ==
    ASSUME NEW P, NEW gs \in Seq(GroupOf(P)), NEW tier \in 1..4, NEW batch, GoodBatches(gs, tier, batch),
           NEW current \in Seq(P), Fits(current, batch), NEW b, b = Batch(tier, current, Len(gs)),
           gs /= <<>> => NoRoom(gs[Len(gs)].payments, current[1], batch)
    PROVE  Append(gs, b) \in Seq(GroupOf(P)) /\ GoodBatches(Append(gs, b), tier, batch)
<1> DEFINE n == Len(gs)
           hs == Append(gs, b)
<1>1. /\ b \in GroupOf(P) /\ b.tier = tier /\ ~b.isIndividual /\ b.payments = current
      /\ b.batchIndex = n
  BY DEF Batch, GroupOf
<1>2. /\ n \in Nat /\ DOMAIN gs = 1..n /\ DOMAIN hs = 1..(n + 1) /\ hs \in Seq(GroupOf(P))
      /\ hs[n + 1] = b /\ (\A m \in 1..n : hs[m] = gs[m]) /\ (n > 0 => gs /= <<>>)
  BY <1>1
<1>3. n > 0 => NoRoom(gs[n].payments, current[1], batch)
  BY <1>2
<1> HIDE DEF n, hs
<1>4. ASSUME NEW m \in 1..(n + 1)
      PROVE  /\ hs[m].tier = tier /\ ~hs[m].isIndividual /\ hs[m].batchIndex = m - 1
             /\ Fits(hs[m].payments, batch)
             /\ m > 1 => NoRoom(hs[m - 1].payments, hs[m].payments[1], batch)
  <2>1. CASE m = n + 1
    <3>1. m > 1 => n > 0 /\ m - 1 = n /\ hs[m - 1] = gs[n]
      BY <1>2, <2>1
    <3>2. hs[m] = b /\ m - 1 = n
      BY <1>2, <2>1
    <3> QED
      BY <1>1, <1>3, <3>1, <3>2
  <2>2. CASE m \in 1..n
    <3>1. hs[m] = gs[m] /\ (m > 1 => hs[m - 1] = gs[m - 1])
      BY <1>2, <2>2
    <3> QED
      BY <1>2, <2>2, <3>1 DEF GoodBatches
  <2> QED
    BY <1>2, <2>1, <2>2
<1>5. GoodBatches(hs, tier, batch)
  BY <1>2, <1>4 DEF GoodBatches
<1> QED
  BY <1>2, <1>5 DEF hs

(* The greedy loop after k payments: those in its groups and in the batch  *)
(* being filled are the first k of the list.                               *)
LoopState(P) == [groups : Seq(GroupOf(P)), current : Seq(P), sum : Nat]
Filling(acc, k, ps, batch) ==
    /\ acc.sum = Amount(acc.current) /\ Fits(acc.current, batch)
    /\ acc.current = <<>> => k = 0 /\ acc.groups = <<>>
    /\ Len(acc.current) <= k
    /\ \A j \in DOMAIN acc.current : acc.current[j] = ps[k - Len(acc.current) + j]
    /\ acc.groups /= <<>> => NoRoom(acc.groups[Len(acc.groups)].payments, acc.current[1], batch)
LoopInv(acc, k, P, ps, tier, batch) ==
    /\ acc \in LoopState(P)
    /\ GoodBatches(acc.groups, tier, batch)
    /\ Filling(acc, k, ps, batch)
    /\ \E start : Cut(acc.groups, ps, start, k - Len(acc.current))

(* What a tier's payments have to be: no more than the cap each.           *)
TierList(P, ps) == ps \in Seq(P) /\ \A p \in P : p.amount \in 0..batchAmountCap

LEMMA CapNat == batchAmountCap \in Nat
BY ThresholdAssumption

LEMMA LoopStart ==
    ASSUME NEW P, NEW ps, TierList(P, ps), NEW tier \in 1..4, NEW batch \in Nat
    PROVE  LoopInv(NoBatch, 0, P, ps, tier, batch)
<1> DEFINE acc == NoBatch
<1>1. acc \in LoopState(P) /\ acc.groups = <<>> /\ acc.current = <<>> /\ acc.sum = 0
  BY DEF NoBatch, LoopState
<1> HIDE DEF acc
<1>2. Filling(acc, 0, ps, batch)
  <2>1. Len(<<>>) = 0 /\ DOMAIN <<>> = {} /\ Limit(batch) \in Nat
    BY DEF Limit
  <2>2. Fits(<<>>, batch)
    BY <2>1, AmountEmpty, CapNat DEF Fits
  <2> QED
    BY <1>1, <2>1, <2>2, AmountEmpty DEF Filling
<1>3. GoodBatches(<<>>, tier, batch)
  BY DEF GoodBatches
<1>4. Cut(<<>>, ps, <<>>, 0)
  <2>1. DOMAIN <<>> = {} /\ <<>> \in [{} -> Nat] /\ 0 \in 0..Len(ps)
    BY DEF TierList
  <2> QED
    BY <2>1 DEF Cut
<1>5. 0 - Len(acc.current) = 0
  <2>1. Len(acc.current) = 0
    BY <1>1
  <2> QED
    BY <2>1
<1>6. LoopInv(acc, 0, P, ps, tier, batch)
  BY <1>1, <1>2, <1>3, <1>4, <1>5 DEF LoopInv
<1> QED
  BY <1>6 DEF acc

(* A flush puts the batch being filled behind the others.                  *)
LEMMA FlushGroups ==
    ASSUME NEW P, NEW ps, TierList(P, ps), NEW tier \in 1..4, NEW batch \in Nat, NEW k \in 0..Len(ps),
           NEW acc, LoopInv(acc, k, P, ps, tier, batch), acc.current /= <<>>
    PROVE  /\ Flush(tier, acc) \in LoopState(P)
           /\ Flush(tier, acc).current = <<>> /\ Flush(tier, acc).sum = 0
           /\ GoodBatches(Flush(tier, acc).groups, tier, batch)
           /\ \E start : Cut(Flush(tier, acc).groups, ps, start, k)
           /\ Flush(tier, acc).groups /= <<>>
           /\ Flush(tier, acc).groups[Len(Flush(tier, acc).groups)].payments = acc.current
<1> DEFINE b == Batch(tier, acc.current, Len(acc.groups))
           hs == Append(acc.groups, b)
           n == Len(acc.groups)
<1>1. /\ acc.groups \in Seq(GroupOf(P)) /\ acc.current \in Seq(P)
      /\ GoodBatches(acc.groups, tier, batch) /\ Filling(acc, k, ps, batch)
  BY DEF LoopInv, LoopState
<1>2. PICK start : Cut(acc.groups, ps, start, k - Len(acc.current))
  BY DEF LoopInv
<1>3. /\ b \in GroupOf(P) /\ b.payments = acc.current
  <2>1. n \in Nat
    BY <1>1
  <2> QED
    BY <1>1, <2>1 DEF Batch, GroupOf
<1>4. hs \in Seq(GroupOf(P)) /\ GoodBatches(hs, tier, batch)
  BY <1>1, GoodGrows DEF Filling
<1>5. Len(acc.current) \in Nat /\ k \in Nat /\ k <= Len(ps) /\ Len(acc.current) <= k /\ ps \in Seq(P)
  BY <1>1 DEF TierList, Filling
<1> DEFINE e == k - Len(acc.current)
<1>6. e + Len(acc.current) = k /\ \A j \in DOMAIN acc.current : acc.current[j] = ps[e + j]
  BY <1>1, <1>5 DEF Filling
<1>7. \E s : Cut(hs, ps, s, k)
  <2> HIDE DEF b, e
  <2>1. Cut(acc.groups, ps, start, e)
    BY <1>2 DEF e
  <2>2. \E s : Cut(Append(acc.groups, b), ps, s, e + Len(b.payments))
    BY <1>1, <1>3, <1>5, <1>6, <2>1, CutGrows
  <2> QED
    BY <1>3, <1>6, <2>2
<1>8. hs /= <<>> /\ hs[Len(hs)] = b
  <2> HIDE DEF b
  <2> QED
    BY <1>1, <1>3
<1>9. Flush(tier, acc) = [groups |-> hs, current |-> <<>>, sum |-> 0]
  BY DEF Flush
<1> HIDE DEF b, hs
<1> QED
  BY <1>3, <1>4, <1>7, <1>8, <1>9 DEF LoopState

LEMMA LoopTurn ==
    ASSUME NEW P, NEW ps, TierList(P, ps), NEW tier \in 1..4, NEW batch \in Nat, NEW k \in 0..Len(ps),
           NEW acc, LoopInv(acc, k, P, ps, tier, batch), k + 1 <= Len(ps)
    PROVE  LoopInv(NextPayment(tier, batch, acc, ps[k + 1]), k + 1, P, ps, tier, batch)
<1> DEFINE p == ps[k + 1]
           next == NextPayment(tier, batch, acc, p)
<1>1. /\ k \in Nat /\ ps \in Seq(P) /\ p \in P /\ p.amount \in Nat /\ p.amount <= batchAmountCap
      /\ batchAmountCap \in Nat
  BY CapNat DEF TierList
<1>2. /\ acc \in LoopState(P) /\ acc.groups \in Seq(GroupOf(P)) /\ acc.current \in Seq(P) /\ acc.sum \in Nat
      /\ GoodBatches(acc.groups, tier, batch) /\ Filling(acc, k, ps, batch)
  BY DEF LoopInv, LoopState
<1>3. /\ Append(<<>>, p) = <<p>> /\ <<p>> \in Seq(P) /\ Len(<<p>>) = 1 /\ <<p>>[1] = p /\ DOMAIN <<p>> = {1}
      /\ <<p>> /= <<>>
  BY <1>1
<1>4. Amount(<<p>>) = p.amount
  <2>1. <<>> \in Seq(P)
    OBVIOUS
  <2>2. Amount(Append(<<>>, p)) = Amount(<<>>) + p.amount
    BY <1>1, <2>1, AmountAppend
  <2> QED
    BY <1>1, <1>3, <2>2, AmountEmpty
<1>5. Fits(<<p>>, batch)
  BY <1>1, <1>3, <1>4 DEF Fits, Limit
<1> HIDE DEF p
<1>6. CASE Full(acc, p, batch)
  <2> DEFINE mid == Flush(tier, acc)
  <2>1. acc.current /= <<>> /\ NoRoom(acc.current, p, batch)
    BY <1>2, <1>6 DEF Full, NoRoom, Filling
  <2>2. /\ mid \in LoopState(P)
        /\ mid.current = <<>> /\ mid.sum = 0
        /\ GoodBatches(mid.groups, tier, batch)
        /\ \E start : Cut(mid.groups, ps, start, k)
        /\ mid.groups /= <<>>
        /\ mid.groups[Len(mid.groups)].payments = acc.current
    BY <2>1, FlushGroups
  <2> HIDE DEF mid
  <2>3. AddPayment(mid, p) = [groups |-> mid.groups, current |-> <<p>>, sum |-> 0 + p.amount]
    BY <1>3, <2>2 DEF AddPayment
  <2>4. next = [groups |-> mid.groups, current |-> <<p>>, sum |-> p.amount]
    BY <1>1, <1>6, <2>3 DEF NextPayment, mid
  <2> HIDE DEF next
  <2>5. next \in LoopState(P) /\ next.groups = mid.groups /\ next.current = <<p>> /\ next.sum = p.amount
    BY <1>1, <1>3, <2>2, <2>4 DEF LoopState
  <2>6. Filling(next, k + 1, ps, batch)
    BY <1>1, <1>3, <1>4, <1>5, <2>1, <2>2, <2>5 DEF Filling, p
  <2>7. k + 1 - Len(next.current) = k
    BY <1>1, <1>3, <2>5
  <2>8. LoopInv(next, k + 1, P, ps, tier, batch)
    BY <2>2, <2>5, <2>6, <2>7 DEF LoopInv
  <2> QED
    BY <2>8 DEF next, p
<1>7. CASE ~Full(acc, p, batch)
  <2> DEFINE cur == Append(acc.current, p)
             n == Len(acc.current)
  <2>1. next = [groups |-> acc.groups, current |-> cur, sum |-> acc.sum + p.amount]
    BY <1>2, <1>7 DEF NextPayment, AddPayment
  <2>2. /\ n \in Nat /\ cur \in Seq(P) /\ Len(cur) = n + 1 /\ cur /= <<>> /\ DOMAIN acc.current = 1..n
        /\ DOMAIN cur = 1..(n + 1) /\ cur[n + 1] = p /\ \A j \in 1..n : cur[j] = acc.current[j]
    <3>1. acc.current \in Seq(P) /\ p \in P
      BY <1>1, <1>2
    <3> QED
      BY <3>1
  <2>3. Amount(cur) = acc.sum + p.amount
    BY <1>1, <1>2, AmountAppend DEF Filling
  <2> HIDE DEF cur, n, next
  <2>4. next \in LoopState(P) /\ next.groups = acc.groups /\ next.current = cur /\ next.sum = Amount(cur)
    BY <1>1, <1>2, <2>1, <2>2, <2>3 DEF LoopState
  <2>5. Fits(cur, batch)
    <3>1. CASE acc.current = <<>>
      BY <1>3, <1>5, <3>1 DEF cur
    <3>2. CASE acc.current /= <<>>
      <4>1. acc.sum + p.amount <= batchAmountCap /\ n < batch
        BY <1>1, <1>2, <1>7, <2>2, <3>2 DEF Full, n
      <4> QED
        BY <2>2, <2>3, <4>1 DEF Fits, Limit
    <3> QED
      BY <3>1, <3>2
  <2>6. acc.groups /= <<>> => NoRoom(acc.groups[Len(acc.groups)].payments, cur[1], batch)
    <3>1. acc.groups /= <<>> => acc.current /= <<>> /\ n >= 1 /\ cur[1] = acc.current[1]
      BY <1>2, <2>2 DEF Filling, n
    <3> QED
      BY <1>2, <3>1 DEF Filling
  <2>7. /\ n <= k
        /\ \A j \in 1..(n + 1) : cur[j] = ps[(k + 1) - (n + 1) + j]
    <3>1. n <= k /\ \A j \in 1..n : acc.current[j] = ps[k - n + j]
      BY <1>2, <2>2 DEF Filling, n
    <3>2. (k + 1) - (n + 1) = k - n /\ k - n + (n + 1) = k + 1
      BY <1>1, <2>2
    <3> QED
      BY <2>2, <3>1, <3>2 DEF p
  <2>8. Filling(next, k + 1, ps, batch)
    BY <1>1, <2>2, <2>4, <2>5, <2>6, <2>7 DEF Filling
  <2>9. k + 1 - Len(next.current) = k - Len(acc.current)
    <3>1. Len(acc.current) = n /\ Len(next.current) = n + 1
      BY <2>2, <2>4 DEF n
    <3>2. n \in Nat
      BY <2>2
    <3> QED
      BY <1>1, <3>1, <3>2
  <2>10. LoopInv(next, k + 1, P, ps, tier, batch)
    <3>1. PICK start : Cut(acc.groups, ps, start, k - Len(acc.current))
      BY DEF LoopInv
    <3>2. Cut(next.groups, ps, start, k + 1 - Len(next.current))
      BY <2>4, <2>9, <3>1
    <3> QED
      BY <1>2, <2>4, <2>8, <3>2 DEF LoopInv
  <2> QED
    BY <2>10 DEF next, p
<1> QED
  BY <1>6, <1>7

(* The batches buildTierBatches makes of a tier.                           *)
LEMMA TierBatches ==
    ASSUME NEW P, NEW ps, TierList(P, ps), NEW tier \in 1..4, NEW batch \in Nat
    PROVE  /\ buildTierBatches(tier, ps, batch) \in Seq(GroupOf(P))
           /\ GoodBatches(buildTierBatches(tier, ps, batch), tier, batch)
           /\ \E start : Cut(buildTierBatches(tier, ps, batch), ps, start, Len(ps))
<1> DEFINE n == Len(ps)
           acc(k) == Loop(tier, batch, ps, 1..k)
           B == {k \in 0..n : ~LoopInv(acc(k), k, P, ps, tier, batch)}
           gs == buildTierBatches(tier, ps, batch)
<1>1. n \in Nat /\ ps \in Seq(P) /\ DOMAIN ps = 1..n
  BY DEF TierList
<1>2. acc(0) = NoBatch /\ \A k \in 1..n : acc(k) = NextPayment(tier, batch, acc(k - 1), ps[k])
  <2>1. acc(0) = NoBatch
    BY LoopEmpty
  <2>2. ASSUME NEW k \in 1..n PROVE acc(k) = NextPayment(tier, batch, acc(k - 1), ps[k])
    <3>1. k \in Nat \ {0}
      BY <1>1
    <3> QED
      BY <3>1, LoopStep
  <2> QED
    BY <2>1, <2>2
<1> HIDE DEF acc
<1>3. B = {}
  <2> SUFFICES ASSUME B /= {} PROVE FALSE
    OBVIOUS
  <2>1. PICK m \in B : \A k \in B : m <= k
    <3>1. B \in SUBSET Nat
      OBVIOUS
    <3> HIDE DEF B
    <3> QED
      BY <3>1, LeastNumber
  <2>2. m /= 0
    BY <1>2, <2>1, LoopStart
  <2>3. m \in 1..n /\ m - 1 \in 0..n /\ m - 1 \notin B /\ m - 1 + 1 = m
    BY <1>1, <2>1, <2>2
  <2>4. LoopInv(acc(m - 1), m - 1, P, ps, tier, batch)
    BY <2>3
  <2>5. LoopInv(NextPayment(tier, batch, acc(m - 1), ps[m - 1 + 1]), m - 1 + 1, P, ps, tier, batch)
    BY <1>1, <2>3, <2>4, LoopTurn
  <2> QED
    BY <1>2, <2>1, <2>3, <2>5
<1>4. LoopInv(acc(n), n, P, ps, tier, batch)
  BY <1>1, <1>3
<1>5. gs = IF acc(n).current = <<>> THEN acc(n).groups ELSE Flush(tier, acc(n)).groups
  <2>1. FoldLeft(LAMBDA st, p : NextPayment(tier, batch, st, p), NoBatch, ps) = acc(n)
    BY <1>1 DEF FoldLeft, acc, Loop, MapThenFoldSet
  <2> QED
    BY <2>1 DEF buildTierBatches
<1> HIDE DEF n, gs
<1>6. CASE acc(n).current = <<>>
  <2>1. gs = acc(n).groups /\ n - Len(acc(n).current) = n
    <3>1. Len(acc(n).current) = 0
      BY <1>6
    <3> QED
      BY <1>1, <1>5, <1>6, <3>1
  <2>2. PICK start : Cut(acc(n).groups, ps, start, n - Len(acc(n).current))
    BY <1>4 DEF LoopInv
  <2>3. Cut(gs, ps, start, n)
    BY <2>1, <2>2
  <2>4. gs \in Seq(GroupOf(P)) /\ GoodBatches(gs, tier, batch)
    BY <1>4, <2>1 DEF LoopInv, LoopState
  <2> QED
    BY <2>3, <2>4 DEF gs, n
<1>7. CASE acc(n).current /= <<>>
  <2>1. gs = Flush(tier, acc(n)).groups
    BY <1>5, <1>7
  <2>2. n \in 0..Len(ps)
    BY <1>1 DEF n
  <2>3. /\ Flush(tier, acc(n)) \in LoopState(P)
        /\ GoodBatches(Flush(tier, acc(n)).groups, tier, batch)
        /\ \E start : Cut(Flush(tier, acc(n)).groups, ps, start, n)
    BY <1>4, <1>7, <2>2, FlushGroups
  <2>4. gs \in Seq(GroupOf(P)) /\ GoodBatches(gs, tier, batch) /\ \E start : Cut(gs, ps, start, n)
    BY <2>1, <2>3 DEF LoopState
  <2> QED
    BY <2>4 DEF gs, n
<1> QED
  BY <1>6, <1>7
-----------------------------------------------------------------------------
(* One list cut into groups behind another.                                *)
LEMMA CutJoin ==
    ASSUME NEW P, NEW gs \in Seq(GroupOf(P)), NEW hs \in Seq(GroupOf(P)),
           NEW S, NEW ps \in Seq(S), NEW qs \in Seq(S), NEW g, NEW h,
           Cut(gs, ps, g, Len(ps)), Cut(hs, qs, h, Len(qs))
    PROVE  \E start : Cut(gs \o hs, ps \o qs, start, Len(ps \o qs))
<1> DEFINE n == Len(gs)
           l == Len(hs)
           c == Len(ps)
           d == Len(qs)
           both == gs \o hs
           list == ps \o qs
           start == [m \in 1..(n + l) |-> IF m <= n THEN g[m] ELSE c + h[m - n]]
<1>1. /\ n \in Nat /\ l \in Nat /\ DOMAIN gs = 1..n /\ DOMAIN hs = 1..l /\ DOMAIN both = 1..(n + l)
      /\ (\A m \in 1..n : both[m] = gs[m]) /\ \A m \in 1..l : both[n + m] = hs[m]
  OBVIOUS
<1>2. /\ c \in Nat /\ d \in Nat /\ list \in Seq(S) /\ Len(list) = c + d
      /\ (\A j \in 1..c : list[j] = ps[j]) /\ \A j \in 1..d : list[c + j] = qs[j]
  OBVIOUS
<1>3. /\ \A m \in 1..n : gs[m].payments \in Seq(P) /\ Len(gs[m].payments) \in Nat
      /\ \A m \in 1..l : hs[m].payments \in Seq(P) /\ Len(hs[m].payments) \in Nat
  <2>1. (\A m \in 1..n : gs[m] \in GroupOf(P)) /\ \A m \in 1..l : hs[m] \in GroupOf(P)
    BY <1>1
  <2> QED
    BY <2>1 DEF GroupOf
<1> HIDE DEF n, l, c, d, both, list
<1>n. n \in Nat /\ l \in Nat /\ c \in Nat /\ d \in Nat
  BY <1>1, <1>2
<1>d. DOMAIN both = 1..(n + l) /\ DOMAIN hs = 1..l
  BY <1>1
<1>4. /\ g \in [1..n -> Nat] /\ h \in [1..l -> Nat]
      /\ (\A m \in 1..n : g[m] + Len(gs[m].payments) <= c)
      /\ \A m \in 1..l : h[m] + Len(hs[m].payments) <= d
  BY <1>1 DEF Cut, c, d
<1>5. /\ start \in [1..(n + l) -> Nat]
      /\ (\A m \in 1..n : start[m] = g[m]) /\ \A m \in 1..l : start[n + m] = c + h[m]
  <2>1. \A m \in 1..(n + l) : (IF m <= n THEN g[m] ELSE c + h[m - n]) \in Nat
    <3> SUFFICES ASSUME NEW m \in 1..(n + l) PROVE (IF m <= n THEN g[m] ELSE c + h[m - n]) \in Nat
      OBVIOUS
    <3>1. m \in 1..n \/ (~(m <= n) /\ m - n \in 1..l)
      BY <1>n
    <3>2. \A i \in 1..n : g[i] \in Nat /\ i <= n
      BY <1>n, <1>4
    <3>3. \A i \in 1..l : c + h[i] \in Nat
      BY <1>n, <1>4
    <3> QED
      BY <3>1, <3>2, <3>3
  <2>2. \A m \in 1..n : m \in 1..(n + l) /\ m <= n
    BY <1>n
  <2>3. \A m \in 1..l : n + m \in 1..(n + l) /\ ~(n + m <= n) /\ n + m - n = m
    BY <1>n
  <2>4. start \in [1..(n + l) -> Nat] /\ \A m \in 1..(n + l) : start[m] = IF m <= n THEN g[m] ELSE c + h[m - n]
    BY <2>1
  <2> HIDE DEF start
  <2>5. \A m \in 1..n : start[m] = g[m]
    BY <2>2, <2>4
  <2>6. ASSUME NEW m \in 1..l PROVE start[n + m] = c + h[m]
    <3> DEFINE k == n + m
    <3>1. k \in 1..(n + l) /\ ~(k <= n) /\ k - n = m
      BY <1>n
    <3> HIDE DEF k
    <3>2. start[k] = c + h[m]
      BY <2>4, <3>1
    <3> QED
      BY <3>2 DEF k
  <2> QED
    BY <2>4, <2>5, <2>6
<1> HIDE DEF start
<1>6. \A m \in 1..(n + l) : m \in 1..n \/ (m - n \in 1..l /\ m = n + (m - n))
  BY <1>1
<1>7. ASSUME NEW m \in 1..(n + l)
      PROVE  /\ both[m].payments /= <<>>
             /\ start[m] + Len(both[m].payments) <= c + d
             /\ \A j \in DOMAIN both[m].payments : both[m].payments[j] = list[start[m] + j]
  <2>1. CASE m \in 1..n
    <3>1. both[m] = gs[m] /\ start[m] = g[m] /\ g[m] \in Nat
      BY <1>1, <1>4, <1>5, <2>1
    <3>2. /\ gs[m].payments /= <<>>
          /\ \A j \in DOMAIN gs[m].payments : gs[m].payments[j] = ps[g[m] + j]
      BY <1>1, <2>1 DEF Cut
    <3>3. gs[m].payments \in Seq(P) /\ Len(gs[m].payments) \in Nat /\ g[m] + Len(gs[m].payments) <= c
      BY <1>3, <1>4, <2>1
    <3> DEFINE pay == gs[m].payments
    <3>4. DOMAIN pay = 1..Len(pay) /\ Len(pay) \in Nat /\ g[m] + Len(pay) <= c
      BY <3>3
    <3> HIDE DEF pay
    <3>5. \A j \in DOMAIN pay : g[m] + j \in 1..c
      BY <1>n, <3>1, <3>4
    <3>6. \A j \in DOMAIN pay : pay[j] = list[g[m] + j]
      BY <1>2, <3>2, <3>5 DEF pay
    <3>7. g[m] + Len(pay) <= c + d
      BY <1>n, <3>1, <3>4
    <3> QED
      BY <3>1, <3>2, <3>6, <3>7 DEF pay
  <2>2. CASE m - n \in 1..l
    <3> DEFINE i == m - n
    <3>1. both[m] = hs[i] /\ start[m] = c + h[i] /\ h[i] \in Nat
      BY <1>1, <1>4, <1>5, <1>6, <2>2
    <3>2. /\ hs[i].payments /= <<>>
          /\ \A j \in DOMAIN hs[i].payments : hs[i].payments[j] = qs[h[i] + j]
      BY <1>1, <2>2 DEF Cut
    <3>3. hs[i].payments \in Seq(P) /\ Len(hs[i].payments) \in Nat /\ h[i] + Len(hs[i].payments) <= d
      BY <1>3, <1>4, <2>2
    <3> DEFINE pay == hs[i].payments
    <3> HIDE DEF i
    <3>4. DOMAIN pay = 1..Len(pay) /\ Len(pay) \in Nat /\ h[i] + Len(pay) <= d
      BY <3>3
    <3> HIDE DEF pay
    <3>5. \A j \in DOMAIN pay : h[i] + j \in 1..d /\ (c + h[i]) + j = c + (h[i] + j)
      BY <1>n, <3>1, <3>4
    <3>6. \A j \in DOMAIN pay : pay[j] = list[(c + h[i]) + j]
      BY <1>2, <3>2, <3>5 DEF pay
    <3>7. (c + h[i]) + Len(pay) <= c + d
      BY <1>n, <3>1, <3>4
    <3> QED
      BY <3>1, <3>2, <3>6, <3>7 DEF pay
  <2> QED
    BY <1>6, <2>1, <2>2
<1>8. ASSUME NEW m \in 1..(n + l), NEW k \in 1..(n + l), m < k
      PROVE  start[m] + Len(both[m].payments) <= start[k]
  <2>1. CASE k \in 1..n
    <3>1. m \in 1..n
      BY <1>1, <1>8, <2>1
    <3> QED
      BY <1>1, <1>5, <1>8, <2>1, <3>1 DEF Cut
  <2>2. CASE k - n \in 1..l /\ m \in 1..n
    <3>1. both[m] = gs[m] /\ start[m] = g[m] /\ start[k] = c + h[k - n] /\ h[k - n] \in Nat
      BY <1>1, <1>4, <1>5, <1>6, <2>2
    <3>2. g[m] + Len(gs[m].payments) <= c
      BY <1>4, <2>2
    <3>3. g[m] \in Nat /\ Len(gs[m].payments) \in Nat
      BY <1>3, <1>4, <2>2
    <3>4. g[m] + Len(gs[m].payments) <= c + h[k - n]
      <4>1. \A x, y, z \in Nat : x + y <= c => x + y <= c + z
        BY <1>n
      <4> QED
        BY <3>1, <3>2, <3>3, <4>1
    <3> QED
      BY <3>1, <3>4
  <2>3. CASE k - n \in 1..l /\ m - n \in 1..l
    <3>0. m - n < k - n /\ m = n + (m - n) /\ k = n + (k - n)
      BY <1>n, <1>8
    <3>1. both[m] = hs[m - n] /\ start[m] = c + h[m - n] /\ start[k] = c + h[k - n] /\ m - n < k - n
      BY <1>1, <1>5, <2>3, <3>0
    <3>2. h[m - n] \in Nat /\ h[k - n] \in Nat /\ Len(hs[m - n].payments) \in Nat
      BY <1>3, <1>4, <2>3
    <3>3. h[m - n] + Len(hs[m - n].payments) <= h[k - n]
      <4> DEFINE x == m - n
                 y == k - n
      <4>1. x \in DOMAIN hs /\ y \in DOMAIN hs /\ x < y
        BY <1>d, <2>3, <3>1
      <4> HIDE DEF x, y
      <4>2. h[x] + Len(hs[x].payments) <= h[y]
        BY <4>1 DEF Cut
      <4> QED
        BY <4>2 DEF x, y
    <3>4. (c + h[m - n]) + Len(hs[m - n].payments) <= c + h[k - n]
      <4>1. \A x, y, z \in Nat : x + y <= z => (c + x) + y <= c + z
        BY <1>n
      <4> QED
        BY <3>2, <3>3, <4>1
    <3> QED
      BY <3>1, <3>4
  <2>4. k \in 1..n \/ (k - n \in 1..l /\ m \in 1..n) \/ (k - n \in 1..l /\ m - n \in 1..l)
    BY <1>n, <1>8
  <2> QED
    BY <2>1, <2>2, <2>3, <2>4
<1>9. ASSUME NEW i \in 1..(c + d)
      PROVE  \E m \in 1..(n + l) : \E j \in DOMAIN both[m].payments : i = start[m] + j
  <2>1. CASE i <= c
    <3>1. i \in 1..c
      BY <1>2, <2>1
    <3>2. PICK m \in 1..n : \E j \in DOMAIN gs[m].payments : i = g[m] + j
      <4>1. \A x \in 1..c : \E m \in DOMAIN gs : \E j \in DOMAIN gs[m].payments : x = g[m] + j
        BY DEF Cut, c
      <4> QED
        BY <1>1, <3>1, <4>1
    <3>3. m \in 1..(n + l) /\ both[m] = gs[m] /\ start[m] = g[m]
      BY <1>1, <1>5
    <3> QED
      BY <3>2, <3>3
  <2>2. CASE i > c
    <3>1. i - c \in 1..d
      BY <1>2, <2>2
    <3>2. PICK m \in 1..l : \E j \in DOMAIN hs[m].payments : i - c = h[m] + j
      <4>1. \A x \in 1..d : \E m \in DOMAIN hs : \E j \in DOMAIN hs[m].payments : x = h[m] + j
        BY DEF Cut, d
      <4> QED
        BY <1>1, <3>1, <4>1
    <3>3. PICK j \in DOMAIN hs[m].payments : i - c = h[m] + j
      BY <3>2
    <3>4. n + m \in 1..(n + l) /\ both[n + m] = hs[m] /\ start[n + m] = c + h[m]
      BY <1>1, <1>5
    <3>5. i = start[n + m] + j
      <4>1. hs[m].payments \in Seq(P)
        BY <1>3
      <4>2. j \in Nat
        BY <3>3, <4>1
      <4>3. h[m] \in Nat
        BY <1>4, <3>2
      <4>4. i = (c + h[m]) + j
        <5>1. i \in Int
          BY <1>n
        <5>2. i - c = h[m] + j
          BY <3>3
        <5>3. \A x, y \in Nat : i - c = x + y => i = (c + x) + y
          BY <1>n, <5>1
        <5> QED
          BY <4>2, <4>3, <5>2, <5>3
      <4> QED
        BY <3>4, <4>4
    <3> QED
      BY <3>3, <3>4, <3>5
  <2> QED
    BY <1>2, <2>1, <2>2
<1>10. Cut(both, list, start, Len(list))
  <2>1. start \in [DOMAIN both -> Nat] /\ Len(list) \in 0..Len(list) /\ Len(list) = c + d
    BY <1>1, <1>2, <1>5
  <2>2. \A m \in DOMAIN both : /\ both[m].payments /= <<>>
                              /\ start[m] + Len(both[m].payments) <= Len(list)
                              /\ \A j \in DOMAIN both[m].payments : both[m].payments[j] = list[start[m] + j]
    BY <1>1, <1>7, <2>1
  <2>3. \A m, k \in DOMAIN both : m < k => start[m] + Len(both[m].payments) <= start[k]
    <3> SUFFICES ASSUME NEW m \in DOMAIN both, NEW k \in DOMAIN both, m < k
                 PROVE  start[m] + Len(both[m].payments) <= start[k]
      OBVIOUS
    <3> QED
      BY <1>d, <1>8
  <2>4. \A i \in 1..Len(list) : \E m \in DOMAIN both : \E j \in DOMAIN both[m].payments : i = start[m] + j
    <3>1. Len(list) = c + d
      BY <2>1
    <3>2. ASSUME NEW i \in 1..Len(list)
          PROVE  \E m \in DOMAIN both : \E j \in DOMAIN both[m].payments : i = start[m] + j
      <4>1. i \in 1..(c + d)
        BY <3>1
      <4>2. PICK m \in 1..(n + l) : \E j \in DOMAIN both[m].payments : i = start[m] + j
        BY <1>9, <4>1
      <4> QED
        BY <1>d, <4>2
    <3> QED
      BY <3>2
  <2> QED
    BY <2>1, <2>2, <2>3, <2>4 DEF Cut
<1> QED
  BY <1>10 DEF both, list

(* Two parts of a list arranged one behind the other.                      *)
Precedes(s, i, j) ==
    LET p == s[i]  q == s[j]  tier == TierOf(p.amount)
    IN  \/ tier < TierOf(q.amount)
        \/ /\ tier = TierOf(q.amount)
           /\ \/ IF tier = 2 THEN p.amount < q.amount ELSE p.amount > q.amount
              \/ p.amount = q.amount /\ i < j
InOrder(out, s, at) == \A k, m \in DOMAIN out : k < m => Precedes(s, at[k], at[m])

LEMMA ArrangedJoin ==
    ASSUME NEW s, NEW I, NEW J, I \cap J = {}, \A i \in I, j \in J : Precedes(s, i, j),
           NEW out, NEW more, NEW a, NEW b, Arranged(out, s, I, a), Arranged(more, s, J, b),
           InOrder(out, s, a), InOrder(more, s, b)
    PROVE  \E at : Arranged(out \o more, s, I \cup J, at) /\ InOrder(out \o more, s, at)
<1> DEFINE E == {s[i] : i \in I \cup J}
           n == Len(out)
           l == Len(more)
           both == out \o more
           at == [k \in 1..(n + l) |-> IF k <= n THEN a[k] ELSE b[k - n]]
<1>1. out \in Seq(E) /\ more \in Seq(E)
  <2>1. out \in Seq({s[i] : i \in I}) /\ more \in Seq({s[i] : i \in J})
    BY DEF Arranged
  <2>2. {s[i] : i \in I} \subseteq E /\ {s[i] : i \in J} \subseteq E
    OBVIOUS
  <2> HIDE DEF E
  <2> QED
    BY <2>1, <2>2
<1> HIDE DEF E
<1>2. /\ n \in Nat /\ l \in Nat /\ DOMAIN out = 1..n /\ DOMAIN more = 1..l /\ DOMAIN both = 1..(n + l)
      /\ both \in Seq(E)
      /\ (\A m \in 1..n : both[m] = out[m]) /\ \A m \in 1..l : both[n + m] = more[m]
  BY <1>1
<1> HIDE DEF n, l, both
<1>n. n \in Nat /\ l \in Nat
  BY <1>2
<1>3. a \in [1..n -> I] /\ b \in [1..l -> J]
  BY <1>2 DEF Arranged
<1>4. \A m \in 1..(n + l) : (m \in 1..n /\ m <= n) \/ (m - n \in 1..l /\ m = n + (m - n) /\ ~(m <= n))
  BY <1>n
<1>5. /\ at \in [1..(n + l) -> I \cup J]
      /\ (\A m \in 1..n : at[m] = a[m]) /\ \A m \in 1..l : at[n + m] = b[m]
  <2>1. \A m \in 1..n : m \in 1..(n + l) /\ m <= n
    BY <1>n
  <2>2. \A m \in 1..l : n + m \in 1..(n + l) /\ ~(n + m <= n) /\ n + m - n = m
    BY <1>n
  <2>3. \A m \in 1..(n + l) : (IF m <= n THEN a[m] ELSE b[m - n]) \in I \cup J
    BY <1>3, <1>4
  <2>4. at \in [1..(n + l) -> I \cup J] /\ \A m \in 1..(n + l) : at[m] = IF m <= n THEN a[m] ELSE b[m - n]
    BY <2>3
  <2> HIDE DEF at
  <2>5. \A m \in 1..n : at[m] = a[m]
    BY <2>1, <2>4
  <2>6. ASSUME NEW m \in 1..l PROVE at[n + m] = b[m]
    <3> DEFINE k == n + m
    <3>1. k \in 1..(n + l) /\ ~(k <= n) /\ k - n = m
      BY <1>n
    <3> HIDE DEF k
    <3>2. at[k] = b[m]
      BY <2>4, <3>1
    <3> QED
      BY <3>2 DEF k
  <2> QED
    BY <2>4, <2>5, <2>6
<1> HIDE DEF at
<1>6. ASSUME NEW k \in 1..(n + l), NEW m \in 1..(n + l), at[k] = at[m]
      PROVE  k = m
  <2>1. CASE k \in 1..n /\ m \in 1..n
    <3>1. a[k] = a[m]
      BY <1>5, <1>6, <2>1
    <3>2. k \in DOMAIN out /\ m \in DOMAIN out
      BY <1>2, <2>1
    <3> QED
      BY <3>1, <3>2 DEF Arranged
  <2>2. CASE k \in 1..n /\ m - n \in 1..l /\ m = n + (m - n)
    BY <1>3, <1>5, <1>6, <2>2
  <2>3. CASE m \in 1..n /\ k - n \in 1..l /\ k = n + (k - n)
    BY <1>3, <1>5, <1>6, <2>3
  <2>4. CASE k - n \in 1..l /\ k = n + (k - n) /\ m - n \in 1..l /\ m = n + (m - n)
    <3>1. b[k - n] = b[m - n]
      BY <1>5, <1>6, <2>4
    <3>2. k - n = m - n
      BY <1>2, <2>4, <3>1 DEF Arranged
    <3> QED
      BY <2>4, <3>2
  <2> QED
    BY <1>4, <2>1, <2>2, <2>3, <2>4
<1>7. ASSUME NEW i \in I \cup J PROVE \E k \in 1..(n + l) : at[k] = i
  <2>1. CASE i \in I
    <3>1. PICK k \in 1..n : a[k] = i
      BY <1>2, <2>1 DEF Arranged
    <3> QED
      BY <1>2, <1>5, <3>1
  <2>2. CASE i \in J
    <3>1. PICK k \in 1..l : b[k] = i
      BY <1>2, <2>2 DEF Arranged
    <3>2. n + k \in 1..(n + l) /\ at[n + k] = i
      BY <1>2, <1>5, <3>1
    <3> QED
      BY <3>2
  <2> QED
    BY <2>1, <2>2
<1>8. ASSUME NEW k \in 1..(n + l) PROVE both[k] = s[at[k]]
  <2>1. CASE k \in 1..n
    BY <1>2, <1>5, <2>1 DEF Arranged
  <2>2. CASE k - n \in 1..l /\ k = n + (k - n)
    <3>1. both[k] = more[k - n] /\ at[k] = b[k - n]
      BY <1>2, <1>5, <2>2
    <3> QED
      BY <1>2, <2>2, <3>1 DEF Arranged
  <2> QED
    BY <1>4, <2>1, <2>2
<1>9. ASSUME NEW k \in 1..(n + l), NEW m \in 1..(n + l), k < m
      PROVE  Precedes(s, at[k], at[m])
  <2>1. CASE k \in 1..n /\ m \in 1..n
    BY <1>2, <1>5, <1>9, <2>1 DEF InOrder
  <2>2. CASE k \in 1..n /\ m - n \in 1..l /\ m = n + (m - n)
    <3>1. at[k] \in I /\ at[m] \in J
      BY <1>3, <1>5, <2>2
    <3> QED
      BY <3>1
  <2>3. CASE m <= n /\ ~(k <= n)
    BY <1>2, <1>9, <2>3
  <2>4. CASE k - n \in 1..l /\ k = n + (k - n) /\ m - n \in 1..l /\ m = n + (m - n)
    <3>1. at[k] = b[k - n] /\ at[m] = b[m - n] /\ k - n < m - n
      BY <1>2, <1>5, <1>9, <2>4
    <3> QED
      BY <1>2, <2>4, <3>1 DEF InOrder
  <2> QED
    BY <1>4, <2>1, <2>2, <2>3, <2>4
<1>10. Arranged(both, s, I \cup J, at) /\ InOrder(both, s, at)
  <2>1. at \in [DOMAIN both -> I \cup J] /\ both \in Seq({s[i] : i \in I \cup J})
    BY <1>2, <1>5 DEF E
  <2>2. \A k, m \in DOMAIN both : at[k] = at[m] => k = m
    BY <1>2, <1>6
  <2>3. (\A i \in I \cup J : \E k \in DOMAIN both : at[k] = i) /\ \A k \in DOMAIN both : both[k] = s[at[k]]
    BY <1>2, <1>7, <1>8
  <2>4. InOrder(both, s, at)
    BY <1>2, <1>9 DEF InOrder
  <2> QED
    BY <2>1, <2>2, <2>3, <2>4 DEF Arranged
<1> QED
  BY <1>10 DEF both
-----------------------------------------------------------------------------
(* A list of payments, the indices of its valid ones, and those of a tier. *)
Listed(list) == {list[i] : i \in DOMAIN list}
IsList(list) == list \in Seq(Listed(list)) /\ \A i \in DOMAIN list : list[i].amount \in Nat
ValidAt(list) == {i \in DOMAIN list : validatePaymentAddress(list[i].address)}
InTier(list, t) == {i \in ValidAt(list) : TierOf(list[i].amount) = t}

LEMMA TierIs ==
    ASSUME NEW amount \in Nat
    PROVE  TierOf(amount) \in 1..4 /\ (TierOf(amount) /= 1 => amount <= batchAmountCap)
<1>1. /\ tier1IndividualThreshold \in Nat /\ tier2SmallThreshold \in Nat
      /\ tier3MediumThreshold \in Nat /\ batchAmountCap \in Nat
      /\ tier1IndividualThreshold <= batchAmountCap
      /\ tier2SmallThreshold < tier3MediumThreshold /\ tier3MediumThreshold < tier1IndividualThreshold
  BY ThresholdAssumption
<1>2. CASE amount > tier1IndividualThreshold
  <2>1. TierOf(amount) = 1
    BY <1>1, <1>2 DEF TierOf
  <2> QED
    BY <2>1
<1>3. CASE ~(amount > tier1IndividualThreshold)
  <2>1. amount <= batchAmountCap
    BY <1>1, <1>3
  <2>2. TierOf(amount) \in 1..4
    BY <1>1, <1>3 DEF TierOf
  <2> QED
    BY <2>1, <2>2
<1> QED
  BY <1>2, <1>3

(* The tier's list: sorted out of the valid ones.                          *)
Valid(list) == filterValidAddresses(list).valid
Sorted(list, t) ==
    LET Tier == {i \in DOMAIN Valid(list) : TierOf(Valid(list)[i].amount) = t}
    IN  IF t = 2 THEN SliceStable(Valid(list), Tier, LowestFirst)
                 ELSE SliceStable(Valid(list), Tier, HighestFirst)
InTierOrder(s, i, j, t) ==
    \/ IF t = 2 THEN s[i].amount < s[j].amount ELSE s[i].amount > s[j].amount
    \/ s[i].amount = s[j].amount /\ i < j

LEMMA ValidArranged ==
    ASSUME NEW list, IsList(list)
    PROVE  \E at : /\ Arranged(Valid(list), list, ValidAt(list), at)
                   /\ \A k, m \in DOMAIN Valid(list) : k < m => at[k] < at[m]
<1>1. list \in Seq(Listed(list)) /\ ValidAt(list) \in SUBSET DOMAIN list
  BY DEF IsList, ValidAt
<1>2. Valid(list) = SliceStable(list, ValidAt(list), AsListed)
  BY DEF Valid, filterValidAddresses, ValidAt
<1>3. \E at : /\ Arranged(SliceStable(list, ValidAt(list), AsListed), list, ValidAt(list), at)
              /\ \A k, m \in DOMAIN SliceStable(list, ValidAt(list), AsListed) : k < m => at[k] < at[m]
  BY <1>1, ArrangedAsListed
<1> QED
  BY <1>2, <1>3

LEMMA InvalidArranged ==
    ASSUME NEW list, IsList(list)
    PROVE  \E at : Arranged(filterValidAddresses(list).invalid, list, DOMAIN list \ ValidAt(list), at)
<1>1. list \in Seq(Listed(list)) /\ DOMAIN list \ ValidAt(list) \in SUBSET DOMAIN list
  BY DEF IsList, ValidAt
<1>2. filterValidAddresses(list).invalid = SliceStable(list, DOMAIN list \ ValidAt(list), AsListed)
  BY DEF filterValidAddresses, ValidAt
<1>3. \E at : /\ Arranged(SliceStable(list, DOMAIN list \ ValidAt(list), AsListed), list, DOMAIN list \ ValidAt(list), at)
              /\ \A k, m \in DOMAIN SliceStable(list, DOMAIN list \ ValidAt(list), AsListed) : k < m => at[k] < at[m]
  BY <1>1, ArrangedAsListed
<1> QED
  BY <1>2, <1>3

LEMMA TierSorted ==
    ASSUME NEW list, IsList(list), NEW t \in 1..4
    PROVE  \E at : Arranged(Sorted(list, t), list, InTier(list, t), at) /\ InOrder(Sorted(list, t), list, at)
<1> DEFINE valid == Valid(list)
           T == {i \in DOMAIN valid : TierOf(valid[i].amount) = t}
           out == Sorted(list, t)
<1>1. PICK a : /\ Arranged(valid, list, ValidAt(list), a)
               /\ \A k, m \in DOMAIN valid : k < m => a[k] < a[m]
  BY ValidArranged
<1>2. /\ a \in [DOMAIN valid -> ValidAt(list)] /\ ValidAt(list) \subseteq DOMAIN list
      /\ \A k \in DOMAIN valid : valid[k] = list[a[k]]
      /\ valid \in Seq({list[i] : i \in ValidAt(list)})
  BY <1>1 DEF Arranged, ValidAt
<1>3. \A i \in DOMAIN valid : valid[i].amount \in Nat
  BY <1>2 DEF IsList
<1> HIDE DEF valid
<1>4. PICK b : /\ Arranged(out, valid, T, b)
               /\ \A k, m \in DOMAIN out : k < m => InTierOrder(valid, b[k], b[m], t)
  <2>1. T \in SUBSET DOMAIN valid
    OBVIOUS
  <2>2. CASE t = 2
    <3>1. out = SliceStable(valid, T, LowestFirst)
      BY <2>2 DEF Sorted, valid
    <3> HIDE DEF T
    <3>2. \E at : /\ Arranged(SliceStable(valid, T, LowestFirst), valid, T, at)
                  /\ \A k, m \in DOMAIN SliceStable(valid, T, LowestFirst) : k < m =>
                       valid[at[k]].amount < valid[at[m]].amount
                         \/ (valid[at[k]].amount = valid[at[m]].amount /\ at[k] < at[m])
      BY <1>2, <1>3, <2>1, ArrangedLowestFirst
    <3> QED
      BY <2>2, <3>1, <3>2 DEF InTierOrder
  <2>3. CASE t /= 2
    <3>1. out = SliceStable(valid, T, HighestFirst)
      BY <2>3 DEF Sorted, valid
    <3> HIDE DEF T
    <3>2. \E at : /\ Arranged(SliceStable(valid, T, HighestFirst), valid, T, at)
                  /\ \A k, m \in DOMAIN SliceStable(valid, T, HighestFirst) : k < m =>
                       valid[at[k]].amount > valid[at[m]].amount
                         \/ (valid[at[k]].amount = valid[at[m]].amount /\ at[k] < at[m])
      BY <1>2, <1>3, <2>1, ArrangedHighestFirst
    <3> QED
      BY <2>3, <3>1, <3>2 DEF InTierOrder
  <2> QED
    BY <2>2, <2>3
<1> HIDE DEF out
<1> DEFINE at == [k \in DOMAIN out |-> a[b[k]]]
<1>5. b \in [DOMAIN out -> T] /\ T \subseteq DOMAIN valid
  BY <1>4 DEF Arranged
<1>6. ASSUME NEW k \in DOMAIN out
      PROVE  at[k] = a[b[k]] /\ at[k] \in InTier(list, t) /\ out[k] = list[at[k]] /\ list[at[k]] = valid[b[k]]
  <2>1. b[k] \in DOMAIN valid /\ TierOf(valid[b[k]].amount) = t /\ out[k] = valid[b[k]]
    BY <1>4, <1>5 DEF Arranged
  <2>2. a[b[k]] \in ValidAt(list) /\ valid[b[k]] = list[a[b[k]]]
    BY <1>2, <2>1
  <2> QED
    BY <2>1, <2>2 DEF InTier
<1>7. at \in [DOMAIN out -> InTier(list, t)]
  BY <1>6
<1> HIDE DEF at
<1>8. \A k, m \in DOMAIN out : at[k] = at[m] => k = m
  <2> SUFFICES ASSUME NEW k \in DOMAIN out, NEW m \in DOMAIN out, at[k] = at[m] PROVE k = m
    OBVIOUS
  <2>1. b[k] = b[m]
    BY <1>1, <1>5, <1>6 DEF Arranged
  <2> QED
    BY <1>4, <2>1 DEF Arranged
<1>9. \A i \in InTier(list, t) : \E k \in DOMAIN out : at[k] = i
  <2> SUFFICES ASSUME NEW i \in InTier(list, t) PROVE \E k \in DOMAIN out : at[k] = i
    OBVIOUS
  <2>1. PICK v \in DOMAIN valid : a[v] = i
    BY <1>1 DEF Arranged, InTier
  <2>2. v \in T
    BY <1>2, <2>1 DEF InTier
  <2>3. PICK k \in DOMAIN out : b[k] = v
    BY <1>4, <2>2 DEF Arranged
  <2> QED
    BY <1>6, <2>1, <2>3
<1>10. out \in Seq({list[i] : i \in InTier(list, t)})
  <2>1. out \in Seq({valid[i] : i \in T})
    BY <1>4 DEF Arranged
  <2>2. {valid[i] : i \in T} \subseteq {list[i] : i \in InTier(list, t)}
    <3>1. \A v \in T : a[v] \in InTier(list, t) /\ valid[v] = list[a[v]]
      BY <1>2 DEF InTier
    <3> QED
      BY <3>1
  <2> HIDE DEF T
  <2> QED
    BY <2>1, <2>2
<1>11. InOrder(out, list, at)
  <2> SUFFICES ASSUME NEW k \in DOMAIN out, NEW m \in DOMAIN out, k < m
               PROVE  Precedes(list, at[k], at[m])
    BY DEF InOrder
  <2>1. InTierOrder(valid, b[k], b[m], t)
    BY <1>4
  <2>2. /\ list[at[k]] = valid[b[k]] /\ list[at[m]] = valid[b[m]]
        /\ TierOf(list[at[k]].amount) = t /\ TierOf(list[at[m]].amount) = t
        /\ at[k] = a[b[k]] /\ at[m] = a[b[m]]
    BY <1>6 DEF InTier
  <2>3. b[k] < b[m] => at[k] < at[m]
    BY <1>1, <1>5, <2>2
  <2> QED
    BY <2>1, <2>2, <2>3 DEF InTierOrder, Precedes
<1> QED
  BY <1>6, <1>7, <1>8, <1>9, <1>10, <1>11 DEF Arranged, out

(* The groups of a tier, and what holds of any of them: the payments of    *)
(* one tier, within the limits, numbered within the tier and none closed   *)
(* early.                                                                  *)
TierGroups(list, t, batch) ==
    IF t = 1 THEN [k \in DOMAIN Sorted(list, 1) |-> Individual(Sorted(list, 1)[k])]
             ELSE buildTierBatches(t, Sorted(list, t), batch)

LEMMA SplitInTiers ==
    ASSUME NEW list, NEW batch
    PROVE  /\ splitPayments(list, batch).groups =
                 TierGroups(list, 1, batch) \o TierGroups(list, 2, batch)
                     \o TierGroups(list, 3, batch) \o TierGroups(list, 4, batch)
           /\ splitPayments(list, batch).invalidAddresses = filterValidAddresses(list).invalid
<1> DEFINE Tier(t) == {i \in DOMAIN Valid(list) : TierOf(Valid(list)[i].amount) = t}
           Groups(t) == buildTierBatches(t, Sorted(list, t), batch)
           Alone == [k \in DOMAIN Sorted(list, 1) |-> Individual(Sorted(list, 1)[k])]
<1>1. /\ Sorted(list, 1) = SliceStable(Valid(list), Tier(1), HighestFirst)
      /\ Sorted(list, 2) = SliceStable(Valid(list), Tier(2), LowestFirst)
      /\ Sorted(list, 3) = SliceStable(Valid(list), Tier(3), HighestFirst)
      /\ Sorted(list, 4) = SliceStable(Valid(list), Tier(4), HighestFirst)
  BY DEF Sorted
<1>2. splitPayments(list, batch) =
        [groups |-> Alone \o Groups(2) \o Groups(3) \o Groups(4),
         invalidAddresses |-> filterValidAddresses(list).invalid]
  BY <1>1, Zenon DEF splitPayments, Valid
<1>3. /\ TierGroups(list, 1, batch) = Alone
      /\ TierGroups(list, 2, batch) = Groups(2)
      /\ TierGroups(list, 3, batch) = Groups(3)
      /\ TierGroups(list, 4, batch) = Groups(4)
  BY DEF TierGroups
<1> HIDE DEF Groups, Alone
<1> QED
  BY <1>2, <1>3

Limits(group, batch) ==
    /\ group.isIndividual <=> group.tier = 1
    /\ group.isIndividual => Len(group.payments) = 1
    /\ ~group.isIndividual => Fits(group.payments, batch)
    /\ \A i \in DOMAIN group.payments : TierOf(group.payments[i].amount) = group.tier
Numbered(gs, k, batch) ==
    IF gs[k].isIndividual \/ k = 1 \/ gs[k - 1].tier /= gs[k].tier
    THEN gs[k].batchIndex = 0
    ELSE /\ gs[k].batchIndex = gs[k - 1].batchIndex + 1
         /\ NoRoom(gs[k - 1].payments, gs[k].payments[1], batch)
Lawful(gs, T, batch) ==
    \A k \in DOMAIN gs : gs[k].tier \in T /\ Limits(gs[k], batch) /\ Numbered(gs, k, batch)
Routes(gs, list, I) ==
    \E out, at, start :
        Arranged(out, list, I, at) /\ InOrder(out, list, at) /\ Cut(gs, out, start, Len(out))

LEMMA LawfulJoin ==
    ASSUME NEW G, NEW gs \in Seq(G), NEW hs \in Seq(G), NEW T, NEW U, T \cap U = {}, NEW batch,
           Lawful(gs, T, batch), Lawful(hs, U, batch),
           \A m \in DOMAIN hs : m = 1 => hs[m].batchIndex = 0
    PROVE  Lawful(gs \o hs, T \cup U, batch)
<1> DEFINE n == Len(gs)
           l == Len(hs)
           both == gs \o hs
<1>1. /\ n \in Nat /\ l \in Nat /\ DOMAIN gs = 1..n /\ DOMAIN hs = 1..l /\ DOMAIN both = 1..(n + l)
      /\ (\A m \in 1..n : both[m] = gs[m]) /\ \A m \in 1..l : both[n + m] = hs[m]
  OBVIOUS
<1> HIDE DEF n, l, both
<1>2. n \in Nat /\ l \in Nat
  BY <1>1
<1>3. ASSUME NEW k \in 1..(n + l)
      PROVE  both[k].tier \in T \cup U /\ Limits(both[k], batch) /\ Numbered(both, k, batch)
  <2>1. CASE k \in 1..n
    <3>1. both[k] = gs[k] /\ (k /= 1 => both[k - 1] = gs[k - 1])
      <4>1. k /= 1 => k - 1 \in 1..n
        BY <1>2, <2>1
      <4> QED
        BY <1>1, <2>1, <4>1
    <3>2. gs[k].tier \in T /\ Limits(gs[k], batch) /\ Numbered(gs, k, batch)
      BY <1>1, <2>1 DEF Lawful
    <3> QED
      BY <3>1, <3>2 DEF Numbered
  <2>2. CASE k = n + 1
    <3>1. 1 \in 1..l
      BY <1>2, <2>2
    <3>2. both[k] = hs[1] /\ hs[1].tier \in U /\ Limits(hs[1], batch) /\ hs[1].batchIndex = 0
      BY <1>1, <2>2, <3>1 DEF Lawful
    <3>3. k /= 1 => both[k - 1].tier \in T
      <4>1. k /= 1 => k - 1 \in 1..n
        BY <1>2, <2>2
      <4> QED
        BY <1>1, <4>1 DEF Lawful
    <3> QED
      BY <3>2, <3>3 DEF Numbered
  <2>3. CASE k > n + 1
    <3> DEFINE m == k - n
    <3>1. m \in 1..l /\ m - 1 \in 1..l /\ n + m = k /\ n + (m - 1) = k - 1 /\ m /= 1 /\ k /= 1
      BY <1>2, <2>3
    <3> HIDE DEF m
    <3>2. both[k] = hs[m] /\ both[k - 1] = hs[m - 1]
      BY <1>1, <3>1
    <3>3. hs[m].tier \in U /\ Limits(hs[m], batch) /\ Numbered(hs, m, batch)
      BY <1>1, <3>1 DEF Lawful
    <3> QED
      BY <3>1, <3>2, <3>3 DEF Numbered
  <2> QED
    BY <1>2, <2>1, <2>2, <2>3
<1>4. DOMAIN both = 1..(n + l)
  BY <1>1
<1>5. Lawful(both, T \cup U, batch)
  BY <1>3, <1>4 DEF Lawful
<1> QED
  BY <1>5 DEF both

LEMMA RoutesJoin ==
    ASSUME NEW P, NEW gs \in Seq(GroupOf(P)), NEW hs \in Seq(GroupOf(P)), NEW list, NEW I, NEW J,
           Routes(gs, list, I), Routes(hs, list, J),
           I \cap J = {}, \A i \in I, j \in J : Precedes(list, i, j)
    PROVE  Routes(gs \o hs, list, I \cup J)
<1>1. PICK out, a, g : Arranged(out, list, I, a) /\ InOrder(out, list, a) /\ Cut(gs, out, g, Len(out))
  BY DEF Routes
<1>2. PICK more, b, h : Arranged(more, list, J, b) /\ InOrder(more, list, b) /\ Cut(hs, more, h, Len(more))
  BY DEF Routes
<1>3. \E at : Arranged(out \o more, list, I \cup J, at) /\ InOrder(out \o more, list, at)
  BY <1>1, <1>2, ArrangedJoin
<1>4. \E start : Cut(gs \o hs, out \o more, start, Len(out \o more))
  <2> DEFINE E == {list[i] : i \in I \cup J}
  <2>1. out \in Seq({list[i] : i \in I}) /\ more \in Seq({list[i] : i \in J})
    BY <1>1, <1>2 DEF Arranged
  <2>2. {list[i] : i \in I} \subseteq E /\ {list[i] : i \in J} \subseteq E
    OBVIOUS
  <2> HIDE DEF E
  <2>3. out \in Seq(E) /\ more \in Seq(E)
    BY <2>1, <2>2
  <2> QED
    BY <1>1, <1>2, <2>3, CutJoin
<1> QED
  BY <1>3, <1>4 DEF Routes

LEMMA TierElements ==
    ASSUME NEW list, IsList(list), NEW t \in 1..4, NEW p \in {list[i] : i \in InTier(list, t)}
    PROVE  p \in Listed(list) /\ p.amount \in Nat /\ TierOf(p.amount) = t /\ (t /= 1 => p.amount \in 0..batchAmountCap)
<1>1. PICK i \in InTier(list, t) : p = list[i]
  OBVIOUS
<1>2. i \in DOMAIN list /\ TierOf(p.amount) = t
  BY <1>1 DEF InTier, ValidAt
<1>3. p \in Listed(list) /\ p.amount \in Nat
  BY <1>1, <1>2 DEF IsList, Listed
<1>4. t /= 1 => p.amount <= batchAmountCap
  BY <1>2, <1>3, TierIs
<1> QED
  BY <1>2, <1>3, <1>4, CapNat

LEMMA FirstTier ==
    ASSUME NEW list, IsList(list), NEW batch \in Nat
    PROVE  /\ TierGroups(list, 1, batch) \in Seq(GroupOf(Listed(list)))
           /\ Lawful(TierGroups(list, 1, batch), {1}, batch)
           /\ Routes(TierGroups(list, 1, batch), list, InTier(list, 1))
<1> DEFINE out == Sorted(list, 1)
           gs == TierGroups(list, 1, batch)
           n == Len(out)
           P == {list[i] : i \in InTier(list, 1)}
           start == [k \in 1..n |-> k - 1]
<1>1. PICK at : Arranged(out, list, InTier(list, 1), at) /\ InOrder(out, list, at)
  BY TierSorted
<1>2. out \in Seq(P)
  BY <1>1 DEF Arranged
<1>3. \A p \in P : p \in Listed(list) /\ TierOf(p.amount) = 1
  BY TierElements
<1>4. gs = [k \in DOMAIN out |-> Individual(out[k])]
  BY DEF TierGroups
<1> HIDE DEF P, out, gs
<1>5. n \in Nat /\ DOMAIN out = 1..n /\ \A k \in 1..n : out[k] \in P
  BY <1>2
<1> HIDE DEF n
<1>6. ASSUME NEW k \in 1..n
      PROVE  /\ Individual(out[k]) \in GroupOf(Listed(list))
             /\ Individual(out[k]).tier = 1 /\ Individual(out[k]).isIndividual
             /\ Individual(out[k]).payments = <<out[k]>> /\ Individual(out[k]).batchIndex = 0
  <2>1. out[k] \in Listed(list)
    BY <1>3, <1>5
  <2> QED
    BY <2>1 DEF Individual, GroupOf
<1>7. gs \in Seq(GroupOf(Listed(list))) /\ DOMAIN gs = 1..n
  <2>1. gs \in [1..n -> GroupOf(Listed(list))]
    BY <1>4, <1>5, <1>6
  <2> QED
    BY <1>5, <2>1
<1>8. \A k \in 1..n : /\ gs[k].tier = 1 /\ gs[k].isIndividual /\ gs[k].payments = <<out[k]>>
                      /\ gs[k].batchIndex = 0
  BY <1>4, <1>5, <1>6
<1>9. Lawful(gs, {1}, batch)
  <2> SUFFICES ASSUME NEW k \in 1..n
               PROVE  gs[k].tier \in {1} /\ Limits(gs[k], batch) /\ Numbered(gs, k, batch)
    BY <1>7 DEF Lawful
  <2>1. Len(<<out[k]>>) = 1 /\ DOMAIN <<out[k]>> = {1} /\ <<out[k]>>[1] = out[k] /\ TierOf(out[k].amount) = 1
    BY <1>3, <1>5
  <2> QED
    BY <1>8, <2>1 DEF Limits, Numbered
<1>10. Cut(gs, out, start, n)
  <2>1. start \in [DOMAIN gs -> Nat] /\ n \in 0..Len(out)
    BY <1>5, <1>7 DEF n
  <2>2. ASSUME NEW m \in 1..n
        PROVE  /\ gs[m].payments /= <<>> /\ Len(gs[m].payments) = 1 /\ DOMAIN gs[m].payments = {1}
               /\ gs[m].payments[1] = out[m] /\ start[m] = m - 1 /\ m \in Int
    <3>1. gs[m].payments = <<out[m]>>
      BY <1>8
    <3>2. start[m] = m - 1 /\ m \in Int
      BY <1>5
    <3> QED
      BY <3>1, <3>2
  <2> HIDE DEF start
  <2>3. \A m \in DOMAIN gs : /\ gs[m].payments /= <<>>
                            /\ start[m] + Len(gs[m].payments) <= n
                            /\ \A j \in DOMAIN gs[m].payments : gs[m].payments[j] = out[start[m] + j]
    <3> SUFFICES ASSUME NEW m \in 1..n
                 PROVE  /\ gs[m].payments /= <<>>
                        /\ start[m] + Len(gs[m].payments) <= n
                        /\ \A j \in DOMAIN gs[m].payments : gs[m].payments[j] = out[start[m] + j]
      BY <1>7
    <3>1. m - 1 + 1 = m /\ m <= n
      BY <1>5
    <3> QED
      BY <2>2, <3>1
  <2>4. \A m, k \in DOMAIN gs : m < k => start[m] + Len(gs[m].payments) <= start[k]
    <3> SUFFICES ASSUME NEW m \in 1..n, NEW k \in 1..n, m < k PROVE start[m] + Len(gs[m].payments) <= start[k]
      BY <1>7
    <3>1. start[m] + Len(gs[m].payments) = (m - 1) + 1 /\ start[k] = k - 1
      BY <2>2
    <3>2. (m - 1) + 1 <= k - 1
      BY <1>5
    <3> QED
      BY <3>1, <3>2
  <2>5. \A i \in 1..n : \E m \in DOMAIN gs : \E j \in DOMAIN gs[m].payments : i = start[m] + j
    <3> SUFFICES ASSUME NEW i \in 1..n
                 PROVE  \E m \in 1..n : \E j \in DOMAIN gs[m].payments : i = start[m] + j
      BY <1>7
    <3>1. i = start[i] + 1
      BY <2>2
    <3> QED
      BY <2>2, <3>1
  <2> QED
    BY <2>1, <2>3, <2>4, <2>5 DEF Cut
<1>11. Routes(gs, list, InTier(list, 1))
  BY <1>1, <1>10 DEF Routes, n
<1> QED
  BY <1>7, <1>9, <1>11 DEF gs

LEMMA LaterTier ==
    ASSUME NEW list, IsList(list), NEW t \in 2..4, NEW batch \in Nat
    PROVE  /\ TierGroups(list, t, batch) \in Seq(GroupOf(Listed(list)))
           /\ Lawful(TierGroups(list, t, batch), {t}, batch)
           /\ \A m \in DOMAIN TierGroups(list, t, batch) : m = 1 => TierGroups(list, t, batch)[m].batchIndex = 0
           /\ Routes(TierGroups(list, t, batch), list, InTier(list, t))
<1> DEFINE out == Sorted(list, t)
           gs == TierGroups(list, t, batch)
           P == {list[i] : i \in InTier(list, t)}
<1>0. t \in 1..4 /\ t /= 1
  OBVIOUS
<1>1. PICK at : Arranged(out, list, InTier(list, t), at) /\ InOrder(out, list, at)
  BY <1>0, TierSorted
<1>2. out \in Seq(P)
  BY <1>1 DEF Arranged
<1>3. \A p \in P : p \in Listed(list) /\ TierOf(p.amount) = t /\ p.amount \in 0..batchAmountCap
  BY <1>0, TierElements
<1>4. gs = buildTierBatches(t, out, batch)
  BY <1>0 DEF TierGroups
<1> HIDE DEF P, out, gs
<1>5. TierList(P, out)
  BY <1>2, <1>3 DEF TierList
<1>6. /\ gs \in Seq(GroupOf(P)) /\ GoodBatches(gs, t, batch)
      /\ \E start : Cut(gs, out, start, Len(out))
  BY <1>0, <1>4, <1>5, TierBatches
<1>7. gs \in Seq(GroupOf(Listed(list)))
  <2>1. GroupOf(P) \subseteq GroupOf(Listed(list))
    <3>1. P \subseteq Listed(list)
      BY <1>3
    <3>2. Seq(P) \subseteq Seq(Listed(list))
      BY <3>1
    <3> QED
      BY <3>2 DEF GroupOf
  <2> QED
    BY <1>6, <2>1
<1>8. \A k \in DOMAIN gs : gs[k].payments \in Seq(P) /\ k \in Nat \ {0} /\ (k /= 1 => k - 1 \in DOMAIN gs)
  <2>1. \A k \in DOMAIN gs : gs[k] \in GroupOf(P)
    BY <1>6
  <2>2. Len(gs) \in Nat /\ DOMAIN gs = 1..Len(gs)
    BY <1>6
  <2>3. \A k \in DOMAIN gs : k \in Nat \ {0} /\ (k /= 1 => k - 1 \in DOMAIN gs)
    BY <2>2
  <2> QED
    BY <2>1, <2>3 DEF GroupOf
<1>9. ASSUME NEW k \in DOMAIN gs
      PROVE  gs[k].tier \in {t} /\ Limits(gs[k], batch) /\ Numbered(gs, k, batch) /\ gs[k].batchIndex = k - 1
  <2>1. /\ gs[k].tier = t /\ ~gs[k].isIndividual /\ gs[k].batchIndex = k - 1
        /\ Fits(gs[k].payments, batch)
        /\ k > 1 => NoRoom(gs[k - 1].payments, gs[k].payments[1], batch)
    BY <1>6 DEF GoodBatches
  <2>2. k /= 1 => gs[k - 1].tier = t /\ gs[k - 1].batchIndex = k - 1 - 1 /\ k > 1
    BY <1>6, <1>8 DEF GoodBatches
  <2>3. \A i \in DOMAIN gs[k].payments : TierOf(gs[k].payments[i].amount) = t
    <3>1. \A i \in DOMAIN gs[k].payments : gs[k].payments[i] \in P
      BY <1>8
    <3> QED
      BY <1>3, <3>1
  <2>4. Limits(gs[k], batch)
    BY <1>0, <2>1, <2>3 DEF Limits
  <2>5. Numbered(gs, k, batch)
    <3>1. k - 1 = (k - 1 - 1) + 1 /\ 1 - 1 = 0
      BY <1>8
    <3> QED
      BY <2>1, <2>2, <3>1 DEF Numbered
  <2> QED
    BY <2>1, <2>4, <2>5
<1>10. Lawful(gs, {t}, batch)
  BY <1>9 DEF Lawful
<1>11. Routes(gs, list, InTier(list, t))
  BY <1>1, <1>6 DEF Routes
<1>12. \A m \in DOMAIN gs : m = 1 => gs[m].batchIndex = 0
  <2>1. 1 - 1 = 0
    OBVIOUS
  <2> QED
    BY <1>9, <2>1
<1> QED
  BY <1>7, <1>10, <1>11, <1>12 DEF gs

(* All groups of a call: what a split is, for every list.                  *)
LEMMA SplitRoutes ==
    ASSUME NEW list, IsList(list), NEW batch \in Nat
    PROVE  /\ splitPayments(list, batch).groups \in Seq(GroupOf(Listed(list)))
           /\ Lawful(splitPayments(list, batch).groups, 1..4, batch)
           /\ Routes(splitPayments(list, batch).groups, list, ValidAt(list))
<1> DEFINE G(t) == TierGroups(list, t, batch)
           I(t) == InTier(list, t)
           S == Seq(GroupOf(Listed(list)))
<1>1. \A t, u \in 1..4 : t < u => I(t) \cap I(u) = {} /\ \A i \in I(t), j \in I(u) : Precedes(list, i, j)
  BY DEF InTier, Precedes
<1>2. G(1) \in S /\ Lawful(G(1), {1}, batch) /\ Routes(G(1), list, I(1))
  BY FirstTier
<1>3. \A t \in 2..4 : /\ G(t) \in S /\ Lawful(G(t), {t}, batch) /\ Routes(G(t), list, I(t))
                      /\ \A m \in DOMAIN G(t) : m = 1 => G(t)[m].batchIndex = 0
  BY LaterTier
<1> HIDE DEF G, I
<1>4. /\ G(1) \o G(2) \in S /\ Lawful(G(1) \o G(2), {1, 2}, batch)
      /\ Routes(G(1) \o G(2), list, I(1) \cup I(2))
  <2> DEFINE gs == G(1)
             J == I(1)
  <2>1. {1} \cup {2} = {1, 2} /\ {1} \cap {2} = {}
    OBVIOUS
  <2>2. /\ G(2) \in S /\ Lawful(G(2), {2}, batch) /\ Routes(G(2), list, I(2))
        /\ \A m \in DOMAIN G(2) : m = 1 => G(2)[m].batchIndex = 0
    BY <1>3
  <2>3. J \cap I(2) = {} /\ \A i \in J, j \in I(2) : Precedes(list, i, j)
    BY <1>1
  <2>0. gs \in S /\ Lawful(gs, {1}, batch) /\ Routes(gs, list, J)
    BY <1>2
  <2> HIDE DEF gs, J
  <2>4. Lawful(gs \o G(2), {1} \cup {2}, batch)
    BY <2>0, <2>1, <2>2, LawfulJoin
  <2>5. Routes(gs \o G(2), list, J \cup I(2))
    BY <2>0, <2>2, <2>3, RoutesJoin
  <2>6. gs \o G(2) \in S
    BY <2>0, <2>2
  <2> QED
    BY <2>1, <2>4, <2>5, <2>6 DEF gs, J
<1>5. /\ G(1) \o G(2) \o G(3) \in S /\ Lawful(G(1) \o G(2) \o G(3), {1, 2, 3}, batch)
      /\ Routes(G(1) \o G(2) \o G(3), list, I(1) \cup I(2) \cup I(3))
  <2> DEFINE gs == G(1) \o G(2)
             J == I(1) \cup I(2)
  <2>1. {1, 2} \cup {3} = {1, 2, 3} /\ {1, 2} \cap {3} = {}
    OBVIOUS
  <2>2. /\ G(3) \in S /\ Lawful(G(3), {3}, batch) /\ Routes(G(3), list, I(3))
        /\ \A m \in DOMAIN G(3) : m = 1 => G(3)[m].batchIndex = 0
    BY <1>3
  <2>3. J \cap I(3) = {} /\ \A i \in J, j \in I(3) : Precedes(list, i, j)
    BY <1>1
  <2>0. gs \in S /\ Lawful(gs, {1, 2}, batch) /\ Routes(gs, list, J)
    BY <1>4
  <2> HIDE DEF gs, J
  <2>4. Lawful(gs \o G(3), {1, 2} \cup {3}, batch)
    BY <2>0, <2>1, <2>2, LawfulJoin
  <2>5. Routes(gs \o G(3), list, J \cup I(3))
    BY <2>0, <2>2, <2>3, RoutesJoin
  <2>6. gs \o G(3) \in S
    BY <2>0, <2>2
  <2> QED
    BY <2>1, <2>4, <2>5, <2>6 DEF gs, J
<1>6. /\ G(1) \o G(2) \o G(3) \o G(4) \in S /\ Lawful(G(1) \o G(2) \o G(3) \o G(4), {1, 2, 3, 4}, batch)
      /\ Routes(G(1) \o G(2) \o G(3) \o G(4), list, I(1) \cup I(2) \cup I(3) \cup I(4))
  <2> DEFINE gs == G(1) \o G(2) \o G(3)
             J == I(1) \cup I(2) \cup I(3)
  <2>1. {1, 2, 3} \cup {4} = {1, 2, 3, 4} /\ {1, 2, 3} \cap {4} = {}
    OBVIOUS
  <2>2. /\ G(4) \in S /\ Lawful(G(4), {4}, batch) /\ Routes(G(4), list, I(4))
        /\ \A m \in DOMAIN G(4) : m = 1 => G(4)[m].batchIndex = 0
    BY <1>3
  <2>3. J \cap I(4) = {} /\ \A i \in J, j \in I(4) : Precedes(list, i, j)
    BY <1>1
  <2>0. gs \in S /\ Lawful(gs, {1, 2, 3}, batch) /\ Routes(gs, list, J)
    BY <1>5
  <2> HIDE DEF gs, J
  <2>4. Lawful(gs \o G(4), {1, 2, 3} \cup {4}, batch)
    BY <2>0, <2>1, <2>2, LawfulJoin
  <2>5. Routes(gs \o G(4), list, J \cup I(4))
    BY <2>0, <2>2, <2>3, RoutesJoin
  <2>6. gs \o G(4) \in S
    BY <2>0, <2>2
  <2> QED
    BY <2>1, <2>4, <2>5, <2>6 DEF gs, J
<1>7. I(1) \cup I(2) \cup I(3) \cup I(4) = ValidAt(list)
  <2>1. \A i \in ValidAt(list) : TierOf(list[i].amount) \in 1..4
    BY TierIs DEF ValidAt, IsList
  <2>2. \A i \in ValidAt(list) : TierOf(list[i].amount) \in {1, 2, 3, 4}
    BY <2>1
  <2> QED
    BY <2>2 DEF I, InTier
<1>8. 1..4 = {1, 2, 3, 4}
  OBVIOUS
<1>9. splitPayments(list, batch).groups = G(1) \o G(2) \o G(3) \o G(4)
  BY SplitInTiers DEF G
<1> QED
  BY <1>6, <1>7, <1>8, <1>9
-----------------------------------------------------------------------------
(* Where the payment of each slot stands in the list.                      *)
SlotsIn(gs) == UNION {{k} \X DOMAIN gs[k].payments : k \in DOMAIN gs}
SentIn(gs, s) == gs[s[1]].payments[s[2]]

LEMMA SlotIs ==
    ASSUME NEW P, NEW gs \in Seq(GroupOf(P)), NEW s \in SlotsIn(gs)
    PROVE  /\ s = <<s[1], s[2]>> /\ s[1] \in DOMAIN gs /\ s[1] \in Nat /\ s[2] \in Nat \ {0}
           /\ s[2] \in DOMAIN gs[s[1]].payments /\ s[2] <= Len(gs[s[1]].payments)
           /\ Len(gs[s[1]].payments) \in Nat
<1>1. PICK k \in DOMAIN gs : s \in {k} \X DOMAIN gs[k].payments
  BY DEF SlotsIn
<1>2. s = <<s[1], s[2]>> /\ s[1] = k /\ s[2] \in DOMAIN gs[k].payments
  BY <1>1
<1>3. gs[k] \in GroupOf(P) /\ k \in Nat
  <2>1. DOMAIN gs = 1..Len(gs) /\ Len(gs) \in Nat
    OBVIOUS
  <2> QED
    BY <1>1, <2>1
<1>4. gs[k].payments \in Seq(P)
  BY <1>3 DEF GroupOf
<1>5. Len(gs[k].payments) \in Nat /\ DOMAIN gs[k].payments = 1..Len(gs[k].payments)
  BY <1>4
<1> QED
  BY <1>1, <1>2, <1>3, <1>5

LEMMA Positions ==
    ASSUME NEW P, NEW gs \in Seq(GroupOf(P)), NEW list, NEW I, Routes(gs, list, I)
    PROVE  \E pos \in [SlotsIn(gs) -> I] :
              /\ \A s \in SlotsIn(gs) : SentIn(gs, s) = list[pos[s]]
              /\ \A s, t \in SlotsIn(gs) : pos[s] = pos[t] => s = t
              /\ \A i \in I : \E s \in SlotsIn(gs) : pos[s] = i
              /\ \A s, t \in SlotsIn(gs) : Earlier(s, t) => Precedes(list, pos[s], pos[t])
<1>1. PICK out, at, start : Arranged(out, list, I, at) /\ InOrder(out, list, at) /\ Cut(gs, out, start, Len(out))
  BY DEF Routes
<1> DEFINE n == Len(out)
           place(s) == start[s[1]] + s[2]
           pos == [s \in SlotsIn(gs) |-> at[place(s)]]
<1>2. n \in Nat /\ DOMAIN out = 1..n /\ at \in [1..n -> I]
  <2>1. out \in Seq({list[i] : i \in I})
    BY <1>1 DEF Arranged
  <2> HIDE DEF n
  <2>2. n \in Nat /\ DOMAIN out = 1..n
    BY <2>1 DEF n
  <2> QED
    BY <1>1, <2>2 DEF Arranged
<1>3. ASSUME NEW s \in SlotsIn(gs)
      PROVE  place(s) \in 1..n /\ place(s) \in Nat /\ SentIn(gs, s) = out[place(s)]
  <2> DEFINE k == s[1]
             j == s[2]
  <2>1. /\ k \in DOMAIN gs /\ j \in Nat \ {0} /\ j \in DOMAIN gs[k].payments /\ j <= Len(gs[k].payments)
        /\ Len(gs[k].payments) \in Nat
    BY SlotIs
  <2> HIDE DEF k, j
  <2>2. /\ start[k] \in Nat /\ start[k] + Len(gs[k].payments) <= n
        /\ gs[k].payments[j] = out[start[k] + j]
    BY <1>1, <2>1 DEF Cut
  <2> HIDE DEF n
  <2>3. start[k] + j \in 1..n
    BY <1>2, <2>1, <2>2
  <2> QED
    BY <2>2, <2>3 DEF SentIn, k, j
<1>4. ASSUME NEW s \in SlotsIn(gs), NEW t \in SlotsIn(gs), Earlier(s, t)
      PROVE  place(s) < place(t)
  <2>1. /\ s[1] \in DOMAIN gs /\ s[1] \in Nat /\ s[2] \in Nat \ {0} /\ s[2] <= Len(gs[s[1]].payments)
        /\ Len(gs[s[1]].payments) \in Nat
    BY SlotIs
  <2>2. t[1] \in DOMAIN gs /\ t[1] \in Nat /\ t[2] \in Nat \ {0}
    BY SlotIs
  <2>3. start[s[1]] \in Nat /\ start[t[1]] \in Nat
    BY <1>1, <2>1, <2>2 DEF Cut
  <2>4. CASE s[1] < t[1]
    <3>1. start[s[1]] + Len(gs[s[1]].payments) <= start[t[1]]
      BY <1>1, <2>1, <2>2, <2>4 DEF Cut
    <3>2. \A a, b, c, x, y \in Nat : a + c <= b /\ x <= c /\ y > 0 => a + x < b + y
      OBVIOUS
    <3>3. s[2] \in Nat /\ t[2] \in Nat /\ t[2] > 0
      BY <2>1, <2>2
    <3> QED
      BY <2>1, <2>3, <3>1, <3>2, <3>3
  <2>5. CASE s[1] = t[1] /\ s[2] < t[2]
    BY <2>1, <2>2, <2>3, <2>5
  <2> QED
    BY <1>4, <2>4, <2>5 DEF Earlier
<1> HIDE DEF n, place
<1>5. pos \in [SlotsIn(gs) -> I] /\ \A s \in SlotsIn(gs) : pos[s] = at[place(s)]
  BY <1>2, <1>3
<1> HIDE DEF pos
<1>6. \A s \in SlotsIn(gs) : SentIn(gs, s) = list[pos[s]]
  BY <1>1, <1>2, <1>3, <1>5 DEF Arranged
<1>7. \A s, t \in SlotsIn(gs) : Earlier(s, t) => Precedes(list, pos[s], pos[t])
  <2> SUFFICES ASSUME NEW s \in SlotsIn(gs), NEW t \in SlotsIn(gs), Earlier(s, t)
               PROVE  Precedes(list, pos[s], pos[t])
    OBVIOUS
  <2>1. place(s) \in 1..n /\ place(t) \in 1..n /\ place(s) < place(t)
    BY <1>3, <1>4
  <2> QED
    BY <1>1, <1>2, <1>5, <2>1 DEF InOrder
<1>8. \A s, t \in SlotsIn(gs) : pos[s] = pos[t] => s = t
  <2> SUFFICES ASSUME NEW s \in SlotsIn(gs), NEW t \in SlotsIn(gs), pos[s] = pos[t], s /= t PROVE FALSE
    OBVIOUS
  <2>1. place(s) = place(t) /\ place(s) \in Nat
    <3>1. place(s) \in 1..n /\ place(t) \in 1..n /\ at[place(s)] = at[place(t)] /\ place(s) \in Nat
      BY <1>3, <1>5
    <3> QED
      BY <1>1, <1>2, <3>1 DEF Arranged
  <2>2. /\ s = <<s[1], s[2]>> /\ s[1] \in Nat /\ s[2] \in Nat
        /\ t = <<t[1], t[2]>> /\ t[1] \in Nat /\ t[2] \in Nat
    BY SlotIs
  <2>3. s[1] /= t[1] \/ s[2] /= t[2]
    BY <2>2
  <2>4. Earlier(s, t) \/ Earlier(t, s)
    BY <2>2, <2>3 DEF Earlier
  <2>5. place(s) < place(t) \/ place(t) < place(s)
    BY <1>4, <2>4
  <2> QED
    BY <2>1, <2>5
<1>9. \A i \in I : \E s \in SlotsIn(gs) : pos[s] = i
  <2> SUFFICES ASSUME NEW i \in I PROVE \E s \in SlotsIn(gs) : pos[s] = i
    OBVIOUS
  <2>1. PICK x \in 1..n : at[x] = i
    BY <1>1, <1>2 DEF Arranged
  <2>2. PICK k \in DOMAIN gs : \E j \in DOMAIN gs[k].payments : x = start[k] + j
    BY <1>1, <2>1 DEF Cut, n
  <2>3. PICK j \in DOMAIN gs[k].payments : x = start[k] + j
    BY <2>2
  <2>4. <<k, j>> \in SlotsIn(gs)
    BY <2>2, <2>3 DEF SlotsIn
  <2>5. place(<<k, j>>) = x
    BY <2>3 DEF place
  <2> QED
    BY <1>5, <2>1, <2>4, <2>5
<1> QED
  BY <1>5, <1>6, <1>7, <1>8, <1>9
-----------------------------------------------------------------------------
(* What a run of the specification is given: a list of payments to         *)
(* different addresses.                                                    *)
Distinct(list) == \A i, j \in DOMAIN list : list[i].address = list[j].address => i = j

LEMMA ListsAreLists ==
    ASSUME NEW list \in Lists
    PROVE  IsList(list) /\ Distinct(list)
<1> DEFINE F(n) == {[i \in 1..n |-> [address |-> IF i = bad THEN Malformed ELSE Address[i],
                                      amount  |-> amounts[i]]] :
                       amounts \in [1..n -> 0..MaxAmount], bad \in {0, 2}}
<1>0. Lists = UNION {F(n) : n \in 0..MaxPayments}
  BY DEF Lists
<1>1. PICK n \in 0..MaxPayments : list \in F(n)
  <2> HIDE DEF F
  <2> QED
    BY <1>0
<1>2. PICK amounts \in [1..n -> 0..MaxAmount], bad \in {0, 2} :
        list = [i \in 1..n |-> [address |-> IF i = bad THEN Malformed ELSE Address[i],
                                amount  |-> amounts[i]]]
  BY <1>1
<1>3. n \in Nat /\ MaxPayments \in Nat /\ MaxAmount \in Nat
  BY ListAssumption
<1>4. \A i \in 1..n : /\ list[i].address = IF i = bad THEN Malformed ELSE Address[i]
                      /\ list[i].amount = amounts[i]
  BY <1>2
<1>5. DOMAIN list = 1..n /\ list = [i \in 1..n |-> list[i]]
  BY <1>2
<1>6. \A i \in DOMAIN list : list[i].amount \in Nat
  BY <1>2, <1>3, <1>4, <1>5
<1>7. list \in Seq(Listed(list))
  <2>1. list \in [1..n -> Listed(list)]
    BY <1>5 DEF Listed
  <2> QED
    BY <1>3, <2>1
<1>8. Distinct(list)
  <2> SUFFICES ASSUME NEW i \in 1..n, NEW j \in 1..n, list[i].address = list[j].address
               PROVE  i = j
    BY <1>5 DEF Distinct
  <2>1. i \in 1..MaxPayments /\ j \in 1..MaxPayments
    BY <1>3
  <2> QED
    BY <1>4, <2>1, ListAssumption
<1> QED
  BY <1>6, <1>7, <1>8 DEF IsList

(* The call is made at most once, and returns what splitPayments returns.  *)
SplitInv ==
    /\ IsList(payments) /\ Distinct(payments) /\ txnsPerBatch \in Nat
    /\ Done => returned = <<splitPayments(payments, txnsPerBatch)>>

LEMMA SplitInvariant == Spec => []SplitInv
<1>1. Init => SplitInv
  <2>1. ASSUME NEW b \in 0..MaxBatch PROVE b \in Nat
    BY ListAssumption
  <2> QED
    BY <2>1, ListsAreLists DEF Init, SplitInv, Done
<1>2. SplitInv /\ [Call]_vars => SplitInv'
  <2> SUFFICES ASSUME SplitInv, [Call]_vars PROVE SplitInv'
    OBVIOUS
  <2>1. CASE Call
    BY <2>1 DEF SplitInv, Call, Done
  <2>2. CASE UNCHANGED vars
    BY <2>2 DEF SplitInv, vars, Done
  <2> QED
    BY <2>1, <2>2
<1> QED
  BY <1>1, <1>2, PTL DEF Spec

(* What SplitInv says of the groups once the call is made.                 *)
LEMMA Groups ==
    ASSUME SplitInv, Done
    PROVE  /\ groups \in Seq(GroupOf(Listed(payments)))
           /\ Lawful(groups, 1..4, txnsPerBatch)
           /\ Routes(groups, payments, ValidAt(payments))
           /\ groups = splitPayments(payments, txnsPerBatch).groups
           /\ result.invalidAddresses = filterValidAddresses(payments).invalid
<1>1. IsList(payments) /\ txnsPerBatch \in Nat /\ result = splitPayments(payments, txnsPerBatch)
  BY DEF SplitInv, result
<1>2. groups = splitPayments(payments, txnsPerBatch).groups
  BY <1>1 DEF groups
<1> QED
  BY <1>1, <1>2, SplitRoutes, SplitInTiers
-----------------------------------------------------------------------------
(* Every payment of the list is in exactly one group, once, or reported as *)
(* invalid, once, and no group is empty: filterValidAddresses, the tiers   *)
(* and the greedy loop drop nothing and repeat nothing.                    *)
THEOREM EveryPaymentOnce == Spec => []NothingLost
<1> SUFFICES SplitInv => NothingLost
  BY SplitInvariant, PTL
<1> SUFFICES ASSUME SplitInv, Done
             PROVE  /\ {Sent(s) : s \in Slots} \cup ToSet(result.invalidAddresses) = ToSet(payments)
                    /\ \A s, t \in Slots : Sent(s) = Sent(t) => s = t
                    /\ \A i, j \in DOMAIN result.invalidAddresses :
                          result.invalidAddresses[i] = result.invalidAddresses[j] => i = j
                    /\ \A s \in Slots : Sent(s).address \in WellFormed
                    /\ \A p \in ToSet(result.invalidAddresses) : p.address \notin WellFormed
                    /\ \A k \in DOMAIN groups : groups[k].payments /= <<>>
  BY DEF NothingLost
<1> DEFINE I == ValidAt(payments)
           bad == result.invalidAddresses
           J == DOMAIN payments \ I
<1>1. /\ groups \in Seq(GroupOf(Listed(payments))) /\ Routes(groups, payments, I)
      /\ bad = filterValidAddresses(payments).invalid
  BY Groups
<1>2. IsList(payments) /\ \A i, j \in DOMAIN payments : payments[i] = payments[j] => i = j
  BY DEF SplitInv, Distinct
<1>3. PICK pos \in [SlotsIn(groups) -> I] :
              /\ \A s \in SlotsIn(groups) : SentIn(groups, s) = payments[pos[s]]
              /\ \A s, t \in SlotsIn(groups) : pos[s] = pos[t] => s = t
              /\ \A i \in I : \E s \in SlotsIn(groups) : pos[s] = i
  BY <1>1, Positions
<1>4. Slots = SlotsIn(groups) /\ \A s : Sent(s) = SentIn(groups, s)
  BY DEF Slots, SlotsIn, Sent, SentIn
<1>5. PICK at : Arranged(bad, payments, J, at)
  BY <1>1, <1>2, InvalidArranged
<1>6. I \subseteq DOMAIN payments /\ \A i \in DOMAIN payments : i \in I <=> payments[i].address \in WellFormed
  BY DEF ValidAt, validatePaymentAddress
<1> HIDE DEF I, bad
<1>7. ToSet(bad) = {payments[i] : i \in J}
  BY <1>5 DEF Arranged, ToSet
<1>8. {Sent(s) : s \in Slots} = {payments[i] : i \in I}
  BY <1>3, <1>4
<1>9. {Sent(s) : s \in Slots} \cup ToSet(bad) = ToSet(payments)
  BY <1>6, <1>7, <1>8 DEF ToSet
<1>10. \A s, t \in Slots : Sent(s) = Sent(t) => s = t
  <2> SUFFICES ASSUME NEW s \in SlotsIn(groups), NEW t \in SlotsIn(groups), SentIn(groups, s) = SentIn(groups, t)
               PROVE  s = t
    BY <1>4
  <2>1. pos[s] = pos[t]
    BY <1>2, <1>3, <1>6
  <2> QED
    BY <1>3, <2>1
<1>11. \A i, j \in DOMAIN bad : bad[i] = bad[j] => i = j
  BY <1>2, <1>5 DEF Arranged
<1>12. \A s \in Slots : Sent(s).address \in WellFormed
  BY <1>3, <1>4, <1>6
<1>13. \A p \in ToSet(bad) : p.address \notin WellFormed
  BY <1>6, <1>7
<1>14. \A k \in DOMAIN groups : groups[k].payments /= <<>>
  BY <1>1 DEF Routes, Cut
<1> QED
  BY <1>9, <1>10, <1>11, <1>12, <1>13, <1>14 DEF bad

(* Over all groups payments go out by tier, then by amount in the tier's   *)
(* direction, then in the order of the list: the sorts are stable and the  *)
(* greedy loop cuts each tier's list without reordering it.                *)
THEOREM PolicyOrder == Spec => []SentInPolicyOrder
<1> SUFFICES SplitInv => SentInPolicyOrder
  BY SplitInvariant, PTL
<1>1. ASSUME SplitInv, Done, NEW s \in Slots, NEW t \in Slots, Earlier(s, t)
      PROVE  LET p == Sent(s)  q == Sent(t)  tier == TierOf(p.amount)
             IN  \/ tier < TierOf(q.amount)
                 \/ /\ tier = TierOf(q.amount)
                    /\ \/ IF tier = 2 THEN p.amount < q.amount ELSE p.amount > q.amount
                       \/ p.amount = q.amount /\ InputIndex(p) < InputIndex(q)
  <2>1. groups \in Seq(GroupOf(Listed(payments))) /\ Routes(groups, payments, ValidAt(payments))
    BY <1>1, Groups
  <2>2. \A i, j \in DOMAIN payments : payments[i] = payments[j] => i = j
    BY <1>1 DEF SplitInv, Distinct
  <2>3. PICK pos \in [SlotsIn(groups) -> ValidAt(payments)] :
              /\ \A u \in SlotsIn(groups) : SentIn(groups, u) = payments[pos[u]]
              /\ \A u, v \in SlotsIn(groups) : Earlier(u, v) => Precedes(payments, pos[u], pos[v])
    BY <2>1, Positions
  <2>4. s \in SlotsIn(groups) /\ t \in SlotsIn(groups) /\ Sent(s) = SentIn(groups, s) /\ Sent(t) = SentIn(groups, t)
    BY <1>1 DEF Slots, SlotsIn, Sent, SentIn
  <2> DEFINE i == pos[s]
             j == pos[t]
  <2>5. Precedes(payments, i, j) /\ Sent(s) = payments[i] /\ Sent(t) = payments[j]
    BY <1>1, <2>3, <2>4
  <2>6. i \in DOMAIN payments /\ j \in DOMAIN payments
    BY <2>3, <2>4 DEF ValidAt
  <2> HIDE DEF i, j
  <2>7. InputIndex(payments[i]) = i /\ InputIndex(payments[j]) = j
    BY <2>2, <2>6 DEF InputIndex
  <2> QED
    BY <2>5, <2>7 DEF Precedes
<1> QED
  BY <1>1 DEF SentInPolicyOrder

(* No batch is over the amount cap or the batch size, only an individual   *)
(* group is of tier 1 and it holds one payment, and no group mixes tiers:  *)
(* what flushing before the payment that does not fit is for.              *)
THEOREM LimitsKept == Spec => []WithinLimits
<1> SUFFICES SplitInv => WithinLimits
  BY SplitInvariant, PTL
<1>1. ASSUME SplitInv, Done, NEW k \in DOMAIN groups
      PROVE  Limits(groups[k], txnsPerBatch)
  BY <1>1, Groups DEF Lawful
<1> QED
  BY <1>1 DEF WithinLimits, Limits, Fits, Limit

(* A batch is closed only because the next payment did not fit in it, and  *)
(* the batches of a tier are numbered from 0 without gaps.                 *)
THEOREM NoneClosedEarly == Spec => []ClosedOnlyWhenFull
<1> SUFFICES SplitInv => ClosedOnlyWhenFull
  BY SplitInvariant, PTL
<1>1. ASSUME SplitInv, Done, NEW k \in DOMAIN groups
      PROVE  Numbered(groups, k, txnsPerBatch)
  BY <1>1, Groups DEF Lawful
<1> QED
  BY <1>1 DEF ClosedOnlyWhenFull, Numbered, NoRoom
-----------------------------------------------------------------------------
(* What a run relies on splitPayments for (SplitAssumption of PayoutRun)   *)
(* holds of any payments to addresses of their own: the groups are made of *)
(* them, none is there twice, all have an address the parser accepts, and  *)
(* an amount that wrapped around is sent alone.  The last asks that such   *)
(* an amount is above the threshold of tier 1: 10^9 < 2^64 - 5000.         *)
THEOREM SplitIsGood ==
    ASSUME NEW list \in Seq(Payment), Distinct(list), NEW batch \in Nat,
           Fee \in Nat, Word \in Nat, tier1IndividualThreshold < Word - Fee
    PROVE  GoodSplit(splitPayments(list, batch).groups, list, WellFormed)
<1> DEFINE gs == splitPayments(list, batch).groups
           I == ValidAt(list)
<1>1. /\ \A i \in DOMAIN list : list[i] \in Payment /\ list[i].amount \in Nat
      /\ IsList(list) /\ Listed(list) \subseteq Payment
  <2>1. \A i \in DOMAIN list : list[i] \in Payment
    OBVIOUS
  <2>2. \A p \in Payment : p.amount \in Nat
    BY DEF Payment
  <2>3. Listed(list) \subseteq Payment
    BY <2>1 DEF Listed
  <2>4. list \in Seq(Listed(list))
    BY DEF Listed
  <2> QED
    BY <2>1, <2>2, <2>3, <2>4 DEF IsList
<1>2. gs \in Seq(GroupOf(Listed(list))) /\ Lawful(gs, 1..4, batch) /\ Routes(gs, list, I)
  BY <1>1, SplitRoutes
<1> HIDE DEF gs
<1>3. gs \in Seq(Group)
  <2>1. GroupOf(Listed(list)) \subseteq Group
    <3>1. Seq(Listed(list)) \subseteq Seq(Payment)
      BY <1>1
    <3> QED
      BY <3>1 DEF GroupOf, Group
  <2> QED
    BY <1>2, <2>1
<1>4. PICK pos \in [SlotsIn(gs) -> I] :
         /\ \A s \in SlotsIn(gs) : SentIn(gs, s) = list[pos[s]]
         /\ \A s, t \in SlotsIn(gs) : pos[s] = pos[t] => s = t
  BY <1>2, Positions
<1>5. I \subseteq DOMAIN list /\ \A i \in I : list[i].address \in WellFormed
  BY DEF ValidAt, validatePaymentAddress
<1> HIDE DEF I
<1>6. \A k \in DOMAIN gs : \A j \in DOMAIN gs[k].payments :
         /\ <<k, j>> \in SlotsIn(gs) /\ pos[<<k, j>>] \in I
         /\ gs[k].payments[j] = list[pos[<<k, j>>]]
  <2>1. \A k \in DOMAIN gs : \A j \in DOMAIN gs[k].payments :
           <<k, j>> \in SlotsIn(gs) /\ SentIn(gs, <<k, j>>) = gs[k].payments[j]
    BY DEF SlotsIn, SentIn
  <2> QED
    BY <1>4, <2>1
<1>7. ASSUME NEW k \in DOMAIN gs, NEW j \in DOMAIN gs[k].payments, gs[k].payments[j].amount >= Word - Fee
      PROVE  Len(gs[k].payments) = 1
  <2>1. /\ gs[k].isIndividual <=> gs[k].tier = 1
        /\ gs[k].isIndividual => Len(gs[k].payments) = 1
        /\ TierOf(gs[k].payments[j].amount) = gs[k].tier
    BY <1>2 DEF Lawful, Limits
  <2>2. gs[k].payments[j].amount \in Nat
    BY <1>1, <1>5, <1>6
  <2>3. \A x \in Nat : x >= Word - Fee => TierOf(x) = 1
    <3>1. /\ tier1IndividualThreshold \in Nat /\ tier2SmallThreshold \in Nat
          /\ tier3MediumThreshold \in Nat
          /\ tier2SmallThreshold < tier3MediumThreshold /\ tier3MediumThreshold < tier1IndividualThreshold
      BY ThresholdAssumption
    <3>2. \A x, y, f, w \in Nat : y < w - f /\ x >= w - f => x > y
      OBVIOUS
    <3>3. \A x \in Nat : x >= Word - Fee => x > tier1IndividualThreshold
      BY <3>1, <3>2
    <3> QED
      BY <3>1, <3>3 DEF TierOf
  <2>4. TierOf(gs[k].payments[j].amount) = 1
    BY <1>7, <2>2, <2>3
  <2> QED
    BY <2>1, <2>4
<1>8. ASSUME NEW k \in DOMAIN gs, NEW l \in DOMAIN gs,
             NEW j \in DOMAIN gs[k].payments, NEW m \in DOMAIN gs[l].payments,
             gs[k].payments[j].address = gs[l].payments[m].address
      PROVE  k = l /\ j = m
  <2>1. list[pos[<<k, j>>]].address = list[pos[<<l, m>>]].address
    BY <1>6, <1>8
  <2>2. pos[<<k, j>>] = pos[<<l, m>>]
    BY <1>5, <1>6, <2>1 DEF Distinct
  <2>3. <<k, j>> = <<l, m>>
    BY <1>4, <1>6, <2>2
  <2> QED
    BY <2>3
<1>9. \A k \in DOMAIN gs : gs[k].payments /= <<>>
  BY <1>2 DEF Routes, Cut
<1>10. \A k \in DOMAIN gs : \A j \in DOMAIN gs[k].payments :
         (\E n \in DOMAIN list : gs[k].payments[j] = list[n]) /\ gs[k].payments[j].address \in WellFormed
  BY <1>5, <1>6
<1>11. GoodSplit(gs, list, WellFormed)
  BY <1>3, <1>7, <1>8, <1>9, <1>10 DEF GoodSplit
<1> QED
  BY <1>11 DEF gs
=============================================================================
