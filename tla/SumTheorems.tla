---------------------------- MODULE SumTheorems ----------------------------
(***************************************************************************)
(* Sums over finite sets, and the two forms of induction that the proofs   *)
(* of this project use: no family of subsets of a finite set, and no set   *)
(* of numbers, is without a minimal member, so that there is no            *)
(* counterexample if there is no smallest one.                             *)
(***************************************************************************)
EXTENDS Integers, Functions, FiniteSetTheorems, TLAPS

LEMMA MinimalSubset ==
    ASSUME NEW S, IsFiniteSet(S), NEW B \in SUBSET SUBSET S, B /= {}
    PROVE  \E m \in B : \A u \in B : u \subseteq m => u = m
<1> DEFINE R == StrictSubsetOrdering(S)
<1>1. IsWellFoundedOn(R, SUBSET S)
  BY FS_StrictSubsetOrderingWellFounded, FS_FiniteSubsetsOfFinite
<1>2. PICK m \in B : \A u \in B : ~(<<u, m>> \in R)
  <2> HIDE DEF R
  <2> QED
    BY <1>1, WFMin
<1>3. \A u \in B : u \subseteq m /\ u /= m => <<u, m>> \in R
  BY DEF StrictSubsetOrdering
<1> QED
  <2> HIDE DEF R
  <2>1. ASSUME NEW u \in B, u \subseteq m, u /= m PROVE FALSE
    BY <1>2, <1>3, <2>1
  <2> QED
    BY <2>1

LEMMA LeastNumber ==
    ASSUME NEW B \in SUBSET Nat, B /= {}
    PROVE  \E m \in B : \A k \in B : m <= k
<1> DEFINE R == OpToRel(<, Nat)
<1>1. PICK m \in B : \A k \in B : ~(<<k, m>> \in R)
  <2>1. IsWellFoundedOn(R, Nat)
    BY NatLessThanWellFounded
  <2> HIDE DEF R
  <2> QED
    BY <2>1, WFMin
<1>2. \A k \in B : ~(k < m)
  BY <1>1 DEF OpToRel
<1> QED
  BY <1>2
-----------------------------------------------------------------------------
(* A fold over a set takes an element and goes on with the rest.           *)
Pick(s) == CHOOSE x \in s : TRUE
Rest(s) == s \ {Pick(s)}

LEMMA PickIn == \A s : s /= {} => Pick(s) \in s /\ Rest(s) \subseteq s /\ Rest(s) /= s
BY DEF Pick, Rest

(* SumFunctionOnSet chooses a function that solves its recursion.          *)
SolvesSum(f, h, S) == f = [s \in SUBSET S |-> IF s = {} THEN 0 ELSE h[Pick(s)] + f[s \ {Pick(s)}]]

LEMMA SumIsChosen == \A h, S : SumFunctionOnSet(h, S) = (CHOOSE f : SolvesSum(f, h, S))[S]
BY DEF SumFunctionOnSet, FoldFunctionOnSet, MapThenFoldSet, SolvesSum, Pick

LEMMA SumEquation ==
    ASSUME NEW h, NEW S, NEW f
    PROVE  SolvesSum(f, h, S) <=>
              /\ f = [s \in SUBSET S |-> f[s]]
              /\ \A s \in SUBSET S : f[s] = IF s = {} THEN 0 ELSE h[Pick(s)] + f[Rest(s)]
BY DEF SolvesSum, Rest

SumUnfolds(h, s) ==
    SumFunctionOnSet(h, s) = IF s = {} THEN 0 ELSE h[Pick(s)] + SumFunctionOnSet(h, Rest(s))

(* The recursion terminates.                                               *)
LEMMA SumTerminates ==
    ASSUME NEW h, NEW S, IsFiniteSet(S)
    PROVE  SumUnfolds(h, S)
<1> DEFINE B == {s \in SUBSET S : ~SumUnfolds(h, s)}
<1> SUFFICES ASSUME B /= {} PROVE FALSE
  OBVIOUS
<1>1. PICK t \in B : \A u \in B : u \subseteq t => u = t
  <2>1. B \in SUBSET SUBSET S
    OBVIOUS
  <2> HIDE DEF B
  <2> QED
    BY <2>1, MinimalSubset
<1>2. \A u \in SUBSET t : u /= t => SumUnfolds(h, u)
  BY <1>1
<1> DEFINE G == [s \in SUBSET t |->
                   IF s = t THEN IF t = {} THEN 0 ELSE h[Pick(t)] + SumFunctionOnSet(h, Rest(t))
                            ELSE SumFunctionOnSet(h, s)]
           f == CHOOSE e : SolvesSum(e, h, t)
<1>3. ASSUME NEW s \in SUBSET t
      PROVE  G[s] = IF s = {} THEN 0 ELSE h[Pick(s)] + G[Rest(s)]
  <2>1. s /= {} => Rest(s) \in SUBSET t /\ Rest(s) /= t
    BY PickIn
  <2>2. CASE s = t
    BY <2>1, <2>2
  <2>3. CASE s /= t
    BY <1>2, <2>1, <2>3 DEF SumUnfolds
  <2> QED
    BY <2>2, <2>3
<1>4. SolvesSum(G, h, t)
  <2>1. G = [s \in SUBSET t |-> G[s]]
    OBVIOUS
  <2> HIDE DEF G
  <2> QED
    BY <1>3, <2>1, SumEquation
<1>5. SolvesSum(f, h, t)
  <2> HIDE DEF G
  <2> QED
    BY <1>4
<1>6. \A s \in SUBSET t : f[s] = IF s = {} THEN 0 ELSE h[Pick(s)] + f[Rest(s)]
  <2> HIDE DEF f
  <2> QED
    BY <1>5, SumEquation
<1>7. SumFunctionOnSet(h, t) = f[t]
  BY SumIsChosen
<1> HIDE DEF f, G
<1>8. \A s \in SUBSET t : s /= t => f[s] = SumFunctionOnSet(h, s)
  <2> DEFINE C == {s \in SUBSET t : s /= t /\ f[s] /= SumFunctionOnSet(h, s)}
  <2> SUFFICES ASSUME C /= {} PROVE FALSE
    OBVIOUS
  <2>1. C \in SUBSET SUBSET S
    BY <1>1
  <2>2. PICK m \in C : \A u \in C : u \subseteq m => u = m
    <3> HIDE DEF C
    <3> QED
      BY <2>1, MinimalSubset
  <2>3. m /= {} => f[Rest(m)] = SumFunctionOnSet(h, Rest(m))
    BY <2>2, PickIn
  <2> QED
    BY <1>2, <1>6, <2>2, <2>3 DEF SumUnfolds
<1>9. t /= {} => f[Rest(t)] = SumFunctionOnSet(h, Rest(t))
  BY <1>8, PickIn
<1> QED
  BY <1>1, <1>6, <1>7, <1>9 DEF SumUnfolds

(* The sum of h over S is a sum of finitely many naturals.                 *)
Summable(h, S) == IsFiniteSet(S) /\ \A x \in S : h[x] \in Nat

LEMMA SumEmpty == ASSUME NEW h PROVE SumFunctionOnSet(h, {}) = 0
BY SumTerminates, FS_EmptySet DEF SumUnfolds

LEMMA SumNat ==
    ASSUME NEW h, NEW S, Summable(h, S)
    PROVE  SumFunctionOnSet(h, S) \in Nat
<1> DEFINE B == {s \in SUBSET S : SumFunctionOnSet(h, s) \notin Nat}
<1> SUFFICES ASSUME B /= {} PROVE FALSE
  OBVIOUS
<1>1. PICK t \in B : \A u \in B : u \subseteq t => u = t
  <2>1. B \in SUBSET SUBSET S
    OBVIOUS
  <2> HIDE DEF B
  <2> QED
    BY <2>1, MinimalSubset DEF Summable
<1>2. SumUnfolds(h, t)
  BY <1>1, SumTerminates, FS_Subset DEF Summable
<1>3. t /= {} => h[Pick(t)] \in Nat /\ SumFunctionOnSet(h, Rest(t)) \in Nat
  BY <1>1, PickIn DEF Summable
<1> QED
  BY <1>1, <1>2, <1>3 DEF SumUnfolds

(* Any element may be taken out of a sum first.                            *)
LEMMA SumRemove ==
    ASSUME NEW h, NEW S, Summable(h, S), NEW x \in S
    PROVE  SumFunctionOnSet(h, S) = h[x] + SumFunctionOnSet(h, S \ {x})
<1> DEFINE Sum(s) == SumFunctionOnSet(h, s)
           Good(s) == \A y \in s : Sum(s) = h[y] + Sum(s \ {y})
           B == {s \in SUBSET S : ~Good(s)}
<1> SUFFICES ASSUME B /= {} PROVE FALSE
  OBVIOUS
<1>1. PICK t \in B : \A u \in B : u \subseteq t => u = t
  <2>1. B \in SUBSET SUBSET S
    OBVIOUS
  <2> HIDE DEF B
  <2> QED
    BY <2>1, MinimalSubset DEF Summable
<1>2. PICK y \in t : Sum(t) /= h[y] + Sum(t \ {y})
  BY <1>1
<1> DEFINE z == Pick(t)
<1>3. \A s \in SUBSET S : IsFiniteSet(s) /\ Sum(s) \in Nat
  BY SumNat, FS_Subset DEF Summable
<1>4. z \in t /\ Sum(t) = h[z] + Sum(t \ {z})
  BY <1>1, <1>2, <1>3, SumTerminates, PickIn DEF SumUnfolds, Rest
<1> HIDE DEF z
<1>5. z /= y
  BY <1>2, <1>4
<1>6. Sum(t \ {z}) = h[y] + Sum(t \ {z, y})
  <2>1. Good(t \ {z})
    BY <1>1, <1>4
  <2>2. (t \ {z}) \ {y} = t \ {z, y}
    OBVIOUS
  <2> QED
    BY <1>2, <1>5, <2>1, <2>2
<1>7. Sum(t \ {y}) = h[z] + Sum(t \ {z, y})
  <2>1. Good(t \ {y})
    BY <1>1, <1>2
  <2>2. (t \ {y}) \ {z} = t \ {z, y}
    OBVIOUS
  <2> QED
    BY <1>4, <1>5, <2>1, <2>2
<1>8. h[z] \in Nat /\ h[y] \in Nat /\ Sum(t \ {z, y}) \in Nat
  BY <1>1, <1>2, <1>3, <1>4 DEF Summable
<1> HIDE DEF Sum
<1> QED
  BY <1>2, <1>4, <1>6, <1>7, <1>8

LEMMA SumAdd ==
    ASSUME NEW h, NEW S, Summable(h, S), NEW x, x \notin S, h[x] \in Nat
    PROVE  SumFunctionOnSet(h, S \cup {x}) = SumFunctionOnSet(h, S) + h[x]
<1>1. Summable(h, S \cup {x}) /\ (S \cup {x}) \ {x} = S
  BY FS_AddElement DEF Summable
<1>2. SumFunctionOnSet(h, S \cup {x}) = h[x] + SumFunctionOnSet(h, S)
  BY <1>1, SumRemove
<1> QED
  BY <1>2, SumNat

(* Two sets with nothing in common.                                        *)
LEMMA SumUnion ==
    ASSUME NEW h, NEW S, Summable(h, S), NEW T \in SUBSET S
    PROVE  SumFunctionOnSet(h, S) = SumFunctionOnSet(h, T) + SumFunctionOnSet(h, S \ T)
<1> DEFINE Sum(s) == SumFunctionOnSet(h, s)
           B == {t \in SUBSET T : Sum(S) /= Sum(t) + Sum(S \ t)}
<1>1. \A s \in SUBSET S : Summable(h, s) /\ Sum(s) \in Nat
  BY SumNat, FS_Subset DEF Summable
<1> SUFFICES ASSUME B /= {} PROVE FALSE
  OBVIOUS
<1>2. PICK t \in B : \A u \in B : u \subseteq t => u = t
  <2>1. B \in SUBSET SUBSET S
    OBVIOUS
  <2> HIDE DEF B
  <2> QED
    BY <2>1, MinimalSubset DEF Summable
<1>3. t /= {}
  <2>1. Sum(S) /= Sum(t) + Sum(S \ t) /\ Sum(S) \in Nat /\ Sum({}) = 0
    BY <1>1, <1>2, SumEmpty
  <2> HIDE DEF Sum, B
  <2>2. ASSUME t = {} PROVE FALSE
    <3>1. S \ t = S
      BY <2>2
    <3>2. Sum(S) /= Sum({}) + Sum(S)
      BY <2>1, <2>2, <3>1
    <3> QED
      BY <2>1, <3>2
  <2> QED
    BY <2>2
<1>4. PICK x \in t : TRUE
  BY <1>3
<1>5. Sum(S) = Sum(t \ {x}) + Sum(S \ (t \ {x}))
  BY <1>2, <1>4
<1>6. Sum(t) = h[x] + Sum(t \ {x})
  BY <1>1, <1>2, <1>4, SumRemove
<1>7. Sum(S \ (t \ {x})) = h[x] + Sum(S \ t)
  <2>1. (S \ (t \ {x})) \ {x} = S \ t /\ x \in S \ (t \ {x})
    BY <1>2, <1>4
  <2> QED
    BY <1>1, <2>1, SumRemove
<1>8. h[x] \in Nat /\ Sum(t \ {x}) \in Nat /\ Sum(S \ t) \in Nat /\ Sum(S) /= Sum(t) + Sum(S \ t)
  BY <1>1, <1>2, <1>4 DEF Summable
<1> HIDE DEF Sum
<1> QED
  BY <1>5, <1>6, <1>7, <1>8

LEMMA ImageFinite ==
    ASSUME NEW S, IsFiniteSet(S), NEW f, f = [x \in S |-> f[x]]
    PROVE  IsFiniteSet({f[x] : x \in S})
<1> DEFINE T == {f[x] : x \in S}
<1>1. f \in Surjection(S, T)
  BY DEF Surjection
<1> QED
  BY <1>1, FS_Surjection
=============================================================================
