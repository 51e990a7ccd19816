------------------------------ MODULE SumLemmas ------------------------------
(***************************************************************************)
(* What proofs about balances need to know of SumFunctionOnSet, which the  *)
(* library defines by a recursion over subsets and states no facts about.  *)
(*                                                                         *)
(* A sum of naturals counts things: f[x] coins for each x of S. Coins(f, S)*)
(* is the set of them, and its cardinality satisfies the recursion; as the *)
(* recursion has one solution on a finite set, it is the sum.              *)
(***************************************************************************)
EXTENDS FiniteSetTheorems, TLAPS

Coins(f, S) == {c \in S \X Nat : c[2] \in 1 .. f[c[1]]}

\* The coins of one element are as many as f says.
LEMMA CoinsOfOne ==
  ASSUME NEW D, NEW f \in [D -> Nat], NEW x \in D
  PROVE  /\ IsFiniteSet(Coins(f, {x}))
         /\ Cardinality(Coins(f, {x})) = f[x]
<1> DEFINE g == [i \in 1 .. f[x] |-> <<x, i>>]
<1>1. g \in Bijection(1 .. f[x], Coins(f, {x}))
  <2>1. g \in [1 .. f[x] -> Coins(f, {x})]
    BY DEF Coins
  <2>2. \A i, j \in 1 .. f[x] : g[i] = g[j] => i = j
    OBVIOUS
  <2>3. \A c \in Coins(f, {x}) : \E i \in 1 .. f[x] : g[i] = c
    BY DEF Coins
  <2> QED
    BY <2>1, <2>2, <2>3 DEF Bijection, Injection, Surjection, IsInjective
<1>2. /\ IsFiniteSet(1 .. f[x])
      /\ Cardinality(1 .. f[x]) = f[x]
  BY FS_Interval
<1>3. ExistsBijection(1 .. f[x], Coins(f, {x}))
  BY <1>1 DEF ExistsBijection
<1> QED
  BY <1>2, <1>3, FS_Bijection

\* A finite set has finitely many coins.
LEMMA CoinsFinite ==
  ASSUME NEW D, NEW f \in [D -> Nat], NEW S \in SUBSET D, IsFiniteSet(S)
  PROVE  IsFiniteSet(Coins(f, S))
<1> DEFINE P == {Coins(f, {x}) : x \in S}
           g == [x \in S |-> Coins(f, {x})]
<1>1. g \in Surjection(S, P)
  BY DEF Surjection
<1>2. IsFiniteSet(P)
  BY <1>1, FS_Surjection
<1>3. \A T \in P : IsFiniteSet(T)
  BY CoinsOfOne
<1>4. IsFiniteSet(UNION P)
  BY <1>2, <1>3, FS_UNION
<1>5. Coins(f, S) = UNION P
  BY DEF Coins
<1> QED
  BY <1>4, <1>5

\* Disjoint sets have disjoint coins.
LEMMA CoinsUnion ==
  ASSUME NEW D, NEW f \in [D -> Nat], NEW S \in SUBSET D, IsFiniteSet(S),
         NEW T \in SUBSET D, IsFiniteSet(T), S \cap T = {}
  PROVE  Cardinality(Coins(f, S \cup T))
           = Cardinality(Coins(f, S)) + Cardinality(Coins(f, T))
<1>1. Coins(f, S \cup T) = Coins(f, S) \cup Coins(f, T)
  BY DEF Coins
<1>2. Coins(f, S) \cap Coins(f, T) = {}
  BY DEF Coins
<1>3. IsFiniteSet(Coins(f, S)) /\ IsFiniteSet(Coins(f, T))
  BY CoinsFinite
<1>4. /\ Cardinality(Coins(f, S)) \in Nat
      /\ Cardinality(Coins(f, T)) \in Nat
  BY <1>3, FS_CardinalityType
<1>5. Cardinality(Coins(f, S) \cup Coins(f, T))
        = Cardinality(Coins(f, S)) + Cardinality(Coins(f, T)) - Cardinality({})
  BY <1>2, <1>3, FS_Union
<1>6. Cardinality({}) = 0
  BY FS_EmptySet
<1>7. Cardinality(Coins(f, S \cup T))
        = Cardinality(Coins(f, S) \cup Coins(f, T))
  BY <1>1
<1> QED
  BY <1>4, <1>5, <1>6, <1>7

\* The sum of a function on a finite set is the number of its coins.
LEMMA SumCountsCoins ==
  ASSUME NEW D, NEW f \in [D -> Nat], NEW S \in SUBSET D, IsFiniteSet(S)
  PROVE  SumFunctionOnSet(f, S) = Cardinality(Coins(f, S))
<1> DEFINE Pick(s) == CHOOSE x \in s : TRUE
           Count == [s \in SUBSET S |-> Cardinality(Coins(f, s))]
           Rec(g) == [s \in SUBSET S |->
                        IF s = {} THEN 0 ELSE f[Pick(s)] + g[s \ {Pick(s)}]]
           iter == CHOOSE g : g = Rec(g)
<1>1. SumFunctionOnSet(f, S) = iter[S]
  BY DEF SumFunctionOnSet, FoldFunctionOnSet, MapThenFoldSet
<1>2. \A s \in SUBSET S : s # {} => Pick(s) \in s
  OBVIOUS
<1>3. ASSUME NEW s \in SUBSET S, s # {}
      PROVE  Count[s] = f[Pick(s)] + Count[s \ {Pick(s)}]
  <2> DEFINE x == Pick(s)
  <2>1. x \in s /\ x \in D
    BY <1>2, <1>3
  <2>2. IsFiniteSet(s)
    BY FS_Subset
  <2>3. IsFiniteSet(s \ {x}) /\ IsFiniteSet({x})
    BY <2>2, FS_RemoveElement, FS_Singleton
  <2>4. s = {x} \cup (s \ {x})
    BY <2>1
  <2> HIDE DEF x
  <2>5. Cardinality(Coins(f, s))
          = Cardinality(Coins(f, {x})) + Cardinality(Coins(f, s \ {x}))
    BY <2>1, <2>3, <2>4, CoinsUnion
  <2>6. Cardinality(Coins(f, {x})) = f[x]
    BY <2>1, CoinsOfOne
  <2> QED
    BY <2>5, <2>6 DEF x
<1>4. Count[{}] = 0
  <2>1. Coins(f, {}) = {}
    BY DEF Coins
  <2> QED
    BY <2>1, FS_EmptySet
<1>5. Count = Rec(Count)
  BY <1>3, <1>4
<1>6. iter = Rec(iter)
  <2>1. \E g : g = Rec(g)
    BY <1>5
  <2> HIDE DEF Rec
  <2> QED
    BY <2>1
<1> HIDE DEF iter, Count, Pick
<1>7. /\ iter[{}] = 0
      /\ \A s \in SUBSET S :
           s # {} => iter[s] = f[Pick(s)] + iter[s \ {Pick(s)}]
  BY <1>6
<1> DEFINE T == {s \in SUBSET S : iter[s] # Count[s]}
<1>8. ASSUME T # {} PROVE FALSE
  <2>1. IsWellFoundedOn(StrictSubsetOrdering(S), SUBSET S)
    BY FS_StrictSubsetOrderingWellFounded, FS_FiniteSubsetsOfFinite
  <2>2. PICK s \in T : \A u \in T : <<u, s>> \notin StrictSubsetOrdering(S)
    <3>1. T \subseteq SUBSET S
      OBVIOUS
    <3> HIDE DEF T
    <3> QED
      BY <1>8, <2>1, <3>1, WFMin
  <2>3. s \in SUBSET S /\ s # {}
    BY <1>4, <1>7, <1>8
  <2>4. Pick(s) \in s
    BY <1>2, <2>3
  <2>5. <<s \ {Pick(s)}, s>> \in StrictSubsetOrdering(S)
    BY <2>3, <2>4 DEF StrictSubsetOrdering
  <2>6. iter[s \ {Pick(s)}] = Count[s \ {Pick(s)}]
    BY <1>8, <2>2, <2>3, <2>5
  <2>7. iter[s] = Count[s]
    BY <1>3, <1>7, <2>3, <2>6
  <2> QED
    BY <1>8, <2>7
<1>9. iter[S] = Count[S]
  BY <1>8
<1> QED
  BY <1>1, <1>9 DEF Count

-----------------------------------------------------------------------------
(* Facts about sums, for the proofs.                                       *)

\* A sum of naturals is a natural number.
LEMMA SumType ==
  ASSUME NEW D, NEW f \in [D -> Nat], NEW S \in SUBSET D, IsFiniteSet(S)
  PROVE  SumFunctionOnSet(f, S) \in Nat
BY SumCountsCoins, CoinsFinite, FS_CardinalityType

\* The sum over nothing.
LEMMA SumEmpty ==
  ASSUME NEW D, NEW f \in [D -> Nat]
  PROVE  SumFunctionOnSet(f, {}) = 0
<1>1. Coins(f, {}) = {}
  BY DEF Coins
<1>2. Cardinality({}) = 0 /\ IsFiniteSet({})
  BY FS_EmptySet
<1> QED
  BY <1>1, <1>2, SumCountsCoins

\* The sum over two disjoint sets.
LEMMA SumUnion ==
  ASSUME NEW D, NEW f \in [D -> Nat], NEW S \in SUBSET D, IsFiniteSet(S),
         NEW T \in SUBSET D, IsFiniteSet(T), S \cap T = {}
  PROVE  SumFunctionOnSet(f, S \cup T)
           = SumFunctionOnSet(f, S) + SumFunctionOnSet(f, T)
<1>1. IsFiniteSet(S \cup T)
  BY FS_Union
<1> QED
  BY <1>1, SumCountsCoins, CoinsUnion

\* The sum over a set with one more element.
LEMMA SumAdd ==
  ASSUME NEW D, NEW f \in [D -> Nat], NEW S \in SUBSET D, IsFiniteSet(S),
         NEW x \in D, x \notin S
  PROVE  SumFunctionOnSet(f, S \cup {x}) = SumFunctionOnSet(f, S) + f[x]
<1>1. IsFiniteSet({x})
  BY FS_Singleton
<1>2. SumFunctionOnSet(f, {x}) = f[x]
  BY <1>1, SumCountsCoins, CoinsOfOne
<1>3. {x} \in SUBSET D /\ S \cap {x} = {}
  OBVIOUS
<1>4. SumFunctionOnSet(f, S \cup {x})
        = SumFunctionOnSet(f, S) + SumFunctionOnSet(f, {x})
  BY <1>1, <1>3, SumUnion
<1> QED
  BY <1>2, <1>4

\* A sum over fewer elements is no larger.
LEMMA SumSubset ==
  ASSUME NEW D, NEW f \in [D -> Nat], NEW S \in SUBSET D, IsFiniteSet(S),
         NEW T \in SUBSET S
  PROVE  SumFunctionOnSet(f, T) <= SumFunctionOnSet(f, S)
<1>1. IsFiniteSet(T) /\ IsFiniteSet(S \ T)
  BY FS_Subset
<1>2. /\ SumFunctionOnSet(f, T) \in Nat
      /\ SumFunctionOnSet(f, S \ T) \in Nat
  BY <1>1, SumType
<1>3. S = T \cup (S \ T) /\ T \cap (S \ T) = {}
  OBVIOUS
<1>4. SumFunctionOnSet(f, S)
        = SumFunctionOnSet(f, T) + SumFunctionOnSet(f, S \ T)
  BY <1>1, <1>3, SumUnion
<1> QED
  BY <1>2, <1>4

=============================================================================
