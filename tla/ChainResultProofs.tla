--------------------------- MODULE ChainResultProofs ---------------------------
(***************************************************************************)
(* What summing the ChainResults of a chain's address scans computes, for  *)
(* any number of scans: the union of their hashes and errors, no frontier  *)
(* if one of them has none, else the least. The fold is a recursion over   *)
(* subsets; the closed form satisfies it, and on a finite set it has one   *)
(* solution.                                                               *)
(***************************************************************************)
EXTENDS ChainResult, FiniteSetTheorems, TLAPS

\* The blocks reported by the scans in s, and the identity of the minimum.
Reported(r, s) == (UNION {r[e].confirmed_frontier : e \in s}) \cup {U64Max}

\* The result of the scans in s.
Closed(r, s) ==
  ChainResultOf(
    UNION {r[e].processed_tx_hashes : e \in s},
    {x \in Reported(r, s) : /\ \A e \in s : r[e].confirmed_frontier # {}
                            /\ \A y \in Reported(r, s) : x <= y},
    UNION {r[e].errors : e \in s})

\* Of some block numbers one is the least.
LEMMA LeastBlock ==
  ASSUME NEW S \in SUBSET Nat, S # {}
  PROVE  \E m \in S : \A x \in S : m <= x
<1>1. PICK m \in S : \A x \in S : <<x, m>> \notin OpToRel(<, Nat)
  BY NatLessThanWellFounded, WFMin
<1>2. \A x \in S : ~ (x < m)
  BY <1>1 DEF OpToRel
<1> QED
  BY <1>2

\* The closed form of no scans is the EMPTY result.
LEMMA ClosedOfNone == ASSUME NEW r PROVE Closed(r, {}) = EMPTY
<1>1. Reported(r, {}) = {U64Max}
  BY DEF Reported
<1>2. /\ UNION {r[e].processed_tx_hashes : e \in {}} = {}
      /\ UNION {r[e].errors : e \in {}} = {}
  OBVIOUS
<1>3. {x \in Reported(r, {}) : /\ \A e \in {} : r[e].confirmed_frontier # {}
                               /\ \A y \in Reported(r, {}) : x <= y} = {U64Max}
  BY <1>1, U64Assumption
<1> QED
  BY <1>2, <1>3, Zenon DEF Closed, EMPTY

\* One more scan: its result is added to that of the others.
LEMMA ClosedAdds ==
  ASSUME NEW r, NEW s, NEW e \in s,
         \A d \in s : r[d].confirmed_frontier \in SUBSET Nat
  PROVE  Closed(r, s) = Add(r[e], Closed(r, s \ {e}))
<1> DEFINE rest == s \ {e}
           f == r[e].confirmed_frontier
           A == Reported(r, s)
           B == Reported(r, rest)
           fB == Closed(r, rest).confirmed_frontier
           fA == Closed(r, s).confirmed_frontier
<1>1. A = f \cup B /\ A \in SUBSET Nat /\ B \in SUBSET Nat /\ U64Max \in B
  <2>1. UNION {r[d].confirmed_frontier : d \in s}
          = f \cup UNION {r[d].confirmed_frontier : d \in rest}
    OBVIOUS
  <2>2. A = f \cup B
    BY <2>1 DEF Reported
  <2>3. A \in SUBSET Nat
    BY U64Assumption DEF Reported
  <2>4. U64Max \in B
    BY DEF Reported
  <2> QED
    BY <2>2, <2>3, <2>4
<1>2. PICK m \in B : \A x \in B : m <= x
  BY <1>1, LeastBlock
<1>3. fB = {x \in B : /\ \A d \in rest : r[d].confirmed_frontier # {}
                      /\ \A y \in B : x <= y}
  BY DEF Closed, ChainResultOf
<1>4. fA = {x \in A : /\ \A d \in s : r[d].confirmed_frontier # {}
                      /\ \A y \in A : x <= y}
  BY DEF Closed, ChainResultOf
<1>5. (\A d \in s : r[d].confirmed_frontier # {})
        <=> f # {} /\ \A d \in rest : r[d].confirmed_frontier # {}
  OBVIOUS
<1> HIDE DEF A, B, fA, fB, f
<1>6. fA = MinFrontier(f, fB)
  <2>1. CASE \A d \in rest : r[d].confirmed_frontier # {}
    <3>1. fB = {m}
      <4>1. ASSUME NEW x \in B, \A y \in B : x <= y PROVE x = m
        <5>1. x <= m /\ m <= x /\ x \in Nat /\ m \in Nat
          BY <1>1, <1>2, <4>1
        <5> QED
          BY <5>1
      <4> QED
        BY <1>2, <1>3, <2>1, <4>1
    <3>2. ASSUME NEW x \in A, \A y \in A : x <= y PROVE x \in f \cup {m}
      <4>1. CASE x \in B
        <5>1. x <= m /\ m <= x /\ x \in Nat /\ m \in Nat
          BY <1>1, <1>2, <3>2, <4>1
        <5> QED
          BY <5>1
      <4> QED
        BY <1>1, <4>1
    <3>3. ASSUME NEW x \in f \cup {m}, \A y \in f \cup {m} : x <= y
          PROVE  \A y \in A : x <= y
      <4>1. x \in Nat /\ m \in Nat /\ x <= m /\ A \subseteq Nat
        BY <1>1, <1>2, <3>3
      <4>2. \A y \in B : x <= y
        BY <1>1, <1>2, <4>1
      <4> QED
        BY <1>1, <3>3, <4>2
    <3>4. f \cup {m} \subseteq A
      BY <1>1, <1>2
    <3>5. fA = {x \in f \cup {m} : f # {} /\ \A y \in f \cup {m} : x <= y}
      BY <1>4, <1>5, <2>1, <3>2, <3>3, <3>4
    <3> QED
      BY <3>1, <3>5 DEF MinFrontier
  <2>2. CASE ~ \A d \in rest : r[d].confirmed_frontier # {}
    <3>1. fB = {}
      BY <1>3, <2>2
    <3>2. fA = {}
      BY <1>4, <1>5, <2>2
    <3> QED
      BY <3>1, <3>2 DEF MinFrontier
  <2> QED
    BY <2>1, <2>2
<1>7. UNION {r[d].processed_tx_hashes : d \in s}
        = r[e].processed_tx_hashes \cup UNION {r[d].processed_tx_hashes : d \in rest}
  OBVIOUS
<1>8. UNION {r[d].errors : d \in s} = r[e].errors \cup UNION {r[d].errors : d \in rest}
  OBVIOUS
<1>9. Closed(r, s) = ChainResultOf(UNION {r[d].processed_tx_hashes : d \in s}, fA,
                                   UNION {r[d].errors : d \in s})
  BY DEF Closed, ChainResultOf, fA
<1>10. Closed(r, rest).processed_tx_hashes = UNION {r[d].processed_tx_hashes : d \in rest}
       /\ Closed(r, rest).errors = UNION {r[d].errors : d \in rest}
  BY DEF Closed, ChainResultOf
<1> QED
  BY <1>6, <1>7, <1>8, <1>9, <1>10 DEF Add, f, fB

\* The sum folded by Add from EMPTY, whatever the order, is the closed form.
THEOREM SumIsClosed ==
  ASSUME NEW D, IsFiniteSet(D), NEW r, DOMAIN r = D,
         \A e \in D : r[e].confirmed_frontier \in SUBSET Nat
  PROVE  Sum(r) = Closed(r, D)
<1> DEFINE Pick(s) == CHOOSE x \in s : TRUE
           C == [s \in SUBSET D |-> Closed(r, s)]
           Rec(g) == [s \in SUBSET D |->
                        IF s = {} THEN EMPTY ELSE Add(r[Pick(s)], g[s \ {Pick(s)}])]
           iter == CHOOSE g : g = Rec(g)
<1>1. Sum(r) = iter[D]
  BY DEF Sum, FoldFunction, FoldFunctionOnSet, MapThenFoldSet
<1>2. \A s \in SUBSET D : s # {} => Pick(s) \in s
  OBVIOUS
<1>3. ASSUME NEW s \in SUBSET D, s # {}
      PROVE  C[s] = Add(r[Pick(s)], C[s \ {Pick(s)}])
  <2>1. Pick(s) \in s
    BY <1>2, <1>3
  <2> HIDE DEF Pick
  <2>2. Closed(r, s) = Add(r[Pick(s)], Closed(r, s \ {Pick(s)}))
    BY <2>1, ClosedAdds
  <2> QED
    BY <2>2
<1>4. C[{}] = EMPTY
  BY ClosedOfNone
<1>5. C = Rec(C)
  BY <1>3, <1>4
<1>6. iter = Rec(iter)
  <2>1. \E g : g = Rec(g)
    BY <1>5
  <2> HIDE DEF Rec
  <2> QED
    BY <2>1
<1> HIDE DEF iter, C, Pick
<1>7. /\ iter[{}] = EMPTY
      /\ \A s \in SUBSET D : s # {} => iter[s] = Add(r[Pick(s)], iter[s \ {Pick(s)}])
  BY <1>6
<1> DEFINE T == {s \in SUBSET D : iter[s] # C[s]}
<1>8. ASSUME T # {} PROVE FALSE
  <2>1. IsWellFoundedOn(StrictSubsetOrdering(D), SUBSET D)
    BY FS_StrictSubsetOrderingWellFounded, FS_FiniteSubsetsOfFinite
  <2>2. PICK s \in T : \A u \in T : <<u, s>> \notin StrictSubsetOrdering(D)
    <3>1. T \subseteq SUBSET D
      OBVIOUS
    <3> HIDE DEF T
    <3> QED
      BY <1>8, <2>1, <3>1, WFMin
  <2>3. s \in SUBSET D /\ s # {}
    BY <1>4, <1>7, <1>8
  <2>4. Pick(s) \in s
    BY <1>2, <2>3
  <2>5. <<s \ {Pick(s)}, s>> \in StrictSubsetOrdering(D)
    BY <2>3, <2>4 DEF StrictSubsetOrdering
  <2>6. iter[s \ {Pick(s)}] = C[s \ {Pick(s)}]
    BY <1>8, <2>2, <2>3, <2>5
  <2>7. iter[s] = C[s]
    BY <1>3, <1>7, <2>3, <2>6
  <2> QED
    BY <1>8, <2>7
<1>9. iter[D] = C[D]
  BY <1>8
<1> QED
  BY <1>1, <1>9 DEF C

=============================================================================
