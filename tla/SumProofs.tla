----------------------------- MODULE SumProofs -----------------------------
(***************************************************************************)
(* Sums over finite sets.  MapThenSumSet is a recursive function, and the  *)
(* induction that it takes goes by the natural numbers in a set: the       *)
(* smallest one outside it would be a minimal element.                     *)
(***************************************************************************)
EXTENDS Integers, FiniteSetsExt, FiniteSetTheorems, TLAPS

SumOver(f, S) == MapThenSumSet(LAMBDA x : f[x], S)

Pick(s) == CHOOSE x \in s : TRUE

\* The equation of the fold, for the subsets of S.
IsFold(g, f, S) ==
  g = [s \in SUBSET S |-> IF s = {} THEN 0 ELSE f[Pick(s)] + g[s \ {Pick(s)}]]

LEMMA NatInd ==
  ASSUME NEW A, 0 \in A, \A n \in Nat : n \in A => n + 1 \in A
  PROVE  \A n \in Nat : n \in A
<1> DEFINE T == {n \in Nat : n \notin A}
<1>1. SUFFICES ASSUME T # {} PROVE FALSE
  OBVIOUS
<1>2. IsWellFoundedOn(OpToRel(<, Nat), Nat)
  BY NatLessThanWellFounded
<1>3. PICK n \in T : \A m \in T : <<m, n>> \notin OpToRel(<, Nat)
  <2>1. T \subseteq Nat
    OBVIOUS
  <2> QED
    BY <1>1, <1>2, <2>1, WFMin
<1>4. \A m \in T : ~(m < n)
  BY <1>3 DEF OpToRel
<1>5. n # 0 /\ n - 1 \in Nat
  OBVIOUS
<1> QED
  BY <1>4, <1>5

LEMMA Picked ==
  ASSUME NEW S, IsFiniteSet(S), NEW s \in SUBSET S, s # {}
  PROVE  /\ Pick(s) \in s /\ s \ {Pick(s)} \in SUBSET S
         /\ IsFiniteSet(s) /\ Cardinality(s) \in Nat \ {0}
         /\ Cardinality(s \ {Pick(s)}) = Cardinality(s) - 1
<1>1. Pick(s) \in s
  BY DEF Pick
<1>2. IsFiniteSet(s)
  BY FS_Subset
<1>3. Cardinality(s \ {Pick(s)}) = Cardinality(s) - 1
  BY <1>1, <1>2, FS_RemoveElement
<1>4. Cardinality(s) \in Nat
  BY <1>2, FS_CardinalityType
<1>5. Cardinality(s) # 0
  BY <1>2, FS_EmptySet
<1> QED
  BY <1>1, <1>2, <1>3, <1>4, <1>5

LEMMA FoldExists ==
  ASSUME NEW f, NEW S, IsFiniteSet(S)
  PROVE  \E g : IsFold(g, f, S)
<1> DEFINE Upto(n)     == {s \in SUBSET S : Cardinality(s) <= n}
           Step(g, s)  == IF s = {} THEN 0 ELSE f[Pick(s)] + g[s \ {Pick(s)}]
           A           == {n \in Nat : \E g : \A s \in Upto(n) : g[s] = Step(g, s)}
<1>1. \A s \in SUBSET S : IsFiniteSet(s) /\ Cardinality(s) \in Nat
  BY FS_Subset, FS_CardinalityType
<1>2. 0 \in A
  <2> DEFINE g == [s \in SUBSET S |-> 0]
  <2>1. ASSUME NEW s \in Upto(0) PROVE g[s] = Step(g, s)
    <3>1. Cardinality(s) = 0
      BY <1>1
    <3>2. s = {}
      BY <1>1, <3>1, FS_EmptySet
    <3> QED
      BY <3>2
  <2> QED
    BY <2>1
<1>3. ASSUME NEW n \in Nat, n \in A PROVE n + 1 \in A
  <2>1. PICK g : \A s \in Upto(n) : g[s] = Step(g, s)
    BY <1>3
  <2> DEFINE h == [s \in SUBSET S |-> IF s \in Upto(n) THEN g[s] ELSE Step(g, s)]
  <2>2. ASSUME NEW s \in Upto(n + 1), s # {}
        PROVE  s \ {Pick(s)} \in Upto(n) /\ Cardinality(s) \in Nat
    BY <2>2, Picked
  <2>3. ASSUME NEW s \in Upto(n + 1) PROVE h[s] = Step(h, s)
    <3>1. CASE s = {}
      BY <2>1, <3>1
    <3>2. CASE s # {}
      <4>1. h[s] = Step(g, s)
        BY <2>1
      <4>2. h[s \ {Pick(s)}] = g[s \ {Pick(s)}]
        BY <2>2, <3>2
      <4> QED
        BY <3>2, <4>1, <4>2
    <3> QED
      BY <3>1, <3>2
  <2>4. \E k : \A s \in Upto(n + 1) : k[s] = Step(k, s)
    <3> HIDE DEF h
    <3> QED
      BY <2>3
  <2>5. n + 1 \in Nat
    OBVIOUS
  <2> HIDE DEF Step, Upto
  <2> QED
    BY <2>4, <2>5
<1>4. Cardinality(S) \in Nat /\ \A n \in Nat : n \in A
  <2> HIDE DEF A
  <2>1. \A n \in Nat : n \in A
    BY <1>2, <1>3, NatInd
  <2> QED
    BY <1>1, <2>1
<1>5. PICK g : \A s \in Upto(Cardinality(S)) : g[s] = Step(g, s)
  BY <1>4
<1>6. \A s \in SUBSET S : s \in Upto(Cardinality(S))
  BY FS_Subset
<1> DEFINE h == [s \in SUBSET S |-> g[s]]
<1>7. ASSUME NEW s \in SUBSET S PROVE h[s] = Step(h, s)
  <2>1. h[s] = Step(g, s)
    BY <1>5, <1>6
  <2> QED
    BY <2>1
<1>8. IsFold(h, f, S)
  BY <1>7 DEF IsFold
<1> QED
  BY <1>8

LEMMA FoldUnique ==
  ASSUME NEW S, IsFiniteSet(S), NEW T \in SUBSET S, NEW e, NEW f, NEW g, NEW h,
         IsFold(g, e, S), IsFold(h, f, T), \A x \in T : e[x] = f[x]
  PROVE  \A s \in SUBSET T : g[s] = h[s]
<1> DEFINE A == {n \in Nat : \A s \in SUBSET T : Cardinality(s) = n => g[s] = h[s]}
<1>1. \A s \in SUBSET T : s \in SUBSET S /\ IsFiniteSet(s) /\ Cardinality(s) \in Nat
  BY FS_Subset, FS_CardinalityType
<1>2. 0 \in A
  <2>1. ASSUME NEW s \in SUBSET T, Cardinality(s) = 0 PROVE g[s] = h[s]
    <3>1. s = {}
      BY <1>1, <2>1, FS_EmptySet
    <3> QED
      BY <1>1, <3>1 DEF IsFold
  <2> QED
    BY <2>1
<1>3. ASSUME NEW n \in Nat, n \in A PROVE n + 1 \in A
  <2>1. ASSUME NEW s \in SUBSET T, Cardinality(s) = n + 1 PROVE g[s] = h[s]
    <3>1. s # {}
      BY <2>1, FS_EmptySet
    <3>2. /\ Pick(s) \in s /\ s \ {Pick(s)} \in SUBSET T
          /\ Cardinality(s \ {Pick(s)}) = n
      BY <1>1, <2>1, <3>1, Picked
    <3>3. g[s \ {Pick(s)}] = h[s \ {Pick(s)}]
      BY <1>3, <3>2
    <3>4. g[s] = e[Pick(s)] + g[s \ {Pick(s)}]
      BY <1>1, <3>1 DEF IsFold
    <3>5. h[s] = f[Pick(s)] + h[s \ {Pick(s)}]
      BY <3>1 DEF IsFold
    <3>6. e[Pick(s)] = f[Pick(s)]
      BY <3>2
    <3> QED
      BY <3>3, <3>4, <3>5, <3>6
  <2> QED
    BY <2>1
<1>4. \A n \in Nat : n \in A
  <2> HIDE DEF A
  <2> QED
    BY <1>2, <1>3, NatInd
<1> QED
  BY <1>1, <1>4

\* The fold is the sum.
LEMMA SumIs ==
  ASSUME NEW f, NEW S, IsFiniteSet(S)
  PROVE  \E g : IsFold(g, f, S) /\ \A s \in SUBSET S : SumOver(f, s) = g[s]
<1>1. ASSUME NEW s \in SUBSET S
      PROVE  \E h : IsFold(h, f, s) /\ SumOver(f, s) = h[s]
  <2>1. IsFiniteSet(s)
    BY FS_Subset
  <2>2. IsFold(CHOOSE h : IsFold(h, f, s), f, s)
    BY <2>1, FoldExists
  <2>3. SumOver(f, s) = (CHOOSE h : IsFold(h, f, s))[s]
    BY DEF SumOver, MapThenSumSet, MapThenFoldSet, IsFold, Pick
  <2> QED
    BY <2>2, <2>3
<1>2. PICK g : IsFold(g, f, S)
  BY FoldExists
<1>3. ASSUME NEW s \in SUBSET S PROVE SumOver(f, s) = g[s]
  <2>1. PICK h : IsFold(h, f, s) /\ SumOver(f, s) = h[s]
    BY <1>1
  <2> QED
    BY <1>2, <2>1, FoldUnique
<1> QED
  BY <1>2, <1>3

-----------------------------------------------------------------------------
LEMMA SumEmpty == \A f : SumOver(f, {}) = 0
<1>1. ASSUME NEW f PROVE SumOver(f, {}) = 0
  <2>1. IsFiniteSet({})
    BY FS_EmptySet
  <2>2. PICK g : IsFold(g, f, {}) /\ \A s \in SUBSET {} : SumOver(f, s) = g[s]
    BY <2>1, SumIs
  <2>3. g[{}] = 0
    BY <2>2 DEF IsFold
  <2> QED
    BY <2>2, <2>3
<1> QED
  BY <1>1

LEMMA SumPick ==
  ASSUME NEW f, NEW S, IsFiniteSet(S), S # {}
  PROVE  SumOver(f, S) = f[Pick(S)] + SumOver(f, S \ {Pick(S)})
<1>1. PICK g : IsFold(g, f, S) /\ \A s \in SUBSET S : SumOver(f, s) = g[s]
  BY SumIs
<1>2. g[S] = f[Pick(S)] + g[S \ {Pick(S)}]
  BY <1>1 DEF IsFold
<1> QED
  BY <1>1, <1>2

LEMMA SumSame ==
  ASSUME NEW e, NEW f, NEW S, IsFiniteSet(S), \A x \in S : e[x] = f[x]
  PROVE  SumOver(e, S) = SumOver(f, S)
<1>1. PICK g : IsFold(g, e, S) /\ \A s \in SUBSET S : SumOver(e, s) = g[s]
  BY SumIs
<1>2. PICK h : IsFold(h, f, S) /\ \A s \in SUBSET S : SumOver(f, s) = h[s]
  BY SumIs
<1>3. g[S] = h[S]
  <2>1. IsFold(g, e, S) /\ IsFold(h, f, S)
    BY <1>1, <1>2
  <2> QED
    BY <2>1, FoldUnique
<1>4. SumOver(e, S) = g[S]
  <2>1. S \in SUBSET S
    OBVIOUS
  <2> QED
    BY <1>1, <2>1
<1>5. SumOver(f, S) = h[S]
  <2>1. S \in SUBSET S
    OBVIOUS
  <2> QED
    BY <1>2, <2>1
<1> QED
  BY <1>3, <1>4, <1>5

LEMMA SumNat ==
  ASSUME NEW f, NEW S, IsFiniteSet(S), \A x \in S : f[x] \in Nat
  PROVE  SumOver(f, S) \in Nat
<1> DEFINE A == {n \in Nat : \A s \in SUBSET S : Cardinality(s) = n => SumOver(f, s) \in Nat}
<1>1. \A s \in SUBSET S : IsFiniteSet(s) /\ Cardinality(s) \in Nat
  BY FS_Subset, FS_CardinalityType
<1>2. 0 \in A
  BY <1>1, FS_EmptySet, SumEmpty
<1>3. ASSUME NEW n \in Nat, n \in A PROVE n + 1 \in A
  <2>1. ASSUME NEW s \in SUBSET S, Cardinality(s) = n + 1 PROVE SumOver(f, s) \in Nat
    <3>1. s # {}
      BY <2>1, FS_EmptySet
    <3>2. /\ Pick(s) \in s /\ s \ {Pick(s)} \in SUBSET S
          /\ Cardinality(s \ {Pick(s)}) = n
      BY <1>1, <2>1, <3>1, Picked
    <3>3. SumOver(f, s \ {Pick(s)}) \in Nat /\ f[Pick(s)] \in Nat
      BY <1>3, <3>2
    <3>4. SumOver(f, s) = f[Pick(s)] + SumOver(f, s \ {Pick(s)})
      BY <1>1, <3>1, SumPick
    <3> QED
      BY <3>3, <3>4
  <2> QED
    BY <2>1
<1>4. \A n \in Nat : n \in A
  <2> HIDE DEF A
  <2> QED
    BY <1>2, <1>3, NatInd
<1> QED
  BY <1>1, <1>4

\* Whichever element is counted first.
LEMMA SumLess ==
  ASSUME NEW f, NEW S, IsFiniteSet(S), \A x \in S : f[x] \in Nat, NEW y \in S
  PROVE  SumOver(f, S) = f[y] + SumOver(f, S \ {y})
<1> DEFINE A == {n \in Nat : \A s \in SUBSET S : Cardinality(s) = n =>
                               \A x \in s : SumOver(f, s) = f[x] + SumOver(f, s \ {x})}
<1>1. \A s \in SUBSET S : IsFiniteSet(s) /\ Cardinality(s) \in Nat
  BY FS_Subset, FS_CardinalityType
<1>2. 0 \in A
  BY <1>1, FS_EmptySet
<1>3. ASSUME NEW n \in Nat, n \in A PROVE n + 1 \in A
  <2>1. ASSUME NEW s \in SUBSET S, Cardinality(s) = n + 1, NEW x \in s
        PROVE  SumOver(f, s) = f[x] + SumOver(f, s \ {x})
    <3> DEFINE p == Pick(s)
    <3>1. s # {} /\ IsFiniteSet(s)
      BY <1>1
    <3>2. p \in s /\ s \ {p} \in SUBSET S /\ Cardinality(s \ {p}) = n
      BY <1>1, <2>1, <3>1, Picked
    <3>3. SumOver(f, s) = f[p] + SumOver(f, s \ {p})
      BY <3>1, SumPick
    <3>4. CASE x = p
      BY <3>3, <3>4
    <3>5. CASE x # p
      <4>1. s \ {x} \in SUBSET S /\ Cardinality(s \ {x}) = n
        <5>1. Cardinality(s \ {x}) = Cardinality(s) - 1
          BY <3>1, FS_RemoveElement
        <5> QED
          BY <2>1, <5>1
      <4>2. SumOver(f, s \ {p}) = f[x] + SumOver(f, (s \ {p}) \ {x})
        BY <1>3, <3>2, <3>5
      <4>3. SumOver(f, s \ {x}) = f[p] + SumOver(f, (s \ {x}) \ {p})
        BY <1>3, <3>2, <3>5, <4>1
      <4>4. (s \ {p}) \ {x} = (s \ {x}) \ {p}
        OBVIOUS
      <4>5. f[x] \in Nat /\ f[p] \in Nat /\ SumOver(f, (s \ {x}) \ {p}) \in Nat
        <5>1. (s \ {x}) \ {p} \in SUBSET S
          OBVIOUS
        <5>2. IsFiniteSet((s \ {x}) \ {p})
          BY <1>1, <5>1
        <5>3. SumOver(f, (s \ {x}) \ {p}) \in Nat
          BY <5>1, <5>2, SumNat
        <5> QED
          BY <3>2, <5>3
      <4> QED
        BY <3>3, <4>2, <4>3, <4>4, <4>5
    <3> QED
      BY <3>4, <3>5
  <2> QED
    BY <2>1
<1>4. \A n \in Nat : n \in A
  <2> HIDE DEF A
  <2> QED
    BY <1>2, <1>3, NatInd
<1> QED
  BY <1>1, <1>4

LEMMA SumMore ==
  ASSUME NEW f, NEW S, IsFiniteSet(S), NEW y, y \notin S,
         \A x \in S \cup {y} : f[x] \in Nat
  PROVE  SumOver(f, S \cup {y}) = f[y] + SumOver(f, S)
<1>1. IsFiniteSet(S \cup {y})
  BY FS_AddElement
<1>2. (S \cup {y}) \ {y} = S
  OBVIOUS
<1>3. SumOver(f, S \cup {y}) = f[y] + SumOver(f, (S \cup {y}) \ {y})
  BY <1>1, SumLess
<1> QED
  BY <1>2, <1>3

\* One element divided in two: with c what b has lost, the sum is the same.
LEMMA SumSplit ==
  ASSUME NEW s, NEW t, NEW A, IsFiniteSet(A), NEW b \in A, NEW c, c \notin A,
         \A x \in A : s[x] \in Nat, \A x \in A \cup {c} : t[x] \in Nat,
         \A x \in A \ {b} : t[x] = s[x], t[b] + t[c] = s[b]
  PROVE  SumOver(t, A \cup {c}) = SumOver(s, A)
<1>1. IsFiniteSet(A \ {b})
  BY FS_Subset
<1>2. SumOver(t, A \ {b}) = SumOver(s, A \ {b})
  BY <1>1, SumSame
<1>3. SumOver(t, A \cup {c}) = t[c] + SumOver(t, A)
  BY SumMore
<1>4. SumOver(t, A) = t[b] + SumOver(t, A \ {b})
  BY SumLess
<1>5. SumOver(s, A) = s[b] + SumOver(s, A \ {b})
  BY SumLess
<1>6. SumOver(s, A \ {b}) \in Nat /\ t[b] \in Nat /\ t[c] \in Nat
  BY <1>1, SumNat
<1> QED
  BY <1>2, <1>3, <1>4, <1>5, <1>6
=============================================================================
