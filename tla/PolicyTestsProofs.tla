-------------------------- MODULE PolicyTestsProofs --------------------------
(***************************************************************************)
(* The theorems about the programs of PolicyTests, for every value of the  *)
(* constants that PolicyTestsAssumption and MyMallocAssumption allow: any  *)
(* number of items and rounds, any sizes, any heap.                        *)
(***************************************************************************)
EXTENDS PolicyTests, MyMallocProofs, SequenceTheorems, FunctionTheorems

(***************************************************************************)
(* FlattenSeq is a recursive function: its equation.                       *)
(***************************************************************************)

IsFlat(f, ss) ==
  f = [i \in 1 .. Len(ss) |-> IF i = 1 THEN ss[i] ELSE f[i - 1] \o ss[i]]

\* The same, of the first n parts.
IsFlatTo(f, ss, n) ==
  f = [i \in 1 .. n |-> IF i = 1 THEN ss[i] ELSE f[i - 1] \o ss[i]]

LEMMA FlatExists ==
  ASSUME NEW ss, Len(ss) \in Nat
  PROVE  \E f : IsFlat(f, ss)
<1> DEFINE A == {n \in Nat : \E f : IsFlatTo(f, ss, n)}
<1>1. 0 \in A
  <2> DEFINE f == [i \in 1 .. 0 |-> 0]
  <2>1. f = [i \in 1 .. 0 |-> IF i = 1 THEN ss[i] ELSE f[i - 1] \o ss[i]]
    OBVIOUS
  <2> HIDE DEF f
  <2> QED
    BY <2>1 DEF IsFlatTo
<1>2. ASSUME NEW n \in Nat, n \in A PROVE n + 1 \in A
  <2>1. PICK f : IsFlatTo(f, ss, n)
    BY <1>2
  <2> DEFINE g == [i \in 1 .. n + 1 |-> IF i = 1 THEN ss[i]
                                        ELSE IF i = n + 1 THEN f[n] \o ss[i]
                                        ELSE f[i]]
  <2>0. \A i \in 1 .. n : f[i] = IF i = 1 THEN ss[i] ELSE f[i - 1] \o ss[i]
    BY <2>1 DEF IsFlatTo
  <2>2. \A i \in 1 .. n : g[i] = f[i]
    BY <2>0
  <2>3. \A i \in 1 .. n + 1 : g[i] = IF i = 1 THEN ss[i] ELSE g[i - 1] \o ss[i]
    <3> SUFFICES ASSUME NEW i \in 1 .. n + 1, i # 1
                 PROVE  g[i] = g[i - 1] \o ss[i]
      OBVIOUS
    <3>1. i - 1 \in 1 .. n
      OBVIOUS
    <3>2. g[i - 1] = f[i - 1]
      BY <2>2, <3>1
    <3>3. CASE i = n + 1
      <4>1. i - 1 = n
        BY <3>3
      <4>2. i # 1 /\ g[i] = f[n] \o ss[i]
        BY <3>3, Zenon
      <4> QED
        BY <3>2, <4>1, <4>2
    <3>4. CASE i # n + 1
      <4>1. i \in 1 .. n
        BY <3>4
      <4>2. f[i] = f[i - 1] \o ss[i]
        BY <2>0, <4>1
      <4>3. g[i] = f[i]
        BY <2>2, <4>1
      <4> QED
        BY <3>2, <4>2, <4>3
    <3> QED
      BY <3>3, <3>4
  <2>4. g = [i \in 1 .. n + 1 |-> g[i]]
    OBVIOUS
  <2> HIDE DEF g
  <2>5. IsFlatTo(g, ss, n + 1)
    BY <2>3, <2>4 DEF IsFlatTo
  <2> QED
    BY <2>5
<1>3. \A n \in Nat : n \in A
  <2> HIDE DEF A
  <2> QED
    BY <1>1, <1>2, NatInd
<1>4. Len(ss) \in A
  BY <1>3
<1>5. PICK f : IsFlatTo(f, ss, Len(ss))
  BY <1>4
<1> QED
  BY <1>5 DEF IsFlatTo, IsFlat

LEMMA FlatIs ==
  ASSUME NEW ss, Len(ss) \in Nat \ {0}
  PROVE  \E f : IsFlat(f, ss) /\ FlattenSeq(ss) = f[Len(ss)]
<1> DEFINE f == CHOOSE g : IsFlat(g, ss)
<1>1. IsFlat(f, ss)
  BY FlatExists
<1>2. FlattenSeq(ss) = f[Len(ss)]
  BY DEF FlattenSeq, IsFlat
<1> HIDE DEF f
<1> QED
  BY <1>1, <1>2

-----------------------------------------------------------------------------
(***************************************************************************)
(* Runs(X, c, A, B): the calls c, all of X, can be made by a program that  *)
(* holds the pointers at the places of A, and leave it with those of B: it *)
(* allocates only into a place that holds none, and frees only from one    *)
(* that holds one.                                                         *)
(***************************************************************************)

Slots == {0, 1} \X (Index \cup 0 .. 9)

CallsTo(S, Z) == {MALLOC(s, z) : s \in S, z \in Z} \cup {FREE(s) : s \in S}

\* The call x leads from the places A to the places B.
Turns(x, A, B) ==
  \/ x.call = "malloc" /\ x.slot \notin A /\ B = A \cup {x.slot}
  \/ x.call = "free" /\ x.slot \in A /\ B = A \ {x.slot}

\* h is what is held after each call of c.
Traces(h, c) == \A n \in 1 .. Len(c) : Turns(c[n], h[n - 1], h[n])

Runs(X, c, A, B) ==
  /\ c \in Seq(X)
  /\ \E h : h[0] = A /\ h[Len(c)] = B /\ Traces(h, c)

LEMMA RunsNone ==
  ASSUME NEW X, NEW A, NEW B
  PROVE  Runs(X, <<>>, A, B) <=> A = B
<1>1. <<>> \in Seq(X) /\ Len(<<>>) = 0
  BY EmptySeq
<1>2. ASSUME A = B PROVE \E h : h[0] = A /\ h[0] = B
  <2> DEFINE h == [n \in {0} |-> A]
  <2>1. h[0] = A /\ h[0] = B
    BY <1>2
  <2> HIDE DEF h
  <2> QED
    BY <2>1
<1> QED
  BY <1>1, <1>2 DEF Runs, Traces

LEMMA RunsJoin ==
  ASSUME NEW X, NEW c, NEW d, NEW A, NEW B, NEW C, Runs(X, c, A, B), Runs(X, d, B, C)
  PROVE  Runs(X, c \o d, A, C)
<1>1. c \in Seq(X) /\ d \in Seq(X) /\ Len(c) \in Nat /\ Len(d) \in Nat
  BY LenProperties DEF Runs
<1>2. PICK h : h[0] = A /\ h[Len(c)] = B /\ Traces(h, c)
  BY DEF Runs
<1>3. PICK k : k[0] = B /\ k[Len(d)] = C /\ Traces(k, d)
  BY DEF Runs
<1>4. /\ c \o d \in Seq(X) /\ Len(c \o d) = Len(c) + Len(d)
      /\ \A i \in 1 .. Len(c) + Len(d) : (c \o d)[i] = IF i <= Len(c) THEN c[i] ELSE d[i - Len(c)]
  BY <1>1, ConcatProperties
<1> DEFINE m == Len(c)
           e == c \o d
           j == [n \in 0 .. m + Len(d) |-> IF n <= m THEN h[n] ELSE k[n - m]]
<1>5. j[0] = A /\ j[m + Len(d)] = C
  BY <1>1, <1>2, <1>3
<1>6. ASSUME NEW n \in 1 .. m + Len(d) PROVE Turns(e[n], j[n - 1], j[n])
  <2>1. CASE n <= m
    <3>1. n \in 1 .. Len(c) /\ n - 1 <= m /\ n - 1 \in 0 .. m + Len(d)
      BY <1>1, <2>1
    <3>2. e[n] = c[n] /\ j[n - 1] = h[n - 1] /\ j[n] = h[n]
      BY <1>4, <2>1, <3>1
    <3> HIDE DEF j, e, m
    <3> QED
      BY <1>2, <3>1, <3>2 DEF Traces
  <2>2. CASE n > m
    <3>1. n - m \in 1 .. Len(d) /\ n - 1 \in 0 .. m + Len(d) /\ (n - m) - 1 = (n - 1) - m
      BY <1>1, <2>2
    <3>2. e[n] = d[n - m] /\ j[n] = k[n - m]
      BY <1>1, <1>4, <2>2
    <3>3. j[n - 1] = k[(n - m) - 1]
      <4>1. CASE n - 1 = m
        <5>1. j[n - 1] = h[m] /\ (n - m) - 1 = 0
          BY <1>1, <3>1, <4>1
        <5> QED
          BY <1>2, <1>3, <5>1
      <4>2. CASE n - 1 # m
        <5>1. ~(n - 1 <= m)
          BY <1>1, <2>2, <4>2
        <5> QED
          BY <3>1, <5>1
      <4> QED
        BY <4>1, <4>2
    <3> HIDE DEF j, e, m
    <3> QED
      BY <1>3, <3>1, <3>2, <3>3 DEF Traces
  <2> QED
    BY <1>1, <2>1, <2>2
<1>7. Len(e) = m + Len(d) /\ e \in Seq(X)
  BY <1>4
<1> HIDE DEF j, e, m
<1>8. j[0] = A /\ j[Len(e)] = C /\ Traces(j, e)
  BY <1>5, <1>6, <1>7 DEF Traces
<1>9. Runs(X, e, A, C)
  BY <1>7, <1>8 DEF Runs
<1> QED
  BY <1>9 DEF e

\* The program makes its first call.
LEMMA RunsOn ==
  ASSUME NEW X, NEW c, NEW A, NEW B, Runs(X, c, A, B), c # <<>>
  PROVE  /\ Head(c) \in X /\ Tail(c) \in Seq(X) /\ Len(c) \in Nat /\ Len(Tail(c)) = Len(c) - 1
         /\ \E K : Turns(Head(c), A, K) /\ Runs(X, Tail(c), K, B)
<1>1. /\ c \in Seq(X) /\ Len(c) \in Nat \ {0} /\ Head(c) = c[1] /\ Head(c) \in X
      /\ Tail(c) \in Seq(X) /\ Len(Tail(c)) = Len(c) - 1
      /\ \A i \in 1 .. Len(Tail(c)) : Tail(c)[i] = c[i + 1]
  BY HeadTailProperties, EmptySeq DEF Runs
<1>2. PICK h : h[0] = A /\ h[Len(c)] = B /\ Traces(h, c)
  BY DEF Runs
<1> DEFINE k == [n \in 0 .. Len(c) - 1 |-> h[n + 1]]
           t == Tail(c)
<1>3. k[0] = h[1] /\ k[Len(t)] = B
  BY <1>1, <1>2
<1>4. ASSUME NEW n \in 1 .. Len(t) PROVE Turns(t[n], k[n - 1], k[n])
  <2>1. n + 1 \in 1 .. Len(c) /\ (n + 1) - 1 = n /\ (n - 1) + 1 = n
    BY <1>1
  <2>2. t[n] = c[n + 1] /\ k[n] = h[n + 1] /\ k[n - 1] = h[n]
    BY <1>1, <2>1
  <2>3. Turns(c[n + 1], h[n], h[n + 1])
    BY <1>2, <2>1 DEF Traces
  <2> HIDE DEF k, t
  <2> QED
    BY <2>2, <2>3
<1>5. Turns(Head(c), A, h[1])
  <2>1. 1 \in 1 .. Len(c) /\ 1 - 1 = 0
    BY <1>1
  <2> QED
    BY <1>1, <1>2, <2>1 DEF Traces
<1> HIDE DEF k
<1>6. Traces(k, t)
  BY <1>4 DEF Traces
<1>7. Runs(X, Tail(c), h[1], B)
  BY <1>1, <1>3, <1>6 DEF Runs
<1> QED
  BY <1>1, <1>5, <1>7

\* The parts of a sequence of sequences, one after the other: K[i] is held after the
\* i-th.
LEMMA RunsFlat ==
  ASSUME NEW X, NEW ss, NEW K, Len(ss) \in Nat, Len(ss) = 0 => ss = <<>>,
         \A i \in 1 .. Len(ss) : Runs(X, ss[i], K[i - 1], K[i])
  PROVE  Runs(X, FlattenSeq(ss), K[0], K[Len(ss)])
<1>1. CASE Len(ss) = 0
  <2>1. FlattenSeq(ss) = <<>>
    BY <1>1 DEF FlattenSeq
  <2> QED
    BY <1>1, <2>1, RunsNone
<1>2. CASE Len(ss) # 0
  <2>1. PICK f : IsFlat(f, ss) /\ FlattenSeq(ss) = f[Len(ss)]
    BY <1>2, FlatIs
  <2>2. \A i \in 1 .. Len(ss) : f[i] = IF i = 1 THEN ss[i] ELSE f[i - 1] \o ss[i]
    BY <2>1 DEF IsFlat
  <2> DEFINE A == {n \in Nat : n \in 1 .. Len(ss) => Runs(X, f[n], K[0], K[n])}
  <2>3. 0 \in A
    OBVIOUS
  <2>4. ASSUME NEW n \in Nat, n \in A PROVE n + 1 \in A
    <3> SUFFICES ASSUME n + 1 \in 1 .. Len(ss) PROVE Runs(X, f[n + 1], K[0], K[n + 1])
      OBVIOUS
    <3>1. Runs(X, ss[n + 1], K[n], K[n + 1])
      <4>1. (n + 1) - 1 = n
        OBVIOUS
      <4> QED
        BY <4>1
    <3>2. CASE n = 0
      <4>1. f[n + 1] = ss[n + 1]
        BY <2>2, <3>2
      <4> QED
        BY <3>1, <3>2, <4>1
    <3>3. CASE n # 0
      <4>1. n \in 1 .. Len(ss) /\ n + 1 # 1 /\ (n + 1) - 1 = n
        BY <3>3
      <4>2. Runs(X, f[n], K[0], K[n])
        BY <2>4, <4>1
      <4>3. f[n + 1] = f[n] \o ss[n + 1]
        BY <2>2, <4>1
      <4>4. Runs(X, f[n] \o ss[n + 1], K[0], K[n + 1])
        BY <3>1, <4>2, RunsJoin
      <4> QED
        BY <4>3, <4>4
    <3> QED
      BY <3>2, <3>3
  <2>5. \A n \in Nat : n \in A
    <3> HIDE DEF A
    <3> QED
      BY <2>3, <2>4, NatInd
  <2>6. Len(ss) \in A
    BY <2>5
  <2> QED
    BY <1>2, <2>1, <2>6
<1> QED
  BY <1>1, <1>2

LEMMA RunsMore ==
  ASSUME NEW X, NEW Y, NEW c, NEW A, NEW B, Runs(X, c, A, B), X \subseteq Y
  PROVE  Runs(Y, c, A, B)
<1>1. c \in Seq(Y)
  BY SeqMonotonic DEF Runs
<1> QED
  BY <1>1 DEF Runs

\* Two calls.
LEMMA RunsTwo ==
  ASSUME NEW X, NEW x \in X, NEW y \in X, NEW A, NEW B, NEW C, Turns(x, A, B), Turns(y, B, C)
  PROVE  Runs(X, <<x, y>>, A, C)
<1> DEFINE h == [n \in 0 .. 2 |-> IF n = 0 THEN A ELSE IF n = 1 THEN B ELSE C]
           c == <<x, y>>
<1>1. c \in Seq(X) /\ Len(c) = 2 /\ c[1] = x /\ c[2] = y
  OBVIOUS
<1>2. h[0] = A /\ h[1] = B /\ h[2] = C
  OBVIOUS
<1> HIDE DEF h, c
<1>3. ASSUME NEW n \in 1 .. Len(c) PROVE Turns(c[n], h[n - 1], h[n])
  <2>1. n = 1 \/ n = 2
    BY <1>1
  <2>2. CASE n = 1
    <3>1. n - 1 = 0
      BY <2>2
    <3> QED
      BY <1>1, <1>2, <2>2, <3>1
  <2>3. CASE n = 2
    <3>1. n - 1 = 1
      BY <2>3
    <3> QED
      BY <1>1, <1>2, <2>3, <3>1
  <2> QED
    BY <2>1, <2>2, <2>3
<1>4. Runs(X, c, A, C)
  BY <1>1, <1>2, <1>3 DEF Runs, Traces
<1> QED
  BY <1>4 DEF c

\* A loop of mallocs into places that hold nothing, each its own.
LEMMA Mallocs ==
  ASSUME NEW X, NEW c \in Seq(X), NEW A,
         \A n \in 1 .. Len(c) : c[n].call = "malloc" /\ c[n].slot \notin A,
         \A m, n \in 1 .. Len(c) : m < n => c[m].slot # c[n].slot
  PROVE  Runs(X, c, A, A \cup {c[n].slot : n \in 1 .. Len(c)})
<1>1. Len(c) \in Nat
  BY LenProperties
<1> DEFINE T(n) == A \cup {c[i].slot : i \in 1 .. n}
           h == [n \in 0 .. Len(c) |-> T(n)]
<1>2. T(0) = A
  OBVIOUS
<1>3. ASSUME NEW n \in 1 .. Len(c) PROVE Turns(c[n], T(n - 1), T(n))
  <2>1. \A i \in 1 .. n - 1 : i \in 1 .. Len(c) /\ i < n
    BY <1>1
  <2>2. c[n].slot \notin T(n - 1)
    BY <2>1
  <2>3. \A i : i \in 1 .. n <=> i \in 1 .. n - 1 \/ i = n
    BY <1>1
  <2>4. T(n) = T(n - 1) \cup {c[n].slot}
    BY <2>3
  <2> HIDE DEF T
  <2> QED
    BY <2>2, <2>4 DEF Turns
<1>4. \A n \in 0 .. Len(c) : h[n] = T(n)
  OBVIOUS
<1>5. h[0] = A /\ h[Len(c)] = T(Len(c))
  BY <1>1, <1>2, <1>4
<1> HIDE DEF T, h
<1>6. Traces(h, c)
  <2>1. \A n \in 1 .. Len(c) : n \in 0 .. Len(c) /\ n - 1 \in 0 .. Len(c)
    BY <1>1
  <2> QED
    BY <1>3, <1>4, <2>1 DEF Traces
<1>7. Runs(X, c, A, T(Len(c)))
  BY <1>5, <1>6 DEF Runs
<1> QED
  BY <1>7 DEF T

\* A loop of frees of places that hold something, each once.
LEMMA Frees ==
  ASSUME NEW X, NEW c \in Seq(X), NEW A,
         \A n \in 1 .. Len(c) : c[n].call = "free" /\ c[n].slot \in A,
         \A m, n \in 1 .. Len(c) : m < n => c[m].slot # c[n].slot
  PROVE  Runs(X, c, A, A \ {c[n].slot : n \in 1 .. Len(c)})
<1>1. Len(c) \in Nat
  BY LenProperties
<1> DEFINE T(n) == A \ {c[i].slot : i \in 1 .. n}
           h == [n \in 0 .. Len(c) |-> T(n)]
<1>2. T(0) = A
  OBVIOUS
<1>3. ASSUME NEW n \in 1 .. Len(c) PROVE Turns(c[n], T(n - 1), T(n))
  <2>1. \A i \in 1 .. n - 1 : i \in 1 .. Len(c) /\ i < n
    BY <1>1
  <2>2. c[n].slot \in T(n - 1)
    BY <2>1
  <2>3. \A i : i \in 1 .. n <=> i \in 1 .. n - 1 \/ i = n
    BY <1>1
  <2>4. T(n) = T(n - 1) \ {c[n].slot}
    BY <2>3
  <2> HIDE DEF T
  <2> QED
    BY <2>2, <2>4 DEF Turns
<1>4. \A n \in 0 .. Len(c) : h[n] = T(n)
  OBVIOUS
<1>5. h[0] = A /\ h[Len(c)] = T(Len(c))
  BY <1>1, <1>2, <1>4
<1> HIDE DEF T, h
<1>6. Traces(h, c)
  <2>1. \A n \in 1 .. Len(c) : n \in 0 .. Len(c) /\ n - 1 \in 0 .. Len(c)
    BY <1>1
  <2> QED
    BY <1>3, <1>4, <2>1 DEF Traces
<1>7. Runs(X, c, A, T(Len(c)))
  BY <1>5, <1>6 DEF Runs
<1> QED
  BY <1>7 DEF T

-----------------------------------------------------------------------------
(***************************************************************************)
(* The parts of equal_size_allocs.                                         *)
(***************************************************************************)

Places(set, from, to) == {set} \X (from .. to - 1)

EqualBoth(k)  == <<MALLOC(<<0, k>>, AllocSize), MALLOC(<<1, k>>, AllocSize)>>
EqualSlide(k) == <<MALLOC(<<0, k>>, AllocSize), FREE(<<0, k - Window>>)>>
Fills(from, to)      == [n \in 1 .. to - from |-> MALLOC(<<0, from + n - 1>>, AllocSize)]
Drains(set, from, to) == [n \in 1 .. to - from |-> FREE(<<set, from + n - 1>>)]
EqualSlides   == [n \in 1 .. NumItems - Window |-> EqualSlide(Window + n - 1)]
EqualRound    == Fills(0, Window) \o FlattenSeq(EqualSlides)
                   \o Drains(0, NumItems - Window, NumItems)
EqualRounds   == [n \in 1 .. NumIters - 0 |-> EqualRound]
EqualSetup    == FlattenSeq([n \in 1 .. NumItems - 0 |-> EqualBoth(0 + n - 1)])
EqualTimed    == Drains(0, 0, NumItems) \o FlattenSeq(EqualRounds)

LEMMA EqualParts ==
  equal_size_allocs = EqualSetup \o Drains(0, 0, NumItems) \o FlattenSeq(EqualRounds)
                        \o Drains(1, 0, NumItems)
BY DEF equal_size_allocs, EqualBoth, EqualSlide, Fills, Drains, EqualSlides, EqualRound,
       EqualRounds, EqualSetup, each

LEMMA CallIn ==
  ASSUME NEW S, NEW Z, NEW s \in S
  PROVE  /\ FREE(s) \in CallsTo(S, Z)
         /\ \A z \in Z : MALLOC(s, z) \in CallsTo(S, Z)
BY DEF CallsTo

LEMMA CallIs ==
  \A s, z : /\ MALLOC(s, z).call = "malloc" /\ MALLOC(s, z).slot = s /\ MALLOC(s, z).size = z
            /\ FREE(s).call = "free" /\ FREE(s).slot = s
BY DEF MALLOC, FREE

LEMMA Halves ==
  \A i \in 1 .. 2 * NumItems : \E k \in Index : i = 2 * k + 1 \/ i = 2 * k + 2
<1> SUFFICES ASSUME NEW i \in 1 .. 2 * NumItems
             PROVE  \E k \in Index : i = 2 * k + 1 \/ i = 2 * k + 2
  OBVIOUS
<1>0. NumItems \in Nat
  BY PolicyTestsAssumption
<1>1. PICK k \in Int : i - 1 = 2 * k \/ i - 1 = 2 * k + 1
  <2> DEFINE A == {n \in Nat : \E k \in Int : n = 2 * k \/ n = 2 * k + 1}
  <2>1. 0 \in A
    <3>1. 0 = 2 * 0
      OBVIOUS
    <3> QED
      BY <3>1
  <2>2. ASSUME NEW n \in Nat, n \in A PROVE n + 1 \in A
    <3>1. PICK k \in Int : n = 2 * k \/ n = 2 * k + 1
      BY <2>2
    <3>2. CASE n = 2 * k
      <4>1. n + 1 = 2 * k + 1
        BY <3>2
      <4> QED
        BY <4>1
    <3>3. CASE n = 2 * k + 1
      <4>1. PICK j \in Int : j = k + 1
        OBVIOUS
      <4>2. n + 1 = 2 * j
        BY <3>3, <4>1
      <4> QED
        BY <4>2
    <3> QED
      BY <3>1, <3>2, <3>3
  <2>3. \A n \in Nat : n \in A
    <3> HIDE DEF A
    <3> QED
      BY <2>1, <2>2, NatInd
  <2>4. i - 1 \in A
    <3>1. i - 1 \in Nat
      BY <1>0
    <3> HIDE DEF A
    <3> QED
      BY <2>3, <3>1
  <2> QED
    BY <2>4
<1>2. k \in Index
  BY <1>0, <1>1 DEF Index
<1> QED
  BY <1>0, <1>1, <1>2

\* main's first loop asks for an item and a spacing block in turns.
LEMMA EqualSetupIs ==
  /\ EqualSetup \in Seq(CallsTo({0, 1} \X Index, {AllocSize}))
  /\ Len(EqualSetup) = 2 * NumItems
  /\ \A k \in Index : /\ EqualSetup[2 * k + 1] = MALLOC(<<0, k>>, AllocSize)
                      /\ EqualSetup[2 * k + 2] = MALLOC(<<1, k>>, AllocSize)
<1> DEFINE X == CallsTo({0, 1} \X Index, {AllocSize})
           ss == [n \in 1 .. NumItems - 0 |-> EqualBoth(0 + n - 1)]
<1>0. NumItems \in Nat \ {0} /\ NumItems - 0 = NumItems
  BY PolicyTestsAssumption
<1>1. Len(ss) = NumItems
  BY <1>0
<1>2. \A n \in 1 .. NumItems : n - 1 \in Index /\ ss[n] = EqualBoth(n - 1)
  BY <1>0 DEF Index
<1>3. \A k \in Index : /\ EqualBoth(k) \in Seq(X) /\ Len(EqualBoth(k)) = 2
                       /\ EqualBoth(k)[1] = MALLOC(<<0, k>>, AllocSize)
                       /\ EqualBoth(k)[2] = MALLOC(<<1, k>>, AllocSize)
  <2> SUFFICES ASSUME NEW k \in Index
               PROVE  /\ EqualBoth(k) \in Seq(X) /\ Len(EqualBoth(k)) = 2
                      /\ EqualBoth(k)[1] = MALLOC(<<0, k>>, AllocSize)
                      /\ EqualBoth(k)[2] = MALLOC(<<1, k>>, AllocSize)
    OBVIOUS
  <2>1. <<0, k>> \in {0, 1} \X Index /\ <<1, k>> \in {0, 1} \X Index
    OBVIOUS
  <2>2. MALLOC(<<0, k>>, AllocSize) \in X /\ MALLOC(<<1, k>>, AllocSize) \in X
    BY <2>1, CallIn
  <2> HIDE DEF X
  <2>3. PICK x \in X, y \in X : x = MALLOC(<<0, k>>, AllocSize) /\ y = MALLOC(<<1, k>>, AllocSize)
    BY <2>2
  <2>4. <<x, y>> \in Seq(X) /\ Len(<<x, y>>) = 2 /\ <<x, y>>[1] = x /\ <<x, y>>[2] = y
    OBVIOUS
  <2>5. EqualBoth(k) = <<x, y>>
    BY <2>3 DEF EqualBoth
  <2> QED
    BY <2>3, <2>4, <2>5
<1> HIDE DEF ss, X
<1>4. PICK f : IsFlat(f, ss) /\ FlattenSeq(ss) = f[Len(ss)]
  BY <1>0, <1>1, FlatIs
<1>5. \A i \in 1 .. NumItems : f[i] = IF i = 1 THEN ss[i] ELSE f[i - 1] \o ss[i]
  BY <1>1, <1>4 DEF IsFlat
<1> DEFINE Good(n) == /\ f[n] \in Seq(X) /\ Len(f[n]) = 2 * n
                      /\ \A k \in 0 .. n - 1 : /\ f[n][2 * k + 1] = MALLOC(<<0, k>>, AllocSize)
                                               /\ f[n][2 * k + 2] = MALLOC(<<1, k>>, AllocSize)
           A == {n \in Nat : n \in 1 .. NumItems => Good(n)}
<1>6. 0 \in A
  BY <1>0
<1>7. ASSUME NEW n \in Nat, n \in A PROVE n + 1 \in A
  <2> SUFFICES ASSUME n + 1 \in 1 .. NumItems PROVE Good(n + 1)
    OBVIOUS
  <2>1. (n + 1) - 1 = n /\ n \in Index
    BY <1>0 DEF Index
  <2> DEFINE s == EqualBoth(n)
  <2>2. /\ ss[n + 1] = s /\ s \in Seq(X) /\ Len(s) = 2
        /\ s[1] = MALLOC(<<0, n>>, AllocSize) /\ s[2] = MALLOC(<<1, n>>, AllocSize)
    BY <1>2, <1>3, <2>1
  <2> HIDE DEF s
  <2>3. CASE n = 0
    <3>1. f[n + 1] = s
      BY <1>5, <2>2, <2>3
    <3>2. \A k \in 0 .. (n + 1) - 1 : k = n /\ 2 * k + 1 = 1 /\ 2 * k + 2 = 2
      BY <2>3
    <3> QED
      BY <2>2, <2>3, <3>1, <3>2
  <2>4. CASE n # 0
    <3>1. n \in 1 .. NumItems
      BY <1>0, <2>4
    <3>2. Good(n)
      BY <1>7, <3>1
    <3>3. f[n + 1] = f[n] \o s
      <4>1. n + 1 # 1
        BY <2>4
      <4>2. f[n + 1] = f[(n + 1) - 1] \o ss[n + 1]
        BY <1>5, <4>1
      <4> QED
        BY <2>1, <2>2, <4>2
    <3>4. /\ f[n] \o s \in Seq(X) /\ Len(f[n] \o s) = 2 * n + 2
          /\ \A i \in 1 .. 2 * n + 2 : (f[n] \o s)[i] = IF i <= 2 * n THEN f[n][i] ELSE s[i - 2 * n]
      <4>1. PICK p \in Seq(X) : p = f[n] /\ Len(p) = 2 * n
        BY <3>2
      <4>2. /\ p \o s \in Seq(X) /\ Len(p \o s) = Len(p) + Len(s)
            /\ \A i \in 1 .. Len(p) + Len(s) :
                 (p \o s)[i] = IF i <= Len(p) THEN p[i] ELSE s[i - Len(p)]
        BY <2>2, ConcatProperties
      <4> QED
        BY <2>2, <4>1, <4>2
    <3>5. ASSUME NEW k \in 0 .. (n + 1) - 1
          PROVE  /\ f[n + 1][2 * k + 1] = MALLOC(<<0, k>>, AllocSize)
                 /\ f[n + 1][2 * k + 2] = MALLOC(<<1, k>>, AllocSize)
      <4>1. /\ 2 * k + 1 \in 1 .. 2 * n + 2 /\ 2 * k + 2 \in 1 .. 2 * n + 2
            /\ k # n => k \in 0 .. n - 1 /\ 2 * k + 1 <= 2 * n /\ 2 * k + 2 <= 2 * n
            /\ k = n => /\ ~(2 * k + 1 <= 2 * n) /\ ~(2 * k + 2 <= 2 * n)
                        /\ (2 * k + 1) - 2 * n = 1 /\ (2 * k + 2) - 2 * n = 2
        OBVIOUS
      <4>2. CASE k = n
        BY <2>2, <3>3, <3>4, <4>1, <4>2
      <4>3. CASE k # n
        BY <3>2, <3>3, <3>4, <4>1, <4>3
      <4> QED
        BY <4>2, <4>3
    <3>6. 2 * n + 2 = 2 * (n + 1)
      OBVIOUS
    <3> QED
      BY <3>3, <3>4, <3>5, <3>6
  <2> QED
    BY <2>3, <2>4
<1>8. \A n \in Nat : n \in A
  <2> HIDE DEF A
  <2> QED
    BY <1>6, <1>7, NatInd
<1>9. Good(NumItems)
  BY <1>0, <1>8
<1>10. EqualSetup = f[NumItems]
  BY <1>1, <1>4 DEF EqualSetup, ss
<1> QED
  BY <1>9, <1>10 DEF X, Index

LEMMA DrainRuns ==
  ASSUME NEW set, NEW from \in Nat, NEW to \in Nat, from <= to, to <= NumItems, NEW Z,
         NEW A, Places(set, from, to) \subseteq A
  PROVE  /\ Runs(CallsTo({set} \X Index, Z), Drains(set, from, to), A, A \ Places(set, from, to))
         /\ Len(Drains(set, from, to)) = to - from
<1> DEFINE X == CallsTo({set} \X Index, Z)
           c == Drains(set, from, to)
<1>0. NumItems \in Nat
  BY PolicyTestsAssumption
<1>1. \A n \in 1 .. to - from :
        /\ c[n] = FREE(<<set, from + n - 1>>) /\ from + n - 1 \in from .. to - 1
        /\ from + n - 1 \in Index
  BY <1>0 DEF Drains, Index
<1>2. \A n \in 1 .. to - from : c[n] \in X
  <2> SUFFICES ASSUME NEW n \in 1 .. to - from PROVE c[n] \in X
    OBVIOUS
  <2>1. <<set, from + n - 1>> \in {set} \X Index
    BY <1>1
  <2> HIDE DEF X, c
  <2> QED
    BY <1>1, <2>1, CallIn DEF X
<1>3. c \in Seq(X) /\ Len(c) = to - from
  <2>1. to - from \in Nat /\ c = [n \in 1 .. to - from |-> c[n]]
    BY DEF Drains
  <2> HIDE DEF c, X
  <2>2. c \in Seq(X)
    BY <1>2, <2>1, IsASeq
  <2> QED
    BY <2>1, <2>2
<1> HIDE DEF c, X
<1>4. \A n \in 1 .. Len(c) : /\ c[n].call = "free" /\ c[n].slot = <<set, from + n - 1>>
                             /\ c[n].slot \in Places(set, from, to)
  <2> SUFFICES ASSUME NEW n \in 1 .. Len(c)
               PROVE  /\ c[n].call = "free" /\ c[n].slot = <<set, from + n - 1>>
                      /\ c[n].slot \in Places(set, from, to)
    OBVIOUS
  <2>1. PICK s : s = <<set, from + n - 1>>
    OBVIOUS
  <2>2. c[n] = FREE(s) /\ s \in Places(set, from, to)
    BY <1>1, <1>3, <2>1 DEF Places
  <2> QED
    BY <2>1, <2>2, CallIs
<1>5. \A m, n \in 1 .. Len(c) : m < n => c[m].slot # c[n].slot
  <2>1. \A m, n \in 1 .. Len(c) : m < n => from + m - 1 # from + n - 1
    BY <1>3
  <2> QED
    BY <1>4, <2>1
<1>6. {c[n].slot : n \in 1 .. Len(c)} = Places(set, from, to)
  <2>1. ASSUME NEW s \in Places(set, from, to) PROVE \E n \in 1 .. Len(c) : s = c[n].slot
    <3>1. PICK k \in from .. to - 1 : s = <<set, k>>
      BY <2>1 DEF Places
    <3>2. (k - from) + 1 \in 1 .. Len(c) /\ from + ((k - from) + 1) - 1 = k
      BY <1>3
    <3> QED
      BY <1>4, <3>1, <3>2
  <2> QED
    BY <1>4, <2>1
<1>7. Runs(X, c, A, A \ {c[n].slot : n \in 1 .. Len(c)})
  BY <1>3, <1>4, <1>5, Frees
<1> QED
  BY <1>3, <1>6, <1>7 DEF c, X

\* A loop of mallocs into the places of a set from one index to another.
LEMMA TakeRuns ==
  ASSUME NEW set, NEW from \in Nat, NEW to \in Nat, from <= to, to <= NumItems, NEW Z,
         NEW T, NEW c \in [1 .. to - from -> T],
         \A n \in 1 .. to - from : \E z \in Z : c[n] = MALLOC(<<set, from + n - 1>>, z),
         NEW A, Places(set, from, to) \cap A = {}
  PROVE  Runs(CallsTo({set} \X Index, Z), c, A, A \cup Places(set, from, to))
<1> DEFINE X == CallsTo({set} \X Index, Z)
<1>0. NumItems \in Nat
  BY PolicyTestsAssumption
<1>1. \A n \in 1 .. to - from : from + n - 1 \in from .. to - 1 /\ from + n - 1 \in Index
  BY <1>0 DEF Index
<1>2. \A n \in 1 .. to - from : c[n] \in X
  <2> SUFFICES ASSUME NEW n \in 1 .. to - from PROVE c[n] \in X
    OBVIOUS
  <2>1. PICK s \in {set} \X Index : s = <<set, from + n - 1>>
    BY <1>1
  <2>2. PICK z \in Z : c[n] = MALLOC(s, z)
    BY <2>1
  <2>3. MALLOC(s, z) \in X
    BY <2>1, CallIn
  <2> HIDE DEF X
  <2> QED
    BY <2>2, <2>3
<1>3. c \in Seq(X) /\ Len(c) = to - from
  <2>1. to - from \in Nat /\ c = [n \in 1 .. to - from |-> c[n]]
    OBVIOUS
  <2> HIDE DEF X
  <2>2. c \in Seq(X)
    BY <1>2, <2>1, IsASeq
  <2> QED
    BY <2>1, <2>2
<1> HIDE DEF X
<1>4. \A n \in 1 .. Len(c) : /\ c[n].call = "malloc" /\ c[n].slot = <<set, from + n - 1>>
                             /\ c[n].slot \in Places(set, from, to)
  <2> SUFFICES ASSUME NEW n \in 1 .. Len(c)
               PROVE  /\ c[n].call = "malloc" /\ c[n].slot = <<set, from + n - 1>>
                      /\ c[n].slot \in Places(set, from, to)
    OBVIOUS
  <2>1. PICK s : s = <<set, from + n - 1>>
    OBVIOUS
  <2>2. PICK z \in Z : c[n] = MALLOC(s, z)
    BY <1>3, <2>1
  <2>3. s \in Places(set, from, to)
    BY <1>1, <1>3, <2>1 DEF Places
  <2> QED
    BY <2>1, <2>2, <2>3, CallIs
<1>5. \A m, n \in 1 .. Len(c) : m < n => c[m].slot # c[n].slot
  <2>1. \A m, n \in 1 .. Len(c) : m < n => from + m - 1 # from + n - 1
    BY <1>3
  <2> QED
    BY <1>4, <2>1
<1>6. {c[n].slot : n \in 1 .. Len(c)} = Places(set, from, to)
  <2>1. ASSUME NEW s \in Places(set, from, to) PROVE \E n \in 1 .. Len(c) : s = c[n].slot
    <3>1. PICK k \in from .. to - 1 : s = <<set, k>>
      BY <2>1 DEF Places
    <3>2. (k - from) + 1 \in 1 .. Len(c) /\ from + ((k - from) + 1) - 1 = k
      BY <1>3
    <3> QED
      BY <1>4, <3>1, <3>2
  <2> QED
    BY <1>4, <2>1
<1>7. \A n \in 1 .. Len(c) : c[n].call = "malloc" /\ c[n].slot \notin A
  BY <1>4
<1>8. Runs(X, c, A, A \cup {c[n].slot : n \in 1 .. Len(c)})
  BY <1>3, <1>5, <1>7, Mallocs
<1> QED
  BY <1>6, <1>8 DEF X

LEMMA FillRuns ==
  ASSUME NEW from \in Nat, NEW to \in Nat, from <= to, to <= NumItems,
         NEW A, Places(0, from, to) \cap A = {}
  PROVE  Runs(CallsTo({0} \X Index, {AllocSize}), Fills(from, to), A, A \cup Places(0, from, to))
<1>1. Fills(from, to) \in [1 .. to - from -> {Fills(from, to)[n] : n \in 1 .. to - from}]
  BY DEF Fills
<1>2. \A n \in 1 .. to - from :
        \E z \in {AllocSize} : Fills(from, to)[n] = MALLOC(<<0, from + n - 1>>, z)
  BY DEF Fills
<1> QED
  BY <1>1, <1>2, TakeRuns

LEMMA SetupRuns ==
  Runs(CallsTo({0, 1} \X Index, {AllocSize}), EqualSetup, {}, {0, 1} \X Index)
<1> DEFINE X == CallsTo({0, 1} \X Index, {AllocSize})
<1>0. NumItems \in Nat \ {0} /\ \A k \in Index : k \in Int
  BY PolicyTestsAssumption DEF Index
<1>1. /\ EqualSetup \in Seq(X) /\ Len(EqualSetup) = 2 * NumItems
      /\ \A k \in Index : /\ EqualSetup[2 * k + 1] = MALLOC(<<0, k>>, AllocSize)
                          /\ EqualSetup[2 * k + 2] = MALLOC(<<1, k>>, AllocSize)
  BY EqualSetupIs
<1>2. \A i \in 1 .. 2 * NumItems : \E k \in Index : i = 2 * k + 1 \/ i = 2 * k + 2
  BY Halves
<1> HIDE DEF X
<1>3. PICK c : c = EqualSetup
  OBVIOUS
<1>4. \A k \in Index :
        /\ 2 * k + 1 \in 1 .. Len(c) /\ 2 * k + 2 \in 1 .. Len(c)
        /\ c[2 * k + 1].call = "malloc" /\ c[2 * k + 1].slot = <<0, k>>
        /\ c[2 * k + 2].call = "malloc" /\ c[2 * k + 2].slot = <<1, k>>
  <2>1. \A k \in Index : 2 * k + 1 \in 1 .. 2 * NumItems /\ 2 * k + 2 \in 1 .. 2 * NumItems
    BY <1>0 DEF Index
  <2> QED
    <3>1. ASSUME NEW k \in Index
          PROVE  /\ c[2 * k + 1].call = "malloc" /\ c[2 * k + 1].slot = <<0, k>>
                 /\ c[2 * k + 2].call = "malloc" /\ c[2 * k + 2].slot = <<1, k>>
      <4>1. PICK s, t : s = <<0, k>> /\ t = <<1, k>>
        OBVIOUS
      <4>2. c[2 * k + 1] = MALLOC(s, AllocSize) /\ c[2 * k + 2] = MALLOC(t, AllocSize)
        BY <1>1, <1>3, <4>1
      <4> QED
        BY <4>1, <4>2, CallIs
    <3> QED
      BY <1>1, <1>3, <2>1, <3>1
<1>5. ASSUME NEW n \in 1 .. Len(c)
      PROVE  /\ c[n].call = "malloc" /\ c[n].slot \in {0, 1} \X Index
             /\ n = 2 * c[n].slot[2] + 1 + c[n].slot[1]
  <2>1. PICK k \in Index : n = 2 * k + 1 \/ n = 2 * k + 2
    BY <1>1, <1>2, <1>3
  <2>2. CASE n = 2 * k + 1
    <3>1. c[n].call = "malloc" /\ c[n].slot = <<0, k>>
      BY <1>4, <2>2
    <3> QED
      BY <1>0, <2>2, <3>1
  <2>3. CASE n = 2 * k + 2
    <3>1. c[n].call = "malloc" /\ c[n].slot = <<1, k>>
      BY <1>4, <2>3
    <3>2. c[n].slot[1] = 1 /\ c[n].slot[2] = k
      BY <3>1
    <3> QED
      BY <1>0, <2>3, <3>1, <3>2
  <2> QED
    BY <2>1, <2>2, <2>3
<1>6. \A m, n \in 1 .. Len(c) : m < n => c[m].slot # c[n].slot
  BY <1>5
<1>7. {c[n].slot : n \in 1 .. Len(c)} = {0, 1} \X Index
  <2>1. ASSUME NEW s \in {0, 1} \X Index PROVE \E n \in 1 .. Len(c) : s = c[n].slot
    <3>1. PICK k \in Index : s = <<0, k>> \/ s = <<1, k>>
      OBVIOUS
    <3> QED
      BY <1>4, <3>1
  <2> QED
    BY <1>5, <2>1
<1>8. Runs(X, c, {}, {} \cup {c[n].slot : n \in 1 .. Len(c)})
  <2>1. c \in Seq(X) /\ \A n \in 1 .. Len(c) : c[n].call = "malloc" /\ c[n].slot \notin {}
    BY <1>1, <1>3, <1>5
  <2> QED
    BY <1>6, <2>1, Mallocs
<1>9. Runs(X, c, {}, {0, 1} \X Index)
  BY <1>7, <1>8
<1> QED
  BY <1>3, <1>9 DEF X

LEMMA PlacesIn ==
  \A set, from, to, u : u \in Places(set, from, to) <=> \E k \in from .. to - 1 : u = <<set, k>>
<1>1. ASSUME NEW set, NEW from, NEW to, NEW u \in Places(set, from, to)
      PROVE  \E k \in from .. to - 1 : u = <<set, k>>
  BY DEF Places
<1>2. ASSUME NEW set, NEW from, NEW to, NEW k \in from .. to - 1
      PROVE  <<set, k>> \in Places(set, from, to)
  BY DEF Places
<1> QED
  BY <1>1, <1>2

\* The middle of a round: the window moves up by one item at a time.
LEMMA SlideRuns ==
  ASSUME NEW S, S \cap ({0} \X Index) = {}
  PROVE  Runs(CallsTo({0} \X Index, {AllocSize}), FlattenSeq(EqualSlides),
              S \cup Places(0, 0, Window), S \cup Places(0, NumItems - Window, NumItems))
<1> DEFINE X == CallsTo({0} \X Index, {AllocSize})
           K == [i \in 0 .. NumItems - Window |-> S \cup Places(0, i, Window + i)]
           ss == EqualSlides
<1>0. NumItems \in Nat /\ Window \in Nat \ {0} /\ NumItems - Window \in Nat
  BY PolicyTestsAssumption
<1>1. Len(ss) = NumItems - Window /\ (Len(ss) = 0 => ss = <<>>)
  BY <1>0 DEF EqualSlides
<1>2. \A i \in 0 .. NumItems - Window : K[i] = S \cup Places(0, i, Window + i)
  OBVIOUS
<1>3. \A n \in 1 .. Len(ss) : ss[n] = EqualSlide(Window + n - 1)
  BY <1>0 DEF EqualSlides
<1>4. ASSUME NEW n \in 1 .. Len(ss) PROVE Runs(X, ss[n], K[n - 1], K[n])
  <2>1. /\ n \in 0 .. NumItems - Window /\ n - 1 \in 0 .. NumItems - Window
        /\ Window + n - 1 \in Index /\ n - 1 \in Index /\ (Window + n - 1) - Window = n - 1
    BY <1>0, <1>1 DEF Index
  <2>2. PICK s \in {0} \X Index, t \in {0} \X Index :
          s = <<0, Window + n - 1>> /\ t = <<0, n - 1>>
    BY <2>1
  <2>3. PICK x \in X, y \in X : x = MALLOC(s, AllocSize) /\ y = FREE(t)
    BY CallIn
  <2>4. ss[n] = <<x, y>>
    BY <1>3, <2>1, <2>2, <2>3 DEF EqualSlide
  <2> HIDE DEF K, ss, X
  <2>5. Turns(x, K[n - 1], K[n - 1] \cup {s})
    <3>1. s \notin K[n - 1]
      <4>1. s \notin Places(0, n - 1, Window + (n - 1))
        BY <1>0, <1>1, <2>2 DEF Places
      <4> QED
        BY <1>2, <2>1, <4>1
    <3> QED
      BY <2>3, <3>1, CallIs DEF Turns
  <2>6. Turns(y, K[n - 1] \cup {s}, K[n])
    <3>1. t \in Places(0, n - 1, Window + (n - 1))
      BY <1>0, <1>1, <2>2 DEF Places
    <3>2. Places(0, n, Window + n) = (Places(0, n - 1, Window + (n - 1)) \cup {s}) \ {t}
      <4>1. \A k : k \in n .. Window + n - 1 <=> /\ k \in n - 1 .. Window + (n - 1) - 1 \/ k = Window + n - 1
                                                /\ k # n - 1
        BY <1>0, <1>1
      <4>2. \A u : u \in Places(0, n, Window + n) <=> \E k \in n .. Window + n - 1 : u = <<0, k>>
        <5>1. PICK set, to : set = 0 /\ to = Window + n
          OBVIOUS
        <5>2. \A u : u \in Places(set, n, to) <=> \E k \in n .. to - 1 : u = <<set, k>>
          BY PlacesIn
        <5> QED
          BY <1>0, <2>1, <5>1, <5>2
      <4>3. \A u : u \in Places(0, n - 1, Window + (n - 1))
                     <=> \E k \in n - 1 .. Window + (n - 1) - 1 : u = <<0, k>>
        <5>1. PICK set, from, to : set = 0 /\ from = n - 1 /\ to = Window + (n - 1)
          OBVIOUS
        <5>2. \A u : u \in Places(set, from, to) <=> \E k \in from .. to - 1 : u = <<set, k>>
          BY PlacesIn
        <5> QED
          BY <1>0, <2>1, <5>1, <5>2
      <4> QED
        BY <2>2, <4>1, <4>2, <4>3
    <3>3. K[n] = (K[n - 1] \cup {s}) \ {t}
      BY <1>2, <2>1, <3>2
    <3>4. t \in K[n - 1] \cup {s}
      BY <1>2, <2>1, <3>1
    <3> QED
      BY <2>3, <3>3, <3>4, CallIs DEF Turns
  <2>7. Runs(X, <<x, y>>, K[n - 1], K[n])
    BY <2>5, <2>6, RunsTwo
  <2> QED
    BY <2>4, <2>7
<1>5. K[0] = S \cup Places(0, 0, Window) /\ K[Len(ss)] = S \cup Places(0, NumItems - Window, NumItems)
  <2>1. 0 \in 0 .. NumItems - Window /\ NumItems - Window \in 0 .. NumItems - Window
        /\ Window + 0 = Window /\ Window + (NumItems - Window) = NumItems
    BY <1>0
  <2> QED
    BY <1>1, <1>2, <2>1
<1> HIDE DEF K, ss, X
<1>6. Len(ss) \in Nat
  BY <1>0, <1>1
<1>7. Runs(X, FlattenSeq(ss), K[0], K[Len(ss)])
  BY <1>1, <1>4, <1>6, RunsFlat
<1> QED
  BY <1>5, <1>7 DEF X, ss

\* A round of the timed loop starts and ends with no item.
LEMMA RoundRuns ==
  Runs(CallsTo({0} \X Index, {AllocSize}), EqualRound, {1} \X Index, {1} \X Index)
<1> DEFINE X == CallsTo({0} \X Index, {AllocSize})
           S == {1} \X Index
<1>0. /\ NumItems \in Nat /\ Window \in Nat \ {0} /\ NumItems - Window \in Nat
      /\ Window <= NumItems /\ NumItems - Window <= NumItems
  BY PolicyTestsAssumption
<1>1. /\ S \cap ({0} \X Index) = {} /\ Places(0, 0, Window) \cap S = {}
      /\ Places(0, NumItems - Window, NumItems) \cap S = {}
  BY DEF Places
<1>2. Runs(X, Fills(0, Window), S, S \cup Places(0, 0, Window))
  <2>1. 0 \in Nat /\ Window \in Nat /\ 0 <= Window
    BY <1>0
  <2> HIDE DEF S
  <2> QED
    BY <1>0, <1>1, <2>1, FillRuns
<1>3. Runs(X, FlattenSeq(EqualSlides), S \cup Places(0, 0, Window),
           S \cup Places(0, NumItems - Window, NumItems))
  BY <1>1, SlideRuns
<1>4. Runs(X, Drains(0, NumItems - Window, NumItems), S \cup Places(0, NumItems - Window, NumItems), S)
  <2> DEFINE H == Places(0, NumItems - Window, NumItems)
  <2>1. H \subseteq S \cup H
    OBVIOUS
  <2>2. Runs(X, Drains(0, NumItems - Window, NumItems), S \cup H, (S \cup H) \ H)
    BY <1>0, <2>1, DrainRuns
  <2>3. (S \cup H) \ H = S
    BY <1>1
  <2> HIDE DEF S, H, X
  <2> QED
    BY <2>2, <2>3 DEF H
<1> HIDE DEF S, X
<1>5. Runs(X, Fills(0, Window) \o FlattenSeq(EqualSlides), S,
           S \cup Places(0, NumItems - Window, NumItems))
  BY <1>2, <1>3, RunsJoin
<1>6. Runs(X, Fills(0, Window) \o FlattenSeq(EqualSlides)
                \o Drains(0, NumItems - Window, NumItems), S, S)
  BY <1>4, <1>5, RunsJoin
<1> QED
  BY <1>6 DEF EqualRound, S, X

LEMMA TimedRuns ==
  /\ Runs(CallsTo({0} \X Index, {AllocSize}), EqualTimed, {0, 1} \X Index, {1} \X Index)
  /\ Drains(0, 0, NumItems) \in Seq(CallsTo({0} \X Index, {AllocSize}))
  /\ FlattenSeq(EqualRounds) \in Seq(CallsTo({0} \X Index, {AllocSize}))
<1> DEFINE X == CallsTo({0} \X Index, {AllocSize})
           S == {1} \X Index
           K == [i \in 0 .. NumIters |-> S]
           ss == EqualRounds
<1>0. NumItems \in Nat /\ NumIters \in Nat /\ NumIters - 0 = NumIters
  BY PolicyTestsAssumption
<1>1. Runs(X, Drains(0, 0, NumItems), {0, 1} \X Index, S)
  <2>1. Places(0, 0, NumItems) = {0} \X Index
    BY DEF Places, Index
  <2>2. Places(0, 0, NumItems) \subseteq {0, 1} \X Index
        /\ ({0, 1} \X Index) \ Places(0, 0, NumItems) = S
    BY <2>1
  <2>3. Runs(X, Drains(0, 0, NumItems), {0, 1} \X Index, ({0, 1} \X Index) \ Places(0, 0, NumItems))
    BY <1>0, <2>2, DrainRuns
  <2> HIDE DEF X, S
  <2> QED
    BY <2>2, <2>3
<1>2. Len(ss) = NumIters /\ (Len(ss) = 0 => ss = <<>>) /\ \A i \in 1 .. Len(ss) : ss[i] = EqualRound
  BY <1>0 DEF EqualRounds
<1>3. \A i \in 0 .. NumIters : K[i] = S
  OBVIOUS
<1>4. Runs(X, EqualRound, S, S)
  BY RoundRuns
<1> HIDE DEF X, S, K, ss
<1>5. \A i \in 1 .. Len(ss) : Runs(X, ss[i], K[i - 1], K[i])
  <2>1. \A i \in 1 .. Len(ss) : i \in 0 .. NumIters /\ i - 1 \in 0 .. NumIters
    BY <1>0, <1>2
  <2> QED
    BY <1>2, <1>3, <1>4, <2>1
<1>6. Runs(X, FlattenSeq(ss), K[0], K[Len(ss)])
  BY <1>0, <1>2, <1>5, RunsFlat
<1>7. K[0] = S /\ K[Len(ss)] = S
  BY <1>0, <1>2, <1>3
<1>8. Runs(X, FlattenSeq(ss), S, S)
  BY <1>6, <1>7
<1>9. Runs(X, Drains(0, 0, NumItems) \o FlattenSeq(ss), {0, 1} \X Index, S)
  BY <1>1, <1>8, RunsJoin
<1>10. Drains(0, 0, NumItems) \in Seq(X) /\ FlattenSeq(ss) \in Seq(X)
  BY <1>1, <1>8 DEF Runs
<1> QED
  BY <1>9, <1>10 DEF X, S, ss, EqualTimed

LEMMA FinishRuns ==
  Runs(CallsTo({1} \X Index, {AllocSize}), Drains(1, 0, NumItems), {1} \X Index, {})
<1>0. NumItems \in Nat
  BY PolicyTestsAssumption
<1>1. Places(1, 0, NumItems) = {1} \X Index
  BY DEF Places, Index
<1>2. Places(1, 0, NumItems) \subseteq {1} \X Index /\ ({1} \X Index) \ Places(1, 0, NumItems) = {}
  BY <1>1
<1>3. Runs(CallsTo({1} \X Index, {AllocSize}), Drains(1, 0, NumItems), {1} \X Index,
           ({1} \X Index) \ Places(1, 0, NumItems))
  BY <1>0, <1>2, DrainRuns
<1> QED
  BY <1>2, <1>3

\* equal_size_allocs, in three parts.
LEMMA EqualWhole ==
  /\ equal_size_allocs = EqualSetup \o EqualTimed \o Drains(1, 0, NumItems)
  /\ Runs(CallsTo({0, 1} \X Index, {AllocSize}), equal_size_allocs, {}, {})
<1> DEFINE X == CallsTo({0, 1} \X Index, {AllocSize})
           D == Drains(0, 0, NumItems)
           R == FlattenSeq(EqualRounds)
<1>1. CallsTo({0} \X Index, {AllocSize}) \subseteq X /\ CallsTo({1} \X Index, {AllocSize}) \subseteq X
  BY DEF CallsTo
<1> HIDE DEF X
<1>2. Runs(X, EqualSetup, {}, {0, 1} \X Index)
  BY SetupRuns DEF X
<1>3. Runs(X, EqualTimed, {0, 1} \X Index, {1} \X Index)
  BY <1>1, TimedRuns, RunsMore
<1>4. Runs(X, Drains(1, 0, NumItems), {1} \X Index, {})
  BY <1>1, FinishRuns, RunsMore
<1>5. Runs(X, EqualSetup \o EqualTimed, {}, {1} \X Index)
  BY <1>2, <1>3, RunsJoin
<1>6. Runs(X, EqualSetup \o EqualTimed \o Drains(1, 0, NumItems), {}, {})
  BY <1>4, <1>5, RunsJoin
<1>7. EqualSetup \o D \o R = EqualSetup \o (D \o R)
  <2>1. EqualSetup \in Seq(X)
    BY <1>2 DEF Runs
  <2>2. D \in Seq(X) /\ R \in Seq(X)
    BY <1>1, TimedRuns, SeqMonotonic
  <2> HIDE DEF D, R
  <2> QED
    BY <2>1, <2>2, ConcatAssociative
<1>8. EqualTimed = D \o R
  BY DEF EqualTimed
<1>9. equal_size_allocs = EqualSetup \o EqualTimed \o Drains(1, 0, NumItems)
  BY <1>7, <1>8, EqualParts
<1> QED
  BY <1>6, <1>9 DEF X

-----------------------------------------------------------------------------
(***************************************************************************)
(* rand_allocs                                                             *)
(***************************************************************************)

\* What the shuffle makes is a permutation: every index comes up exactly once.
LEMMA ShuffledIs ==
  ASSUME NEW p \in Shuffled
  PROVE  /\ p \in [Index -> Index]
         /\ \A k \in Index : \E i \in Index : p[i] = k
         /\ \A i, k \in Index : p[i] = p[k] => i = k
<1>1. p \in [Index -> Index]
  BY DEF Shuffled
<1>2. \A k \in Index : \E i \in Index : p[i] = k
  <2> DEFINE S == {p[i] : i \in Index}
  <2>1. S \subseteq Index /\ S # {}
    <3>1. 0 \in Index
      BY PolicyTestsAssumption DEF Index
    <3> QED
      BY <1>1, <3>1
  <2>2. S = Index
    <3> SUFFICES ASSUME S # Index PROVE FALSE
      OBVIOUS
    <3>1. S \in (SUBSET Index) \ {{}, Index}
      BY <2>1
    <3>2. \A T \in (SUBSET Index) \ {{}, Index} : \E k \in T : p[k] \notin T
      BY DEF Shuffled
    <3>3. PICK k \in S : p[k] \notin S
      <4> HIDE DEF S
      <4> QED
        BY <3>1, <3>2
    <3> QED
      BY <2>1, <3>3
  <2> QED
    BY <2>2
<1>3. \A i, k \in Index : p[i] = p[k] => i = k
  <2>1. IsFiniteSet(Index)
    <3>1. 0 \in Int /\ NumItems - 1 \in Int
      BY PolicyTestsAssumption
    <3> QED
      BY <3>1, FS_Interval DEF Index
  <2>2. p \in Surjection(Index, Index)
    BY <1>1, <1>2, Fun_IsSurj
  <2>3. p \in Injection(Index, Index)
    BY <2>1, <2>2, FS_SurjSameCardinalityImpliesInj
  <2> QED
    BY <2>3, Fun_InjectionProperties
<1> QED
  BY <1>1, <1>2, <1>3

\* The items of a set that are still to be freed when the loop is at index j.
Unfreed(set, free_list, j) == {<<set, free_list[k]>> : k \in j .. NumItems - 1}

\* One batch of the inner loop.
LEMMA BatchRuns ==
  ASSUME NEW Z, NEW bytes \in [{0, 1} \X Index -> Z], NEW p \in Shuffled, NEW i \in Nat,
         NEW a, NEW b, a = malloc_set(i), b = 1 - malloc_set(i),
         NEW j \in Nat, j + Batch <= NumItems
  PROVE  Runs(CallsTo({0, 1} \X Index, Z), batch(bytes, p, i, j),
              Unfreed(a, p, j) \cup Places(b, 0, j),
              Unfreed(a, p, j + Batch) \cup Places(b, 0, j + Batch))
<1> DEFINE X == CallsTo({0, 1} \X Index, Z)
           c == [n \in 1 .. (j + Batch) - j |-> FREE(<<a, p[j + n - 1]>>)]
           d == [n \in 1 .. (j + Batch) - j |-> MALLOC(<<b, j + n - 1>>, bytes[<<b, j + n - 1>>])]
           A == Unfreed(a, p, j) \cup Places(b, 0, j)
           B == Unfreed(a, p, j + Batch) \cup Places(b, 0, j)
           C == Unfreed(a, p, j + Batch) \cup Places(b, 0, j + Batch)
<1>0. NumItems \in Nat /\ Batch \in Nat \ {0} /\ (j + Batch) - j = Batch
  BY PolicyTestsAssumption
<1>1. batch(bytes, p, i, j) = c \o d
  BY DEF batch, each
<1>2. a \in {0, 1} /\ b \in {0, 1} /\ a # b
  BY DEF malloc_set
<1>3. /\ p \in [Index -> Index]
      /\ \A m, k \in Index : p[m] = p[k] => m = k
  BY ShuffledIs
<1>4. \A n \in 1 .. Batch : j + n - 1 \in Index /\ j + n - 1 \in j .. NumItems - 1
  BY <1>0 DEF Index
<1>5. Runs(X, c, A, B)
  <2>1. \A n \in 1 .. Batch : c[n] = FREE(<<a, p[j + n - 1]>>)
    BY <1>0
  <2>2. ASSUME NEW n \in 1 .. Batch
        PROVE  /\ c[n] \in X /\ c[n].call = "free"
               /\ c[n].slot = <<a, p[j + n - 1]>> /\ c[n].slot \in A
    <3>1. PICK s \in {0, 1} \X Index : s = <<a, p[j + n - 1]>>
      BY <1>2, <1>3, <1>4
    <3>2. FREE(s) \in X /\ FREE(s).call = "free" /\ FREE(s).slot = s
      BY CallIn, CallIs
    <3>3. s \in A
      BY <1>4, <3>1 DEF Unfreed
    <3> HIDE DEF c, X, A
    <3> QED
      BY <2>1, <3>1, <3>2, <3>3
  <2>3. c \in Seq(X) /\ Len(c) = Batch
    <3>1. Batch \in Nat /\ c = [n \in 1 .. Batch |-> c[n]]
      BY <1>0
    <3> HIDE DEF c, X
    <3>2. c \in Seq(X)
      BY <2>2, <3>1, IsASeq
    <3> QED
      BY <3>1, <3>2
  <2> HIDE DEF c, X, A
  <2>4. \A m, n \in 1 .. Len(c) : m < n => c[m].slot # c[n].slot
    <3> SUFFICES ASSUME NEW m \in 1 .. Len(c), NEW n \in 1 .. Len(c), m < n, c[m].slot = c[n].slot
                 PROVE  FALSE
      OBVIOUS
    <3>0. m \in 1 .. Batch /\ n \in 1 .. Batch
      BY <2>3
    <3>1. j + m - 1 # j + n - 1 /\ j + m - 1 \in Index /\ j + n - 1 \in Index
      <4>1. j + m - 1 \in Index /\ j + n - 1 \in Index
        BY <1>4, <3>0
      <4>2. j + m - 1 # j + n - 1
        BY <1>0, <3>0
      <4> QED
        BY <4>1, <4>2
    <3>2. p[j + m - 1] = p[j + n - 1]
      BY <2>2, <2>3
    <3> QED
      BY <1>3, <3>1, <3>2
  <2>5. A \ {c[n].slot : n \in 1 .. Len(c)} = B
    <3> DEFINE F == {c[n].slot : n \in 1 .. Len(c)}
    <3>1. ASSUME NEW s PROVE s \in F <=> \E k \in j .. j + Batch - 1 : s = <<a, p[k]>>
      <4>1. ASSUME s \in F PROVE \E k \in j .. j + Batch - 1 : s = <<a, p[k]>>
        <5>1. PICK n \in 1 .. Batch : s = <<a, p[j + n - 1]>>
          BY <2>2, <2>3, <4>1
        <5>2. j + n - 1 \in j .. j + Batch - 1
          BY <1>0
        <5> QED
          BY <5>1, <5>2
      <4>2. ASSUME NEW k \in j .. j + Batch - 1, s = <<a, p[k]>> PROVE s \in F
        <5>1. PICK n \in 1 .. Batch : j + n - 1 = k
          <6>1. (k - j) + 1 \in 1 .. Batch /\ j + ((k - j) + 1) - 1 = k
            BY <1>0
          <6> QED
            BY <6>1
        <5> QED
          BY <2>2, <2>3, <4>2, <5>1
      <4> QED
        BY <4>1, <4>2
    <3>2. \A k \in j .. NumItems - 1 :
            k \in Index /\ (k \in j + Batch .. NumItems - 1 <=> k \notin j .. j + Batch - 1)
      BY <1>0 DEF Index
    <3>3. \A k \in j .. j + Batch - 1 : k \in Index
      BY <1>0 DEF Index
    <3>4. \A k \in j + Batch .. NumItems - 1 : k \in j .. NumItems - 1
      BY <1>0
    <3>5. Unfreed(a, p, j) \ F = Unfreed(a, p, j + Batch)
      <4>1. ASSUME NEW s \in Unfreed(a, p, j), s \notin F PROVE s \in Unfreed(a, p, j + Batch)
        <5>1. PICK k \in j .. NumItems - 1 : s = <<a, p[k]>>
          BY DEF Unfreed
        <5>2. k \notin j .. j + Batch - 1
          BY <3>1, <4>1, <5>1
        <5> QED
          BY <3>2, <5>1, <5>2 DEF Unfreed
      <4>2. ASSUME NEW s \in Unfreed(a, p, j + Batch)
            PROVE  s \in Unfreed(a, p, j) /\ s \notin F
        <5>1. PICK k \in j + Batch .. NumItems - 1 : s = <<a, p[k]>>
          BY DEF Unfreed
        <5>2. k \in j .. NumItems - 1 /\ k \in Index /\ k \notin j .. j + Batch - 1
          BY <3>2, <3>4
        <5>3. ASSUME NEW m \in j .. j + Batch - 1, s = <<a, p[m]>> PROVE FALSE
          <6>1. p[m] = p[k] /\ m \in Index
            BY <3>3, <5>1, <5>3
          <6>2. m = k
            BY <1>3, <5>2, <6>1
          <6> QED
            BY <5>2, <5>3, <6>2
        <5>4. s \notin F
          BY <3>1, <5>3
        <5> QED
          BY <5>1, <5>2, <5>4 DEF Unfreed
      <4> QED
        BY <4>1, <4>2
    <3>6. Places(b, 0, j) \ F = Places(b, 0, j)
      <4>1. \A s \in Places(b, 0, j) : s[1] = b
        BY DEF Places
      <4>2. \A s \in F : s[1] = a
        BY <3>1
      <4> HIDE DEF F
      <4> QED
        BY <1>2, <4>1, <4>2
    <3> HIDE DEF F
    <3> QED
      BY <3>5, <3>6 DEF F, A
  <2>6. \A n \in 1 .. Len(c) : c[n].call = "free" /\ c[n].slot \in A
    BY <2>2, <2>3
  <2>7. Runs(X, c, A, A \ {c[n].slot : n \in 1 .. Len(c)})
    BY <2>3, <2>4, <2>6, Frees
  <2> QED
    BY <2>5, <2>7
<1>6. Runs(X, d, B, C)
  <2> DEFINE Y == CallsTo({b} \X Index, Z)
             q == j + Batch
  <2>1. q \in Nat /\ j <= q /\ q <= NumItems
    BY <1>0
  <2>2. d \in [1 .. q - j -> {d[n] : n \in 1 .. q - j}]
    OBVIOUS
  <2>3. \A n \in 1 .. q - j : \E z \in Z : d[n] = MALLOC(<<b, j + n - 1>>, z)
    <3> SUFFICES ASSUME NEW n \in 1 .. q - j
                 PROVE  \E z \in Z : d[n] = MALLOC(<<b, j + n - 1>>, z)
      OBVIOUS
    <3>1. <<b, j + n - 1>> \in {0, 1} \X Index
      BY <1>0, <1>2, <1>4
    <3>2. bytes[<<b, j + n - 1>>] \in Z
      BY <3>1
    <3>3. d[n] = MALLOC(<<b, j + n - 1>>, bytes[<<b, j + n - 1>>])
      OBVIOUS
    <3> HIDE DEF d
    <3> QED
      BY <3>2, <3>3
  <2>4. Places(b, j, q) \cap B = {}
    <3>1. ASSUME NEW s \in Places(b, j, q), s \in B PROVE FALSE
      <4>1. PICK k \in j .. q - 1 : s = <<b, k>>
        BY <3>1 DEF Places
      <4>2. s \notin Unfreed(a, p, q)
        BY <1>2, <4>1 DEF Unfreed
      <4>3. s \in Places(b, 0, j)
        BY <3>1, <4>2
      <4>4. k \in 0 .. j - 1
        BY <4>1, <4>3 DEF Places
      <4> QED
        BY <2>1, <4>4
    <3> QED
      BY <3>1
  <2>5. C = B \cup Places(b, j, q)
    <3>1. Places(b, 0, q) = Places(b, 0, j) \cup Places(b, j, q)
      <4>1. \A k : k \in 0 .. q - 1 <=> k \in 0 .. j - 1 \/ k \in j .. q - 1
        BY <2>1
      <4> QED
        BY <4>1 DEF Places
    <3> QED
      BY <3>1
  <2> HIDE DEF d, B, C, q
  <2>6. Runs(Y, d, B, B \cup Places(b, j, q))
    BY <2>1, <2>2, <2>3, <2>4, TakeRuns
  <2>7. Y \subseteq X
    BY <1>2 DEF CallsTo
  <2> HIDE DEF X, Y
  <2>8. Runs(X, d, B, B \cup Places(b, j, q))
    BY <2>6, <2>7, RunsMore
  <2> QED
    BY <2>5, <2>8
<1> HIDE DEF X, A, B, C, c, d
<1>7. Runs(X, c \o d, A, C)
  BY <1>5, <1>6, RunsJoin
<1> QED
  BY <1>1, <1>7 DEF X, A, C

RandTakes(bytes) ==
  [n \in 1 .. NumItems - 0 |-> MALLOC(<<0, 0 + n - 1>>, bytes[<<0, 0 + n - 1>>])]
RandBatches(bytes, p, i) ==
  [n \in 1 .. (NumItems \div Batch) - 0 |-> batch(bytes, p, i, (0 + n - 1) * Batch)]
RandInner(bytes, p, i)  == FlattenSeq(RandBatches(bytes, p, i))
RandRounds(bytes, p)    == [n \in 1 .. NumIters - 0 |-> RandInner(bytes, p, 0 + n - 1)]

LEMMA RandParts ==
  \A bytes, p : rand_allocs(bytes, p) =
                  RandTakes(bytes) \o FlattenSeq(RandRounds(bytes, p)) \o Drains(0, 0, NumItems)
BY DEF rand_allocs, RandTakes, RandBatches, RandInner, RandRounds, Drains, each

LEMMA Division ==
  ASSUME NEW n \in Nat, NEW d \in Nat \ {0}
  PROVE  /\ n \div d \in Int
         /\ n = d * (n \div d) + (n % d)
OBVIOUS

\* The batches of a round are all of it.
LEMMA Batches ==
  /\ NumItems \div Batch \in Nat
  /\ (NumItems \div Batch) * Batch = NumItems
  /\ \A n \in 1 .. NumItems \div Batch : /\ (n - 1) * Batch \in Nat
                                         /\ (n - 1) * Batch + Batch = n * Batch
                                         /\ n * Batch <= NumItems
<1>0. NumItems \in Nat \ {0} /\ Batch \in Nat \ {0} /\ NumItems % Batch = 0
  BY PolicyTestsAssumption
<1>1. NumItems \div Batch \in Int /\ NumItems = Batch * (NumItems \div Batch) + (NumItems % Batch)
  BY <1>0, Division
<1>2. PICK m \in Int : m = NumItems \div Batch
  BY <1>1
<1>3. Batch * m = NumItems /\ m * Batch = NumItems
  BY <1>0, <1>1, <1>2
<1>4. m \in Nat
  <2>1. m < 0 => Batch * m <= 0 - Batch
    BY <1>0
  <2> QED
    BY <1>0, <1>3, <2>1
<1>5. ASSUME NEW n \in 1 .. m
      PROVE  (n - 1) * Batch \in Nat /\ (n - 1) * Batch + Batch = n * Batch /\ n * Batch <= NumItems
  <2>1. n \in Nat /\ n - 1 \in Nat /\ m - n \in Nat
    BY <1>4
  <2>2. (n - 1) * Batch \in Nat /\ (n - 1) * Batch + Batch = n * Batch
    BY <1>0, <2>1
  <2>3. (m - n) * Batch \in Nat /\ m * Batch = n * Batch + (m - n) * Batch
    BY <1>0, <1>4, <2>1
  <2> QED
    BY <1>0, <1>3, <2>1, <2>2, <2>3
<1> QED
  BY <1>2, <1>3, <1>4, <1>5

\* A round frees one set, whatever the order of free_list, and fills the other.
LEMMA InnerRuns ==
  ASSUME NEW Z, NEW bytes \in [{0, 1} \X Index -> Z], NEW p \in Shuffled, NEW i \in Nat
  PROVE  Runs(CallsTo({0, 1} \X Index, Z), RandInner(bytes, p, i),
              {malloc_set(i)} \X Index, {1 - malloc_set(i)} \X Index)
<1> DEFINE X == CallsTo({0, 1} \X Index, Z)
           a == malloc_set(i)
           b == 1 - malloc_set(i)
           M == NumItems \div Batch
           K == [n \in 0 .. M |-> Unfreed(a, p, n * Batch) \cup Places(b, 0, n * Batch)]
           ss == RandBatches(bytes, p, i)
<1>0. NumItems \in Nat /\ Batch \in Nat /\ M \in Nat /\ M - 0 = M
  BY PolicyTestsAssumption, Batches
<1>1. \A n \in 0 .. M : K[n] = Unfreed(a, p, n * Batch) \cup Places(b, 0, n * Batch)
  OBVIOUS
<1>2. Len(ss) = M /\ (Len(ss) = 0 => ss = <<>>)
  BY <1>0 DEF RandBatches
<1>3. \A n \in 1 .. Len(ss) : ss[n] = batch(bytes, p, i, (n - 1) * Batch)
  BY <1>0 DEF RandBatches
<1>4. ASSUME NEW n \in 1 .. Len(ss) PROVE Runs(X, ss[n], K[n - 1], K[n])
  <2>1. n \in 1 .. M /\ n \in 0 .. M /\ n - 1 \in 0 .. M
    BY <1>0, <1>2
  <2>2. PICK j \in Nat : j = (n - 1) * Batch /\ j + Batch = n * Batch /\ j + Batch <= NumItems
    BY <2>1, Batches
  <2>3. K[n - 1] = Unfreed(a, p, j) \cup Places(b, 0, j)
        /\ K[n] = Unfreed(a, p, j + Batch) \cup Places(b, 0, j + Batch)
    BY <1>1, <2>1, <2>2
  <2>4. Runs(X, batch(bytes, p, i, j), Unfreed(a, p, j) \cup Places(b, 0, j),
             Unfreed(a, p, j + Batch) \cup Places(b, 0, j + Batch))
    BY <2>2, BatchRuns
  <2> HIDE DEF X, a, b, K, ss
  <2> QED
    BY <1>3, <2>2, <2>3, <2>4
<1>5. K[0] = {a} \X Index
  <2>1. 0 \in 0 .. M /\ 0 * Batch = 0
    BY <1>0
  <2>2. Places(b, 0, 0) = {}
    BY DEF Places
  <2>3. Unfreed(a, p, 0) = {a} \X Index
    <3>1. p \in [Index -> Index] /\ \A k \in Index : \E l \in Index : p[l] = k
      BY ShuffledIs
    <3> HIDE DEF a
    <3>2. ASSUME NEW k \in Index PROVE <<a, k>> \in Unfreed(a, p, 0)
      <4>1. PICK l \in 0 .. NumItems - 1 : p[l] = k
        BY <3>1 DEF Index
      <4> QED
        BY <4>1 DEF Unfreed
    <3>3. Unfreed(a, p, 0) \subseteq {a} \X Index
      <4>1. \A k \in Index : <<a, p[k]>> \in {a} \X Index
        BY <3>1
      <4>2. Unfreed(a, p, 0) = {<<a, p[k]>> : k \in Index}
        BY DEF Unfreed, Index
      <4> QED
        BY <4>1, <4>2
    <3> QED
      BY <3>2, <3>3
  <2> HIDE DEF K, a, b
  <2> QED
    BY <1>1, <2>1, <2>2, <2>3
<1>6. K[M] = {b} \X Index
  <2>1. M \in 0 .. M /\ M * Batch = NumItems
    BY <1>0, Batches
  <2>2. Places(b, 0, NumItems) = {b} \X Index
    BY DEF Places, Index
  <2>3. Unfreed(a, p, NumItems) = {}
    BY <1>0 DEF Unfreed
  <2> HIDE DEF K, a, b
  <2> QED
    BY <1>1, <2>1, <2>2, <2>3
<1> HIDE DEF X, K, ss, M, a, b
<1>7. Runs(X, FlattenSeq(ss), K[0], K[Len(ss)])
  BY <1>0, <1>2, <1>4, RunsFlat
<1>8. Runs(X, FlattenSeq(ss), {a} \X Index, {b} \X Index)
  BY <1>2, <1>5, <1>6, <1>7
<1> QED
  BY <1>8 DEF X, a, b, ss, RandInner

\* Either random test, whatever its sizes and the order of its frees.
LEMMA RandWhole ==
  ASSUME NEW Z, NEW bytes \in [{0, 1} \X Index -> Z], NEW p \in Shuffled
  PROVE  Runs(CallsTo({0, 1} \X Index, Z), rand_allocs(bytes, p), {}, {})
<1> DEFINE X == CallsTo({0, 1} \X Index, Z)
           c == RandTakes(bytes)
           ss == RandRounds(bytes, p)
           d == Drains(0, 0, NumItems)
           H == {0} \X Index
           K == [n \in 0 .. NumIters |-> {n % 2} \X Index]
<1>0. /\ NumItems \in Nat /\ NumItems - 0 = NumItems /\ 0 \in Nat /\ 0 <= NumItems
      /\ NumIters \in Nat /\ NumIters - 0 = NumIters /\ NumIters % 2 = 0
  BY PolicyTestsAssumption
<1>1. Places(0, 0, NumItems) = H
  BY DEF Places, Index
<1>2. CallsTo({0} \X Index, Z) \subseteq X
  BY DEF CallsTo
<1>3. Runs(X, c, {}, H)
  <2>1. c \in [1 .. NumItems - 0 -> {c[n] : n \in 1 .. NumItems - 0}]
    BY DEF RandTakes
  <2>2. \A n \in 1 .. NumItems - 0 : \E z \in Z : c[n] = MALLOC(<<0, 0 + n - 1>>, z)
    <3> SUFFICES ASSUME NEW n \in 1 .. NumItems - 0
                 PROVE  \E z \in Z : c[n] = MALLOC(<<0, 0 + n - 1>>, z)
      OBVIOUS
    <3>1. <<0, 0 + n - 1>> \in {0, 1} \X Index
      BY <1>0 DEF Index
    <3>2. bytes[<<0, 0 + n - 1>>] \in Z
      BY <3>1
    <3>3. c[n] = MALLOC(<<0, 0 + n - 1>>, bytes[<<0, 0 + n - 1>>])
      BY DEF RandTakes
    <3> HIDE DEF c
    <3> QED
      BY <3>2, <3>3
  <2>3. Places(0, 0, NumItems) \cap {} = {}
    OBVIOUS
  <2> HIDE DEF c
  <2>4. Runs(CallsTo({0} \X Index, Z), c, {}, {} \cup Places(0, 0, NumItems))
    <3>1. PICK zero \in Nat : zero = 0
      BY <1>0
    <3>2. zero <= NumItems /\ NumItems <= NumItems
      BY <1>0, <3>1
    <3>3. /\ c \in [1 .. NumItems - zero -> {c[n] : n \in 1 .. NumItems - 0}]
          /\ \A n \in 1 .. NumItems - zero : \E z \in Z : c[n] = MALLOC(<<0, zero + n - 1>>, z)
          /\ Places(0, zero, NumItems) \cap {} = {}
      BY <2>1, <2>2, <3>1
    <3>4. Runs(CallsTo({0} \X Index, Z), c, {}, {} \cup Places(0, zero, NumItems))
      BY <1>0, <3>2, <3>3, TakeRuns
    <3> QED
      BY <3>1, <3>4
  <2>5. {} \cup Places(0, 0, NumItems) = H
    BY <1>1
  <2> HIDE DEF X, H
  <2>6. Runs(CallsTo({0} \X Index, Z), c, {}, H)
    BY <2>4, <2>5
  <2> QED
    BY <1>2, <2>6, RunsMore
<1>4. Runs(X, d, H, {})
  <2>1. Places(0, 0, NumItems) \subseteq H /\ H \ Places(0, 0, NumItems) = {}
    BY <1>1
  <2> HIDE DEF X, H
  <2>2. Runs(CallsTo({0} \X Index, Z), d, H, H \ Places(0, 0, NumItems))
    BY <1>0, <2>1, DrainRuns
  <2>3. Runs(CallsTo({0} \X Index, Z), d, H, {})
    BY <2>1, <2>2
  <2> HIDE DEF d
  <2> QED
    BY <1>2, <2>3, RunsMore
<1>5. Len(ss) = NumIters /\ (Len(ss) = 0 => ss = <<>>)
  BY <1>0 DEF RandRounds
<1>6. \A n \in 1 .. NumIters : ss[n] = RandInner(bytes, p, n - 1)
  BY <1>0 DEF RandRounds
<1>7. \A n \in 0 .. NumIters : K[n] = {n % 2} \X Index
  OBVIOUS
<1>8. ASSUME NEW n \in 1 .. Len(ss) PROVE Runs(X, ss[n], K[n - 1], K[n])
  <2>1. n \in 1 .. NumIters /\ n - 1 \in Nat /\ n \in 0 .. NumIters /\ n - 1 \in 0 .. NumIters
    BY <1>0, <1>5
  <2>2. malloc_set(n - 1) = (n - 1) % 2 /\ 1 - malloc_set(n - 1) = n % 2
    BY <2>1 DEF malloc_set
  <2>3. Runs(X, RandInner(bytes, p, n - 1),
             {malloc_set(n - 1)} \X Index, {1 - malloc_set(n - 1)} \X Index)
    BY <2>1, InnerRuns
  <2> HIDE DEF X, K, ss
  <2> QED
    BY <1>6, <1>7, <2>1, <2>2, <2>3
<1>9. K[0] = H /\ K[Len(ss)] = H
  <2>1. 0 \in 0 .. NumIters /\ NumIters \in 0 .. NumIters /\ 0 % 2 = 0
    BY <1>0
  <2> QED
    BY <1>0, <1>5, <1>7, <2>1
<1> HIDE DEF X, K, ss, c, d, H
<1>10. Runs(X, FlattenSeq(ss), K[0], K[Len(ss)])
  BY <1>0, <1>5, <1>8, RunsFlat
<1>11. Runs(X, FlattenSeq(ss), H, H)
  BY <1>9, <1>10
<1>12. Runs(X, c \o FlattenSeq(ss), {}, H)
  BY <1>3, <1>11, RunsJoin
<1>13. Runs(X, c \o FlattenSeq(ss) \o d, {}, {})
  BY <1>4, <1>12, RunsJoin
<1>14. rand_allocs(bytes, p) = c \o FlattenSeq(ss) \o d
  BY RandParts DEF c, ss, d
<1> QED
  BY <1>13, <1>14 DEF X


-----------------------------------------------------------------------------
(***************************************************************************)
(* mymalloc_test                                                           *)
(***************************************************************************)

LEMMA TestWhole ==
  Runs(CallsTo({0} \X (0 .. 9), {4, 7, 8, 10, 16, 23, 32, 256}), mymalloc_test, {}, {})
<1> DEFINE X == CallsTo({0} \X (0 .. 9), {4, 7, 8, 10, 16, 23, 32, 256})
           c == mymalloc_test
           who  == <<1, 2, 3, 4, 1, 3, 5, 6, 6, 2, 4, 7, 8, 5, 9, 10, 7, 8, 9, 10>>
           from == <<1, 2, 3, 4, 7, 8, 12, 13, 15, 16>>
           to   == <<5, 10, 6, 11, 14, 9, 17, 18, 19, 20>>
           Live(n) == {<<0, k - 1>> : k \in {j \in 1 .. 10 : from[j] <= n /\ n < to[j]}}
           h == [n \in 0 .. 20 |-> Live(n)]
<1>1. c \in Seq(X) /\ Len(c) = 20
  <2> DEFINE I == {4, 7, 8, 10, 16, 23, 32, 256}
  <2>1. \A k \in 0 .. 9 : /\ FREE(<<0, k>>) \in X
                          /\ \A z \in I : MALLOC(<<0, k>>, z) \in X
    <3>1. \A k \in 0 .. 9 : <<0, k>> \in {0} \X (0 .. 9)
      OBVIOUS
    <3> QED
      BY <3>1 DEF CallsTo
  <2> HIDE DEF X
  <2>2. Len(c) = 20
    BY DEF mymalloc_test
  <2>3. \A n \in 1 .. 20 : c[n] \in X
    <3>1. /\ c[1] \in X
          /\ c[2] \in X
          /\ c[3] \in X
          /\ c[4] \in X
          /\ c[5] \in X
          /\ c[6] \in X
          /\ c[7] \in X
          /\ c[8] \in X
          /\ c[9] \in X
          /\ c[10] \in X
          /\ c[11] \in X
          /\ c[12] \in X
          /\ c[13] \in X
          /\ c[14] \in X
          /\ c[15] \in X
          /\ c[16] \in X
          /\ c[17] \in X
          /\ c[18] \in X
          /\ c[19] \in X
          /\ c[20] \in X
      BY <2>1 DEF mymalloc_test
    <3> HIDE DEF c
    <3> QED
      BY <3>1
  <2>4. c = [n \in 1 .. 20 |-> c[n]]
    BY DEF mymalloc_test
  <2> HIDE DEF c
  <2> QED
    BY <2>2, <2>3, <2>4, IsASeq
\* Call n is about pointer who[n] - 1; pointer k - 1 is held from call from[k] to call to[k].
<1>2. ASSUME NEW n \in 1 .. 20
      PROVE  /\ who[n] \in 1 .. 10 /\ c[n].slot = <<0, who[n] - 1>>
             /\ \/ c[n].call = "malloc" /\ from[who[n]] = n
                \/ c[n].call = "free" /\ to[who[n]] = n
  <2>1. /\ c[1].call = "malloc" /\ c[1].slot = <<0, 0>>
        /\ c[2].call = "malloc" /\ c[2].slot = <<0, 1>>
        /\ c[3].call = "malloc" /\ c[3].slot = <<0, 2>>
        /\ c[4].call = "malloc" /\ c[4].slot = <<0, 3>>
        /\ c[5].call = "free" /\ c[5].slot = <<0, 0>>
        /\ c[6].call = "free" /\ c[6].slot = <<0, 2>>
        /\ c[7].call = "malloc" /\ c[7].slot = <<0, 4>>
        /\ c[8].call = "malloc" /\ c[8].slot = <<0, 5>>
        /\ c[9].call = "free" /\ c[9].slot = <<0, 5>>
        /\ c[10].call = "free" /\ c[10].slot = <<0, 1>>
        /\ c[11].call = "free" /\ c[11].slot = <<0, 3>>
        /\ c[12].call = "malloc" /\ c[12].slot = <<0, 6>>
        /\ c[13].call = "malloc" /\ c[13].slot = <<0, 7>>
        /\ c[14].call = "free" /\ c[14].slot = <<0, 4>>
        /\ c[15].call = "malloc" /\ c[15].slot = <<0, 8>>
        /\ c[16].call = "malloc" /\ c[16].slot = <<0, 9>>
        /\ c[17].call = "free" /\ c[17].slot = <<0, 6>>
        /\ c[18].call = "free" /\ c[18].slot = <<0, 7>>
        /\ c[19].call = "free" /\ c[19].slot = <<0, 8>>
        /\ c[20].call = "free" /\ c[20].slot = <<0, 9>>
    BY DEF mymalloc_test, MALLOC, FREE
  <2> HIDE DEF c
  <2> QED
    BY <2>1
<1>3. \A k \in 1 .. 10 : /\ from[k] \in 1 .. 20 /\ to[k] \in 1 .. 20 /\ from[k] < to[k]
                         /\ who[from[k]] = k /\ who[to[k]] = k
  OBVIOUS
<1> HIDE DEF c, X, who, from, to
<1>4. \A n \in 0 .. 20 : h[n] = Live(n)
  OBVIOUS
<1>5. ASSUME NEW n \in 1 .. 20 PROVE Turns(c[n], Live(n - 1), Live(n))
  <2>1. PICK w \in 1 .. 10 : w = who[n] /\ c[n].slot = <<0, w - 1>>
    BY <1>2
  <2>2. \A k \in 1 .. 10 : /\ from[k] \in Int /\ to[k] \in Int /\ from[k] < to[k]
                           /\ k # w => from[k] # n /\ to[k] # n
    BY <1>3, <2>1
  <2>3. \A k \in 1 .. 10 : k # w => (from[k] <= n /\ n < to[k] <=> from[k] <= n - 1 /\ n - 1 < to[k])
    BY <2>2
  <2>4. \A m, s : s \in Live(m) <=> \E k \in 1 .. 10 : from[k] <= m /\ m < to[k] /\ s = <<0, k - 1>>
    OBVIOUS
  <2>5. \A k \in 1 .. 10 : <<0, k - 1>> = <<0, w - 1>> => k = w
    OBVIOUS
  <2> DEFINE s == <<0, w - 1>>
  <2>6. CASE c[n].call = "malloc" /\ from[w] = n
    <3>1. ~(from[w] <= n - 1) /\ from[w] <= n /\ n < to[w]
      BY <2>2, <2>6
    <3> HIDE DEF Live
    <3>2. s \notin Live(n - 1)
      BY <2>4, <2>5, <3>1
    <3>3. Live(n) = Live(n - 1) \cup {s}
      BY <2>3, <2>4, <3>1
    <3> QED
      BY <2>1, <2>6, <3>2, <3>3 DEF Turns
  <2>7. CASE c[n].call = "free" /\ to[w] = n
    <3>1. ~(n < to[w]) /\ from[w] <= n - 1 /\ n - 1 < to[w]
      BY <2>2, <2>7
    <3> HIDE DEF Live
    <3>2. s \in Live(n - 1)
      BY <2>4, <3>1
    <3>3. Live(n) = Live(n - 1) \ {s}
      BY <2>3, <2>4, <2>5, <3>1
    <3> QED
      BY <2>1, <2>7, <3>2, <3>3 DEF Turns
  <2> QED
    BY <1>2, <2>1, <2>6, <2>7
<1>6. Live(0) = {} /\ Live(20) = {}
  BY <1>3
<1> HIDE DEF Live, h
<1>7. h[0] = {} /\ h[Len(c)] = {}
  BY <1>1, <1>4, <1>6
<1>8. Traces(h, c)
  <2>1. \A n \in 1 .. 20 : n \in 0 .. 20 /\ n - 1 \in 0 .. 20
    OBVIOUS
  <2> QED
    BY <1>1, <1>4, <1>5, <2>1 DEF Traces
<1> QED
  BY <1>1, <1>7, <1>8 DEF Runs, X, c

\* Every program allocates into places that hold no pointer, frees what it has
\* allocated, once, and ends with nothing; what it asks for is among Sizes.
LEMMA ProgramsRun ==
  ASSUME program \in Programs, program # "any", NEW c \in CallsOf
  PROVE  Runs(CallsTo(Slots, Sizes), c, {}, {})
<1> DEFINE X == CallsTo(Slots, Sizes)
<1>1. {0, 1} \X Index \subseteq Slots /\ {0} \X (0 .. 9) \subseteq Slots
  BY DEF Slots
<1>2. \A S, Z : S \subseteq Slots /\ Z \subseteq Sizes => CallsTo(S, Z) \subseteq X
  BY DEF CallsTo
<1> HIDE DEF X
<1>3. ASSUME NEW range, range \subseteq Sizes, c \in RandAllocs(range)
      PROVE  Runs(X, c, {}, {})
  <2>1. PICK bytes \in [{0, 1} \X Index -> range], p \in Shuffled : c = rand_allocs(bytes, p)
    BY <1>3 DEF RandAllocs
  <2>2. Runs(CallsTo({0, 1} \X Index, range), rand_allocs(bytes, p), {}, {})
    BY RandWhole
  <2>3. CallsTo({0, 1} \X Index, range) \subseteq X
    BY <1>1, <1>2, <1>3
  <2> QED
    BY <2>1, <2>2, <2>3, RunsMore
<1>4. CASE program = "equal_size"
  <2>1. c = equal_size_allocs /\ {AllocSize} \subseteq Sizes
    BY <1>4, PolicyTestsAssumption DEF CallsOf
  <2>2. CallsTo({0, 1} \X Index, {AllocSize}) \subseteq X
    BY <1>1, <1>2, <2>1
  <2>3. Runs(CallsTo({0, 1} \X Index, {AllocSize}), equal_size_allocs, {}, {})
    BY EqualWhole
  <2>4. Runs(X, equal_size_allocs, {}, {})
    BY <2>2, <2>3, RunsMore
  <2> QED
    BY <2>1, <2>4 DEF X
<1>5. CASE program = "small_range"
  <2>1. c \in RandAllocs(SmallRange) /\ SmallRange \subseteq Sizes
    BY <1>5, PolicyTestsAssumption DEF CallsOf, small_range_rand_allocs
  <2> QED
    BY <1>3, <2>1 DEF X
<1>6. CASE program = "large_range"
  <2>1. c \in RandAllocs(LargeRange) /\ LargeRange \subseteq Sizes
    BY <1>6, PolicyTestsAssumption DEF CallsOf, large_range_rand_allocs
  <2> QED
    BY <1>3, <2>1 DEF X
<1>7. CASE program = "mymalloc_test"
  <2> DEFINE Z == {4, 7, 8, 10, 16, 23, 32, 256}
  <2>1. c = mymalloc_test /\ Z \subseteq Sizes
    BY <1>7, PolicyTestsAssumption DEF CallsOf
  <2>2. CallsTo({0} \X (0 .. 9), Z) \subseteq X
    BY <1>1, <1>2, <2>1
  <2>3. Runs(CallsTo({0} \X (0 .. 9), Z), mymalloc_test, {}, {})
    BY TestWhole
  <2> HIDE DEF Z
  <2>4. Runs(X, mymalloc_test, {}, {})
    BY <2>2, <2>3, RunsMore
  <2> QED
    BY <2>1, <2>4 DEF X
<1> QED
  BY <1>4, <1>5, <1>6, <1>7, PolicyTestsAssumption

-----------------------------------------------------------------------------
(***************************************************************************)
(* A program and the allocator it runs on.                                 *)
(***************************************************************************)

\* The places of G hold a pointer each, NULL if its malloc failed, no two the same, and
\* there is one for every block that is held.
Holding(G) ==
  /\ \A s \in G : address[s] # NULL => asked[address[s]] # 0
  /\ \A s, t \in G : address[s] = address[t] /\ address[s] # NULL => s = t
  /\ \A b \in Addr : asked[b] # 0 => \E s \in G : address[s] = b

\* The place whose block a running free has taken back already.
Leaving == IF pc = "free" THEN {now.slot} ELSE {}

\* H are the places in use, before the call that is running or comes next.
Owns(H) ==
  /\ H \subseteq Slots
  /\ Runs(CallsTo(Slots, Sizes), calls, H, {})
  /\ pc # "idle" => calls # <<>> /\ now.call = IF pc = "free" THEN "free" ELSE "malloc"
  /\ Leaving \subseteq H
  /\ Holding(H \ Leaving)

PInv ==
  /\ program \in Programs
  /\ address \in [Slots -> Ptr]
  /\ program = "any" => calls = <<>>
  /\ calls = Lost => program = "mymalloc_test" /\ pc = "idle"
  /\ program # "any" /\ calls # Lost => \E H : Owns(H)

LEMMA LostIs == Lost # <<>> /\ (calls = Lost => now.call = "lost")
BY DEF Lost, now

\* A program that is lost makes no call.
LEMMA NotLost ==
  ASSUME PInv, callMalloc \/ inMalloc \/ callFree \/ inFree
  PROVE  calls # Lost
<1> SUFFICES ASSUME calls = Lost PROVE FALSE
  OBVIOUS
<1>1. pc = "idle" /\ now.call = "lost"
  BY LostIs DEF PInv
<1>2. CASE callMalloc \/ callFree
  BY <1>1, <1>2 DEF callMalloc, callFree
<1>3. CASE inMalloc \/ inFree
  BY <1>1, <1>3 DEF inMalloc, inFree, findFirstFit, findBestFit, freeMemoryBlock
<1> QED
  BY <1>2, <1>3

\* The call that comes next, and what it leaves in use.
LEMMA NowIs ==
  ASSUME NEW H, Owns(H), calls # <<>>
  PROVE  /\ now.slot \in Slots
         /\ now.call = "malloc" => now.size \in Sizes
         /\ \E K : K \subseteq Slots /\ Turns(now, H, K)
                     /\ Runs(CallsTo(Slots, Sizes), Tail(calls), K, {})
<1> DEFINE X == CallsTo(Slots, Sizes)
<1>1. /\ Head(calls) \in X
      /\ \E K : Turns(Head(calls), H, K) /\ Runs(X, Tail(calls), K, {})
  <2> HIDE DEF X
  <2> QED
    BY RunsOn DEF Owns, X
<1>2. /\ now.slot \in Slots
      /\ now.call = "malloc" => now.size \in Sizes
  <2>1. now \in X
    BY <1>1 DEF now
  <2>2. CASE \E s \in Slots, z \in Sizes : now = MALLOC(s, z)
    BY <2>2, CallIs
  <2>3. CASE \E s \in Slots : now = FREE(s)
    <3>1. PICK s \in Slots : now = FREE(s)
      BY <2>3
    <3>2. now.slot = s /\ now.call = "free"
      BY <3>1, CallIs
    <3> QED
      BY <3>2
  <2> QED
    BY <2>1, <2>2, <2>3 DEF CallsTo
<1>3. PICK K : Turns(now, H, K) /\ Runs(X, Tail(calls), K, {})
  BY <1>1 DEF now
<1>4. K \subseteq Slots
  BY <1>2, <1>3 DEF Turns, Owns
<1> QED
  BY <1>2, <1>3, <1>4

LEMMA OwnsNotLost ==
  \A H : Owns(H)' => calls' # Lost'
<1> SUFFICES ASSUME NEW H, Runs(CallsTo(Slots, Sizes), calls', H, {}), calls' = Lost'
             PROVE  FALSE
  BY DEF Owns
<1>1. calls' # <<>> /\ Head(calls').call = "lost"
  BY DEF Lost
<1>2. \E K : Turns(Head(calls'), H, K)
  <2> HIDE DEF Lost
  <2> QED
    BY <1>1, RunsOn
<1> QED
  BY <1>1, <1>2 DEF Turns

\* A program that goes on within a call, or enters one.
LEMMA OwnsOn ==
  ASSUME NEW H, Owns(H), calls' = calls, address' = address, asked' = asked,
         calls # <<>>, pc = "free" <=> pc' = "free",
         pc' # "idle" => now.call = IF pc' = "free" THEN "free" ELSE "malloc"
  PROVE  Owns(H)'
<1>1. now' = now
  BY DEF now
<1>2. Leaving' = Leaving
  BY <1>1 DEF Leaving
<1>3. Holding(H \ Leaving)'
  BY <1>2 DEF Owns, Holding
<1> QED
  BY <1>1, <1>2, <1>3 DEF Owns

\* A call that returns.
LEMMA OwnsNext ==
  ASSUME NEW H, NEW K, Owns(H), K \subseteq Slots, Turns(now, H, K),
         Runs(CallsTo(Slots, Sizes), Tail(calls), K, {}),
         calls' = Tail(calls), pc' = "idle", Holding(K)'
  PROVE  Owns(K)'
<1>1. Leaving' = {}
  BY DEF Leaving
<1>2. K \ Leaving' = K
  BY <1>1
<1> QED
  BY <1>1, <1>2 DEF Owns, Holding

\* What a step of a search does to the client's blocks.
LEMMA SearchStep ==
  ASSUME IInv, findFirstFit \/ findBestFit
  PROVE  /\ Searching
         /\ asked' = asked \/ \E b \in Addr : HandsOut(b)
         /\ pc' # "idle" => asked' = asked /\ pc' = pc
<1>1. Searching /\ pc \in {"findFirstFit", "findBestFit"}
  BY DEF findFirstFit, findBestFit, Searching
<1>2. CASE allocateMemory
  <2>1. asked' = asked \/ HandsOut(brk)
    BY <1>1, <1>2, allocateMemoryInv
  <2>2. pc' = "idle"
    BY <1>2 DEF allocateMemory, Return
  <2> QED
    BY <1>1, <2>1, <2>2 DEF HandsOut
<1>3. ASSUME NEW b \in FreeBlocks, TakeBlock(b)
      PROVE  pc' = "idle" /\ HandsOut(b)
  BY <1>1, <1>3, TakeBlockInv DEF TakeBlock, Return
<1>4. CASE findFirstFit
  <2>1. CASE iter # NULL /\ TakeBlock(iter)
    <3>1. iter \in FreeBlocks
      BY <1>1, <2>1 DEF IInv, SearchInv
    <3> QED
      BY <1>1, <1>3, <2>1, <3>1 DEF HandsOut
  <2>2. CASE UNCHANGED <<asked, pc>>
    BY <1>1, <2>2
  <2> QED
    BY <1>2, <1>4, <2>1, <2>2 DEF findFirstFit
<1>5. CASE findBestFit
  <2>1. CASE (iter # NULL \/ best # NULL) /\ TakeBlock(heap.head)
    <3>1. heap.head \in FreeBlocks
      BY <1>1, <2>1 DEF IInv, SearchInv, Sound, ListOf, Chained
    <3> QED
      BY <1>1, <1>3, <2>1, <3>1 DEF HandsOut
  <2>2. CASE UNCHANGED <<asked, pc>>
    BY <1>1, <2>2
  <2> QED
    BY <1>2, <1>5, <2>1, <2>2 DEF findBestFit
<1> QED
  BY <1>4, <1>5

\* malloc returns: the program stores the pointer.
LEMMA MallocReturns ==
  ASSUME IInv, PInv, NEW H, Owns(H), calls # <<>>, inMalloc, pc' = "idle"
  PROVE  /\ address' \in [Slots -> Ptr]
         /\ WritesBeyond \/ \E K : Owns(K)'
<1>1. /\ Searching /\ (asked' = asked \/ \E b \in Addr : HandsOut(b))
      /\ findFirstFit \/ findBestFit
  BY SearchStep DEF inMalloc
<1>2. pc # "free" /\ pc # "idle" /\ now.call = "malloc" /\ Leaving = {} /\ Holding(H)
  <2>1. pc # "free" /\ pc # "idle"
    BY <1>1 DEF Searching
  <2>2. Leaving = {} /\ H \ Leaving = H
    BY <2>1 DEF Leaving
  <2> QED
    BY <2>1, <2>2 DEF Owns
<1>3. PICK K : /\ K \subseteq Slots /\ Turns(now, H, K)
               /\ Runs(CallsTo(Slots, Sizes), Tail(calls), K, {})
  BY NowIs
<1> DEFINE slot == now.slot
           new  == IF asked' = asked THEN NULL ELSE CHOOSE b \in Addr : asked'[b] # asked[b]
<1>4. /\ address' = [address EXCEPT ![slot] = new] /\ (WritesBeyond \/ calls' = Tail(calls))
      /\ UNCHANGED program
  BY DEF inMalloc
<1>5. slot \in Slots /\ slot \notin H /\ K = H \cup {slot}
  BY <1>2, <1>3, NowIs DEF Turns
<1>6. address \in [Slots -> Ptr] /\ asked \in [Addr -> Sizes \cup {0}]
  BY DEF PInv, IInv, TypeOK
<1> HIDE DEF slot, new
<1>7. ASSUME new \in Ptr
      PROVE  /\ address' \in [Slots -> Ptr] /\ address'[slot] = new
             /\ \A s \in H : address'[s] = address[s]
  BY <1>4, <1>5, <1>6, <1>7
<1>8. CASE asked' = asked
  <2>1. new = NULL /\ new \in Ptr
    BY <1>8 DEF new, Ptr
  <2>2. Holding(K)'
    <3>1. /\ \A s \in H : address'[s] # NULL => asked'[address'[s]] # 0
          /\ \A s, t \in H : address'[s] = address'[t] /\ address'[s] # NULL => s = t
          /\ \A b \in Addr : asked'[b] # 0 => \E s \in H : address'[s] = b
      BY <1>2, <1>7, <1>8, <2>1 DEF Holding
    <3>2. address'[slot] = NULL
      BY <1>7, <2>1
    <3> QED
      BY <1>5, <3>1, <3>2 DEF Holding
  <2> QED
    BY <1>3, <1>4, <1>7, <2>1, <2>2, OwnsNext
<1>9. CASE asked' # asked
  <2>1. PICK b \in Addr : HandsOut(b)
    BY <1>1, <1>9
  <2>2. /\ asked[b] = 0 /\ asked'[b] # 0
        /\ \A a \in Addr \ {b} : asked'[a] = asked[a]
    BY <1>6, <2>1, MyMallocAssumption DEF HandsOut
  <2>3. new = b
    <3>1. \A a \in Addr : asked'[a] # asked[a] <=> a = b
      BY <2>2
    <3>2. (CHOOSE a \in Addr : asked'[a] # asked[a]) = b
      BY <3>1
    <3> QED
      BY <1>9, <3>2 DEF new
  <2>4. b # NULL /\ b \in Ptr
    BY Pointers DEF Ptr, Addr, NULL
  <2>5. Holding(K)'
    <3>0. /\ address'[slot] = b
          /\ \A s \in H : address'[s] = address[s] /\ address[s] \in Ptr
      <4>1. H \subseteq Slots
        BY DEF Owns
      <4>2. \A s \in H : address[s] \in Ptr
        BY <1>6, <4>1
      <4> QED
        BY <1>7, <2>3, <2>4, <4>2
    <3>1. \A s \in H : address[s] # b
      BY <1>2, <2>2, <2>4 DEF Holding
    <3>2. \A s \in K : address'[s] # NULL => asked'[address'[s]] # 0
      <4>1. \A s \in H : address[s] # NULL => address[s] \in Addr \ {b} /\ asked[address[s]] # 0
        BY <1>2, <3>0, <3>1 DEF Holding, Ptr
      <4> QED
        BY <1>5, <2>2, <3>0, <4>1
    <3>3. \A s, t \in K : address'[s] = address'[t] /\ address'[s] # NULL => s = t
      <4>1. \A s, t \in H : address[s] = address[t] /\ address[s] # NULL => s = t
        BY <1>2 DEF Holding
      <4> QED
        BY <1>5, <3>0, <3>1, <4>1
    <3>4. \A a \in Addr : asked'[a] # 0 => \E s \in K : address'[s] = a
      <4>1. \A a \in Addr : asked[a] # 0 => \E s \in H : address[s] = a
        BY <1>2 DEF Holding
      <4> QED
        BY <1>5, <2>2, <3>0, <4>1
    <3> QED
      BY <3>2, <3>3, <3>4 DEF Holding
  <2> QED
    BY <1>3, <1>4, <1>7, <2>3, <2>4, <2>5, OwnsNext
<1> QED
  BY <1>8, <1>9

\* What a free takes from the places of H, at its first step.
LEMMA FreeHolding ==
  ASSUME NEW H \in SUBSET Slots, NEW s \in H, Holding(H), address \in [Slots -> Ptr],
         address' = address, address[s] # NULL, asked \in [Addr -> Sizes \cup {0}],
         asked' = [asked EXCEPT ![address[s]] = 0]
  PROVE  Holding(H \ {s})'
<1>0. \A t \in H : address[t] # NULL => address[t] \in Addr
  BY DEF Ptr
<1>1. PICK a : a = address[s]
  OBVIOUS
<1>2. a \in Addr /\ asked'[a] = 0 /\ \A b \in Addr \ {a} : asked'[b] = asked[b]
  BY <1>0, <1>1
<1>3. \A t \in H \ {s} : address[t] # NULL => address[t] \in Addr \ {a} /\ asked[address[t]] # 0
  <2>1. \A t \in H : address[t] # NULL => asked[address[t]] # 0
    BY DEF Holding
  <2>2. \A t, u \in H : address[t] = address[u] /\ address[t] # NULL => t = u
    BY DEF Holding
  <2> SUFFICES ASSUME NEW t \in H \ {s}, address[t] # NULL
               PROVE  address[t] \in Addr \ {a} /\ asked[address[t]] # 0
    OBVIOUS
  <2>3. address[t] # a
    BY <1>1, <2>2
  <2> QED
    BY <1>0, <2>1, <2>3
<1>4. \A t \in H \ {s} : address'[t] # NULL => asked'[address'[t]] # 0
  BY <1>2, <1>3
<1>5. \A t, u \in H \ {s} : address'[t] = address'[u] /\ address'[t] # NULL => t = u
  BY DEF Holding
<1>6. \A b \in Addr : asked'[b] # 0 => \E t \in H \ {s} : address'[t] = b
  <2> SUFFICES ASSUME NEW b \in Addr, asked'[b] # 0
               PROVE  \E t \in H \ {s} : address[t] = b
    OBVIOUS
  <2>1. b # a /\ asked[b] # 0
    BY <1>2
  <2>2. PICK t \in H : address[t] = b
    BY <2>1 DEF Holding
  <2> QED
    BY <1>1, <2>1, <2>2
<1> QED
  BY <1>4, <1>5, <1>6 DEF Holding

\* The first step of a free, which may be the whole call.
LEMMA FreeStarts ==
  ASSUME IInv, PInv, NEW H, Owns(H), calls # <<>>, callFree
  PROVE  \E K : Owns(K)'
<1> DEFINE s == now.slot
<1>1. PICK K : /\ K \subseteq Slots /\ Turns(now, H, K)
               /\ Runs(CallsTo(Slots, Sizes), Tail(calls), K, {})
  BY NowIs
<1>2. /\ pc = "idle" /\ now.call = "free" /\ address' = address
      /\ calls' = IF pc' = "idle" THEN Tail(calls) ELSE calls
      /\ IF address[s] = NULL THEN UNCHANGED vars ELSE ff_free(address[s])
  BY DEF callFree
<1>3. s \in H /\ H \subseteq Slots /\ K = H \ {s}
  BY <1>1, <1>2 DEF Turns, Owns
<1>4. Holding(H)
  <2>1. H \ Leaving = H
    BY <1>2 DEF Leaving
  <2> QED
    BY <2>1 DEF Owns
<1> HIDE DEF s
<1>5. CASE address[s] = NULL
  <2>1. asked' = asked /\ pc' = "idle" /\ calls' = Tail(calls)
    BY <1>2, <1>5 DEF vars
  <2>2. Holding(K)'
    <3>1. \A b \in Addr : asked[b] # 0 => \E t \in H : address[t] = b /\ b # NULL
      BY <1>4, Pointers DEF Holding, NULL, Addr
    <3>2. \A b \in Addr : asked[b] # 0 => \E t \in K : address[t] = b
      BY <1>3, <1>5, <3>1
    <3> QED
      BY <1>2, <1>3, <1>4, <2>1, <3>2 DEF Holding
  <2> QED
    BY <1>1, <2>1, <2>2, OwnsNext
<1>6. CASE address[s] # NULL
  <2>1. /\ ff_free(address[s]) /\ asked' = [asked EXCEPT ![address[s]] = 0]
        /\ pc' \in {"idle", "free"}
    BY <1>2, <1>6 DEF ff_free, Return
  <2>2. asked \in [Addr -> Sizes \cup {0}] /\ address \in [Slots -> Ptr]
    BY DEF IInv, TypeOK, PInv
  <2>3. Holding(K)'
    BY <1>2, <1>3, <1>4, <1>6, <2>1, <2>2, FreeHolding
  <2>4. CASE pc' = "idle"
    BY <1>1, <1>2, <2>3, <2>4, OwnsNext
  <2>5. CASE pc' = "free"
    <3>1. calls' = calls /\ now' = now /\ Leaving' = {s}
      BY <1>2, <2>5 DEF now, Leaving, s
    <3>2. Holding(H \ Leaving)'
      BY <1>3, <2>3, <3>1 DEF Holding
    <3> QED
      BY <1>2, <1>3, <2>5, <3>1, <3>2 DEF Owns
  <2> QED
    BY <2>1, <2>4, <2>5
<1> QED
  BY <1>5, <1>6

\* The rest of a free.
LEMMA FreeGoesOn ==
  ASSUME IInv, PInv, NEW H, Owns(H), calls # <<>>, inFree
  PROVE  \E K : Owns(K)'
<1>1. /\ pc = "free" /\ asked' = asked /\ pc' \in {"idle", "free"} /\ address' = address
      /\ calls' = IF pc' = "idle" THEN Tail(calls) ELSE calls
  BY DEF inFree, freeMemoryBlock, Return
<1>2. now.call = "free" /\ Leaving = {now.slot} /\ Holding(H \ {now.slot})
  BY <1>1 DEF Owns, Leaving
<1>3. PICK K : /\ K \subseteq Slots /\ Turns(now, H, K)
               /\ Runs(CallsTo(Slots, Sizes), Tail(calls), K, {})
  BY NowIs
<1>4. K = H \ {now.slot}
  BY <1>2, <1>3 DEF Turns
<1>5. CASE pc' = "idle"
  <2>1. Holding(K)'
    BY <1>1, <1>2, <1>4 DEF Holding
  <2> QED
    BY <1>1, <1>3, <1>5, <2>1, OwnsNext
<1>6. CASE pc' = "free"
  <2>1. calls' = calls
    BY <1>1, <1>6
  <2> QED
    BY <1>1, <1>2, <1>6, <2>1, OwnsOn
<1> QED
  BY <1>1, <1>5, <1>6

\* The steps of a malloc before it returns.
LEMMA MallocGoesOn ==
  ASSUME IInv, PInv, NEW H, Owns(H), calls # <<>>, callMalloc \/ (inMalloc /\ pc' # "idle")
  PROVE  Owns(H)'
<1>1. CASE callMalloc
  <2>1. /\ pc = "idle" /\ pc' \in {"findFirstFit", "findBestFit"} /\ asked' = asked
        /\ now.call = "malloc" /\ calls' = calls /\ address' = address
    BY <1>1 DEF callMalloc, ff_malloc, bf_malloc, StartSearch, test
  <2> QED
    BY <2>1, OwnsOn
<1>2. CASE inMalloc /\ pc' # "idle"
  <2>1. Searching /\ asked' = asked /\ pc' = pc
    BY <1>2, SearchStep DEF inMalloc
  <2>2. calls' = calls /\ address' = address
    BY <1>2 DEF inMalloc, test
  <2>3. pc # "free" /\ pc # "idle" /\ now.call = "malloc"
    BY <2>1 DEF Searching, Owns
  <2> QED
    BY <2>1, <2>2, <2>3, OwnsOn
<1> QED
  BY <1>1, <1>2

\* At the start a program holds nothing, and all of its calls are before it.
LEMMA ProgramInit ==
  ASSUME PolicyInit
  PROVE  IInv /\ Accounted(heap) /\ PInv
<1>1. PICK start \in Addr : InitAt(start)
  <2>1. HeapLimit - AnyRoom \in Addr /\ 1 \in Addr
    BY MyMallocAssumption, PolicyTestsAssumption DEF Addr
  <2> QED
    BY <2>1 DEF PolicyInit
<1>2. IInv /\ Accounted(heap)
  BY <1>1, InitAtInv
<1>3. program \in Programs /\ calls \in CallsOf
  BY DEF PolicyInit
<1>4. address = [s \in Slots |-> NULL]
  BY DEF PolicyInit, Slots
<1>5. program = "any" => calls = <<>>
  BY <1>3 DEF CallsOf
<1>6. calls # Lost
  <2>1. CASE program = "any"
    BY <1>5, <2>1, LostIs
  <2>2. CASE program # "any"
    <3>1. Runs(CallsTo(Slots, Sizes), calls, {}, {})
      BY <1>3, <2>2, ProgramsRun
    <3>2. ASSUME calls # <<>> PROVE now.call # "lost"
      <4>1. \E K : Turns(Head(calls), {}, K)
        BY <3>1, <3>2, RunsOn
      <4> QED
        BY <4>1 DEF Turns, now
    <3> QED
      BY <3>2, LostIs
  <2> QED
    BY <2>1, <2>2
<1>7. ASSUME program # "any" PROVE Owns({})
  <2>1. Runs(CallsTo(Slots, Sizes), calls, {}, {})
    BY <1>3, <1>7, ProgramsRun
  <2>2. pc = "idle" /\ Leaving = {} /\ \A b \in Addr : asked[b] = 0
    BY <1>1 DEF InitAt, Leaving
  <2>3. Holding({})
    BY <2>2 DEF Holding
  <2>4. {} \ Leaving = {}
    BY <2>2
  <2> QED
    BY <2>1, <2>2, <2>3, <2>4 DEF Owns
<1> QED
  BY <1>2, <1>3, <1>4, <1>5, <1>6, <1>7 DEF PInv, Ptr

\* A step of a program is one that a client of MyMalloc may take.
LEMMA ProgramIsClient ==
  ASSUME IInv, PInv, [PolicyNext]_allVars
  PROVE  [Next]_vars
<1>1. CASE UNCHANGED allVars
  BY <1>1 DEF allVars
<1>2. CASE program = "any" /\ Next
  BY <1>2
<1>3. CASE calls # <<>> /\ (callMalloc \/ inMalloc \/ callFree \/ inFree)
  <2>1. PICK H : Owns(H)
    BY <1>3, NotLost DEF PInv
  <2>2. now.slot \in Slots /\ (now.call = "malloc" => now.size \in Sizes)
    BY <1>3, <2>1, NowIs
  <2>3. CASE callMalloc
    BY <2>2, <2>3 DEF callMalloc, Next, FFNext
  <2>4. CASE inMalloc
    BY <2>4 DEF inMalloc, Next, FFNext
  <2>5. CASE callFree
    <3>1. address[now.slot] \in Ptr
      BY <2>2 DEF PInv
    <3> QED
      BY <2>5, <3>1 DEF callFree, Next, FFNext, Ptr
  <2>6. CASE inFree
    BY <2>6 DEF inFree, Next, FFNext
  <2> QED
    BY <1>3, <2>3, <2>4, <2>5, <2>6
<1> QED
  BY <1>1, <1>2, <1>3 DEF PolicyNext

LEMMA ProgramStep ==
  ASSUME IInv, PInv, [PolicyNext]_allVars
  PROVE  PInv'
<1>1. CASE UNCHANGED allVars
  <2>1. now' = now /\ Leaving' = Leaving
    BY <1>1 DEF allVars, test, vars, now, Leaving
  <2>2. \A H : Owns(H) => Owns(H)'
    BY <1>1, <2>1 DEF allVars, test, vars, Owns, Holding
  <2>3. Lost' = Lost
    BY DEF Lost
  <2> QED
    BY <1>1, <2>2, <2>3 DEF PInv, allVars, test, vars
<1>2. CASE calls # <<>> /\ (callMalloc \/ inMalloc \/ callFree \/ inFree)
  <2>0. program # "any" /\ calls # Lost
    BY <1>2, NotLost DEF PInv
  <2>1. PICK H : Owns(H)
    BY <2>0 DEF PInv
  <2>2. program' = program /\ program' \in Programs
    BY <1>2 DEF callMalloc, inMalloc, callFree, inFree, test, PInv
  <2>3. CASE inMalloc /\ pc' = "idle"
    <3>1. address' \in [Slots -> Ptr] /\ (WritesBeyond \/ \E K : Owns(K)')
      BY <1>2, <2>1, <2>3, MallocReturns
    <3>2. CASE WritesBeyond
      <4>1. calls' = Lost /\ program' = "mymalloc_test"
        BY <2>2, <2>3, <3>2 DEF inMalloc, WritesBeyond
      <4> QED
        BY <2>0, <2>2, <2>3, <3>1, <4>1 DEF PInv
    <3>3. CASE ~WritesBeyond
      <4>1. calls' = Tail(calls)
        BY <2>3, <3>3 DEF inMalloc
      <4>2. PICK K : Owns(K)'
        BY <3>1, <3>3
      <4> QED
        BY <2>0, <2>2, <2>3, <3>1, <4>1, <4>2, OwnsNotLost DEF PInv
    <3> QED
      BY <3>2, <3>3
  <2>4. CASE callMalloc \/ (inMalloc /\ pc' # "idle")
    <3>1. address' = address
      BY <2>4 DEF callMalloc, inMalloc, test
    <3> QED
      BY <1>2, <2>0, <2>1, <2>2, <2>4, <3>1, MallocGoesOn, OwnsNotLost DEF PInv
  <2>5. CASE callFree
    <3>1. address' = address
      BY <2>5 DEF callFree
    <3> QED
      BY <1>2, <2>0, <2>1, <2>2, <2>5, <3>1, FreeStarts, OwnsNotLost DEF PInv
  <2>6. CASE inFree
    <3>1. address' = address
      BY <2>6 DEF inFree
    <3> QED
      BY <1>2, <2>0, <2>1, <2>2, <2>6, <3>1, FreeGoesOn, OwnsNotLost DEF PInv
  <2> QED
    BY <1>2, <2>3, <2>4, <2>5, <2>6
<1>3. CASE program = "any" /\ UNCHANGED test
  BY <1>3, LostIs DEF PInv, test
<1> QED
  BY <1>1, <1>2, <1>3 DEF PolicyNext

\* The programs of the tests, for any number of items and rounds, keep to the calls that
\* the allocator is made for, and so its invariant: what a program has stored is what it
\* holds.
THEOREM ProgramsKeepBooks == PolicySpec => [](IInv /\ Accounted(heap) /\ PInv)
<1>1. PolicyInit => IInv /\ Accounted(heap) /\ PInv
  BY ProgramInit
<1>2. IInv /\ Accounted(heap) /\ PInv /\ [PolicyNext]_allVars
        => (IInv /\ Accounted(heap) /\ PInv)'
  <2> SUFFICES ASSUME IInv, Accounted(heap), PInv, [PolicyNext]_allVars
               PROVE  (IInv /\ Accounted(heap) /\ PInv)'
    OBVIOUS
  <2>1. [Next]_vars
    BY ProgramIsClient
  <2>2. IInv' /\ KeepsCount
    BY <2>1, StepInv, StepCount
  <2>3. PInv'
    BY ProgramStep
  <2> QED
    BY <2>2, <2>3 DEF KeepsCount
<1> QED
  BY <1>1, <1>2, PTL DEF PolicySpec

\* A program frees only what it holds, and each pointer once, though the calls that
\* allocate and those that free follow different orders in alternating sets;
\* mymalloc_test as long as it has not written past the end of a block.
THEOREM EachIsFreedOnce == PolicySpec => []FreesOnce
<1>1. PInv => FreesOnce
  <2> SUFFICES ASSUME PInv, calls # <<>>, pc = "idle", now.call = "free"
               PROVE  address[now.slot] = NULL \/ asked[address[now.slot]] # 0
    BY DEF FreesOnce
  <2>1. PICK H : Owns(H)
    BY LostIs DEF PInv
  <2>2. Holding(H)
    <3>1. H \ Leaving = H
      BY DEF Leaving
    <3> QED
      BY <2>1, <3>1 DEF Owns
  <2>3. now.slot \in H
    BY <2>1, NowIs DEF Turns
  <2> QED
    BY <2>2, <2>3 DEF Holding
<1> QED
  BY <1>1, ProgramsKeepBooks, PTL

\* When main returns, all that the program was given has been freed, and the allocator
\* counts all of the data segment as free: by then the program owns no place.  An
\* mymalloc_test that has written past the end of a block does not come to that.
THEOREM EndsWithNothing == PolicySpec => []EndsEmpty
<1>1. IInv /\ Accounted(heap) /\ PInv => EndsEmpty
  <2> SUFFICES ASSUME IInv, Accounted(heap), PInv, program # "any", calls = <<>>
               PROVE  /\ \A b \in Addr : asked[b] = 0
                      /\ heap.totalFreed = heap.totalAllocated
    BY DEF EndsEmpty
  <2>1. PICK H : Owns(H)
    BY LostIs DEF PInv
  <2>2. H = {} /\ pc = "idle"
    BY <2>1, RunsNone DEF Owns
  <2>3. Holding({})
    <3>1. {} \ Leaving = {}
      OBVIOUS
    <3> QED
      BY <2>1, <2>2, <3>1 DEF Owns
  <2>4. \A b \in Addr : asked[b] = 0
    BY <2>3 DEF Holding
  <2>5. Free(heap) = heap.blocks
    BY <2>4, HeapFields DEF IInv, TypeOK, NoBlockLost, Free
  <2> QED
    BY <2>4, <2>5 DEF Accounted
<1> QED
  BY <1>1, ProgramsKeepBooks, PTL

\* Each program is a client of MyMalloc, so all that is proved of the allocator under any
\* client is true of it under the programs of the tests; under mymalloc_test only up to
\* where it writes past the end of a block, with which its steps end.
THEOREM ProgramsAreClients ==
  ASSUME "any" \notin Programs
  PROVE  PolicySpec => Spec
<1>1. PolicyInit => Init
  BY DEF PolicyInit, Init
<1>2. IInv /\ PInv /\ [PolicyNext]_allVars => [Next]_vars
  BY ProgramIsClient
<1> QED
  BY <1>1, <1>2, ProgramsKeepBooks, PTL DEF PolicySpec, Spec


-----------------------------------------------------------------------------
(***************************************************************************)
(* equal_size_allocs lives on the blocks of its set-up.                    *)
(***************************************************************************)

\* What one block takes, and where the block of a place lies if the set-up got them all.
Unit         == MetaSize + AllocSize
Lies(set, k) == 1 + (2 * k + set) * Unit

\* The calls already made, and the blocks that are there by now if memory suffices.
Made == Len(equal_size_allocs) - Len(calls)
Goal == IF Made < 2 * NumItems THEN Made ELSE 2 * NumItems

\* The calls that are left are the last ones of the program.
CallsLeft ==
  /\ Made \in Nat
  /\ \A i \in 1 .. Len(calls) : calls[i] = equal_size_allocs[Made + i]

\* The data segment is a row of blocks; there are fewer than there should be only if there
\* is no room for one more.
Row(m) ==
  /\ brk = 1 + m * Unit
  /\ m < Goal => brk + Unit > HeapLimit
  /\ \A n \in 0 .. m - 1 : 1 + n * Unit \in heap.blocks

\* Only blocks of the array are free, none before the set-up is over, and a place of the
\* array (the spacing) points, if anywhere, to a block of the array (the spacing).
Spaced ==
  /\ Free(heap) \subseteq {Lies(0, k) : k \in Index}
  /\ Made < 2 * NumItems => Free(heap) = {}
  /\ \A s \in Slots : address[s] # NULL =>
       s[2] \in Index /\ \E k \in Index : address[s] = Lies(s[1], k)

Steady ==
  /\ CallsLeft
  /\ \E m \in 0 .. Goal : Row(m)
  /\ errno = "ENOMEM" => brk + Unit > HeapLimit
  /\ \A b \in heap.blocks : heap.dataSize[b] = AllocSize
  /\ Searching => req = AllocSize
  /\ Len(calls) > NumItems \/ pc = "idle" => Spaced

\* Until main's last loop has freed its first block.
EqualInv == program = "equal_size" /\ Len(calls) >= NumItems => Steady

\* Blocks in a row.
LEMMA InARow ==
  ASSUME "equal_size" \in Programs
  PROVE  /\ Unit \in Nat \ {0} /\ AllocSize \in Nat \ {0} /\ MetaSize \in Nat \ {0}
         /\ Unit = MetaSize + AllocSize
         /\ \A m \in Nat : m * Unit \in Nat /\ (m + 1) * Unit = m * Unit + Unit
         /\ \A m, n \in Nat : n < m => n * Unit + Unit <= m * Unit
<1>1. AllocSize \in Nat \ {0} /\ MetaSize \in Nat \ {0} /\ Unit = MetaSize + AllocSize
  BY MyMallocAssumption, PolicyTestsAssumption DEF Unit
<1>2. PICK u : u = Unit
  OBVIOUS
<1>3. u \in Nat \ {0}
  BY <1>1, <1>2
<1>4. \A m \in Nat : m * u \in Nat /\ (m + 1) * u = m * u + u
  BY <1>3
<1>5. ASSUME NEW m \in Nat, NEW n \in Nat, n < m PROVE n * u + u <= m * u
  <2>1. PICK j \in Nat : j = m - n - 1
    BY <1>5
  <2>2. m = (n + 1) + j
    BY <2>1
  <2>3. m * u = n * u + u + j * u
    BY <1>3, <2>2
  <2>4. j * u \in Nat /\ n * u \in Nat
    BY <1>4
  <2> QED
    BY <1>3, <2>3, <2>4
<1> QED
  BY <1>1, <1>2, <1>3, <1>4, <1>5

LEMMA LiesApart ==
  ASSUME "equal_size" \in Programs
  PROVE  \A k, l \in Nat :
           /\ Lies(0, k) \in Nat /\ Lies(1, k) \in Nat
           /\ Lies(0, k) + Unit = Lies(1, k)
           /\ Lies(1, k) # Lies(0, l)
           /\ Lies(0, k) = Lies(0, l) => k = l
<1> SUFFICES ASSUME NEW k \in Nat, NEW l \in Nat
             PROVE  /\ Lies(0, k) \in Nat /\ Lies(1, k) \in Nat
                    /\ Lies(0, k) + Unit = Lies(1, k)
                    /\ Lies(1, k) # Lies(0, l)
                    /\ Lies(0, k) = Lies(0, l) => k = l
  OBVIOUS
<1>1. PICK a \in Nat, b \in Nat, c \in Nat : a = 2 * k + 0 /\ b = 2 * k + 1 /\ c = 2 * l + 0
  OBVIOUS
<1>2. b = a + 1 /\ b # c /\ (a = c => k = l)
  BY <1>1
<1>3. Lies(0, k) = 1 + a * Unit /\ Lies(1, k) = 1 + b * Unit /\ Lies(0, l) = 1 + c * Unit
  BY <1>1 DEF Lies
<1>4. /\ Unit \in Nat \ {0}
      /\ a * Unit \in Nat /\ b * Unit \in Nat /\ c * Unit \in Nat
      /\ b * Unit = a * Unit + Unit
  BY <1>2, InARow
<1>5. ASSUME NEW m \in Nat, NEW n \in Nat, m # n PROVE m * Unit # n * Unit
  <2>1. m < n \/ n < m
    BY <1>5
  <2>2. m * Unit \in Nat /\ n * Unit \in Nat /\ Unit \in Nat \ {0}
        /\ (n < m => n * Unit + Unit <= m * Unit) /\ (m < n => m * Unit + Unit <= n * Unit)
    BY InARow
  <2> QED
    BY <2>1, <2>2
<1>6. b * Unit # c * Unit /\ (a * Unit = c * Unit => a = c)
  BY <1>2, <1>5
<1> QED
  BY <1>2, <1>3, <1>4, <1>6

\* The calls of the set-up, of the timed part and of main's last loop, by their number.
LEMMA EqualAt ==
  /\ Len(equal_size_allocs) \in Nat /\ 3 * NumItems <= Len(equal_size_allocs)
  /\ \A i \in 1 .. Len(equal_size_allocs) :
       \/ i <= 2 * NumItems /\ equal_size_allocs[i] = EqualSetup[i]
       \/ /\ 2 * NumItems < i /\ i <= Len(equal_size_allocs) - NumItems
          /\ equal_size_allocs[i] \in CallsTo({0} \X Index, {AllocSize})
       \/ /\ 2 * NumItems < i /\ Len(equal_size_allocs) - NumItems < i
          /\ equal_size_allocs[i].call = "free"
<1> DEFINE X == CallsTo({0, 1} \X Index, {AllocSize})
           D == Drains(1, 0, NumItems)
<1>0. NumItems \in Nat \ {0}
  BY PolicyTestsAssumption
<1>1. PICK s : s = EqualSetup
  OBVIOUS
<1>2. PICK t : t = EqualTimed
  OBVIOUS
<1>3. PICK d : d = D
  OBVIOUS
<1>4. PICK w : w = equal_size_allocs
  OBVIOUS
<1>5. /\ s \in Seq(X) /\ t \in Seq(X) /\ d \in Seq(X)
      /\ t \in Seq(CallsTo({0} \X Index, {AllocSize}))
      /\ w = (s \o t) \o d
  <2>1. CallsTo({0} \X Index, {AllocSize}) \subseteq X /\ CallsTo({1} \X Index, {AllocSize}) \subseteq X
    BY DEF CallsTo
  <2> HIDE DEF X
  <2>2. t \in Seq(CallsTo({0} \X Index, {AllocSize}))
    BY <1>2, TimedRuns DEF Runs
  <2>3. d \in Seq(CallsTo({1} \X Index, {AllocSize}))
    BY <1>3, FinishRuns DEF Runs
  <2>4. s \in Seq(X)
    BY <1>1, EqualSetupIs DEF X
  <2> QED
    BY <1>1, <1>2, <1>3, <1>4, <2>1, <2>2, <2>3, <2>4, EqualWhole, SeqMonotonic
<1>6. Len(s) = 2 * NumItems /\ Len(d) = NumItems /\ \A i \in 1 .. Len(d) : d[i].call = "free"
  <2>1. Len(D) = NumItems /\ \A i \in 1 .. Len(D) : D[i] = FREE(<<1, 0 + i - 1>>)
    BY <1>0 DEF Drains
  <2> HIDE DEF D
  <2> QED
    BY <1>1, <1>3, <2>1, EqualSetupIs, CallIs
<1> HIDE DEF X, D
<1>7. Len(t) \in Nat /\ \A i \in 1 .. Len(t) : t[i] \in CallsTo({0} \X Index, {AllocSize})
  BY <1>5, LenProperties, ElementOfSeq
<1>8. /\ s \o t \in Seq(X) /\ Len(s \o t) = Len(s) + Len(t)
      /\ \A i \in 1 .. Len(s) + Len(t) : (s \o t)[i] = IF i <= Len(s) THEN s[i] ELSE t[i - Len(s)]
  BY <1>5, ConcatProperties
<1>9. PICK u : u = s \o t
  OBVIOUS
<1>10. /\ Len(w) = Len(u) + Len(d)
       /\ \A i \in 1 .. Len(u) + Len(d) : w[i] = IF i <= Len(u) THEN u[i] ELSE d[i - Len(u)]
  BY <1>5, <1>8, <1>9, ConcatProperties
<1>11. /\ Len(u) = 2 * NumItems + Len(t) /\ Len(w) = 2 * NumItems + Len(t) + NumItems
  BY <1>6, <1>8, <1>9, <1>10
<1>12. ASSUME NEW i \in 1 .. Len(w)
       PROVE  \/ i <= 2 * NumItems /\ w[i] = s[i]
              \/ /\ 2 * NumItems < i /\ i <= Len(w) - NumItems
                 /\ w[i] \in CallsTo({0} \X Index, {AllocSize})
              \/ 2 * NumItems < i /\ Len(w) - NumItems < i /\ w[i].call = "free"
  <2>1. CASE i <= 2 * NumItems
    <3>1. i \in 1 .. Len(s) + Len(t) /\ i \in 1 .. Len(u) + Len(d) /\ i <= Len(u) /\ i <= Len(s)
      BY <1>0, <1>6, <1>7, <1>11, <2>1
    <3> QED
      BY <1>8, <1>9, <1>10, <2>1, <3>1
  <2>2. CASE 2 * NumItems < i /\ i <= Len(u)
    <3>1. /\ i \in 1 .. Len(s) + Len(t) /\ i \in 1 .. Len(u) + Len(d) /\ ~(i <= Len(s))
          /\ i - Len(s) \in 1 .. Len(t)
      BY <1>0, <1>6, <1>7, <1>11, <2>2
    <3>2. w[i] = t[i - Len(s)]
      BY <1>8, <1>9, <1>10, <2>2, <3>1
    <3>3. w[i] \in CallsTo({0} \X Index, {AllocSize})
      BY <1>7, <3>1, <3>2
    <3>4. i <= Len(w) - NumItems
      BY <1>0, <1>7, <1>11, <2>2
    <3> QED
      BY <2>2, <3>3, <3>4
  <2>3. CASE Len(u) < i
    <3>1. i \in 1 .. Len(u) + Len(d) /\ ~(i <= Len(u)) /\ i - Len(u) \in 1 .. Len(d)
      BY <1>0, <1>6, <1>7, <1>11, <2>3
    <3>2. w[i].call = "free"
      BY <1>6, <1>10, <3>1
    <3>3. 2 * NumItems < i /\ Len(w) - NumItems < i
      BY <1>0, <1>7, <1>11, <2>3
    <3> QED
      BY <3>2, <3>3
  <2> QED
    BY <1>0, <1>7, <1>11, <2>1, <2>2, <2>3
<1>13. Len(w) \in Nat /\ 3 * NumItems <= Len(w)
  BY <1>0, <1>7, <1>11
<1> QED
  BY <1>1, <1>4, <1>12, <1>13

\* The call that comes next.
LEMMA EqualNow ==
  ASSUME "equal_size" \in Programs, CallsLeft, Len(calls) \in Nat \ {0}, now = calls[1]
  PROVE  /\ now.call = "malloc" =>
              /\ Len(calls) > NumItems
              /\ now.size = AllocSize
              /\ now.slot \in {0, 1} \X Index
         /\ Made < 2 * NumItems =>
              now.call = "malloc" /\ 1 + Made * Unit = Lies(now.slot[1], now.slot[2])
         /\ Made >= 2 * NumItems /\ Len(calls) > NumItems => now.slot \in {0} \X Index
<1>0. NumItems \in Nat \ {0} /\ Made \in Nat /\ Len(equal_size_allocs) \in Nat
  BY PolicyTestsAssumption, EqualAt DEF CallsLeft
<1>1. PICK i \in Nat : i = Made + 1
  BY <1>0
<1>2. now = equal_size_allocs[i] /\ i \in 1 .. Len(equal_size_allocs)
  <2>1. 1 \in 1 .. Len(calls)
    OBVIOUS
  <2>2. calls[1] = equal_size_allocs[Made + 1]
    BY <2>1 DEF CallsLeft
  <2>3. i \in 1 .. Len(equal_size_allocs)
    BY <1>0, <1>1 DEF Made
  <2> QED
    BY <1>1, <2>2, <2>3
<1>3. Len(calls) > NumItems <=> i <= Len(equal_size_allocs) - NumItems
  BY <1>0, <1>1 DEF Made
<1>a. \/ i <= 2 * NumItems /\ now = EqualSetup[i]
      \/ /\ 2 * NumItems < i /\ i <= Len(equal_size_allocs) - NumItems
         /\ now \in CallsTo({0} \X Index, {AllocSize})
      \/ 2 * NumItems < i /\ Len(equal_size_allocs) - NumItems < i /\ now.call = "free"
  <2>1. PICK w : w = equal_size_allocs
    OBVIOUS
  <2>2. \A j \in 1 .. Len(w) :
          \/ j <= 2 * NumItems /\ w[j] = EqualSetup[j]
          \/ /\ 2 * NumItems < j /\ j <= Len(w) - NumItems
             /\ w[j] \in CallsTo({0} \X Index, {AllocSize})
          \/ 2 * NumItems < j /\ Len(w) - NumItems < j /\ w[j].call = "free"
    BY <2>1, EqualAt
  <2> QED
    BY <1>2, <2>1, <2>2
<1>4. CASE i <= 2 * NumItems
  <2>1. now = EqualSetup[i]
    BY <1>0, <1>4, <1>a
  <2>2. i \in 1 .. 2 * NumItems
    BY <1>0, <1>1, <1>4
  <2>3. PICK k \in Index : i = 2 * k + 1 \/ i = 2 * k + 2
    BY <2>2, Halves
  <2>4. PICK set \in {0, 1} : i = 2 * k + set + 1 /\ now = MALLOC(<<set, k>>, AllocSize)
    <3>0. \A j \in Index : /\ EqualSetup[2 * j + 1] = MALLOC(<<0, j>>, AllocSize)
                           /\ EqualSetup[2 * j + 2] = MALLOC(<<1, j>>, AllocSize)
      BY EqualSetupIs
    <3>1. k \in Nat
      BY DEF Index
    <3>2. CASE i = 2 * k + 1
      <4>0. EqualSetup[2 * k + 1] = MALLOC(<<0, k>>, AllocSize)
        BY <3>0
      <4>1. now = MALLOC(<<0, k>>, AllocSize) /\ i = 2 * k + 0 + 1
        BY <2>1, <3>1, <3>2, <4>0
      <4> QED
        BY <4>1
    <3>3. CASE i = 2 * k + 2
      <4>0. EqualSetup[2 * k + 2] = MALLOC(<<1, k>>, AllocSize)
        BY <3>0
      <4>1. now = MALLOC(<<1, k>>, AllocSize) /\ i = 2 * k + 1 + 1
        BY <2>1, <3>1, <3>3, <4>0
      <4> QED
        BY <4>1
    <3> QED
      BY <2>3, <3>2, <3>3
  <2>5. now.call = "malloc" /\ now.size = AllocSize /\ now.slot = <<set, k>>
    BY <2>4, CallIs
  <2>6. Made = 2 * k + set
    BY <1>0, <1>1, <2>4 DEF Index
  <2>7. 1 + Made * Unit = Lies(now.slot[1], now.slot[2])
    BY <2>5, <2>6 DEF Lies
  <2>8. 2 * NumItems <= Len(equal_size_allocs) - NumItems
    BY <1>0, EqualAt
  <2>9. Len(calls) > NumItems
    BY <1>0, <1>1, <1>3, <1>4, <2>8
  <2> QED
    BY <1>0, <1>1, <1>4, <2>5, <2>7, <2>9
<1>5. CASE 2 * NumItems < i
  <2>1. \/ i <= Len(equal_size_allocs) - NumItems /\ now \in CallsTo({0} \X Index, {AllocSize})
        \/ Len(equal_size_allocs) - NumItems < i /\ now.call = "free"
    BY <1>0, <1>5, <1>a
  <2>2. ~(Made < 2 * NumItems)
    BY <1>0, <1>1, <1>5
  <2>3. ASSUME now \in CallsTo({0} \X Index, {AllocSize})
        PROVE  /\ now.slot \in {0} \X Index
               /\ now.call = "malloc" => now.size = AllocSize
    <3>1. CASE \E s \in {0} \X Index : now = FREE(s)
      BY <3>1, CallIs
    <3>2. CASE \E s \in {0} \X Index : now = MALLOC(s, AllocSize)
      BY <3>2, CallIs
    <3> QED
      BY <2>3, <3>1, <3>2 DEF CallsTo
  <2> QED
    BY <1>0, <1>3, <2>1, <2>2, <2>3
<1> QED
  BY <1>0, <1>4, <1>5

\* Blocks that do not touch are not merged.
LEMMA NoMerge ==
  ASSUME NEW h \in Heap, NEW F \in SUBSET Addr, ListOf(h, F), NEW b \in F,
         SeamsOf(h, F) = {}
  PROVE  coalesceWithRight(h, b) = h /\ coalesceWithLeft(h, b) = h
<1>1. h.next[b] \in F \cup {NULL} /\ h.prev[b] \in F \cup {NULL}
  BY HeapFields, Pointers DEF ListOf, Chained, NULL
<1>2. \A x, y \in F : EndOf(h, x) # y
  BY DEF SeamsOf
<1>3. ~(h.next[b] # NULL /\ h.next[b] = EndOf(h, b)) /\ ~(h.prev[b] # NULL /\ b = EndOf(h, h.prev[b]))
  BY <1>1, <1>2
<1> QED
  BY <1>3 DEF coalesceWithRight, coalesceWithLeft

\* A free that leaves blocks apart only marks and lists its block.
LEMMA FreeKeeps ==
  ASSUME IInv, NEW b \in Addr, ff_free(b)
  PROVE  /\ brk' = brk /\ errno' = errno /\ ~Searching'
         /\ pc' = "free" \/ SeamsOf(heap, Free(heap) \cup {b}) = {} =>
              /\ heap'.blocks = heap.blocks /\ heap'.dataSize = heap.dataSize
              /\ Free(heap') = Free(heap) \cup {b}
<1> DEFINE g == markFree(heap, b)
           F == Free(heap)
<1>1. /\ pc = "idle" /\ asked[b] # 0 /\ asked' = [asked EXCEPT ![b] = 0]
      /\ brk' = brk /\ errno' = errno /\ pc' \in {"idle", "free"}
  BY DEF ff_free, Return
<1>t. /\ heap \in Heap /\ brk \in Addr /\ F = FreeBlocks /\ F \in SUBSET Addr
      /\ Sound(heap, F, brk)
      /\ b \in Held(heap) /\ heap.allocated[b] /\ b \in heap.blocks
  BY <1>1, FreeBlocksAre, HeldAre, HeapFields DEF IInv, TypeOK, Free, Held
<1>2. /\ g \in Heap /\ Sound(g, F, brk) /\ b \notin F /\ Free(g) = F \cup {b}
      /\ g.blocks = heap.blocks /\ g.dataSize = heap.dataSize
      /\ g.head = heap.head /\ g.tail = heap.tail
  BY <1>t, MarkFreeSound
<1>n. /\ b \in Nat /\ b # 0 /\ \A f \in F : f \in Nat /\ f # 0
      /\ F = {} <=> heap.head = 0
      /\ F = {} <=> heap.tail = 0
      /\ F # {} => heap.head \in F /\ heap.tail \in F
      /\ \A f \in F : heap.head <= f /\ f <= heap.tail
  <2>1. b \in Nat /\ b # 0 /\ \A f \in F : f \in Nat /\ f # 0
    BY <1>t, Pointers
  <2>2. Chained(F, heap.head, heap.tail, heap.next, heap.prev)
    BY <1>t DEF Sound, ListOf
  <2> HIDE DEF F
  <2> QED BY <2>1, <2>2 DEF Chained
<1>m. isEmptyFreeList(g) <=> isEmptyFreeList(heap)
  BY <1>2 DEF isEmptyFreeList
<1> HIDE DEF g, F
<1> SUFFICES ASSUME pc' = "free" \/ SeamsOf(heap, F \cup {b}) = {}
             PROVE  /\ heap'.blocks = heap.blocks /\ heap'.dataSize = heap.dataSize
                    /\ Free(heap') = F \cup {b}
  BY <1>1 DEF F, Searching
<1>4. CASE isEmptyFreeList(heap) \/ b > heap.tail
  <2>1. PICK a : a = appendToFreeList(g, b)
    OBVIOUS
  <2>2. /\ SameData(g, a)
        /\ a.allocated = [g.allocated EXCEPT ![b] = FALSE]
        /\ a.tail = b
    <3>1. \A f \in F : f < b
      BY <1>4, <1>n, <1>2 DEF isEmptyFreeList, NULL
    <3> QED
      BY <1>t, <1>2, <2>1, <3>1, AppendSound DEF Sound
  <2>3. heap' = a
    <3>1. ~(b > a.tail)
      BY <2>2, <1>n
    <3>2. b > heap.tail => ~(b <= heap.tail)
      <4>1. heap.tail \in Nat
        BY <1>t, HeapFields, Pointers
      <4> QED BY <4>1, <1>n
    <3> QED
      BY <1>4, <1>t, <2>1, <3>1, <3>2 DEF ff_free, appendFreed, g
  <2>4. Free(a) = Free(g)
    <3>1. g.allocated \in [Addr -> BOOLEAN] /\ ~g.allocated[b]
      BY <1>2, <1>t, HeapFields DEF Free
    <3>2. \A x \in Addr : a.allocated[x] <=> g.allocated[x]
      BY <2>2, <3>1, <1>t
    <3> QED
      BY <1>2, <2>2, <3>2, HeapFields DEF Free, SameData
  <2> QED
    BY <1>2, <2>2, <2>3, <2>4 DEF SameData
<1>5. CASE ~isEmptyFreeList(heap) /\ b <= heap.tail /\ b < heap.head
  <2>1. PICK i : i = insertIntoFreeList(g, b, NULL)
    OBVIOUS
  <2>0. F # {}
    BY <1>5, <1>n DEF isEmptyFreeList, NULL
  <2>2. i \in Heap /\ SameData(g, i) /\ i.allocated = g.allocated /\ ListOf(i, F \cup {b})
    <3>1. b \in Addr \ F /\ NULL \in F \cup {NULL} /\ b < g.head
      BY <1>5, <1>2
    <3> QED BY <1>t, <1>2, <2>0, <2>1, <3>1, InsertSound DEF Sound
  <2>3. heap' = coalesceWithRight(i, b) /\ pc' = "idle"
    <3>1. ~(b > heap.tail) /\ ~(b >= heap.head)
      BY <1>5, <1>n, <2>0
    <3> QED BY <1>5, <1>t, <2>1, <3>1 DEF ff_free, Return, g
  <2>4. SeamsOf(i, F \cup {b}) = {}
    <3>1. \A x : EndOf(i, x) = EndOf(heap, x)
      BY <1>2, <2>2 DEF EndOf, SameData
    <3>2. SeamsOf(heap, F \cup {b}) = {}
      BY <2>3
    <3> QED
      BY <3>1, <3>2 DEF SeamsOf
  <2>5. heap' = i
    BY <1>t, <2>2, <2>3, <2>4, NoMerge
  <2> QED
    BY <1>2, <2>2, <2>5 DEF SameData, Free
<1>6. CASE ~isEmptyFreeList(heap) /\ b <= heap.tail /\ b >= heap.head
  <2>1. F # {}
    BY <1>6, <1>n DEF isEmptyFreeList, NULL
  <2>2. heap' = g
    <3>1. ~(b > heap.tail) /\ ~(b < heap.head)
      BY <1>6, <1>n, <2>1
    <3> QED
      BY <1>6, <1>t, <3>1 DEF ff_free, g
  <2> QED
    BY <1>2, <2>2
<1> QED
  <2>1. isEmptyFreeList(heap) \/ (heap.tail \in Nat /\ heap.head \in Nat)
    BY <1>t, HeapFields, Pointers
  <2> QED
    BY <1>4, <1>5, <1>6, <1>n, <2>1

\* The same of the rest of a free.
LEMMA FreeEndKeeps ==
  ASSUME IInv, freeMemoryBlock
  PROVE  /\ brk' = brk /\ errno' = errno /\ ~Searching'
         /\ pc' = "free" => heap' = heap
         /\ SeamsOf(heap, Free(heap)) = {} =>
              /\ heap'.blocks = heap.blocks /\ heap'.dataSize = heap.dataSize
              /\ Free(heap') = Free(heap)
<1> DEFINE F == FreeBlocks
<1>1. /\ pc = "free" /\ brk' = brk /\ errno' = errno /\ asked' = asked
      /\ pc' \in {"idle", "free"}
  BY DEF freeMemoryBlock, Return
<1>t. /\ heap \in Heap /\ F \in SUBSET Addr /\ Sound(heap, F, brk)
      /\ F = Free(heap) \ {block}
      /\ block \in heap.blocks /\ block \in Addr /\ F \cup {block} = Free(heap)
  BY <1>1, HeapFields DEF IInv, TypeOK, FreeInv, FreeBlocks, Free
<1>n. /\ block \in Nat /\ block \notin F /\ iter \in F
      /\ \A f \in F : f \in Nat /\ f # 0
      /\ heap.head \in F /\ heap.tail \in F /\ heap.head < block /\ block < heap.tail
      /\ \A f \in F : f < iter => f < block
  <2>1. block \in Nat /\ \A f \in F : f \in Nat /\ f # 0
    BY <1>t, Pointers
  <2> QED BY <1>1, <1>t, <2>1 DEF IInv, FreeInv
<1>2. CASE iter < block
  <2>1. UNCHANGED <<heap, pc>>
    <3>1. ~(iter >= block)
      BY <1>2, <1>n
    <3> QED BY <3>1 DEF freeMemoryBlock
  <2> QED
    BY <1>1, <2>1 DEF Searching
<1>3. CASE iter >= block
  <2>0. PICK curr : curr = heap.prev[iter]
    OBVIOUS
  <2>1. PICK i : i = insertIntoFreeList(heap, block, curr)
    OBVIOUS
  <2>2. heap' = coalesceWithLeft(coalesceWithRight(i, block), block) /\ pc' = "idle"
    <3>1. ~(iter < block)
      BY <1>3, <1>n
    <3> QED BY <2>0, <2>1, <3>1 DEF freeMemoryBlock, Return
  <2>3. /\ curr \in F /\ curr < iter /\ heap.next[curr] = iter
    <3>1. iter # heap.head
      BY <1>3, <1>n
    <3> QED BY <1>t, <1>n, <2>0, <3>1 DEF Sound, ListOf, Chained
  <2> HIDE DEF F
  <2>4. i \in Heap /\ SameData(heap, i) /\ i.allocated = heap.allocated /\ ListOf(i, F \cup {block})
    <3>1. curr < block /\ block < iter /\ curr # NULL
      BY <1>3, <1>n, <2>3 DEF NULL
    <3>2. block \in Addr \ F /\ F # {} /\ curr \in F \cup {NULL}
      BY <1>t, <1>n, <2>3
    <3> QED BY <1>t, <2>1, <2>3, <3>1, <3>2, InsertSound DEF Sound
  <2>5. ASSUME SeamsOf(heap, Free(heap)) = {} PROVE heap' = i
    <3>1. \A x : EndOf(i, x) = EndOf(heap, x)
      BY <2>4 DEF EndOf, SameData
    <3>2. SeamsOf(i, F \cup {block}) = {}
      BY <1>t, <2>5, <3>1 DEF SeamsOf
    <3>3. coalesceWithRight(i, block) = i /\ coalesceWithLeft(i, block) = i
      BY <1>t, <2>4, <3>2, NoMerge
    <3> QED
      BY <2>2, <3>3
  <2>6. i.blocks = heap.blocks /\ i.dataSize = heap.dataSize /\ Free(i) = Free(heap)
    BY <2>4 DEF SameData, Free
  <2>7. pc' # "free" /\ ~Searching'
    BY <2>2 DEF Searching
  <2> QED
    BY <1>1, <2>5, <2>6, <2>7
<1> QED BY <1>2, <1>3, <1>n

\* The memory a step leaves alone.
SameMemory == heap' = heap /\ brk' = brk /\ errno' = errno

\* A search takes a block whole if that is too small to be split.
TakesWhole(b) ==
  /\ brk' = brk /\ errno' = errno /\ HandsOut(b)
  /\ heap.dataSize[b] < MetaSize + req =>
       /\ heap'.blocks = heap.blocks /\ heap'.dataSize = heap.dataSize
       /\ Free(heap') = Free(heap) \ {b}

\* A search gets a block from sbrk, unless errno speaks against it.
Grows ==
  /\ brk + (req + MetaSize) <= HeapLimit
  /\ \A f \in Free(heap) : heap.dataSize[f] < req
  /\ errno # "ENOMEM" =>
       /\ brk' = brk + (req + MetaSize) /\ errno' = errno
       /\ HandsOut(brk)
       /\ heap'.blocks = heap.blocks \cup {brk}
       /\ heap'.dataSize = [heap.dataSize EXCEPT ![brk] = req]
       /\ Free(heap') = Free(heap)

\* It gets nothing.
Fails ==
  /\ brk + (req + MetaSize) > HeapLimit
  /\ heap' = heap /\ brk' = brk /\ errno' = "ENOMEM" /\ asked' = asked

LEMMA TakeKeeps ==
  ASSUME IInv, Searching, NEW b \in FreeBlocks, TakeBlock(b)
  PROVE  TakesWhole(b)
<1>1. /\ heap' = splitMemoryBlock(heap, b, req) /\ brk' = brk /\ errno' = errno /\ HandsOut(b)
  BY TakeBlockInv DEF TakeBlock
<1>t. /\ heap \in Heap /\ FreeBlocks = Free(heap) /\ b \in Addr /\ b \in Free(heap)
      /\ Free(heap) \in SUBSET Addr /\ Sound(heap, Free(heap), brk)
  BY FreeBlocksAre, HeapFields DEF IInv, TypeOK, Searching, Free
<1> SUFFICES ASSUME heap.dataSize[b] < MetaSize + req
             PROVE  /\ heap'.blocks = heap.blocks /\ heap'.dataSize = heap.dataSize
                    /\ Free(heap') = Free(heap) \ {b}
  BY <1>1 DEF TakesWhole
<1>x. PICK x \in Int : x = MetaSize + heap.dataSize[b]
  BY <1>t, HeapFields, MyMallocAssumption
<1>2. PICK g : g = [heap EXCEPT !.totalFreed = @ - x]
  OBVIOUS
<1>3. PICK r : r = removeFromFreeList(g, b) /\ r = heap'
  BY <1>x, <1>1, <1>2 DEF splitMemoryBlock, takeWhole
<1>4. /\ g \in Heap /\ Sound(g, Free(heap), brk)
      /\ g.blocks = heap.blocks /\ g.dataSize = heap.dataSize /\ g.allocated = heap.allocated
  <2>1. g \in Heap /\ SameBlocks(heap, g)
    BY <1>t, <1>2, TotalFreedSet
  <2> QED
    BY <1>t, <2>1, SameBlocksSound DEF SameBlocks
<1>5. /\ r \in Heap
      /\ r.blocks = g.blocks
      /\ r.dataSize = g.dataSize
      /\ r.allocated = [g.allocated EXCEPT ![b] = TRUE]
      /\ Sound(r, Free(heap) \ {b}, brk)
      /\ SameTotals(g, r)
  <2>1. PICK F \in SUBSET Addr : F = Free(heap)
    BY <1>t
  <2>2. g \in Heap /\ Sound(g, F, brk) /\ b \in F /\ r = removeFromFreeList(g, b)
    BY <1>t, <1>3, <1>4, <2>1
  <2>3. /\ r \in Heap
        /\ r.blocks = g.blocks
        /\ r.dataSize = g.dataSize
        /\ r.allocated = [g.allocated EXCEPT ![b] = TRUE]
        /\ Sound(r, F \ {b}, brk)
        /\ SameTotals(g, r)
    BY <2>2, TakenSound
  <2> QED
    BY <2>1, <2>3
<1>6. heap.allocated \in [Addr -> BOOLEAN] /\ heap.blocks \in SUBSET Addr
  BY <1>t, HeapFields
<1>7. Free(heap') = Free(heap) \ {b}
  <2>1. \A a \in Addr : heap'.allocated[a] <=> (heap.allocated[a] \/ a = b)
    BY <1>3, <1>4, <1>5, <1>6, <1>t
  <2> QED
    BY <1>3, <1>4, <1>5, <1>6, <2>1 DEF Free
<1> QED
  BY <1>3, <1>4, <1>5, <1>7

LEMMA GrowKeeps ==
  ASSUME IInv, Searching, allocateMemory, iter = NULL, best = NULL
  PROVE  Grows \/ Fails
<1>t. /\ heap \in Heap /\ brk \in Addr /\ FreeBlocks = Free(heap) /\ req \in Nat \ {0}
      /\ Sound(heap, Free(heap), brk) /\ MetaSize \in Nat
  BY FreeBlocksAre, MyMallocAssumption DEF IInv, TypeOK, SearchInv, Searching
<1>1. \A f \in Free(heap) : heap.dataSize[f] < req
  BY <1>t DEF IInv, SearchInv
<1>2. CASE brk + (req + MetaSize) > HeapLimit
  <2>1. ~(brk + (req + MetaSize) <= HeapLimit)
    BY <1>2, <1>t, MyMallocAssumption DEF Addr
  <2> QED
    BY <1>2, <2>1 DEF allocateMemory, Fails
<1>3. CASE brk + (req + MetaSize) <= HeapLimit
  <2>0. ~(brk + (req + MetaSize) > HeapLimit)
    BY <1>3, <1>t, MyMallocAssumption DEF Addr
  <2> SUFFICES ASSUME errno # "ENOMEM"
               PROVE  /\ brk' = brk + (req + MetaSize) /\ errno' = errno
                      /\ HandsOut(brk)
                      /\ heap'.blocks = heap.blocks \cup {brk}
                      /\ heap'.dataSize = [heap.dataSize EXCEPT ![brk] = req]
                      /\ Free(heap') = Free(heap)
    BY <1>1, <1>3 DEF Grows
  <2>1. /\ brk' = brk + (req + MetaSize) /\ errno' = errno
        /\ heap' = newBlock(heap, brk, req)
        /\ asked' = [asked EXCEPT ![brk] = req]
    BY <2>0 DEF allocateMemory
  <2>2. brk \notin heap.blocks
    <3>1. ASSUME brk \in heap.blocks PROVE FALSE
      <4>1. brk + MetaSize + heap.dataSize[brk] <= brk
        BY <1>t, <3>1 DEF Sound, Layout, EndOf
      <4>2. brk \in Nat /\ MetaSize \in Nat \ {0} /\ heap.dataSize[brk] \in Nat
        BY <1>t, HeapFields, Pointers, MyMallocAssumption
      <4> QED
        BY <4>1, <4>2
    <3> QED
      BY <3>1
  <2>3. HandsOut(brk)
    <3>1. asked[brk] = 0
      BY <1>t, <2>2, HeldAre DEF IInv, Held
    <3> QED
      BY <1>t, <2>1, <3>1 DEF HandsOut, IInv, SearchInv
  <2>4. /\ heap'.blocks = heap.blocks \cup {brk}
        /\ heap'.dataSize = [heap.dataSize EXCEPT ![brk] = req]
        /\ heap'.allocated = [heap.allocated EXCEPT ![brk] = TRUE]
    BY <1>t, <2>1 DEF newBlock, initializeMemoryBlock, Heap
  <2>5. Free(heap') = Free(heap)
    <3>1. heap.allocated \in [Addr -> BOOLEAN] /\ heap.blocks \in SUBSET Addr
      BY <1>t, HeapFields
    <3>2. \A a \in Addr : heap'.allocated[a] <=> (heap.allocated[a] \/ a = brk)
      BY <1>t, <2>4, <3>1
    <3> QED
      BY <1>t, <2>2, <2>4, <3>1, <3>2 DEF Free
  <2> QED
    BY <2>1, <2>3, <2>4, <2>5
<1> QED
  <2>1. brk + (req + MetaSize) \in Int /\ HeapLimit \in Int
    BY <1>t, MyMallocAssumption DEF Addr
  <2> QED
    BY <1>2, <1>3, <2>1

\* What a step of a search does to memory, in all.
LEMMA SearchKeeps ==
  ASSUME IInv, findFirstFit \/ findBestFit
  PROVE  /\ Searching
         /\ \/ /\ pc' = pc /\ req' = req /\ SameMemory
            \/ /\ pc' = "idle"
               /\ Grows \/ Fails \/ \E b \in Free(heap) : TakesWhole(b)
<1>1. Searching /\ pc \in {"findFirstFit", "findBestFit"} /\ FreeBlocks = Free(heap)
  BY FreeBlocksAre DEF findFirstFit, findBestFit, Searching
<1>2. ASSUME allocateMemory, iter = NULL, best = NULL
      PROVE  pc' = "idle" /\ (Grows \/ Fails)
  BY <1>1, <1>2, GrowKeeps DEF allocateMemory, Return
<1>3. ASSUME NEW b \in FreeBlocks, TakeBlock(b)
      PROVE  pc' = "idle" /\ \E x \in Free(heap) : TakesWhole(x)
  BY <1>1, <1>3, TakeKeeps DEF TakeBlock, Return
<1>4. CASE findFirstFit
  <2>0. best = NULL
    BY <1>1, <1>4 DEF findFirstFit, IInv, SearchInv
  <2>1. CASE iter # NULL /\ TakeBlock(iter)
    <3>1. iter \in FreeBlocks
      BY <1>1, <2>1 DEF IInv, SearchInv
    <3> QED
      BY <1>1, <1>3, <2>1, <3>1
  <2>2. CASE UNCHANGED <<heap, brk, errno, pc, req>>
    BY <1>1, <2>2 DEF SameMemory
  <2>3. CASE iter = NULL /\ allocateMemory
    BY <1>1, <1>2, <2>0, <2>3
  <2> QED
    BY <1>4, <2>1, <2>2, <2>3 DEF findFirstFit
<1>5. CASE findBestFit
  <2>1. CASE (iter # NULL \/ best # NULL) /\ TakeBlock(heap.head)
    <3>1. heap.head \in FreeBlocks
      BY <1>1, <2>1 DEF IInv, SearchInv, Sound, ListOf, Chained
    <3> QED
      BY <1>1, <1>3, <2>1, <3>1
  <2>2. CASE UNCHANGED <<heap, brk, errno, pc, req>>
    BY <1>1, <2>2 DEF SameMemory
  <2>3. CASE iter = NULL /\ best = NULL /\ allocateMemory
    BY <1>1, <1>2, <2>3
  <2> QED
    BY <1>5, <2>1, <2>2, <2>3 DEF findBestFit
<1> QED
  BY <1>4, <1>5

\* The pointer a program stores when its malloc has been handed block b.
LEMMA Stored ==
  ASSUME asked \in [Addr -> Sizes \cup {0}], NEW b, HandsOut(b)
  PROVE  asked' # asked /\ (CHOOSE a \in Addr : asked'[a] # asked[a]) = b
<1>1. b \in Addr /\ \A a \in Addr : asked'[a] # asked[a] <=> a = b
  BY MyMallocAssumption DEF HandsOut
<1>2. (CHOOSE a \in Addr : asked'[a] # asked[a]) = b
  BY <1>1
<1> QED
  BY <1>1, <1>2

\* With all of the set-up's blocks there, and a place of the array in use by nobody, a block
\* of the array is free: the places in use are fewer than the blocks.
LEMMA OneIsFree ==
  ASSUME "equal_size" \in Programs, IInv, PInv, Spaced,
         \A n \in 0 .. 2 * NumItems - 1 : 1 + n * Unit \in heap.blocks,
         NEW H \in SUBSET Slots, Holding(H), NEW i \in Index, <<0, i>> \notin H
  PROVE  Free(heap) # {}
<1> SUFFICES ASSUME Free(heap) = {} PROVE FALSE
  OBVIOUS
<1>0. NumItems \in Nat \ {0}
  BY PolicyTestsAssumption
<1>1. \A k \in Index : \E j \in Index \ {i} : address[<<0, j>>] = Lies(0, k)
  <2> SUFFICES ASSUME NEW k \in Index
               PROVE  \E j \in Index \ {i} : address[<<0, j>>] = Lies(0, k)
    OBVIOUS
  <2>1. PICK n : n = 2 * k + 0
    OBVIOUS
  <2>2. n \in 0 .. 2 * NumItems - 1 /\ k \in Nat
    BY <1>0, <2>1 DEF Index
  <2>3. Lies(0, k) \in heap.blocks
    BY <2>1, <2>2 DEF Lies
  <2>4. Lies(0, k) \in Addr /\ asked[Lies(0, k)] # 0
    BY <2>3, HeapFields DEF IInv, TypeOK, NoBlockLost, Free
  <2>5. PICK t \in H : address[t] = Lies(0, k)
    BY <2>4 DEF Holding
  <2>6. address[t] # NULL
    BY <2>4, <2>5, Pointers DEF Addr, NULL
  <2>7. PICK l \in Index : t[2] \in Index /\ address[t] = Lies(t[1], l)
    BY <2>5, <2>6 DEF Spaced
  <2>8. t[1] \in {0, 1} /\ t = <<t[1], t[2]>>
    BY DEF Slots
  <2>9. t[1] = 0
    <3>1. l \in Nat
      BY DEF Index
    <3>2. Lies(1, l) # Lies(0, k)
      BY <2>2, <3>1, LiesApart
    <3> QED
      BY <2>5, <2>7, <2>8, <3>2
  <2>10. t = <<0, t[2]>> /\ t[2] # i
    BY <2>8, <2>9
  <2> QED
    BY <2>5, <2>7, <2>10
<1> DEFINE f == [k \in Index |-> CHOOSE j \in Index \ {i} : address[<<0, j>>] = Lies(0, k)]
<1>2. \A k \in Index : f[k] \in Index \ {i} /\ address[<<0, f[k]>>] = Lies(0, k)
  BY <1>1
<1>3. f \in [Index -> Index \ {i}]
  BY <1>2
<1> HIDE DEF f
<1>4. /\ IsFiniteSet(Index) /\ Cardinality(Index) = NumItems
      /\ IsFiniteSet(Index \ {i}) /\ Cardinality(Index \ {i}) = NumItems - 1
  <2>1. 0 \in Int /\ NumItems - 1 \in Int /\ ~(0 > NumItems - 1) /\ (NumItems - 1) - 0 + 1 = NumItems
    BY <1>0
  <2>2. PICK a \in Int, b \in Int : a = 0 /\ b = NumItems - 1
    BY <2>1
  <2>3. IsFiniteSet(a .. b) /\ Cardinality(a .. b) = IF a > b THEN 0 ELSE b - a + 1
    BY FS_Interval
  <2>4. IsFiniteSet(Index) /\ Cardinality(Index) = NumItems
    BY <2>1, <2>2, <2>3 DEF Index
  <2> QED
    BY <2>4, FS_RemoveElement
<1>5. Cardinality(Index \ {i}) < Cardinality(Index)
  BY <1>0, <1>4
<1>6. \E k, l \in Index : k # l /\ f[k] = f[l]
  BY <1>3, <1>4, <1>5, FS_PigeonHole
<1>7. PICK k \in Index, l \in Index : k # l /\ f[k] = f[l]
  BY <1>6
<1>8. Lies(0, k) = Lies(0, l)
  <2>1. address[<<0, f[k]>>] = Lies(0, k) /\ address[<<0, f[l]>>] = Lies(0, l)
    BY <1>2
  <2> QED
    BY <1>7, <2>1
<1>9. k \in Nat /\ l \in Nat
  BY DEF Index
<1> QED
  BY <1>7, <1>8, <1>9, LiesApart

\* Blocks of the array touch no other one.
LEMMA ArrayApart ==
  ASSUME "equal_size" \in Programs, NEW F,
         F \subseteq {Lies(0, k) : k \in Index}, \A b \in F : heap.dataSize[b] = AllocSize
  PROVE  SeamsOf(heap, F) = {}
<1> SUFFICES ASSUME NEW b \in F, NEW c \in F, EndOf(heap, b) = c PROVE FALSE
  BY DEF SeamsOf
<1>1. PICK k \in Index, l \in Index : b = Lies(0, k) /\ c = Lies(0, l)
  OBVIOUS
<1>2. k \in Nat /\ l \in Nat
  BY DEF Index
<1>3. Lies(0, k) \in Nat /\ Lies(0, k) + Unit = Lies(1, k) /\ Lies(1, k) # Lies(0, l)
  BY <1>2, LiesApart
<1>4. EndOf(heap, b) = b + Unit
  <2>1. Unit = MetaSize + AllocSize /\ MetaSize \in Nat /\ AllocSize \in Nat
    BY InARow
  <2>2. EndOf(heap, b) = b + MetaSize + AllocSize
    BY DEF EndOf
  <2> QED
    BY <1>1, <1>3, <2>1, <2>2
<1> QED
  BY <1>1, <1>3, <1>4

\* The calls left before and after a step.
LEMMA CallsKept ==
  ASSUME calls' = calls
  PROVE  Made' = Made /\ Goal' = Goal /\ (CallsLeft => CallsLeft')
BY DEF Made, Goal, CallsLeft

LEMMA CallsAre ==
  ASSUME NEW H, Owns(H), calls # <<>>
  PROVE  /\ Len(calls) \in Nat \ {0} /\ now = calls[1]
         /\ Len(Tail(calls)) = Len(calls) - 1
         /\ \A i \in 1 .. Len(calls) - 1 : Tail(calls)[i] = calls[i + 1]
<1>1. calls \in Seq(CallsTo(Slots, Sizes))
  BY DEF Owns, Runs
<1> QED
  BY <1>1, HeadTailProperties, EmptySeq, LenProperties DEF now

LEMMA CallsGone ==
  ASSUME NEW H, Owns(H), calls # <<>>, CallsLeft, calls' = Tail(calls)
  PROVE  Made' = Made + 1 /\ CallsLeft' /\ Len(calls') = Len(calls) - 1
<1>1. /\ Len(calls) \in Nat \ {0} /\ Len(calls') = Len(calls) - 1
      /\ \A i \in 1 .. Len(calls) - 1 : calls'[i] = calls[i + 1]
  BY CallsAre
<1>2. Len(equal_size_allocs) \in Nat
  BY EqualAt
<1>3. Made' = Made + 1 /\ Made \in Nat
  BY <1>1, <1>2 DEF Made, CallsLeft
<1>4. ASSUME NEW i \in 1 .. Len(calls') PROVE calls'[i] = equal_size_allocs[Made' + i]
  <2>1. PICK j \in 1 .. Len(calls) : j = i + 1
    BY <1>1
  <2>2. calls[j] = equal_size_allocs[Made + j]
    BY DEF CallsLeft
  <2>3. Made + j = Made' + i /\ i \in 1 .. Len(calls) - 1
    BY <1>1, <1>3, <2>1
  <2> QED
    BY <1>1, <2>1, <2>2, <2>3
<1>5. CallsLeft'
  BY <1>3, <1>4 DEF CallsLeft
<1> QED
  BY <1>1, <1>3, <1>5

\* A step that touches neither memory nor calls.
LEMMA SteadyStays ==
  ASSUME Steady, calls' = calls, address' = address, SameMemory,
         Searching' => req' = AllocSize,
         Len(calls) > NumItems \/ (pc' = "idle" => pc = "idle")
  PROVE  Steady'
<1>1. Made' = Made /\ Goal' = Goal /\ CallsLeft'
  BY CallsKept DEF Steady
<1>2. \A m : Row(m) => Row(m)'
  BY <1>1 DEF Row, SameMemory, Unit
<1>3. Spaced => Spaced'
  BY <1>1 DEF Spaced, SameMemory
<1>4. Len(calls') = Len(calls) /\ heap' = heap /\ brk' = brk /\ errno' = errno
  BY DEF SameMemory
<1>5. \E m \in 0 .. Goal : Row(m)'
  BY <1>2 DEF Steady
<1> QED
  BY <1>1, <1>3, <1>4, <1>5 DEF Steady, Unit

\* A step after the set-up that leaves the blocks where they are.
LEMMA SteadyOn ==
  ASSUME "equal_size" \in Programs, Steady, Made >= 2 * NumItems, Made' \in {Made, Made + 1},
         CallsLeft', brk' = brk, errno' = errno,
         heap'.blocks = heap.blocks, heap'.dataSize = heap.dataSize, ~Searching',
         Len(calls') > NumItems \/ pc' = "idle" => Spaced'
  PROVE  Steady'
<1>0. NumItems \in Nat \ {0} /\ Made \in Nat
  BY PolicyTestsAssumption DEF Steady, CallsLeft
<1>1. Goal = 2 * NumItems /\ Goal' = 2 * NumItems
  BY <1>0 DEF Goal
<1>2. \A m : Row(m) => Row(m)'
  BY <1>1 DEF Row, Unit
<1>3. \E m \in 0 .. Goal : Row(m)'
  BY <1>2 DEF Steady
<1> QED
  BY <1>1, <1>3 DEF Steady, Unit

\* malloc returns.
LEMMA EqualMallocReturns ==
  ASSUME "equal_size" \in Programs, program = "equal_size", IInv, PInv, NEW H, Owns(H),
         calls # <<>>, Steady, inMalloc, pc' = "idle", Len(calls') >= NumItems
  PROVE  Steady'
<1> DEFINE slot == now.slot
           new  == IF asked' = asked THEN NULL ELSE CHOOSE b \in Addr : asked'[b] # asked[b]
<1>0. NumItems \in Nat \ {0} /\ Made \in Nat
  BY PolicyTestsAssumption DEF Steady, CallsLeft
<1>1. /\ Searching /\ ~Searching' /\ pc # "idle" /\ pc # "free"
      /\ Grows \/ Fails \/ \E b \in Free(heap) : TakesWhole(b)
  BY SearchKeeps DEF inMalloc, Searching
<1>2. now.call = "malloc" /\ Holding(H) /\ H \subseteq Slots
  <2>1. Leaving = {} /\ H \ Leaving = H
    BY <1>1 DEF Leaving
  <2> QED
    BY <1>1, <2>1 DEF Owns
<1>3. slot \in Slots /\ slot \notin H
  BY <1>2, NowIs DEF Turns
<1>4. /\ address' = [address EXCEPT ![slot] = new] /\ calls' = Tail(calls)
      /\ address \in [Slots -> Ptr]
  BY DEF inMalloc, PInv, WritesBeyond
<1>5. Made' = Made + 1 /\ CallsLeft' /\ Len(calls') = Len(calls) - 1
  BY <1>4, CallsGone DEF Steady
<1>6. /\ Len(calls) \in Nat \ {0} /\ now = calls[1]
      /\ Len(calls) > NumItems
      /\ slot \in {0, 1} \X Index
      /\ Made < 2 * NumItems => 1 + Made * Unit = Lies(slot[1], slot[2])
      /\ Made >= 2 * NumItems => slot \in {0} \X Index
  <2>1. Len(calls) \in Nat \ {0} /\ now = calls[1]
    BY CallsAre
  <2> QED
    BY <1>2, <2>1, EqualNow DEF Steady
<1>7. /\ Spaced /\ req = AllocSize /\ asked \in [Addr -> Sizes \cup {0}]
      /\ brk \in Nat /\ HeapLimit \in Nat
      /\ \A b \in heap.blocks : heap.dataSize[b] = AllocSize
  BY <1>1, <1>6, Pointers, MyMallocAssumption DEF Steady, IInv, TypeOK
<1>8. /\ AllocSize \in Nat \ {0} /\ MetaSize \in Nat \ {0} /\ Unit \in Nat \ {0}
      /\ req + MetaSize = Unit /\ AllocSize < MetaSize + req
  <2>1. /\ AllocSize \in Nat \ {0} /\ MetaSize \in Nat \ {0} /\ Unit \in Nat \ {0}
        /\ Unit = MetaSize + AllocSize
    BY InARow
  <2> QED
    BY <1>7, <2>1
<1> HIDE DEF slot, new
<1>9. ASSUME new # NULL => \E k \in Index : new = Lies(slot[1], k)
      PROVE  \A s \in Slots : address'[s] # NULL =>
               s[2] \in Index /\ \E k \in Index : address'[s] = Lies(s[1], k)
  <2> SUFFICES ASSUME NEW s \in Slots, address'[s] # NULL
               PROVE  s[2] \in Index /\ \E k \in Index : address'[s] = Lies(s[1], k)
    OBVIOUS
  <2>1. CASE s = slot
    <3>1. address'[s] = new
      BY <1>3, <1>4, <2>1
    <3>2. slot[2] \in Index
      BY <1>6
    <3> QED
      BY <1>9, <2>1, <3>1, <3>2
  <2>2. CASE s # slot
    <3>1. address'[s] = address[s]
      BY <1>4, <2>2
    <3> QED
      BY <1>7, <3>1 DEF Spaced
  <2> QED
    BY <2>1, <2>2
<1>10. PICK m \in 0 .. Goal : Row(m)
  BY DEF Steady
<1>11. Goal \in Nat /\ Goal' \in {Goal, Goal + 1}
  BY <1>0, <1>5 DEF Goal
<1>12. CASE \E b \in Free(heap) : TakesWhole(b)
  <2>1. PICK b \in Free(heap) : TakesWhole(b)
    BY <1>12
  <2>2. Made >= 2 * NumItems
    BY <1>0, <1>7 DEF Spaced
  <2>3. new = b /\ \E k \in Index : b = Lies(slot[1], k)
    <3>1. PICK k \in Index : b = Lies(0, k)
      BY <1>7 DEF Spaced
    <3>2. slot[1] = 0
      BY <1>6, <2>2
    <3>3. new = b
      BY <1>7, <2>1, Stored DEF TakesWhole, new
    <3> QED
      BY <3>1, <3>2, <3>3
  <2>4. /\ heap'.blocks = heap.blocks /\ heap'.dataSize = heap.dataSize
        /\ Free(heap') = Free(heap) \ {b} /\ brk' = brk /\ errno' = errno
    <3>1. heap.dataSize[b] < MetaSize + req
      BY <1>7, <1>8 DEF Free
    <3> QED
      BY <2>1, <3>1 DEF TakesWhole
  <2>5. Spaced'
    <3>1. ~(Made' < 2 * NumItems)
      BY <1>0, <1>5, <2>2
    <3>2. Free(heap') \subseteq {Lies(0, k) : k \in Index}
      BY <1>7, <2>4 DEF Spaced
    <3> QED
      BY <1>9, <2>3, <3>1, <3>2 DEF Spaced, Lies, Unit
  <2> QED
    BY <1>1, <1>5, <2>2, <2>4, <2>5, SteadyOn
<1>13. CASE Fails
  <2>1. /\ brk + Unit > HeapLimit /\ heap' = heap /\ brk' = brk /\ errno' = "ENOMEM"
        /\ new = NULL
    BY <1>8, <1>13 DEF Fails, new
  <2>2. m \in 0 .. Goal' /\ Row(m)'
    BY <1>10, <1>11, <2>1 DEF Row, Unit
  <2>3. Spaced'
    <3>1. Made' < 2 * NumItems => Made < 2 * NumItems
      BY <1>0, <1>5
    <3>2. Free(heap') \subseteq {Lies(0, k) : k \in Index} /\ (Made' < 2 * NumItems => Free(heap') = {})
      BY <1>7, <2>1, <3>1 DEF Spaced
    <3> QED
      BY <1>9, <2>1, <3>2 DEF Spaced, Lies, Unit
  <2> QED
    BY <1>1, <1>5, <1>7, <2>1, <2>2, <2>3 DEF Steady, Unit
<1>14. CASE Grows
  <2>1. brk + Unit <= HeapLimit /\ \A f \in Free(heap) : heap.dataSize[f] < req
    BY <1>8, <1>14 DEF Grows
  <2>2. ~(brk + Unit > HeapLimit)
    BY <1>7, <1>8, <2>1
  <2>3. m = Goal /\ errno # "ENOMEM"
    BY <1>10, <1>11, <2>2 DEF Steady, Row
  <2>4. Made < 2 * NumItems
    <3> SUFFICES ASSUME Made >= 2 * NumItems PROVE FALSE
      BY <1>0
    <3>1. Goal = 2 * NumItems
      BY <1>0 DEF Goal
    <3>2. \A n \in 0 .. 2 * NumItems - 1 : 1 + n * Unit \in heap.blocks
      BY <1>10, <2>3, <3>1 DEF Row
    <3>3. PICK i \in Index : slot = <<0, i>>
      BY <1>6
    <3>4. Free(heap) # {}
      BY <1>2, <1>3, <1>7, <3>2, <3>3, OneIsFree
    <3>5. PICK f \in Free(heap) : TRUE
      BY <3>4
    <3> QED
      BY <1>7, <1>8, <2>1, <3>5 DEF Free
  <2>5. m = Made /\ Goal' = Made + 1
    BY <1>0, <1>5, <2>3, <2>4 DEF Goal
  <2>6. /\ brk' = brk + Unit /\ errno' = errno /\ HandsOut(brk)
        /\ heap'.blocks = heap.blocks \cup {brk}
        /\ heap'.dataSize = [heap.dataSize EXCEPT ![brk] = req]
        /\ Free(heap') = Free(heap)
    BY <1>8, <1>14, <2>3 DEF Grows
  <2>7. brk = 1 + Made * Unit
    BY <1>10, <2>5 DEF Row
  <2>8. PICK l \in Nat : l = Made + 1
    BY <1>0
  <2>9. l \in 0 .. Goal' /\ Row(l)'
    <3>1. l \in 0 .. Goal' /\ ~(l < Goal')
      BY <1>0, <2>5, <2>8
    <3>2. brk' = 1 + l * Unit
      <4>1. Made * Unit \in Nat /\ (Made + 1) * Unit = Made * Unit + Unit
        BY <1>0, InARow
      <4> QED
        BY <1>8, <2>6, <2>7, <2>8, <4>1
    <3>3. \A n \in 0 .. l - 1 : 1 + n * Unit \in heap'.blocks
      <4>1. ASSUME NEW n \in 0 .. l - 1 PROVE 1 + n * Unit \in heap'.blocks
        <5>1. n = Made \/ n \in 0 .. m - 1
          BY <1>0, <2>5, <2>8
        <5> QED
          BY <1>10, <2>6, <2>7, <5>1 DEF Row
      <4> QED
        BY <4>1
    <3> QED
      BY <3>1, <3>2, <3>3 DEF Row, Unit
  <2>10. Spaced'
    <3>1. new = brk
      BY <1>7, <2>6, Stored DEF new
    <3>2. slot[2] \in Index /\ brk = Lies(slot[1], slot[2])
      BY <1>6, <2>4, <2>7
    <3>3. Free(heap') = {}
      BY <1>7, <2>4, <2>6 DEF Spaced
    <3> QED
      BY <1>9, <3>1, <3>2, <3>3 DEF Spaced, Lies, Unit
  <2>11. \A b \in heap'.blocks : heap'.dataSize[b] = AllocSize
    <3>1. heap.dataSize \in [Addr -> Nat] /\ heap.blocks \in SUBSET Addr /\ brk \in Addr
      BY HeapFields DEF IInv, TypeOK
    <3> QED
      BY <1>7, <2>6, <3>1
  <2> QED
    BY <1>1, <1>5, <2>3, <2>6, <2>9, <2>10, <2>11 DEF Steady, Unit
<1> QED
  BY <1>1, <1>12, <1>13, <1>14

\* The first step of a free.
LEMMA EqualFreeStarts ==
  ASSUME "equal_size" \in Programs, IInv, PInv, NEW H, Owns(H), calls # <<>>,
         Steady, callFree, Len(calls') >= NumItems
  PROVE  Steady'
<1> DEFINE slot == now.slot
<1>0. NumItems \in Nat \ {0} /\ Made \in Nat
  BY PolicyTestsAssumption DEF Steady, CallsLeft
<1>1. /\ pc = "idle" /\ now.call = "free" /\ address' = address
      /\ calls' = IF pc' = "idle" THEN Tail(calls) ELSE calls
      /\ IF address[slot] = NULL THEN UNCHANGED vars ELSE ff_free(address[slot])
  BY DEF callFree
<1>2. Len(calls) \in Nat \ {0} /\ now = calls[1] /\ Len(Tail(calls)) = Len(calls) - 1
  BY CallsAre
<1>3. Made >= 2 * NumItems /\ (Len(calls) > NumItems => slot \in {0} \X Index)
  BY <1>0, <1>1, <1>2, EqualNow DEF Steady
<1>4. slot \in Slots /\ address[slot] \in Ptr /\ Spaced
  BY <1>1, NowIs DEF PInv, Steady
<1>5. /\ CallsLeft' /\ Made' \in {Made, Made + 1}
      /\ pc' = "idle" => Len(calls) > NumItems
      /\ Len(calls') > NumItems => Len(calls) > NumItems
  <2>1. CASE pc' = "idle"
    <3>1. Made' = Made + 1 /\ CallsLeft' /\ Len(calls') = Len(calls) - 1
      BY <1>1, <2>1, CallsGone DEF Steady
    <3> QED
      BY <1>0, <1>2, <3>1
  <2>2. CASE pc' # "idle"
    <3>1. calls' = calls
      BY <1>1, <2>2
    <3> QED
      BY <2>2, <3>1, CallsKept DEF Steady
  <2> QED
    BY <2>1, <2>2
<1> HIDE DEF slot
<1>6. ASSUME NEW F, F \subseteq {Lies(0, k) : k \in Index}, Free(heap') = F
      PROVE  Spaced'
  <2>1. ~(Made' < 2 * NumItems)
    BY <1>0, <1>3, <1>5
  <2> QED
    BY <1>1, <1>4, <1>6, <2>1 DEF Spaced, Lies, Unit
<1>7. CASE address[slot] = NULL
  <2>1. heap' = heap /\ brk' = brk /\ errno' = errno /\ pc' = pc
    BY <1>1, <1>7 DEF vars
  <2>2. ~Searching'
    BY <1>1, <2>1 DEF Searching
  <2>3. Spaced'
    BY <1>4, <1>6, <2>1 DEF Spaced
  <2> QED
    BY <1>3, <1>5, <2>1, <2>2, <2>3, SteadyOn
<1>8. CASE address[slot] # NULL
  <2>1. PICK b \in Addr : b = address[slot] /\ ff_free(b)
    BY <1>1, <1>4, <1>8 DEF Ptr
  <2>2. pc' \in {"idle", "free"}
    BY <2>1 DEF ff_free, Return
  <2>3. ASSUME Len(calls) > NumItems
        PROVE  /\ Free(heap) \cup {b} \subseteq {Lies(0, k) : k \in Index}
               /\ SeamsOf(heap, Free(heap) \cup {b}) = {}
    <3>1. b \in {Lies(0, k) : k \in Index}
      <4>1. slot[1] = 0
        BY <1>3, <2>3
      <4>2. \E k \in Index : address[slot] = Lies(slot[1], k)
        BY <1>4, <1>8 DEF Spaced
      <4> QED
        BY <2>1, <4>1, <4>2
    <3>2. b \in heap.blocks
      BY <2>1 DEF ff_free, IInv, NoBlockLost
    <3>3. \A x \in Free(heap) \cup {b} : heap.dataSize[x] = AllocSize
      BY <3>2 DEF Steady, Free
    <3>4. Free(heap) \cup {b} \subseteq {Lies(0, k) : k \in Index}
      BY <1>4, <3>1 DEF Spaced
    <3> QED
      BY <3>3, <3>4, ArrayApart
  <2>4. /\ brk' = brk /\ errno' = errno /\ ~Searching'
        /\ pc' = "free" \/ SeamsOf(heap, Free(heap) \cup {b}) = {} =>
             /\ heap'.blocks = heap.blocks /\ heap'.dataSize = heap.dataSize
             /\ Free(heap') = Free(heap) \cup {b}
    BY <2>1, FreeKeeps
  <2>5. /\ heap'.blocks = heap.blocks /\ heap'.dataSize = heap.dataSize
        /\ Free(heap') = Free(heap) \cup {b}
    BY <1>5, <2>2, <2>3, <2>4
  <2>6. Len(calls') > NumItems \/ pc' = "idle" => Spaced'
    BY <1>5, <1>6, <2>3, <2>5
  <2> QED
    BY <1>3, <1>5, <2>4, <2>5, <2>6, SteadyOn
<1> QED
  BY <1>7, <1>8

\* The rest of it.
LEMMA EqualFreeGoesOn ==
  ASSUME "equal_size" \in Programs, IInv, PInv, NEW H, Owns(H), calls # <<>>,
         Steady, inFree, Len(calls') >= NumItems
  PROVE  Steady'
<1>0. NumItems \in Nat \ {0} /\ Made \in Nat
  BY PolicyTestsAssumption DEF Steady, CallsLeft
<1>1. /\ pc = "free" /\ freeMemoryBlock /\ address' = address /\ pc' \in {"idle", "free"}
      /\ calls' = IF pc' = "idle" THEN Tail(calls) ELSE calls
  BY DEF inFree, freeMemoryBlock, Return
<1>2. Len(calls) \in Nat \ {0} /\ now = calls[1]
  BY CallsAre
<1>3. Made >= 2 * NumItems
  BY <1>0, <1>1, <1>2, EqualNow DEF Steady, Owns
<1>4. /\ brk' = brk /\ errno' = errno /\ ~Searching'
      /\ pc' = "free" => heap' = heap
      /\ SeamsOf(heap, Free(heap)) = {} =>
           /\ heap'.blocks = heap.blocks /\ heap'.dataSize = heap.dataSize
           /\ Free(heap') = Free(heap)
  BY <1>1, FreeEndKeeps
<1>5. CASE pc' = "free"
  <2>1. SameMemory /\ calls' = calls
    BY <1>1, <1>4, <1>5 DEF SameMemory
  <2> QED
    BY <1>1, <1>4, <1>5, <2>1, SteadyStays
<1>6. CASE pc' = "idle"
  <2>1. Made' = Made + 1 /\ CallsLeft' /\ Len(calls') = Len(calls) - 1
    BY <1>1, <1>6, CallsGone DEF Steady
  <2>2. Spaced
    <3>1. Len(calls) > NumItems
      BY <1>0, <1>2, <2>1
    <3> QED
      BY <3>1 DEF Steady
  <2>3. SeamsOf(heap, Free(heap)) = {}
    <3>1. \A x \in Free(heap) : heap.dataSize[x] = AllocSize
      BY DEF Steady, Free
    <3>2. Free(heap) \subseteq {Lies(0, k) : k \in Index}
      BY <2>2 DEF Spaced
    <3> QED
      BY <3>1, <3>2, ArrayApart
  <2>4. Spaced'
    <3>1. ~(Made' < 2 * NumItems)
      BY <1>0, <1>3, <2>1
    <3> QED
      BY <1>1, <1>4, <2>2, <2>3, <3>1 DEF Spaced, Lies, Unit
  <2> QED
    BY <1>3, <1>4, <2>1, <2>3, <2>4, SteadyOn
<1> QED
  BY <1>1, <1>5, <1>6

LEMMA EqualInit ==
  ASSUME PolicyInit
  PROVE  EqualInv
<1> SUFFICES ASSUME program = "equal_size" PROVE Steady
  BY DEF EqualInv
<1>0. NumItems \in Nat \ {0} /\ "equal_size" \in Programs
  BY PolicyTestsAssumption DEF PolicyInit
<1>1. calls = equal_size_allocs
  BY DEF PolicyInit, CallsOf
<1>2. /\ heap = InitHeap /\ brk = 1 /\ errno = "other" /\ pc = "idle"
      /\ address = [s \in Slots |-> NULL]
  BY DEF PolicyInit, InitAt, Slots
<1>3. Made = 0 /\ Goal = 0
  <2>1. Len(equal_size_allocs) \in Nat
    BY EqualAt
  <2>2. Made = 0
    BY <1>1, <2>1 DEF Made
  <2> QED
    BY <1>0, <2>2 DEF Goal
<1>4. CallsLeft
  <2>1. \A i \in 1 .. Len(calls) : Made + i = i
    BY <1>3
  <2> QED
    BY <1>1, <1>3, <2>1 DEF CallsLeft
<1>5. heap.blocks = {} /\ Free(heap) = {}
  BY <1>2 DEF InitHeap, Free
<1>6. \E m \in 0 .. Goal : Row(m)
  <2>1. PICK z : z = 0
    OBVIOUS
  <2>2. z \in 0 .. Goal /\ ~(z < Goal)
    BY <1>3, <2>1
  <2>3. brk = 1 + z * Unit
    <3>1. Unit \in Nat
      BY <1>0, InARow
    <3> QED
      BY <1>2, <2>1, <3>1
  <2>4. \A n \in 0 .. z - 1 : 1 + n * Unit \in heap.blocks
    BY <2>1
  <2> QED
    BY <2>2, <2>3, <2>4 DEF Row
<1>7. Spaced
  BY <1>2, <1>5 DEF Spaced
<1> QED
  BY <1>2, <1>4, <1>5, <1>6, <1>7 DEF Steady, Searching

LEMMA EqualStep ==
  ASSUME IInv, PInv, EqualInv, [PolicyNext]_allVars
  PROVE  EqualInv'
<1> SUFFICES ASSUME program' = "equal_size", Len(calls') >= NumItems
             PROVE  Steady'
  BY DEF EqualInv
<1>0. NumItems \in Nat \ {0}
  BY PolicyTestsAssumption
<1>1. program = "equal_size" /\ "equal_size" \in Programs
  BY DEF PolicyNext, callMalloc, inMalloc, callFree, inFree, allVars, test, PInv
<1>2. CASE UNCHANGED allVars
  <2>1. /\ calls' = calls /\ address' = address /\ pc' = pc /\ req' = req /\ SameMemory
        /\ Searching' = Searching
    BY <1>2 DEF allVars, test, vars, SameMemory, Searching
  <2>2. Steady
    BY <1>1, <2>1 DEF EqualInv
  <2> QED
    BY <2>1, <2>2, SteadyStays DEF Steady
<1>3. CASE calls # <<>> /\ (callMalloc \/ inMalloc \/ callFree \/ inFree)
  <2>1. PICK H : Owns(H)
    BY <1>1, <1>3, NotLost DEF PInv
  <2>2. Len(calls) \in Nat \ {0} /\ now = calls[1] /\ Len(Tail(calls)) = Len(calls) - 1
    BY <1>3, <2>1, CallsAre
  <2>3. Steady
    <3>1. calls' = calls \/ calls' = Tail(calls)
      BY <1>1, <1>3 DEF callMalloc, inMalloc, callFree, inFree, test, WritesBeyond
    <3>2. Len(calls) >= NumItems
      BY <1>0, <2>2, <3>1
    <3> QED
      BY <1>1, <3>2 DEF EqualInv
  <2>4. CASE callMalloc
    <3>1. /\ pc = "idle" /\ now.call = "malloc" /\ req' = now.size /\ SameMemory
          /\ calls' = calls /\ address' = address
      BY <2>4 DEF callMalloc, ff_malloc, bf_malloc, StartSearch, SameMemory, test
    <3>2. now.size = AllocSize
      BY <1>1, <2>2, <2>3, <3>1, EqualNow DEF Steady
    <3> QED
      BY <2>3, <3>1, <3>2, SteadyStays
  <2>5. CASE inMalloc /\ pc' = "idle"
    BY <1>1, <1>3, <2>1, <2>3, <2>5, EqualMallocReturns
  <2>6. CASE inMalloc /\ pc' # "idle"
    <3>1. Searching /\ req' = req /\ SameMemory /\ calls' = calls /\ address' = address
      BY <2>6, SearchKeeps DEF inMalloc, test
    <3> QED
      BY <2>3, <2>6, <3>1, SteadyStays DEF Steady
  <2>7. CASE callFree
    BY <1>1, <1>3, <2>1, <2>3, <2>7, EqualFreeStarts
  <2>8. CASE inFree
    BY <1>1, <1>3, <2>1, <2>3, <2>8, EqualFreeGoesOn
  <2> QED
    BY <1>3, <2>4, <2>5, <2>6, <2>7, <2>8
<1> QED
  BY <1>1, <1>2, <1>3 DEF PolicyNext

\* With one size and a spacing block between any two of the others, nothing is merged or
\* split before main's last loop, and the timed loop lives on the blocks of the set-up,
\* for any number of items and rounds, under either policy and in any heap, also in one
\* that has no room for all of them.
THEOREM EqualSizesNeverGrow == PolicySpec => []EqualNeverGrows
<1>1. PolicyInit => EqualInv
  BY EqualInit
<1>2. IInv /\ PInv /\ EqualInv /\ [PolicyNext]_allVars => EqualInv'
  BY EqualStep
<1>3. PInv /\ EqualInv => EqualNeverGrows
  <2> SUFFICES ASSUME PInv, EqualInv, program = "equal_size", Len(calls) >= NumItems
               PROVE  /\ \A b \in heap.blocks : heap.dataSize[b] = AllocSize
                      /\ brk <= 1 + 2 * NumItems * (MetaSize + AllocSize)
    BY DEF EqualNeverGrows
  <2>0. NumItems \in Nat \ {0} /\ "equal_size" \in Programs /\ Steady
    BY PolicyTestsAssumption DEF PInv, EqualInv
  <2>1. PICK m \in 0 .. Goal : Row(m)
    BY <2>0 DEF Steady
  <2>2. PICK n \in Nat : n = 2 * NumItems
    BY <2>0
  <2>3. m \in Nat /\ m <= n
    BY <2>0, <2>2 DEF Goal, Steady, CallsLeft
  <2>4. m * Unit <= n * Unit
    <3>1. CASE m = n
      <4>1. n * Unit \in Nat
        BY <2>0, InARow
      <4> QED
        BY <3>1, <4>1
    <3>2. CASE m < n
      <4>1. m * Unit + Unit <= n * Unit /\ m * Unit \in Nat /\ n * Unit \in Nat /\ Unit \in Nat
        BY <2>0, <2>3, <3>2, InARow
      <4> QED
        BY <4>1
    <3> QED
      BY <2>3, <3>1, <3>2
  <2>5. brk <= 1 + n * Unit
    <3>1. m * Unit \in Nat /\ n * Unit \in Nat
      BY <2>0, <2>3, InARow
    <3> QED
      BY <2>1, <2>4, <3>1 DEF Row
  <2> QED
    BY <2>0, <2>2, <2>5 DEF Steady, Unit
<1> QED
  BY <1>1, <1>2, <1>3, ProgramsKeepBooks, PTL DEF PolicySpec
=============================================================================
