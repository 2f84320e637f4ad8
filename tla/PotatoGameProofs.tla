--------------------------- MODULE PotatoGameProofs ---------------------------
(***************************************************************************)
(* What the game of PotatoGame promises for a ring of any size and any     *)
(* number of hops.  HotPotato implements the game (ImplementsGame), so the *)
(* trace that the ringmaster prints inherits it.                           *)
(***************************************************************************)
EXTENDS PotatoGame, TLAPS

\* Neighbours of a player are players: ids wrap around at both ends.
LEMMA NeighborIsPlayer ==
  ASSUME NEW n \in Nat \ {0, 1}, NEW id \in 0 .. n - 1
  PROVE  /\ (id + n - 1) % n \in 0 .. n - 1
         /\ (id + 1) % n \in 0 .. n - 1
<1>1. id + n - 1 \in Int /\ id + 1 \in Int /\ n \in Nat /\ n > 0
  OBVIOUS
<1>2. \A a \in Int : a % n \in 0 .. n - 1
  BY <1>1
<1> QED
  BY <1>1, <1>2

\* A walk that is longer by one neighbour is a walk.
LEMMA WalkGrows ==
  ASSUME numPlayers \in Nat \ {0, 1},
         NEW t \in Seq(Ids), IsWalk(t),
         NEW p \in Ids,
         t # <<>> => p \in {Left(t[Len(t)]), Right(t[Len(t)])}
  PROVE  /\ Append(t, p) \in Seq(Ids)
         /\ Append(t, p) # <<>>
         /\ Append(t, p)[Len(Append(t, p))] = p
         /\ IsWalk(Append(t, p))
<1> DEFINE s == Append(t, p)
<1>1. /\ s \in Seq(Ids)
      /\ Len(s) = Len(t) + 1
      /\ Len(t) \in Nat
      /\ s[Len(t) + 1] = p
      /\ \A i \in 1 .. Len(t) : s[i] = t[i]
  OBVIOUS
<1>2. s # <<>>
  BY <1>1
<1>3. ASSUME NEW i \in 1 .. Len(s) - 1
      PROVE  s[i + 1] \in {Left(s[i]), Right(s[i])}
  <2>1. CASE i = Len(t)
    <3>1. t # <<>>
      BY <2>1, <1>1, <1>3
    <3>2. s[i] = t[Len(t)] /\ s[i + 1] = p
      BY <2>1, <1>1, <1>3
    <3> QED
      BY <3>1, <3>2
  <2>2. CASE i # Len(t)
    <3>1. i \in 1 .. Len(t) - 1
      BY <2>2, <1>1, <1>3
    <3>2. s[i] = t[i] /\ s[i + 1] = t[i + 1]
      BY <3>1, <1>1
    <3> QED
      BY <3>1, <3>2 DEF IsWalk
  <2> QED
    BY <2>1, <2>2
<1>4. IsWalk(s)
  BY <1>3 DEF IsWalk
<1> QED
  BY <1>1, <1>2, <1>4


\* What makes the two invariants inductive: the ringmaster that still has hops
\* to give has given none yet.
NotThrownYet == place = Ringmaster /\ ttl > 0 => trace = <<>>

GInv == TypeOK /\ TraceIsWalk /\ NotThrownYet

LEMMA RingmasterIsNoPlayer == TypeOK => Ringmaster \notin Ids
BY DEF TypeOK, Ids, Ringmaster

\* A hop preserves the invariant, and takes one from ttl as it adds one to the
\* trace.
LEMMA HopStep ==
  ASSUME GInv, ttl > 0, NEW next, Hop(next),
         \/ next \in {Left(place), Right(place)}
         \/ next = Ringmaster /\ ttl = 1
  PROVE  GInv' /\ Len(trace') + ttl' = Len(trace) + ttl
<1>1. /\ numPlayers \in Nat \ {0, 1}
      /\ place \in Ids
      /\ ttl \in Nat
      /\ trace \in Seq(Ids)
      /\ IsWalk(trace)
      /\ trace # <<>> => place \in {Left(trace[Len(trace)]), Right(trace[Len(trace)])}
  BY DEF GInv, TypeOK, TraceIsWalk, Hop
<1>2. /\ trace' = Append(trace, place)
      /\ ttl' = ttl - 1
      /\ place' = next
      /\ numPlayers' = numPlayers
  BY DEF Hop
<1>3. /\ trace' \in Seq(Ids)
      /\ trace' # <<>>
      /\ trace'[Len(trace')] = place
      /\ IsWalk(trace')
  BY <1>1, <1>2, WalkGrows
<1>4. Left(place) \in Ids /\ Right(place) \in Ids
  BY <1>1, NeighborIsPlayer DEF Ids, Left, Right
<1>5. Ids' = Ids /\ \A id : Left(id)' = Left(id) /\ Right(id)' = Right(id)
  BY <1>2 DEF Ids, Left, Right
<1>6. TypeOK'
  BY <1>1, <1>2, <1>3, <1>4, <1>5 DEF TypeOK
<1>7. IsWalk(trace)'
  BY <1>3, <1>2 DEF IsWalk, Left, Right
<1>8. TraceIsWalk'
  <2>1. Ringmaster \notin Ids
    BY RingmasterIsNoPlayer DEF GInv
  <2>2. place' \in Ids => place' \in {Left(place), Right(place)}
    BY <2>1, <1>2
  <2>3. trace'[Len(trace')] = place
    BY <1>3
  <2>4. (place \in Ids)' /\ (trace # <<>>)' =>
           (place \in {Left(trace[Len(trace)]), Right(trace[Len(trace)])})'
    BY <2>2, <2>3, <1>2, <1>5 DEF Left, Right
  <2> QED
    BY <2>4, <1>7 DEF TraceIsWalk
<1>9. NotThrownYet'
  BY <1>1, <1>2, <1>4, RingmasterIsNoPlayer DEF NotThrownYet, GInv
<1>10. Len(trace') + ttl' = Len(trace) + ttl
  BY <1>1, <1>2
<1> QED
  BY <1>6, <1>8, <1>9, <1>10 DEF GInv

LEMMA GameStep ==
  ASSUME GInv, [Next]_gameVars
  PROVE  GInv' /\ Len(trace') + ttl' = Len(trace) + ttl
<1>1. CASE Throw
  <2>1. /\ numPlayers' = numPlayers /\ ttl' = ttl /\ trace' = trace
        /\ place' \in Ids /\ place = Ringmaster /\ ttl > 0
    BY <1>1 DEF Throw
  <2>2. trace = <<>>
    BY <2>1 DEF GInv, NotThrownYet
  <2>3. TypeOK'
    BY <2>1 DEF GInv, TypeOK, Ids
  <2>4. TraceIsWalk'
    BY <2>1, <2>2 DEF GInv, TypeOK, TraceIsWalk, IsWalk
  <2>5. NotThrownYet'
    BY <2>1, <2>2 DEF NotThrownYet
  <2> QED
    BY <2>1, <2>3, <2>4, <2>5 DEF GInv
<1>2. CASE Pass
  <2>1. PICK next \in {Left(place), Right(place)} : Hop(next)
    BY <1>2 DEF Pass
  <2>2. ttl > 0
    BY <1>2 DEF Pass, GInv, TypeOK
  <2> QED
    BY <2>1, <2>2, HopStep
<1>3. CASE ComeBack
  BY <1>3, HopStep DEF ComeBack
<1>4. CASE UNCHANGED gameVars
  BY <1>4 DEF gameVars, GInv, TypeOK, TraceIsWalk, NotThrownYet, IsWalk, Ids, Left, Right, Ringmaster
<1> QED
  BY <1>1, <1>2, <1>3, <1>4 DEF Next

THEOREM GameInvariance == Spec => []GInv
<1>1. Init => GInv
  BY DEF Init, GInv, TypeOK, TraceIsWalk, NotThrownYet, IsWalk, Ids, Ringmaster
<1>2. GInv /\ [Next]_gameVars => GInv'
  BY GameStep
<1> QED
  BY <1>1, <1>2, PTL DEF Spec, Safety

\* The variables of the game keep their types; ttl, of type size_t in potato.hpp,
\* never goes below 0.
THEOREM GameTypeCorrect == Spec => []TypeOK
<1>1. GInv => TypeOK
  BY DEF GInv
<1> QED
  BY <1>1, GameInvariance, PTL

\* The trace, as printPath prints it, is a walk along the ring of players, in a
\* ring of any size and after any number of hops.
THEOREM TraceIsAWalk == Spec => []TraceIsWalk
<1>1. GInv => TraceIsWalk
  BY DEF GInv
<1> QED
  BY <1>1, GameInvariance, PTL

\* No step makes a hop without taking one from ttl, or the other way round.
THEOREM HopsAreConserved == Spec => HopsConserved
<1>1. GInv /\ [Next]_gameVars => [Len(trace') + ttl' = Len(trace) + ttl]_gameVars
  BY GameStep
<1> QED
  BY <1>1, GameInvariance, PTL DEF Spec, Safety, HopsConserved
=============================================================================
