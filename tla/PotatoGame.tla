------------------------------ MODULE PotatoGame ------------------------------
(***************************************************************************)
(* The game of hot potato that project3_hot_potato plays over sockets: the *)
(* ringmaster throws a potato to some player, every player passes it to    *)
(* one of its two neighbours in the ring, and after the given number of    *)
(* hops it comes back to the ringmaster with the trace of where it was.    *)
(***************************************************************************)
EXTENDS Integers, Sequences

VARIABLES
  numPlayers,  \* size of the ring, chosen when the game starts
  place,       \* who has the potato, or is about to receive it
  ttl,         \* remaining hops
  trace        \* the players that had it, oldest first

gameVars == <<numPlayers, place, ttl, trace>>

Ids == 0 .. numPlayers - 1
Ringmaster == -1

Left(id)  == (id + numPlayers - 1) % numPlayers
Right(id) == (id + 1) % numPlayers

Init ==
  /\ numPlayers \in Nat \ {0, 1}
  /\ place = Ringmaster
  /\ ttl \in Nat
  /\ trace = <<>>

Throw ==
  /\ place = Ringmaster
  /\ ttl > 0
  /\ place' \in Ids
  /\ UNCHANGED <<numPlayers, ttl, trace>>

Hop(next) ==
  /\ place \in Ids
  /\ trace' = Append(trace, place)
  /\ ttl' = ttl - 1
  /\ place' = next
  /\ UNCHANGED numPlayers

Pass == ttl > 1 /\ \E next \in {Left(place), Right(place)} : Hop(next)

ComeBack == ttl = 1 /\ Hop(Ringmaster)

Next == Throw \/ Pass \/ ComeBack

Safety == Init /\ [][Next]_gameVars

\* A potato with hops left is passed on.
Fairness == WF_gameVars(Next)

Spec == Safety /\ Fairness

-----------------------------------------------------------------------------
\* Consecutive players of the trace are neighbours in the ring.
IsWalk(t) ==
  \A i \in 1 .. Len(t) - 1 : t[i + 1] \in {Left(t[i]), Right(t[i])}

TypeOK ==
  /\ numPlayers \in Nat \ {0, 1}
  /\ place \in Ids \cup {Ringmaster}
  /\ ttl \in Nat
  /\ trace \in Seq(Ids)

\* The trace is a walk around the ring, and while a player has the potato the
\* walk goes on at that player.
TraceIsWalk ==
  /\ IsWalk(trace)
  /\ place \in Ids /\ trace # <<>> =>
       place \in {Left(trace[Len(trace)]), Right(trace[Len(trace)])}

\* Hops made and hops remaining always add up to the same number.
HopsConserved == [][Len(trace') + ttl' = Len(trace) + ttl]_gameVars
=============================================================================
