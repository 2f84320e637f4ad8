------------------------------ MODULE FreeList ------------------------------
(***************************************************************************)
(* What a free list is, whichever statements built it: the doubly linked   *)
(* list of struct MemoryBlock that my_malloc.h describes, in the order of  *)
(* the blocks' addresses.                                                  *)
(***************************************************************************)
EXTENDS Integers

\* The list from hd to tl holds exactly the blocks of F, once each, in address
\* order, linked both ways by nx and pv, with 0 for the null pointer.
Chained(F, hd, tl, nx, pv) ==
  /\ F = {} <=> hd = 0
  /\ F = {} <=> tl = 0
  /\ F # {} => hd \in F /\ tl \in F
  /\ \A f \in F :
       /\ hd <= f /\ f <= tl
       /\ f = tl => nx[f] = 0
       /\ f # tl => nx[f] \in F /\ f < nx[f] /\ pv[nx[f]] = f
       /\ f = hd => pv[f] = 0
       /\ f # hd => pv[f] \in F /\ pv[f] < f /\ nx[pv[f]] = f
  /\ \A f, g \in F : f # tl => g <= f \/ nx[f] <= g
=============================================================================
