----------------------------- MODULE HeapPromise -----------------------------
(***************************************************************************)
(* What every allocator of this repository promises its client, whatever   *)
(* its policy: a successful malloc(size) returns a region of at least size *)
(* bytes that overlaps no region the client still holds, and a region      *)
(* stays the client's until the client frees it.                           *)
(***************************************************************************)
EXTENDS Integers

CONSTANTS Limit,   \* the highest address the data segment may reach
          Sizes    \* the sizes a client asks for

VARIABLE regions   \* the regions the client holds: [start |-> s, size |-> n]

Region == [start : 1 .. Limit, size : Sizes]

Disjoint(r, s) ==
  \/ r.start + r.size <= s.start
  \/ s.start + s.size <= r.start

Init == regions = {}

\* A malloc that succeeds: any region of the requested size that overlaps none
\* of the regions held.  (A malloc that fails returns NULL and changes nothing.)
Allocate(r) ==
  /\ r.start + r.size <= Limit
  /\ \A s \in regions : Disjoint(r, s)
  /\ regions' = regions \cup {r}

\* A free of a region the client holds.
Release(r) == regions' = regions \ {r}

Next ==
  \/ \E r \in Region : Allocate(r)
  \/ \E r \in regions : Release(r)

Spec == Init /\ [][Next]_regions
=============================================================================
