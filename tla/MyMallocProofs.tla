--------------------------- MODULE MyMallocProofs ---------------------------
(***************************************************************************)
(* What the helpers of my_malloc.c do to a heap, whichever call uses them, *)
(* and the theorems about MyMalloc, for every MetaSize, HeapLimit, Sizes,  *)
(* ForeignSizes and Policies that MyMallocAssumption allows.               *)
(***************************************************************************)
EXTENDS MyMalloc, SumProofs

(***************************************************************************)
(* What the pointer assignments of removeFromFreeList and                  *)
(* insertIntoFreeList do to a list, for every list.                        *)
(***************************************************************************)

\* No block of the list lies between a block and its prev.
LEMMA ChainPrev ==
  ASSUME NEW F \in SUBSET (Nat \ {0}), NEW hd, NEW tl, NEW nx, NEW pv, Chained(F, hd, tl, nx, pv)
  PROVE \A f, g \in F : f # hd => f <= g \/ g <= pv[f]
<1> SUFFICES ASSUME NEW f \in F, NEW g \in F, f # hd
             PROVE  f <= g \/ g <= pv[f]
  OBVIOUS
<1>1. pv[f] \in F /\ pv[f] < f /\ nx[pv[f]] = f /\ f <= tl /\ pv[f] <= tl
  BY DEF Chained
<1>2. pv[f] # tl
  <2>1. pv[f] \in Nat /\ f \in Nat
    BY <1>1
  <2>2. tl \in Nat
    BY DEF Chained
  <2> QED
    BY <1>1, <2>1, <2>2
<1>3. g <= pv[f] \/ nx[pv[f]] <= g
  BY <1>1, <1>2 DEF Chained
<1> QED
  BY <1>1, <1>3

\* The links of blocks off the list do not matter.
LEMMA ChainSameLinks ==
  ASSUME NEW F, NEW hd, NEW tl, NEW nx, NEW pv, NEW nx2, NEW pv2,
         Chained(F, hd, tl, nx, pv),
         \A f \in F : nx2[f] = nx[f] /\ pv2[f] = pv[f]
  PROVE  Chained(F, hd, tl, nx2, pv2)
<1>1. /\ F = {} <=> hd = 0
      /\ F = {} <=> tl = 0
      /\ F # {} => hd \in F /\ tl \in F
  BY DEF Chained
<1>2. \A f \in F :
        /\ hd <= f /\ f <= tl
        /\ f = tl => nx2[f] = 0
        /\ f # tl => nx2[f] \in F /\ f < nx2[f] /\ pv2[nx2[f]] = f
        /\ f = hd => pv2[f] = 0
        /\ f # hd => pv2[f] \in F /\ pv2[f] < f /\ nx2[pv2[f]] = f
  BY DEF Chained
<1>3. \A f, g \in F : f # tl => g <= f \/ nx2[f] <= g
  BY DEF Chained
<1> QED BY <1>1, <1>2, <1>3 DEF Chained

\* hd2, tl2, nx2 and pv2 are the pointers hd, tl, nx and pv after b was unlinked.
Unchained(A, b, hd, tl, nx, pv, hd2, tl2, nx2, pv2) ==
  /\ b = hd => hd2 = nx[b]
  /\ b # hd => hd2 = hd
  /\ b = tl => tl2 = pv[b]
  /\ b # tl => tl2 = tl
  /\ \A a \in A \ {b} :
       /\ b # hd /\ a = pv[b] => nx2[a] = nx[b]
       /\ ~(b # hd /\ a = pv[b]) => nx2[a] = nx[a]
       /\ b # tl /\ a = nx[b] => pv2[a] = pv[b]
       /\ ~(b # tl /\ a = nx[b]) => pv2[a] = pv[a]

\* Unlinking a block of the list leaves a list of the others.
LEMMA ChainRemove ==
  ASSUME NEW A \in SUBSET (Nat \ {0}), NEW F \in SUBSET A, NEW hd \in Nat, NEW tl \in Nat,
         NEW nx \in [A -> Nat], NEW pv \in [A -> Nat],
         NEW hd2 \in Nat, NEW tl2 \in Nat, NEW nx2 \in [A -> Nat], NEW pv2 \in [A -> Nat], NEW b \in F,
         Chained(F, hd, tl, nx, pv),
         Unchained(A, b, hd, tl, nx, pv, hd2, tl2, nx2, pv2)
  PROVE  Chained(F \ {b}, hd2, tl2, nx2, pv2)
<1>hd. (b = hd => hd2 = nx[b]) /\ (b # hd => hd2 = hd)
  BY DEF Unchained
<1>tl. (b = tl => tl2 = pv[b]) /\ (b # tl => tl2 = tl)
  BY DEF Unchained
<1>n2. \A a \in F \ {b} :
       /\ b # hd /\ a = pv[b] => nx2[a] = nx[b]
       /\ ~(b # hd /\ a = pv[b]) => nx2[a] = nx[a]
  BY DEF Unchained
<1>p2. \A a \in F \ {b} :
       /\ b # tl /\ a = nx[b] => pv2[a] = pv[b]
       /\ ~(b # tl /\ a = nx[b]) => pv2[a] = pv[a]
  BY DEF Unchained
<1> DEFINE G == F \ {b}
<1>ty. \A f \in F : f \in Nat /\ f # 0
  OBVIOUS
<1>en. hd \in F /\ tl \in F /\ \A f \in F : hd <= f /\ f <= tl
  BY DEF Chained
<1>nx. \A f \in F : /\ f = tl => nx[f] = 0
                    /\ f # tl => nx[f] \in F /\ f < nx[f] /\ pv[nx[f]] = f
  BY DEF Chained
<1>pv. \A f \in F : /\ f = hd => pv[f] = 0
                    /\ f # hd => pv[f] \in F /\ pv[f] < f /\ nx[pv[f]] = f
  BY DEF Chained
<1>ga. \A f, g \in F : f # tl => g <= f \/ nx[f] <= g
  BY DEF Chained
<1>gb. \A f, g \in F : f # hd => f <= g \/ g <= pv[f]
  BY ChainPrev
<1>c1. CASE b = hd /\ b = tl
  <2>1. G = {}
    BY <1>c1, <1>ty, <1>en
  <2>2. hd2 = 0 /\ tl2 = 0
    BY <1>c1, <1>nx, <1>pv, <1>hd, <1>tl
  <2> QED BY <2>1, <2>2 DEF Chained
<1>c2. CASE b = hd /\ b # tl
  <2>1. hd2 = nx[b] /\ tl2 = tl /\ hd2 \in G /\ tl2 \in G
    BY <1>c2, <1>ty, <1>en, <1>nx, <1>hd, <1>tl
  <2>2. \A f \in G : nx2[f] = nx[f] /\ (f = hd2 => pv2[f] = 0) /\ (f # hd2 => pv2[f] = pv[f])
    BY <1>c2, <2>1, <1>pv, <1>en, <1>n2, <1>p2
  <2>3. \A f \in G : hd2 <= f /\ f <= tl2
    BY <1>c2, <2>1, <1>ty, <1>en, <1>ga
  <2>4. ASSUME NEW f \in G, f # tl2 PROVE nx2[f] \in G /\ f < nx2[f] /\ pv2[nx2[f]] = f
    BY <1>c2, <2>1, <2>2, <2>3, <2>4, <1>ty, <1>en, <1>nx
  <2>5. ASSUME NEW f \in G, f # hd2 PROVE pv2[f] \in G /\ pv2[f] < f /\ nx2[pv2[f]] = f
    BY <1>c2, <2>1, <2>2, <2>3, <2>5, <1>ty, <1>en, <1>nx, <1>pv
  <2>6. \A f, g \in G : f # tl2 => g <= f \/ nx2[f] <= g
    BY <2>1, <2>2, <1>ga
  <2>7. 0 \notin F
    BY <1>ty
  <2>8. nx2[tl2] = 0 
    BY <2>1, <2>2, <1>nx
  <2>9. pv2[hd2] = 0 
    BY <2>1, <2>2
  <2> QED BY <2>1, <2>3, <2>4, <2>5, <2>6, <2>7, <2>8, <2>9 DEF Chained
<1>c3. CASE b # hd /\ b = tl
  <2>1. hd2 = hd /\ tl2 = pv[b] /\ hd2 \in G /\ tl2 \in G
    BY <1>c3, <1>ty, <1>en, <1>pv, <1>hd, <1>tl
  <2>2. \A f \in G : pv2[f] = pv[f] /\ (f = tl2 => nx2[f] = 0) /\ (f # tl2 => nx2[f] = nx[f])
    BY <1>c3, <2>1, <1>nx, <1>en, <1>n2, <1>p2
  <2>3. \A f \in G : hd2 <= f /\ f <= tl2
    BY <1>c3, <2>1, <1>ty, <1>en, <1>gb
  <2>4. ASSUME NEW f \in G, f # tl2 PROVE nx2[f] \in G /\ f < nx2[f] /\ pv2[nx2[f]] = f
    BY <1>c3, <2>1, <2>2, <2>3, <2>4, <1>ty, <1>en, <1>nx, <1>pv
  <2>5. ASSUME NEW f \in G, f # hd2 PROVE pv2[f] \in G /\ pv2[f] < f /\ nx2[pv2[f]] = f
    BY <1>c3, <2>1, <2>2, <2>3, <2>5, <1>ty, <1>en, <1>nx, <1>pv
  <2>6. \A f, g \in G : f # tl2 => g <= f \/ nx2[f] <= g
    BY <1>c3, <2>1, <2>2, <1>ga
  <2>7. 0 \notin F
    BY <1>ty
  <2>8. nx2[tl2] = 0 
    BY <2>1, <2>2
  <2>9. pv2[hd2] = 0 
    BY <2>1, <2>2, <1>pv
  <2> QED BY <2>1, <2>3, <2>4, <2>5, <2>6, <2>7, <2>8, <2>9 DEF Chained
<1>c4. CASE b # hd /\ b # tl
  <2>1. hd2 = hd /\ tl2 = tl /\ hd2 \in G /\ tl2 \in G
    BY <1>c4, <1>en, <1>hd, <1>tl
  <2>2. \A f \in G : /\ f = pv[b] => nx2[f] = nx[b]
                     /\ f # pv[b] => nx2[f] = nx[f]
                     /\ f = nx[b] => pv2[f] = pv[b]
                     /\ f # nx[b] => pv2[f] = pv[f]
    BY <1>c4, <1>n2, <1>p2
  <2>3. \A f \in G : hd2 <= f /\ f <= tl2
    BY <2>1, <1>en
  <2>4. ASSUME NEW f \in G, f # tl2 PROVE nx2[f] \in G /\ f < nx2[f] /\ pv2[nx2[f]] = f
    <3>1. CASE f = pv[b]
      BY <1>c4, <2>1, <2>2, <3>1, <2>4, <1>ty, <1>nx, <1>pv
    <3>2. CASE f # pv[b]
      BY <1>c4, <2>1, <2>2, <3>2, <2>4, <1>ty, <1>nx, <1>pv
    <3> QED BY <3>1, <3>2
  <2>5. ASSUME NEW f \in G, f # hd2 PROVE pv2[f] \in G /\ pv2[f] < f /\ nx2[pv2[f]] = f
    <3>1. CASE f = nx[b]
      BY <1>c4, <2>1, <2>2, <3>1, <2>5, <1>ty, <1>nx, <1>pv
    <3>2. CASE f # nx[b]
      BY <1>c4, <2>1, <2>2, <3>2, <2>5, <1>ty, <1>nx, <1>pv
    <3> QED BY <3>1, <3>2
  <2>6. ASSUME NEW f \in G, NEW g \in G, f # tl2 PROVE g <= f \/ nx2[f] <= g
    <3>1. CASE f = pv[b]
      BY <1>c4, <2>1, <2>2, <3>1, <2>6, <1>ty, <1>nx, <1>pv, <1>ga
    <3>2. CASE f # pv[b]
      BY <1>c4, <2>1, <2>2, <3>2, <2>6, <1>ga
    <3> QED BY <3>1, <3>2
  <2>7. 0 \notin F
    BY <1>ty
  <2>8. nx2[tl2] = 0 
    BY <1>c4, <2>1, <2>2, <1>nx, <1>pv, <1>ty
  <2>9. pv2[hd2] = 0 
    BY <1>c4, <2>1, <2>2, <1>pv, <1>nx, <1>ty
  <2> QED BY <2>1, <2>3, <2>4, <2>5, <2>6, <2>7, <2>8, <2>9 DEF Chained
<1> QED BY <1>c1, <1>c2, <1>c3, <1>c4

\* hd2, tl2, nx2 and pv2 are the pointers after b was linked between l and r,
\* either of which may be missing (0).
Enchained(A, b, l, r, hd, tl, nx, pv, hd2, tl2, nx2, pv2) ==
  /\ l = 0 => hd2 = b
  /\ l # 0 => hd2 = hd
  /\ r = 0 => tl2 = b
  /\ r # 0 => tl2 = tl
  /\ nx2[b] = r /\ pv2[b] = l
  /\ \A a \in A \ {b} :
       /\ a = l => nx2[a] = b
       /\ a # l => nx2[a] = nx[a]
       /\ a = r => pv2[a] = b
       /\ a # r => pv2[a] = pv[a]

\* Linking a block in where its address belongs gives a list with that block.
LEMMA ChainInsert ==
  ASSUME NEW A \in SUBSET (Nat \ {0}), NEW F \in SUBSET A, NEW hd \in Nat, NEW tl \in Nat,
         NEW nx \in [A -> Nat], NEW pv \in [A -> Nat],
         NEW hd2 \in Nat, NEW tl2 \in Nat, NEW nx2 \in [A -> Nat], NEW pv2 \in [A -> Nat],
         NEW b \in A \ F, NEW l \in F \cup {0}, NEW r \in F \cup {0},
         Chained(F, hd, tl, nx, pv),
         l = 0 => r = hd, l # 0 => r = nx[l] /\ l < b, r # 0 => b < r,
         Enchained(A, b, l, r, hd, tl, nx, pv, hd2, tl2, nx2, pv2)
  PROVE  Chained(F \cup {b}, hd2, tl2, nx2, pv2)
<1> DEFINE G == F \cup {b}
<1>ty. b \in Nat /\ b # 0 /\ \A f \in F : f \in Nat /\ f # 0
  OBVIOUS
<1>em. F = {} => hd = 0 /\ tl = 0
  BY DEF Chained
<1>en. /\ F # {} => hd \in F /\ tl \in F
       /\ \A f \in F : hd <= f /\ f <= tl
  BY DEF Chained
<1>nx. \A f \in F : /\ f = tl => nx[f] = 0
                    /\ f # tl => nx[f] \in F /\ f < nx[f] /\ pv[nx[f]] = f
  BY DEF Chained
<1>pv. \A f \in F : /\ f = hd => pv[f] = 0
                    /\ f # hd => pv[f] \in F /\ pv[f] < f /\ nx[pv[f]] = f
  BY DEF Chained
<1>ga. \A f, g \in F : f # tl => g <= f \/ nx[f] <= g
  BY DEF Chained
<1>hd. (l = 0 => hd2 = b) /\ (l # 0 => hd2 = hd)
  BY DEF Enchained
<1>tl. (r = 0 => tl2 = b) /\ (r # 0 => tl2 = tl)
  BY DEF Enchained
<1>nb. nx2[b] = r /\ pv2[b] = l
  BY DEF Enchained
<1>n2. \A f \in F : (f = l => nx2[f] = b) /\ (f # l => nx2[f] = nx[f])
  BY DEF Enchained
<1>p2. \A f \in F : (f = r => pv2[f] = b) /\ (f # r => pv2[f] = pv[f])
  BY DEF Enchained
<1>lr. /\ l = 0 => r = hd
       /\ l # 0 => r = nx[l] /\ l < b
       /\ r # 0 => b < r
  OBVIOUS
<1>lt. (r = 0) <=> (l = tl)
  BY <1>lr, <1>em, <1>en, <1>nx, <1>ty
<1>rp. r # 0 => l = pv[r]
  BY <1>lr, <1>em, <1>en, <1>nx, <1>pv, <1>ty
<1>be. \A f \in F : f <= l \/ (r # 0 /\ r <= f)
  <2>1. CASE l = 0
    BY <2>1, <1>lr, <1>em, <1>en, <1>ty
  <2>2. CASE l # 0 /\ r = 0
    BY <2>2, <1>lt, <1>en
  <2>3. CASE l # 0 /\ r # 0
    BY <2>3, <1>lr, <1>lt, <1>ga
  <2> QED BY <2>1, <2>2, <2>3
<1>1. hd2 # 0 /\ tl2 # 0 /\ hd2 \in G /\ tl2 \in G
  BY <1>hd, <1>tl, <1>en, <1>em, <1>ty
<1>2. ASSUME NEW f \in G PROVE hd2 <= f /\ f <= tl2
  <2>1. CASE f = b
    BY <2>1, <1>hd, <1>tl, <1>lr, <1>en, <1>ty
  <2>2. CASE f # b /\ l = 0
    BY <2>2, <1>hd, <1>tl, <1>lr, <1>en, <1>ty, <1>be
  <2>3. CASE f # b /\ l # 0
    BY <2>3, <1>hd, <1>tl, <1>lr, <1>en, <1>ty, <1>be
  <2> QED BY <2>1, <2>2, <2>3
<1>3. nx2[tl2] = 0
  BY <1>tl, <1>nb, <1>n2, <1>nx, <1>lt, <1>en, <1>em, <1>ty
<1>4. pv2[hd2] = 0
  BY <1>hd, <1>nb, <1>p2, <1>pv, <1>lr, <1>rp, <1>en, <1>em, <1>ty, <1>nx
<1>5. ASSUME NEW f \in G, f # tl2
      PROVE nx2[f] \in G /\ f < nx2[f] /\ pv2[nx2[f]] = f
  <2>1. CASE f = b
    BY <2>1, <1>5, <1>tl, <1>nb, <1>p2, <1>lr
  <2>2. CASE f # b /\ f = l
    BY <2>2, <1>5, <1>nb, <1>n2, <1>lr, <1>ty
  <2>3. CASE f # b /\ f # l
    <3>1. nx2[f] = nx[f] /\ f # tl
      BY <2>3, <1>5, <1>n2, <1>tl, <1>lt
    <3>2. nx[f] # r
      BY <2>3, <3>1, <1>nx, <1>rp, <1>ty
    <3> QED BY <2>3, <3>1, <3>2, <1>nx, <1>p2
  <2> QED BY <2>1, <2>2, <2>3
<1>6. ASSUME NEW f \in G, f # hd2
      PROVE pv2[f] \in G /\ pv2[f] < f /\ nx2[pv2[f]] = f
  <2>1. CASE f = b
    BY <2>1, <1>6, <1>hd, <1>nb, <1>n2, <1>lr, <1>ty
  <2>2. CASE f # b /\ f = r
    BY <2>2, <1>6, <1>nb, <1>p2, <1>lr, <1>ty
  <2>3. CASE f # b /\ f # r
    <3>1. pv2[f] = pv[f] /\ f # hd
      BY <2>3, <1>6, <1>p2, <1>hd, <1>lr
    <3>2. pv[f] # l
      BY <2>3, <3>1, <1>pv, <1>lr, <1>ty
    <3> QED BY <2>3, <3>1, <3>2, <1>pv, <1>n2
  <2> QED BY <2>1, <2>2, <2>3
<1>7. ASSUME NEW f \in G, NEW g \in G, f # tl2 PROVE g <= f \/ nx2[f] <= g
  <2>1. CASE f = b
    BY <2>1, <1>7, <1>nb, <1>tl, <1>be, <1>lr, <1>ty
  <2>2. CASE f # b /\ f = l
    BY <2>2, <1>n2, <1>be, <1>lr, <1>ty
  <2>3. CASE f # b /\ f # l
    <3>1. nx2[f] = nx[f] /\ f # tl /\ nx[f] \in F
      BY <2>3, <1>7, <1>n2, <1>tl, <1>lt, <1>nx
    <3>2. CASE g # b
      BY <2>3, <3>1, <3>2, <1>ga
    <3>3. CASE g = b /\ f <= l
      <4>1. l \in F /\ l # 0 /\ l < b
        BY <3>3, <2>3, <1>lr, <1>ty
      <4>2. nx[f] <= l
        BY <2>3, <3>1, <3>3, <4>1, <1>ga, <1>ty
      <4> QED BY <4>1, <4>2, <3>1, <3>3, <1>ty
    <3>4. CASE g = b /\ r # 0 /\ r <= f
      BY <2>3, <3>4, <1>lr, <1>ty
    <3> QED BY <2>3, <3>2, <3>3, <3>4, <1>be
  <2> QED BY <2>1, <2>2, <2>3
<1> QED BY <1>1, <1>2, <1>3, <1>4, <1>5, <1>6, <1>7 DEF Chained

-----------------------------------------------------------------------------

LEMMA HeapFields ==
  ASSUME NEW h \in Heap
  PROVE  /\ h.blocks \in SUBSET Addr
         /\ h.dataSize \in [Addr -> Nat]
         /\ h.allocated \in [Addr -> BOOLEAN]
         /\ h.prev \in [Addr -> Ptr]
         /\ h.next \in [Addr -> Ptr]
         /\ h.head \in Ptr
         /\ h.tail \in Ptr
         /\ h.totalAllocated \in Int
         /\ h.totalFreed \in Int
BY DEF Heap

\* Pointers are natural numbers, as the list lemmas want them.
LEMMA Pointers ==
  /\ Addr \in SUBSET (Nat \ {0})
  /\ Ptr \in SUBSET Nat
  /\ \A f \in [Addr -> Ptr] : f \in [Addr -> Nat]
BY MyMallocAssumption DEF Addr, Ptr, NULL

-----------------------------------------------------------------------------
(***************************************************************************)
(* A heap whose list holds exactly F, in which no two blocks overlap and   *)
(* none reaches beyond top, and in which blocks off the list point nowhere.*)
(***************************************************************************)

ListOf(h, F) == Chained(F, h.head, h.tail, h.next, h.prev)

Detached(h, F) == \A b \in h.blocks \ F : h.next[b] = NULL /\ h.prev[b] = NULL

Layout(h, top) ==
  \A b \in h.blocks :
    /\ EndOf(h, b) <= top
    /\ \A c \in h.blocks : b < c => EndOf(h, b) <= c

\* The same header data, apart from the links.
SameData(h, r) ==
  /\ r.blocks = h.blocks
  /\ r.dataSize = h.dataSize
  /\ r.totalAllocated = h.totalAllocated
  /\ r.totalFreed = h.totalFreed

SameTotals(h, r) ==
  /\ r.totalAllocated = h.totalAllocated
  /\ r.totalFreed = h.totalFreed

-----------------------------------------------------------------------------
(***************************************************************************)
(* removeFromFreeList                                                      *)
(***************************************************************************)

\* What unlink assigns, case by case.
LEMMA UnlinkFields ==
  ASSUME NEW h \in Heap, NEW F \in SUBSET Addr, ListOf(h, F), NEW b \in F,
         NEW u, u = unlink(h, b)
  PROVE  /\ u \in Heap
         /\ SameData(h, u)
         /\ u.allocated = h.allocated
         /\ Unchained(Addr, b, h.head, h.tail, h.next, h.prev, u.head, u.tail, u.next, u.prev)
<1> DEFINE n == h.next[b]
           p == h.prev[b]
<1>f. /\ b \in Addr /\ NULL \in Ptr
      /\ h.head \in Ptr /\ h.tail \in Ptr
      /\ h.next \in [Addr -> Ptr] /\ h.prev \in [Addr -> Ptr]
      /\ n \in Ptr /\ p \in Ptr
  BY HeapFields DEF Ptr
<1>t. n \in Ptr /\ p \in Ptr /\ NULL \in Ptr
  BY <1>f
<1>0. /\ h.head = b => p = NULL
      /\ h.tail = b => n = NULL
  BY DEF ListOf, Chained, NULL
<1>1. CASE h.head = b /\ h.tail = b
  <2>1. u = [h EXCEPT !.head = NULL, !.tail = NULL]
    BY <1>1 DEF unlink
  <2>2. /\ SameData(h, u) /\ u.allocated = h.allocated
        /\ u.head = NULL /\ u.tail = NULL /\ u.next = h.next /\ u.prev = h.prev
    BY <2>1 DEF Heap, SameData
  <2>3. u \in Heap
    BY <1>t, <2>1 DEF Heap
  <2> QED BY <1>0, <1>1, <2>2, <2>3, <1>f DEF Unchained
<1>2. CASE h.head = b /\ h.tail # b
  <2>1. u = [h EXCEPT !.head = n, !.prev[n] = NULL]
    BY <1>2 DEF unlink
  <2> HIDE DEF n, p
  <2>2. /\ SameData(h, u) /\ u.allocated = h.allocated
        /\ u.head = n /\ u.tail = h.tail
        /\ u.next = h.next /\ u.prev = [h.prev EXCEPT ![n] = NULL]
    BY <2>1 DEF Heap, SameData
  <2>3. \A x, y \in Ptr : [h EXCEPT !.head = x, !.prev[x] = y] \in Heap
    BY DEF Heap
  <2>4. u \in Heap
    BY <1>t, <2>1, <2>3, Zenon
  <2> QED BY <1>0, <1>2, <2>2, <2>4, <1>f DEF Unchained, n, p
<1>3. CASE h.head # b /\ h.tail = b
  <2>1. u = [h EXCEPT !.tail = p, !.next[p] = NULL]
    BY <1>3 DEF unlink
  <2> HIDE DEF n, p
  <2>2. /\ SameData(h, u) /\ u.allocated = h.allocated
        /\ u.head = h.head /\ u.tail = p
        /\ u.next = [h.next EXCEPT ![p] = NULL] /\ u.prev = h.prev
    BY <2>1 DEF Heap, SameData
  <2>3. \A x, y \in Ptr : [h EXCEPT !.tail = x, !.next[x] = y] \in Heap
    BY DEF Heap
  <2>4. u \in Heap
    BY <1>t, <2>1, <2>3, Zenon
  <2> QED BY <1>0, <1>3, <2>2, <2>4, <1>f DEF Unchained, n, p
<1>4. CASE h.head # b /\ h.tail # b
  <2>1. u = [h EXCEPT !.next[p] = n, !.prev[n] = p]
    BY <1>4 DEF unlink
  <2> HIDE DEF n, p
  <2>2. /\ SameData(h, u) /\ u.allocated = h.allocated
        /\ u.head = h.head /\ u.tail = h.tail
        /\ u.next = [h.next EXCEPT ![p] = n] /\ u.prev = [h.prev EXCEPT ![n] = p]
    BY <2>1 DEF Heap, SameData
  <2>3. \A x, y \in Ptr : [h EXCEPT !.next[y] = x, !.prev[x] = y] \in Heap
    BY DEF Heap
  <2>4. u \in Heap
    BY <1>t, <2>1, <2>3, ZenonT(40)
  <2> QED BY <1>0, <1>4, <2>2, <2>4, <1>f DEF Unchained, n, p
<1> QED BY <1>1, <1>2, <1>3, <1>4

\* The end of removeFromFreeList leaves a heap.
LEMMA ClearedIsHeap ==
  ASSUME NEW h \in Heap, NEW b \in Addr, NEW r,
         r = [h EXCEPT !.prev[b] = NULL, !.next[b] = NULL, !.allocated[b] = TRUE]
  PROVE  r \in Heap
BY DEF Heap, Ptr

\* removeFromFreeList of a block of the list: the others stay a list, the block
\* itself is detached and marked allocated, and no other header data changes.
LEMMA RemoveSound ==
  ASSUME NEW h \in Heap, NEW F \in SUBSET Addr, ListOf(h, F), Detached(h, F), NEW b \in F,
         NEW r, r = removeFromFreeList(h, b)
  PROVE  /\ r \in Heap
         /\ SameData(h, r)
         /\ r.allocated = [h.allocated EXCEPT ![b] = TRUE]
         /\ ListOf(r, F \ {b})
         /\ Detached(r, F \ {b})
<1> DEFINE u == unlink(h, b)
<1>1. /\ u \in Heap
      /\ SameData(h, u)
      /\ u.allocated = h.allocated
      /\ Unchained(Addr, b, h.head, h.tail, h.next, h.prev, u.head, u.tail, u.next, u.prev)
  BY UnlinkFields
<1>2. r = [u EXCEPT !.prev[b] = NULL, !.next[b] = NULL, !.allocated[b] = TRUE]
  BY DEF ListOf, Chained, removeFromFreeList, isEmptyFreeList, NULL
<1> HIDE DEF u
<1>f. /\ b \in Addr /\ u \in Heap /\ NULL \in Ptr
      /\ u.next \in [Addr -> Ptr] /\ u.prev \in [Addr -> Ptr]
  BY <1>1, HeapFields DEF Ptr
<1>t. b \in Addr /\ u \in Heap /\ NULL \in Ptr
  BY <1>f
<1>3. /\ SameData(u, r)
      /\ r.allocated = [u.allocated EXCEPT ![b] = TRUE]
      /\ r.head = u.head /\ r.tail = u.tail
      /\ r.next = [u.next EXCEPT ![b] = NULL]
      /\ r.prev = [u.prev EXCEPT ![b] = NULL]
  BY <1>f, <1>2 DEF Heap, SameData
<1>h. r \in Heap
  BY <1>t, <1>2, ClearedIsHeap, Zenon
<1>4. Unchained(Addr, b, h.head, h.tail, h.next, h.prev, r.head, r.tail, r.next, r.prev)
  BY <1>1, <1>3, HeapFields DEF Unchained
<1>5. ListOf(r, F \ {b})
  <2>1. /\ h.head \in Nat /\ h.tail \in Nat /\ r.head \in Nat /\ r.tail \in Nat
        /\ h.next \in [Addr -> Nat] /\ h.prev \in [Addr -> Nat]
        /\ r.next \in [Addr -> Nat] /\ r.prev \in [Addr -> Nat]
    BY <1>h, HeapFields, Pointers
  <2> QED BY <2>1, <1>4, Pointers, ChainRemove DEF ListOf
<1>6. Detached(r, F \ {b})
  <2>1. ASSUME NEW a \in h.blocks \ (F \ {b}), a # b
        PROVE  r.next[a] = NULL /\ r.prev[a] = NULL
    <3>1. a \in Addr /\ a \notin F
      BY <2>1, HeapFields
    <3>2. /\ b # h.head => h.prev[b] \in F
          /\ b # h.tail => h.next[b] \in F
      BY DEF ListOf, Chained
    <3>3. r.next[a] = h.next[a] /\ r.prev[a] = h.prev[a]
      BY <2>1, <3>1, <3>2, <1>4 DEF Unchained
    <3> QED BY <2>1, <3>1, <3>3 DEF Detached
  <2>2. r.next[b] = NULL /\ r.prev[b] = NULL
    BY <1>1, <1>3, HeapFields
  <2>3. r.blocks = h.blocks
    BY <1>1, <1>3 DEF SameData
  <2> QED BY <2>1, <2>2, <2>3 DEF Detached
<1> QED BY <1>1, <1>3, <1>h, <1>5, <1>6 DEF SameData

-----------------------------------------------------------------------------
(***************************************************************************)
(* insertIntoFreeList and appendToFreeList                                 *)
(***************************************************************************)

\* Setting the links of a heap leaves a heap.
LEMMA LinkedIsHeap ==
  ASSUME NEW h \in Heap, NEW nx \in [Addr -> Ptr], NEW pv \in [Addr -> Ptr],
         NEW r, r = [h EXCEPT !.next = nx, !.prev = pv]
  PROVE  r \in Heap
BY DEF Heap

\* What insertIntoFreeList assigns, case by case; right is the block that
\* follows the inserted one, if any.
LEMMA InsertFields ==
  ASSUME NEW h \in Heap, NEW F \in SUBSET Addr, F # {}, ListOf(h, F),
         NEW b \in Addr \ F, NEW curr \in F \cup {NULL}, NEW right,
         right = IF curr = NULL THEN h.head ELSE h.next[curr],
         NEW r, r = insertIntoFreeList(h, b, curr)
  PROVE  /\ r \in Heap
         /\ SameData(h, r)
         /\ r.allocated = h.allocated
         /\ Enchained(Addr, b, curr, right, h.head, h.tail, h.next, h.prev,
                      r.head, r.tail, r.next, r.prev)
<1>f. /\ b \in Addr /\ NULL \in Ptr /\ curr \in Ptr /\ right \in Ptr /\ b \in Ptr
      /\ h.head \in Ptr /\ h.tail \in Ptr
      /\ h.next \in [Addr -> Ptr] /\ h.prev \in [Addr -> Ptr]
  BY HeapFields DEF Ptr
<1>e. /\ ~isEmptyFreeList(h)
      /\ h.head \in F /\ h.tail \in F /\ b # h.head /\ b # h.tail
      /\ curr # b
      /\ \A a \in Addr : a # 0
  BY Pointers DEF ListOf, Chained, isEmptyFreeList, NULL
<1>1. CASE curr = NULL
  <2> DEFINE pv == [h.prev EXCEPT ![h.head] = b, ![b] = NULL]
             hd == h.head
  <2>1. r = [h EXCEPT !.prev = pv, !.next[b] = hd, !.head = b] /\ hd = h.head
    BY <1>1, <1>e DEF insertIntoFreeList
  <2>2. pv \in [Addr -> Ptr]
    BY <1>f
  <2>3. \A a \in Addr : /\ a = h.head => pv[a] = b
                        /\ a = b => pv[a] = NULL
                        /\ a # h.head /\ a # b => pv[a] = h.prev[a]
    BY <1>f, <1>e
  <2> HIDE DEF pv, hd
  <2>4. /\ SameData(h, r) /\ r.allocated = h.allocated
        /\ r.head = b /\ r.tail = h.tail
        /\ r.next = [h.next EXCEPT ![b] = h.head] /\ r.prev = pv
    BY <2>1 DEF Heap, SameData
  <2>5. r \in Heap
    <3>1. hd \in Ptr /\ b \in Ptr
      BY <1>f, <2>1
    <3>2. \A q \in [Addr -> Ptr], x, y \in Ptr : [h EXCEPT !.prev = q, !.next[b] = x, !.head = y] \in Heap
      BY DEF Heap
    <3>3. [h EXCEPT !.prev = pv, !.next[b] = hd, !.head = b] \in Heap
      BY <2>2, <3>1, <3>2, Zenon
    <3> QED BY <2>1, <3>3, Zenon
  <2>6. right = h.head /\ right \in F /\ right # 0
    BY <1>1, <1>e
  <2> QED BY <1>1, <1>f, <1>e, <2>3, <2>4, <2>5, <2>6 DEF Enchained, NULL
<1>2. CASE curr # NULL /\ curr = h.tail
  <2> DEFINE nx == [h.next EXCEPT ![h.tail] = b, ![b] = NULL]
             tl == h.tail
  <2>1. r = [h EXCEPT !.next = nx, !.prev[b] = tl, !.tail = b] /\ tl = h.tail
    BY <1>2, <1>e DEF insertIntoFreeList
  <2>2. nx \in [Addr -> Ptr]
    BY <1>f
  <2>3. \A a \in Addr : /\ a = h.tail => nx[a] = b
                        /\ a = b => nx[a] = NULL
                        /\ a # h.tail /\ a # b => nx[a] = h.next[a]
    BY <1>f, <1>e
  <2> HIDE DEF nx, tl
  <2>4. /\ SameData(h, r) /\ r.allocated = h.allocated
        /\ r.head = h.head /\ r.tail = b
        /\ r.next = nx /\ r.prev = [h.prev EXCEPT ![b] = h.tail]
    BY <2>1 DEF Heap, SameData
  <2>5. r \in Heap
    <3>1. tl \in Ptr /\ b \in Ptr
      BY <1>f, <2>1
    <3>2. \A q \in [Addr -> Ptr], x, y \in Ptr : [h EXCEPT !.next = q, !.prev[b] = x, !.tail = y] \in Heap
      BY DEF Heap
    <3>3. [h EXCEPT !.next = nx, !.prev[b] = tl, !.tail = b] \in Heap
      BY <2>2, <3>1, <3>2, Zenon
    <3> QED BY <2>1, <3>3, Zenon
  <2>6. right = NULL
    BY <1>2, <1>e DEF ListOf, Chained, NULL
  <2> QED BY <1>2, <1>f, <1>e, <2>3, <2>4, <2>5, <2>6 DEF Enchained, NULL
<1>3. CASE curr # NULL /\ curr # h.tail
  <2> DEFINE nx == [h.next EXCEPT ![curr] = b, ![b] = right]
             pv == [h.prev EXCEPT ![b] = curr, ![right] = b]
  <2>1. r = [h EXCEPT !.next = nx, !.prev = pv]
    BY <1>3, <1>e DEF insertIntoFreeList
  <2>2. nx \in [Addr -> Ptr] /\ pv \in [Addr -> Ptr]
    BY <1>f
  <2>3. curr \in F /\ right \in F /\ right # 0 /\ right # b /\ curr # 0
    BY <1>3, <1>e DEF ListOf, Chained, NULL
  <2>4. \A a \in Addr : /\ a = curr => nx[a] = b
                        /\ a = b => nx[a] = right /\ pv[a] = curr
                        /\ a # curr /\ a # b => nx[a] = h.next[a]
                        /\ a = right => pv[a] = b
                        /\ a # right /\ a # b => pv[a] = h.prev[a]
    BY <1>f, <1>e, <2>3
  <2> HIDE DEF nx, pv
  <2>5. /\ SameData(h, r) /\ r.allocated = h.allocated
        /\ r.head = h.head /\ r.tail = h.tail
        /\ r.next = nx /\ r.prev = pv
    BY <2>1 DEF Heap, SameData
  <2>6. r \in Heap
    BY <1>f, <2>1, <2>2, LinkedIsHeap, Zenon
  <2> QED BY <1>f, <2>3, <2>4, <2>5, <2>6 DEF Enchained
<1> QED BY <1>1, <1>2, <1>3

\* insertIntoFreeList behind curr (in front of the list when curr is NULL), where
\* the block's address belongs, leaves a list with that block.
LEMMA InsertSound ==
  ASSUME NEW h \in Heap, NEW F \in SUBSET Addr, F # {}, ListOf(h, F), Detached(h, F),
         NEW b \in Addr \ F, NEW curr \in F \cup {NULL},
         curr = NULL => b < h.head,
         curr # NULL => curr < b /\ (curr # h.tail => b < h.next[curr]),
         NEW r, r = insertIntoFreeList(h, b, curr)
  PROVE  /\ r \in Heap
         /\ SameData(h, r)
         /\ r.allocated = h.allocated
         /\ ListOf(r, F \cup {b})
         /\ Detached(r, F \cup {b})
<1> DEFINE right == IF curr = NULL THEN h.head ELSE h.next[curr]
<1>1. /\ r \in Heap
      /\ SameData(h, r)
      /\ r.allocated = h.allocated
      /\ Enchained(Addr, b, curr, right, h.head, h.tail, h.next, h.prev,
                   r.head, r.tail, r.next, r.prev)
  BY InsertFields
<1>2. /\ right \in F \cup {0}
      /\ curr = 0 => right = h.head
      /\ curr # 0 => right = h.next[curr] /\ curr < b
      /\ right # 0 => b < right
  BY DEF ListOf, Chained, NULL
<1> HIDE DEF right
<1>3. ListOf(r, F \cup {b})
  <2>1. /\ h.head \in Nat /\ h.tail \in Nat /\ r.head \in Nat /\ r.tail \in Nat
        /\ h.next \in [Addr -> Nat] /\ h.prev \in [Addr -> Nat]
        /\ r.next \in [Addr -> Nat] /\ r.prev \in [Addr -> Nat]
    BY <1>1, HeapFields, Pointers
  <2>2. curr \in F \cup {0}
    BY DEF NULL
  <2> QED BY <1>1, <1>2, <2>1, <2>2, Pointers, ChainInsert DEF ListOf
<1>4. Detached(r, F \cup {b})
  <2>1. ASSUME NEW a \in h.blocks \ (F \cup {b})
        PROVE  r.next[a] = NULL /\ r.prev[a] = NULL
    <3>1. a \in Addr \ {b} /\ a \notin F /\ a # 0
      BY <2>1, HeapFields, Pointers
    <3>2. r.next[a] = h.next[a] /\ r.prev[a] = h.prev[a]
      BY <1>1, <1>2, <3>1 DEF Enchained, NULL
    <3> QED BY <2>1, <3>1, <3>2 DEF Detached
  <2> QED BY <1>1, <2>1 DEF Detached, SameData
<1> QED BY <1>1, <1>3, <1>4

\* appendToFreeList of a block behind the tail leaves a list with that block,
\* which is marked free.
LEMMA AppendSound ==
  ASSUME NEW h \in Heap, NEW F \in SUBSET Addr, ListOf(h, F), Detached(h, F),
         NEW b \in h.blocks \ F, \A f \in F : f < b,
         NEW r, r = appendToFreeList(h, b)
  PROVE  /\ r \in Heap
         /\ SameData(h, r)
         /\ r.allocated = [h.allocated EXCEPT ![b] = FALSE]
         /\ ListOf(r, F \cup {b})
         /\ Detached(r, F \cup {b})
         /\ r.tail = b
<1>f. /\ b \in Addr /\ NULL \in Ptr /\ b \in Ptr
      /\ h.next \in [Addr -> Ptr] /\ h.prev \in [Addr -> Ptr]
      /\ h.next[b] = NULL /\ h.prev[b] = NULL
      /\ \A a \in Addr : a \in Nat /\ a # 0
  BY HeapFields, Pointers DEF Ptr, Detached
<1>1. CASE F = {}
  <2>1. r = [h EXCEPT !.head = b, !.tail = b, !.allocated[b] = FALSE]
    BY <1>1 DEF appendToFreeList, isEmptyFreeList, ListOf, Chained, NULL
  <2>2. /\ SameData(h, r) /\ r.allocated = [h.allocated EXCEPT ![b] = FALSE]
        /\ r.head = b /\ r.tail = b /\ r.next = h.next /\ r.prev = h.prev
    BY <2>1 DEF Heap, SameData
  <2>3. r \in Heap
    <3>1. \A x \in Ptr : [h EXCEPT !.head = x, !.tail = x, !.allocated[b] = FALSE] \in Heap
      BY <1>f DEF Heap
    <3> QED BY <1>f, <2>1, <3>1, Zenon
  <2>4. ListOf(r, F \cup {b})
    BY <1>f, <1>1, <2>2 DEF ListOf, Chained, NULL
  <2>5. Detached(r, F \cup {b})
    BY <1>f, <2>2 DEF Detached, SameData
  <2> QED BY <2>2, <2>3, <2>4, <2>5
<1>2. CASE F # {}
  <2> DEFINE nx == [h.next EXCEPT ![h.tail] = b, ![b] = NULL]
             tl == h.tail
  <2>1. /\ tl \in F /\ tl \in Ptr /\ tl # 0 /\ tl # b /\ tl < b
        /\ h.head \in F /\ h.next[tl] = NULL
    BY <1>2, <1>f DEF ListOf, Chained, NULL, Ptr
  <2>2. r = [h EXCEPT !.next = nx, !.prev[b] = tl, !.tail = b, !.allocated[b] = FALSE]
    BY <1>2, <1>f DEF appendToFreeList, isEmptyFreeList, ListOf, Chained, NULL
  <2>3. nx \in [Addr -> Ptr]
    BY <1>f
  <2>4. \A a \in Addr : /\ a = tl => nx[a] = b
                        /\ a = b => nx[a] = NULL
                        /\ a # tl /\ a # b => nx[a] = h.next[a]
    BY <1>f, <2>1
  <2>t. tl = h.tail
    OBVIOUS
  <2> HIDE DEF nx, tl
  <2>5. /\ SameData(h, r) /\ r.allocated = [h.allocated EXCEPT ![b] = FALSE]
        /\ r.head = h.head /\ r.tail = b
        /\ r.next = nx /\ r.prev = [h.prev EXCEPT ![b] = tl]
    BY <2>2 DEF Heap, SameData
  <2>6. r \in Heap
    <3>1. \A q \in [Addr -> Ptr], x, y \in Ptr :
            [h EXCEPT !.next = q, !.prev[b] = x, !.tail = y, !.allocated[b] = FALSE] \in Heap
      BY <1>f DEF Heap
    <3>2. [h EXCEPT !.next = nx, !.prev[b] = tl, !.tail = b, !.allocated[b] = FALSE] \in Heap
      BY <1>f, <2>1, <2>3, <3>1, Zenon
    <3> QED BY <2>2, <3>2, Zenon
  <2>7. Enchained(Addr, b, tl, 0, h.head, h.tail, h.next, h.prev,
                  r.head, r.tail, r.next, r.prev)
    BY <1>f, <2>1, <2>4, <2>5 DEF Enchained, NULL
  <2>8. ListOf(r, F \cup {b})
    <3>1. /\ h.head \in Nat /\ h.tail \in Nat /\ r.head \in Nat /\ r.tail \in Nat
          /\ h.next \in [Addr -> Nat] /\ h.prev \in [Addr -> Nat]
          /\ r.next \in [Addr -> Nat] /\ r.prev \in [Addr -> Nat]
      BY <2>6, HeapFields, Pointers
    <3>2. b \in Addr \ F /\ tl \in F \cup {0} /\ 0 \in F \cup {0}
      BY <1>f, <2>1
    <3>3. (tl = 0 => 0 = h.head) /\ (tl # 0 => 0 = h.next[tl] /\ tl < b)
      BY <2>1 DEF NULL
    <3> QED BY <2>7, <3>1, <3>2, <3>3, Pointers, ChainInsert DEF ListOf
  <2>9. Detached(r, F \cup {b})
    <3>1. ASSUME NEW a \in h.blocks \ (F \cup {b})
          PROVE  r.next[a] = NULL /\ r.prev[a] = NULL
      <4>1. a \in Addr \ {b} /\ a # tl /\ a # 0
        BY <1>f, <2>1, HeapFields
      <4>2. r.next[a] = h.next[a] /\ r.prev[a] = h.prev[a]
        BY <2>7, <4>1 DEF Enchained
      <4> QED BY <4>2 DEF Detached
    <3> QED BY <2>5, <3>1 DEF Detached, SameData
  <2> QED BY <2>5, <2>6, <2>8, <2>9
<1> QED BY <1>1, <1>2

-----------------------------------------------------------------------------
(***************************************************************************)
(* splitMemoryBlock                                                        *)
(***************************************************************************)

\* The list of h holds F, and the blocks are laid out below top.
Sound(h, F, top) ==
  /\ F \subseteq h.blocks
  /\ ListOf(h, F)
  /\ Detached(h, F)
  /\ Layout(h, top)

\* The blocks marked free and those marked allocated.
Free(h) == {b \in h.blocks : ~h.allocated[b]}
Held(h) == {b \in h.blocks : h.allocated[b]}

\* The blocks of F that start where another one ends.
SeamsOf(h, F) == {c \in F : \E b \in F : EndOf(h, b) = c}

\* The links are h's, but for block b, which points nowhere.
SameLinks(h, r, b) ==
  /\ r.next = [h.next EXCEPT ![b] = NULL]
  /\ r.prev = [h.prev EXCEPT ![b] = NULL]
  /\ r.head = h.head
  /\ r.tail = h.tail

\* initializeMemoryBlock of a free block (the remainder of a split).
LEMMA InitializedFree ==
  ASSUME NEW h \in Heap, NEW b \in Addr, NEW size \in Nat,
         NEW r, r = initializeMemoryBlock(h, b, size, FALSE)
  PROVE  /\ r \in Heap
         /\ r.blocks = h.blocks \cup {b}
         /\ r.dataSize = [h.dataSize EXCEPT ![b] = size]
         /\ r.allocated = [h.allocated EXCEPT ![b] = FALSE]
         /\ SameLinks(h, r, b)
         /\ SameTotals(h, r)
<1>1. r = [h EXCEPT !.blocks = @ \cup {b}, !.dataSize[b] = size, !.allocated[b] = FALSE,
                    !.prev[b] = NULL, !.next[b] = NULL]
  BY DEF initializeMemoryBlock
<1>2. /\ r.blocks = h.blocks \cup {b}
      /\ r.dataSize = [h.dataSize EXCEPT ![b] = size]
      /\ r.allocated = [h.allocated EXCEPT ![b] = FALSE]
  BY <1>1 DEF Heap
<1>3. /\ r.next = [h.next EXCEPT ![b] = NULL]
      /\ r.prev = [h.prev EXCEPT ![b] = NULL]
      /\ r.head = h.head
      /\ r.tail = h.tail
  BY <1>1 DEF Heap
<1>4. r \in Heap
  <2>1. \A x \in Ptr : [h EXCEPT !.blocks = @ \cup {b}, !.dataSize[b] = size,
                               !.allocated[b] = FALSE, !.prev[b] = x, !.next[b] = x] \in Heap
    BY DEF Heap
  <2>2. NULL \in Ptr
    BY DEF Ptr
  <2> QED BY <1>1, <2>1, <2>2, Zenon
<1>5. SameTotals(h, r)
  BY <1>1 DEF Heap, SameTotals
<1> QED BY <1>2, <1>3, <1>4, <1>5 DEF SameLinks

\* initializeMemoryBlock of an allocated block (a block just sbrk'ed).
LEMMA InitializedHeld ==
  ASSUME NEW h \in Heap, NEW b \in Addr, NEW size \in Nat,
         NEW r, r = initializeMemoryBlock(h, b, size, TRUE)
  PROVE  /\ r \in Heap
         /\ r.blocks = h.blocks \cup {b}
         /\ r.dataSize = [h.dataSize EXCEPT ![b] = size]
         /\ r.allocated = [h.allocated EXCEPT ![b] = TRUE]
         /\ SameLinks(h, r, b)
         /\ SameTotals(h, r)
<1>1. r = [h EXCEPT !.blocks = @ \cup {b}, !.dataSize[b] = size, !.allocated[b] = TRUE,
                    !.prev[b] = NULL, !.next[b] = NULL]
  BY DEF initializeMemoryBlock
<1>2. /\ r.blocks = h.blocks \cup {b}
      /\ r.dataSize = [h.dataSize EXCEPT ![b] = size]
      /\ r.allocated = [h.allocated EXCEPT ![b] = TRUE]
  BY <1>1 DEF Heap
<1>3. /\ r.next = [h.next EXCEPT ![b] = NULL]
      /\ r.prev = [h.prev EXCEPT ![b] = NULL]
      /\ r.head = h.head
      /\ r.tail = h.tail
  BY <1>1 DEF Heap
<1>4. r \in Heap
  <2>1. \A x \in Ptr : [h EXCEPT !.blocks = @ \cup {b}, !.dataSize[b] = size,
                               !.allocated[b] = TRUE, !.prev[b] = x, !.next[b] = x] \in Heap
    BY DEF Heap
  <2>2. NULL \in Ptr
    BY DEF Ptr
  <2> QED BY <1>1, <2>1, <2>2, Zenon
<1>5. SameTotals(h, r)
  BY <1>1 DEF Heap, SameTotals
<1> QED BY <1>2, <1>3, <1>4, <1>5 DEF SameLinks

\* A list is known by its head, its tail and the links of its blocks.
LEMMA SameLinksSameList ==
  ASSUME NEW h \in Heap, NEW F \in SUBSET Addr, ListOf(h, F), NEW r,
         r.head = h.head, r.tail = h.tail,
         \A f \in F : r.next[f] = h.next[f] /\ r.prev[f] = h.prev[f]
  PROVE  ListOf(r, F)
BY ChainSameLinks DEF ListOf

\* The list does not notice a new header.
LEMMA NewHeaderSound ==
  ASSUME NEW h \in Heap, NEW F \in SUBSET Addr, NEW b \in Addr \ h.blocks,
         F \subseteq h.blocks, ListOf(h, F), Detached(h, F),
         NEW r, r.blocks = h.blocks \cup {b}, SameLinks(h, r, b)
  PROVE  ListOf(r, F) /\ Detached(r, F)
<1>1. \A a \in Addr : /\ a # b => r.next[a] = h.next[a] /\ r.prev[a] = h.prev[a]
                      /\ a = b => r.next[a] = NULL /\ r.prev[a] = NULL
  BY HeapFields DEF SameLinks
<1>2. ListOf(r, F)
  <2>1. /\ r.head = h.head /\ r.tail = h.tail
        /\ \A f \in F : r.next[f] = h.next[f] /\ r.prev[f] = h.prev[f]
    BY <1>1 DEF SameLinks
  <2> QED BY <2>1, SameLinksSameList
<1>3. Detached(r, F)
  BY <1>1, HeapFields DEF Detached
<1> QED BY <1>2, <1>3

\* The part of splitMemoryBlock that writes the remainder's header.
LEMMA LaidSound ==
  ASSUME NEW h \in Heap, NEW top \in Addr, Sound(h, Free(h), top), NEW b \in Free(h),
         NEW size \in Nat \ {0}, MetaSize + size <= h.dataSize[b],
         NEW remaining, remaining = b + MetaSize + size,
         NEW rest, rest = h.dataSize[b] - size - MetaSize,
         NEW r, r = layRemainder(h, b, size, rest)
  PROVE  /\ remaining \in Addr \ h.blocks
         /\ r \in Heap
         /\ r.blocks = h.blocks \cup {remaining}
         /\ ListOf(r, Free(h))
         /\ Detached(r, Free(h))
         /\ Layout(r, top)
         /\ r.allocated = [h.allocated EXCEPT ![remaining] = FALSE, ![b] = TRUE]
         /\ r.dataSize = [h.dataSize EXCEPT ![remaining] = rest, ![b] = size]
         /\ \A f \in Free(h) : f <= b \/ remaining < f
         /\ SameTotals(h, r)
<1> DEFINE i == initializeMemoryBlock(h, remaining, rest, FALSE)
<1>t. /\ b \in Addr /\ b \in h.blocks /\ b \in Nat
      /\ h.blocks \in SUBSET Addr
      /\ h.dataSize \in [Addr -> Nat]
      /\ h.dataSize[b] \in Nat
      /\ MetaSize \in Nat \ {0} /\ HeapLimit \in Nat
      /\ \A a \in Addr : a \in Nat /\ a # 0
  BY HeapFields, Pointers, MyMallocAssumption DEF Free
<1>r. /\ remaining = b + MetaSize + size /\ remaining \in Nat
      /\ rest = h.dataSize[b] - size - MetaSize /\ rest \in Nat
  BY <1>t
<1>l. \A a, c \in h.blocks : a < c => a + MetaSize + h.dataSize[a] <= c
  BY DEF Sound, Layout, EndOf
<1>u. \A a \in h.blocks : a + MetaSize + h.dataSize[a] <= top
  BY DEF Sound, Layout, EndOf
<1>1. remaining \in Addr
  <2>1. b + MetaSize + h.dataSize[b] <= top /\ top <= HeapLimit /\ top \in Nat
    BY <1>t, <1>u DEF Addr
  <2>2. 1 <= remaining /\ remaining <= HeapLimit
    BY <1>t, <1>r, <2>1
  <2> QED BY <1>r, <1>t, <2>2 DEF Addr
<1>2. \A a \in h.blocks : a <= b \/ remaining < a
  <2>1. ASSUME NEW a \in h.blocks, b < a PROVE remaining < a
    <3>1. b + MetaSize + h.dataSize[b] <= a /\ a \in Nat
      BY <1>t, <1>l, <2>1
    <3> QED BY <1>t, <1>r, <3>1
  <2>2. \A a \in h.blocks : a \in Nat
    BY <1>t
  <2> QED BY <1>t, <2>1, <2>2
<1>3. remaining \notin h.blocks
  BY <1>2, <1>t, <1>r
<1>4. /\ i \in Heap
      /\ i.blocks = h.blocks \cup {remaining}
      /\ i.dataSize = [h.dataSize EXCEPT ![remaining] = rest]
      /\ i.allocated = [h.allocated EXCEPT ![remaining] = FALSE]
      /\ SameLinks(h, i, remaining)
      /\ SameTotals(h, i)
  BY <1>1, <1>r, InitializedFree
<1>5. r = [i EXCEPT !.dataSize[b] = size, !.allocated[b] = TRUE]
  BY DEF layRemainder
<1> HIDE DEF i
<1>6. /\ r.blocks = i.blocks
      /\ r.dataSize = [i.dataSize EXCEPT ![b] = size]
      /\ r.allocated = [i.allocated EXCEPT ![b] = TRUE]
      /\ r.next = i.next
      /\ r.prev = i.prev
      /\ r.head = i.head
      /\ r.tail = i.tail
      /\ SameTotals(i, r)
  BY <1>4, <1>5 DEF Heap, SameTotals
<1>s. SameLinks(h, r, remaining)
  BY <1>4, <1>6 DEF SameLinks
<1>7. r \in Heap
  <2>1. \A g \in Heap, a \in Addr, x \in Nat :
          [g EXCEPT !.dataSize[a] = x, !.allocated[a] = TRUE] \in Heap
    BY DEF Heap
  <2>2. size \in Nat /\ i \in Heap /\ b \in Addr
    BY <1>4, <1>t
  <2>3. [i EXCEPT !.dataSize[b] = size, !.allocated[b] = TRUE] \in Heap
    BY <2>1, <2>2, Zenon
  <2> QED BY <1>5, <2>3, Zenon
<1>8. ListOf(r, Free(h)) /\ Detached(r, Free(h))
  <2>1. Free(h) \in SUBSET Addr /\ remaining \in Addr \ h.blocks
    BY <1>1, <1>3, <1>t DEF Free
  <2>2. r.blocks = h.blocks \cup {remaining}
    BY <1>4, <1>6
  <2> QED BY <1>s, <2>1, <2>2, NewHeaderSound DEF Sound
<1>9. Layout(r, top)
  <2>1. \A a \in h.blocks \ {b} : r.dataSize[a] = h.dataSize[a]
    BY <1>1, <1>3, <1>4, <1>6, <1>t
  <2>2. r.dataSize[b] = size /\ r.dataSize[remaining] = rest
    BY <1>1, <1>3, <1>4, <1>6, <1>t
  <2>b. r.blocks = h.blocks \cup {remaining}
    BY <1>4, <1>6
  <2>n. /\ b \in Nat /\ size \in Nat /\ MetaSize \in Nat /\ top \in Nat
        /\ b < remaining /\ remaining \in Nat
        /\ b + MetaSize + size = remaining
        /\ \A a \in h.blocks : a \in Nat
    <3>1. \A a \in h.blocks : a \in Nat
      BY <1>t
    <3>2. b \in Nat /\ size \in Nat /\ MetaSize \in Nat \ {0} /\ top \in Nat
      BY <1>t
    <3>3. remaining = b + MetaSize + size
      BY <1>r
    <3> QED BY <3>1, <3>2, <3>3
  <2>3. ASSUME NEW a \in r.blocks PROVE EndOf(r, a) <= top
    <3>1. CASE a = b
      <4>1. remaining <= top
        BY <1>1, <1>u, <1>t, <1>r
      <4> QED BY <3>1, <4>1, <2>n, <2>2 DEF EndOf
    <3>2. CASE a = remaining
      BY <3>2, <1>t, <1>r, <1>u, <2>2 DEF EndOf
    <3>3. CASE a \in h.blocks \ {b}
      BY <3>3, <1>u, <2>1 DEF EndOf
    <3> QED BY <3>1, <3>2, <3>3, <1>4, <1>6
  <2>4. ASSUME NEW a \in r.blocks, NEW c \in r.blocks, a < c PROVE EndOf(r, a) <= c
    <3>1. CASE a = b /\ c = remaining
      BY <3>1, <1>t, <1>r, <2>2 DEF EndOf
    <3>2. CASE a = b /\ c \in h.blocks
      BY <3>2, <2>4, <2>n, <1>2, <2>2 DEF EndOf
    <3>3. CASE a = remaining
      <4>1. c \in h.blocks /\ b < c /\ c \in Nat
        BY <3>3, <2>4, <2>n, <2>b
      <4>2. b + MetaSize + h.dataSize[b] <= c
        BY <4>1, <1>l, <1>t
      <4> QED BY <3>3, <4>1, <4>2, <1>t, <1>r, <2>2 DEF EndOf
    <3>4. CASE a \in h.blocks \ {b} /\ c \in h.blocks
      BY <3>4, <2>4, <1>l, <2>1 DEF EndOf
    <3>5. CASE a \in h.blocks \ {b} /\ c = remaining
      <4>1. a < b /\ a \in Nat
        BY <3>5, <2>4, <1>2, <2>n
      <4>2. a + MetaSize + h.dataSize[a] <= b
        BY <4>1, <3>5, <1>l, <1>t
      <4>3. h.dataSize[a] \in Nat
        BY <3>5, <1>t
      <4> QED BY <3>5, <4>1, <4>2, <4>3, <1>t, <1>r, <2>1 DEF EndOf
    <3> QED BY <3>1, <3>2, <3>3, <3>4, <3>5, <2>b
  <2> QED BY <2>3, <2>4 DEF Layout
<1>10. SameTotals(h, r)
  BY <1>4, <1>6 DEF SameTotals
<1> QED BY <1>1, <1>2, <1>3, <1>4, <1>6, <1>7, <1>8, <1>9, <1>10 DEF Free

\* All but the totals is the same.
SameBlocks(h, r) ==
  /\ r.blocks = h.blocks
  /\ r.dataSize = h.dataSize
  /\ r.allocated = h.allocated
  /\ r.next = h.next
  /\ r.prev = h.prev
  /\ r.head = h.head
  /\ r.tail = h.tail

LEMMA SameBlocksSound ==
  ASSUME NEW h \in Heap, NEW r \in Heap, SameBlocks(h, r)
  PROVE  /\ Free(r) = Free(h)
         /\ Held(r) = Held(h)
         /\ \A F, top : Sound(h, F, top) => Sound(r, F, top)
<1>1. Free(r) = Free(h) /\ Held(r) = Held(h)
  BY DEF Free, Held, SameBlocks
<1>2. ASSUME NEW F, NEW top, Sound(h, F, top) PROVE Sound(r, F, top)
  <2>1. ListOf(r, F)
    BY <1>2 DEF Sound, SameBlocks, ListOf
  <2>2. Detached(r, F)
    BY <1>2 DEF Sound, SameBlocks, Detached
  <2>3. Layout(r, top)
    BY <1>2 DEF Sound, SameBlocks, Layout, EndOf
  <2> QED BY <1>2, <2>1, <2>2, <2>3 DEF Sound, SameBlocks
<1> QED BY <1>1, <1>2

\* Only the count of freed bytes changes.
LEMMA TotalFreedSet ==
  ASSUME NEW h \in Heap, NEW x \in Int, NEW r, r = [h EXCEPT !.totalFreed = @ - x]
  PROVE  /\ r \in Heap /\ SameBlocks(h, r)
         /\ r.totalAllocated = h.totalAllocated
         /\ r.totalFreed = h.totalFreed - x
<1>1. r \in Heap
  <2>1. h.totalFreed - x \in Int
    BY HeapFields
  <2>2. \A y \in Int : [h EXCEPT !.totalFreed = y] \in Heap
    BY DEF Heap
  <2> QED BY <2>1, <2>2
<1>2. SameBlocks(h, r)
  BY DEF Heap, SameBlocks
<1>3. r.totalAllocated = h.totalAllocated /\ r.totalFreed = h.totalFreed - x
  BY DEF Heap
<1> QED BY <1>1, <1>2, <1>3

\* A block of the list taken off it is held; the others stay as they are.
LEMMA TakenSound ==
  ASSUME NEW h \in Heap, NEW F \in SUBSET Addr, NEW top, Sound(h, F, top), NEW b \in F,
         NEW r, r = removeFromFreeList(h, b)
  PROVE  /\ r \in Heap
         /\ r.blocks = h.blocks
         /\ r.dataSize = h.dataSize
         /\ r.allocated = [h.allocated EXCEPT ![b] = TRUE]
         /\ Sound(r, F \ {b}, top)
         /\ SameTotals(h, r)
<1>1. /\ r \in Heap
      /\ SameData(h, r)
      /\ r.allocated = [h.allocated EXCEPT ![b] = TRUE]
      /\ ListOf(r, F \ {b})
      /\ Detached(r, F \ {b})
  BY RemoveSound DEF Sound
<1>2. Layout(r, top)
  BY <1>1 DEF Sound, Layout, SameData, EndOf
<1> QED BY <1>1, <1>2 DEF Sound, SameData, SameTotals

-----------------------------------------------------------------------------
(***************************************************************************)
(* What heap_info counts                                                   *)
(***************************************************************************)

\* The bytes of a block, header included.
SizeOf(h) == [b \in Addr |-> MetaSize + h.dataSize[b]]

\* The two totals are the bytes of all blocks and of those marked free.
Accounted(h) ==
  /\ h.totalAllocated = SumOver(SizeOf(h), h.blocks)
  /\ h.totalFreed = SumOver(SizeOf(h), Free(h))

\* Blocks are finitely many, and the size of each is a number.
LEMMA Countable ==
  ASSUME NEW h \in Heap
  PROVE  /\ IsFiniteSet(h.blocks) /\ IsFiniteSet(Free(h)) /\ IsFiniteSet(Addr)
         /\ \A b \in Addr : /\ SizeOf(h)[b] = MetaSize + h.dataSize[b]
                             /\ SizeOf(h)[b] \in Nat
         /\ h.blocks \in SUBSET Addr /\ Free(h) \in SUBSET h.blocks
<1>1. IsFiniteSet(Addr)
  <2>1. 1 \in Int /\ HeapLimit \in Int
    BY MyMallocAssumption
  <2> QED BY <2>1, FS_Interval DEF Addr
<1>2. h.blocks \in SUBSET Addr /\ Free(h) \in SUBSET h.blocks
  BY HeapFields DEF Free
<1>3. IsFiniteSet(h.blocks) /\ IsFiniteSet(Free(h))
  BY <1>1, <1>2, FS_Subset
<1>4. \A b \in Addr : SizeOf(h)[b] = MetaSize + h.dataSize[b] /\ SizeOf(h)[b] \in Nat
  BY HeapFields, MyMallocAssumption DEF SizeOf
<1> QED BY <1>1, <1>2, <1>3, <1>4

\* Same blocks, same sizes, same marks, same totals: the count stays right.
LEMMA AccountedSame ==
  ASSUME NEW h, NEW r, SameData(h, r), Free(r) = Free(h)
  PROVE  Accounted(h) => Accounted(r)
BY DEF Accounted, SizeOf, SameData

LEMMA SplitSound ==
  ASSUME NEW h \in Heap, NEW top \in Addr, Sound(h, Free(h), top), NEW b \in Free(h),
         NEW size \in Nat \ {0}, NEW r, r = splitMemoryBlock(h, b, size)
  PROVE  /\ r \in Heap
         /\ Sound(r, Free(r), top)
         /\ Held(r) = Held(h) \cup {b}
         /\ \A a \in Held(h) : r.dataSize[a] = h.dataSize[a]
         /\ size <= h.dataSize[b] => size <= r.dataSize[b]
         /\ SeamsOf(r, Free(r)) \subseteq SeamsOf(h, Free(h))
         /\ Accounted(h) => Accounted(r)
<1>t. /\ b \in Addr /\ b \in h.blocks /\ ~h.allocated[b]
      /\ Free(h) \in SUBSET Addr /\ h.blocks \in SUBSET Addr
      /\ h.allocated \in [Addr -> BOOLEAN]
      /\ h.dataSize \in [Addr -> Nat] /\ h.dataSize[b] \in Nat
      /\ MetaSize \in Nat \ {0}
  BY HeapFields, MyMallocAssumption DEF Free
<1>1. CASE h.dataSize[b] < MetaSize + size
  <2> DEFINE x == MetaSize + h.dataSize[b]
             g == [h EXCEPT !.totalFreed = @ - x]
  <2>1. r = removeFromFreeList(g, b)
    BY <1>1 DEF splitMemoryBlock, takeWhole
  <2>2. x \in Int /\ x = MetaSize + h.dataSize[b]
    BY <1>t
  <2> HIDE DEF x
  <2>3. /\ g \in Heap /\ SameBlocks(h, g)
        /\ g.totalAllocated = h.totalAllocated
        /\ g.totalFreed = h.totalFreed - x
    BY <2>2, TotalFreedSet
  <2> HIDE DEF g
  <2>4. Sound(g, Free(h), top)
    BY <2>3, SameBlocksSound
  <2>5. /\ r \in Heap
        /\ r.blocks = g.blocks
        /\ r.dataSize = g.dataSize
        /\ r.allocated = [g.allocated EXCEPT ![b] = TRUE]
        /\ Sound(r, Free(h) \ {b}, top)
        /\ SameTotals(g, r)
    BY <2>1, <2>3, <2>4, <1>t, TakenSound
  <2>6. /\ r.blocks = h.blocks
        /\ r.dataSize = h.dataSize
        /\ r.allocated = [h.allocated EXCEPT ![b] = TRUE]
    BY <2>3, <2>5 DEF SameBlocks
  <2>7. Free(r) = Free(h) \ {b} /\ Held(r) = Held(h) \cup {b}
    BY <2>6, <1>t DEF Free, Held
  <2>8. SeamsOf(r, Free(r)) \subseteq SeamsOf(h, Free(h))
    BY <2>6, <2>7 DEF SeamsOf, EndOf
  <2>9. ASSUME Accounted(h) PROVE Accounted(r)
    <3>1. SizeOf(r) = SizeOf(h)
      BY <2>6 DEF SizeOf
    <3>2. SumOver(SizeOf(h), Free(h)) = x + SumOver(SizeOf(h), Free(h) \ {b})
      <4>1. /\ IsFiniteSet(Free(h)) /\ \A c \in Free(h) : SizeOf(h)[c] \in Nat
            /\ SizeOf(h)[b] = x
        BY <1>t, <2>2, Countable
      <4> QED BY <4>1, SumLess
    <3>3. SumOver(SizeOf(h), Free(h) \ {b}) \in Nat
      <4>1. /\ IsFiniteSet(Free(h) \ {b}) /\ \A c \in Free(h) \ {b} : SizeOf(h)[c] \in Nat
        BY <1>t, Countable, FS_Subset
      <4> QED BY <4>1, SumNat
    <3> QED BY <2>2, <2>3, <2>5, <2>6, <2>7, <2>9, <3>1, <3>2, <3>3 DEF Accounted, SameTotals
  <2> QED BY <2>5, <2>6, <2>7, <2>8, <2>9
<1>2. CASE MetaSize + size <= h.dataSize[b]
  <2> DEFINE rest == h.dataSize[b] - size - MetaSize
             remaining == b + MetaSize + size
             l == layRemainder(h, b, size, rest)
             i == insertIntoFreeList(l, remaining, b)
             m == removeFromFreeList(i, b)
             x == MetaSize + size
  <2>1. r = [m EXCEPT !.totalFreed = @ - x]
    BY <1>2, <1>t DEF splitMemoryBlock, splitInTwo
  <2>2. x \in Int /\ x = MetaSize + size
    BY <1>t
  <2>3. /\ remaining \in Addr \ h.blocks
        /\ l \in Heap
        /\ l.blocks = h.blocks \cup {remaining}
        /\ ListOf(l, Free(h))
        /\ Detached(l, Free(h))
        /\ Layout(l, top)
        /\ l.allocated = [h.allocated EXCEPT ![remaining] = FALSE, ![b] = TRUE]
        /\ l.dataSize = [h.dataSize EXCEPT ![remaining] = rest, ![b] = size]
        /\ \A f \in Free(h) : f <= b \/ remaining < f
        /\ SameTotals(h, l)
    BY <1>2, LaidSound
  <2>4. b < remaining
    BY <1>t, Pointers
  <2> HIDE DEF rest, remaining, l, x
  <2>5. /\ i \in Heap
        /\ SameData(l, i)
        /\ i.allocated = l.allocated
        /\ ListOf(i, Free(h) \cup {remaining})
        /\ Detached(i, Free(h) \cup {remaining})
    <3>1. b # NULL /\ b \in Free(h) \cup {NULL}
      BY <1>t, Pointers DEF NULL
    <3>2. b # l.tail => b < l.next[b] /\ l.next[b] \in Free(h)
      BY <2>3 DEF ListOf, Chained
    <3>3. b # l.tail => remaining < l.next[b]
      BY <2>3, <3>2, <1>t, Pointers, HeapFields
    <3>4. remaining \in Addr \ Free(h)
      BY <2>3 DEF Free
    <3> QED BY <2>3, <2>4, <3>1, <3>3, <3>4, <1>t, InsertSound
  <2> HIDE DEF i
  <2>6. Sound(i, Free(h) \cup {remaining}, top)
    <3>1. Layout(i, top)
      BY <2>3, <2>5 DEF Layout, EndOf, SameData
    <3> QED BY <2>3, <2>5, <3>1 DEF Sound, SameData, Free
  <2>7. /\ m \in Heap
        /\ m.blocks = i.blocks
        /\ m.dataSize = i.dataSize
        /\ m.allocated = [i.allocated EXCEPT ![b] = TRUE]
        /\ Sound(m, (Free(h) \cup {remaining}) \ {b}, top)
        /\ SameTotals(i, m)
    <3>1. Free(h) \cup {remaining} \in SUBSET Addr /\ b \in Free(h) \cup {remaining}
      BY <1>t, <2>3
    <3> QED BY <2>5, <2>6, <3>1, TakenSound
  <2> HIDE DEF m
  <2>8. /\ r \in Heap /\ SameBlocks(m, r)
        /\ r.totalAllocated = m.totalAllocated
        /\ r.totalFreed = m.totalFreed - x
    BY <2>1, <2>2, <2>7, TotalFreedSet
  <2>9. /\ r.blocks = h.blocks \cup {remaining}
        /\ r.dataSize = [h.dataSize EXCEPT ![remaining] = rest, ![b] = size]
        /\ \A a \in Addr : r.allocated[a] <=> a = b \/ (a # remaining /\ h.allocated[a])
    BY <2>3, <2>4, <2>5, <2>7, <2>8, <1>t DEF SameBlocks, SameData
  <2>10. /\ Free(r) = (Free(h) \cup {remaining}) \ {b}
         /\ Held(r) = Held(h) \cup {b}
    BY <2>3, <2>4, <2>9, <1>t DEF Free, Held
  <2>11. Sound(r, Free(r), top)
    BY <2>7, <2>8, <2>10, SameBlocksSound
  <2>12. \A a \in Held(h) : r.dataSize[a] = h.dataSize[a]
    BY <2>3, <2>9, <1>t DEF Held
  <2>13. size <= r.dataSize[b]
    BY <2>3, <2>4, <2>9, <1>t
  <2>14. SeamsOf(r, Free(r)) \subseteq SeamsOf(h, Free(h))
    <3>1. /\ EndOf(r, remaining) = EndOf(h, b)
          /\ \A f \in Free(h) \ {b} : EndOf(r, f) = EndOf(h, f)
      <4>1. r.dataSize[remaining] = rest /\ rest \in Nat
        BY <2>3, <2>4, <2>9, <1>t, <1>2 DEF rest
      <4>2. \A f \in Free(h) \ {b} : r.dataSize[f] = h.dataSize[f]
        BY <2>3, <2>9, <1>t DEF Free
      <4>3. remaining + MetaSize + rest = b + MetaSize + h.dataSize[b]
        BY <1>t, <1>2, Pointers DEF rest, remaining
      <4> QED BY <4>1, <4>2, <4>3 DEF EndOf
    <3>2. ASSUME NEW f \in Free(h) \ {b} PROVE EndOf(h, f) # remaining
      <4>1. f \in Nat /\ b \in Nat /\ h.dataSize[f] \in Nat /\ f \in h.blocks /\ f # b
        BY <1>t, Pointers DEF Free
      <4>2. CASE f < b
        <5>1. f + MetaSize + h.dataSize[f] <= b
          BY <1>t, <4>1, <4>2 DEF Sound, Layout, EndOf
        <5> QED BY <1>t, <2>4, <4>1, <5>1 DEF EndOf, remaining
      <4>3. CASE b < f
        BY <1>t, <2>3, <4>1, <4>3 DEF EndOf, remaining
      <4> QED BY <4>1, <4>2, <4>3
    <3>3. EndOf(h, b) # remaining \/ EndOf(r, remaining) # remaining
      BY <1>t, <2>3, <2>9, Pointers, HeapFields, <2>8, MyMallocAssumption DEF EndOf
    <3> QED BY <1>t, <2>3, <2>10, <3>1, <3>2, <3>3 DEF SeamsOf
  <2>15. ASSUME Accounted(h) PROVE Accounted(r)
    <3> DEFINE s == SizeOf(h)
               t == SizeOf(r)
    <3>1. /\ IsFiniteSet(h.blocks) /\ IsFiniteSet(Free(h)) /\ IsFiniteSet(Free(r))
          /\ Free(h) \subseteq h.blocks /\ h.blocks \subseteq Addr
          /\ Free(r) \subseteq Addr
          /\ \A a \in Addr : s[a] = MetaSize + h.dataSize[a] /\ s[a] \in Nat
          /\ \A a \in Addr : t[a] = MetaSize + r.dataSize[a] /\ t[a] \in Nat
      BY <2>8, Countable
    <3>2. remaining \in Addr /\ remaining \notin h.blocks /\ remaining \notin Free(h)
      BY <2>3, <3>1
    <3>3. /\ \A a \in h.blocks \ {b} : t[a] = s[a]
          /\ t[b] = x
          /\ t[b] + t[remaining] = s[b]
      <4>1. /\ \A a \in h.blocks \ {b} : r.dataSize[a] = h.dataSize[a]
            /\ r.dataSize[b] = size /\ r.dataSize[remaining] = rest
        BY <2>9, <1>t, <3>2
      <4>2. (MetaSize + size) + (MetaSize + rest) = MetaSize + h.dataSize[b]
        BY <1>t, <1>2 DEF rest
      <4> QED BY <2>2, <1>t, <3>1, <3>2, <4>1, <4>2
    <3>a. /\ r.totalAllocated = h.totalAllocated
          /\ r.totalFreed = h.totalFreed - x
          /\ h.totalFreed \in Int
      BY <2>3, <2>5, <2>7, <2>8, HeapFields DEF SameTotals, SameData
    <3>h. /\ h.totalAllocated = SumOver(s, h.blocks)
          /\ h.totalFreed = SumOver(s, Free(h))
      BY <2>15 DEF Accounted
    <3> HIDE DEF s, t
    <3>4. SumOver(t, h.blocks \cup {remaining}) = SumOver(s, h.blocks)
      <4>1. /\ \A a \in h.blocks : s[a] \in Nat
            /\ \A a \in h.blocks \cup {remaining} : t[a] \in Nat
        BY <3>1, <3>2
      <4> QED BY <1>t, <3>1, <3>2, <3>3, <4>1, SumSplit
    <3>5. SumOver(t, Free(h) \cup {remaining}) = SumOver(s, Free(h))
      <4>1. /\ \A a \in Free(h) : s[a] \in Nat
            /\ \A a \in Free(h) \cup {remaining} : t[a] \in Nat
            /\ \A a \in Free(h) \ {b} : t[a] = s[a]
        BY <3>1, <3>2, <3>3
      <4> QED BY <1>t, <3>1, <3>2, <3>3, <4>1, SumSplit
    <3>6. SumOver(t, Free(h) \cup {remaining}) = x + SumOver(t, Free(r))
      <4> DEFINE G == Free(h) \cup {remaining}
      <4>1. /\ IsFiniteSet(G) /\ b \in G /\ \A a \in G : t[a] \in Nat
        <5>1. IsFiniteSet(G)
          BY <3>1, FS_AddElement
        <5> QED BY <5>1, <1>t, <3>1, <3>2
      <4> HIDE DEF G
      <4>2. SumOver(t, G) = t[b] + SumOver(t, G \ {b})
        BY <4>1, SumLess
      <4> QED BY <2>10, <3>3, <4>2 DEF G
    <3>7. SumOver(t, Free(r)) \in Nat
      BY <3>1, SumNat
    <3>8. /\ r.totalAllocated = SumOver(t, r.blocks)
          /\ r.totalFreed = SumOver(t, Free(r))
      BY <2>2, <2>9, <3>a, <3>h, <3>4, <3>5, <3>6, <3>7
    <3> QED BY <3>8 DEF Accounted, t
  <2> QED BY <2>8, <2>10, <2>11, <2>12, <2>13, <2>14, <2>15
<1> QED BY <1>1, <1>2, <1>t

-----------------------------------------------------------------------------
(***************************************************************************)
(* coalesceWithLeft and coalesceWithRight                                  *)
(***************************************************************************)

\* Merging two neighbours on the list keeps everything sound and loses nothing:
\* the right block leaves both the list and the memory.
LEMMA AbsorbSound ==
  ASSUME NEW h \in Heap, NEW top \in Addr, Sound(h, Free(h), top),
         NEW left \in Free(h), NEW right \in Free(h), right = EndOf(h, left),
         NEW r, r = absorb(h, left, right)
  PROVE  /\ r \in Heap
         /\ Sound(r, Free(r), top)
         /\ Free(r) = Free(h) \ {right}
         /\ Held(r) = Held(h)
         /\ \A a \in Held(h) : r.dataSize[a] = h.dataSize[a]
         /\ EndOf(r, left) = EndOf(h, right)
         /\ \A a \in Free(h) \ {left} : EndOf(r, a) = EndOf(h, a)
         /\ Accounted(h) => Accounted(r)
<1> DEFINE sum == h.dataSize[left] + MetaSize + h.dataSize[right]
           g == [h EXCEPT !.blocks = @ \ {right}, !.dataSize[left] = sum]
<1>t. /\ left \in Addr /\ right \in Addr /\ left \in h.blocks /\ right \in h.blocks
      /\ ~h.allocated[left] /\ ~h.allocated[right]
      /\ Free(h) \in SUBSET Addr /\ h.blocks \in SUBSET Addr
      /\ h.allocated \in [Addr -> BOOLEAN]
      /\ h.dataSize \in [Addr -> Nat]
      /\ MetaSize \in Nat \ {0}
  BY HeapFields, MyMallocAssumption DEF Free
<1>n. /\ \A a \in h.blocks : a \in Nat /\ h.dataSize[a] \in Nat
      /\ sum \in Nat
      /\ right = left + MetaSize + h.dataSize[left]
      /\ left < right
  <2>1. \A a \in h.blocks : a \in Nat /\ h.dataSize[a] \in Nat
    BY <1>t, Pointers
  <2>2. right = left + MetaSize + h.dataSize[left]
    BY DEF EndOf
  <2> QED BY <1>t, <2>1, <2>2
<1>1. r = removeFromFreeList(g, right)
  <2>1. [h EXCEPT !.blocks = @ \ {right}, !.dataSize[left] = @ + MetaSize + h.dataSize[right]]
          = [h EXCEPT !.blocks = @ \ {right}, !.dataSize[left] = sum]
    BY DEF Heap
  <2> QED BY <2>1 DEF absorb
<1>s. sum = h.dataSize[left] + MetaSize + h.dataSize[right]
  OBVIOUS
<1> HIDE DEF sum
<1>2. /\ g.blocks = h.blocks \ {right}
      /\ g.dataSize = [h.dataSize EXCEPT ![left] = sum]
      /\ g.allocated = h.allocated
      /\ g.next = h.next /\ g.prev = h.prev
      /\ g.head = h.head /\ g.tail = h.tail
      /\ SameTotals(h, g)
  BY DEF Heap, SameTotals
<1>3. g \in Heap
  <2>1. \A n \in Nat : [h EXCEPT !.blocks = @ \ {right}, !.dataSize[left] = n] \in Heap
    BY DEF Heap
  <2> QED BY <1>n, <2>1
<1> HIDE DEF g
<1>4. ListOf(g, Free(h)) /\ Detached(g, Free(h))
  BY <1>2 DEF Sound, ListOf, Detached
<1>5. Layout(g, top)
  <2>1. /\ \A a \in g.blocks \ {left} : g.dataSize[a] = h.dataSize[a]
        /\ g.dataSize[left] = sum
    BY <1>2, <1>t
  <2>l. /\ \A a, c \in h.blocks : a < c => a + MetaSize + h.dataSize[a] <= c
        /\ \A a \in h.blocks : a + MetaSize + h.dataSize[a] <= top
    BY DEF Sound, Layout, EndOf
  <2>e. left + MetaSize + sum = right + MetaSize + h.dataSize[right]
    BY <1>n, <1>s, <1>t
  <2>2. ASSUME NEW a \in g.blocks PROVE EndOf(g, a) <= top
    <3>1. CASE a = left
      BY <3>1, <2>1, <2>l, <2>e, <1>t DEF EndOf
    <3>2. CASE a # left
      BY <3>2, <2>1, <2>l, <1>2 DEF EndOf
    <3> QED BY <3>1, <3>2
  <2>3. ASSUME NEW a \in g.blocks, NEW c \in g.blocks, a < c PROVE EndOf(g, a) <= c
    <3>1. CASE a = left
      <4>1. c \in h.blocks /\ c # right /\ left < c /\ c \in Nat
        BY <3>1, <2>3, <1>2, <1>n
      <4>2. left + MetaSize + h.dataSize[left] <= c
        BY <4>1, <2>l, <1>t
      <4>3. right < c
        BY <4>1, <4>2, <1>n, <1>t
      <4>4. right + MetaSize + h.dataSize[right] <= c
        BY <4>1, <4>3, <2>l, <1>t
      <4> QED BY <3>1, <4>4, <2>1, <2>e DEF EndOf
    <3>2. CASE a # left
      BY <3>2, <2>3, <2>1, <2>l, <1>2 DEF EndOf
    <3> QED BY <3>1, <3>2
  <2> QED BY <2>2, <2>3 DEF Layout
<1>6. /\ r \in Heap
      /\ SameData(g, r)
      /\ r.allocated = [g.allocated EXCEPT ![right] = TRUE]
      /\ ListOf(r, Free(h) \ {right})
      /\ Detached(r, Free(h) \ {right})
  BY <1>1, <1>3, <1>4, <1>t, RemoveSound
<1>7. /\ r.blocks = h.blocks \ {right}
      /\ r.dataSize = [h.dataSize EXCEPT ![left] = sum]
      /\ r.allocated = [h.allocated EXCEPT ![right] = TRUE]
  BY <1>2, <1>6 DEF SameData
<1>8. Free(r) = Free(h) \ {right} /\ Held(r) = Held(h)
  BY <1>7, <1>t DEF Free, Held
<1>9. Sound(r, Free(r), top)
  <2>1. Layout(r, top)
    BY <1>5, <1>6 DEF Layout, EndOf, SameData
  <2>2. Free(r) \subseteq r.blocks
    BY DEF Free
  <2> QED BY <1>6, <1>8, <2>1, <2>2 DEF Sound
<1>10. \A a \in Held(h) : r.dataSize[a] = h.dataSize[a]
  BY <1>7, <1>t DEF Held
<1>11. EndOf(r, left) = EndOf(h, right)
  <2>1. r.dataSize[left] = sum
    BY <1>7, <1>t
  <2> QED BY <1>n, <1>s, <1>t, <2>1 DEF EndOf
<1>12. \A a \in Free(h) \ {left} : EndOf(r, a) = EndOf(h, a)
  BY <1>7, <1>t DEF EndOf
<1>13. ASSUME Accounted(h) PROVE Accounted(r)
  <2> DEFINE s == SizeOf(h)
             t == SizeOf(r)
  <2>1. /\ IsFiniteSet(r.blocks) /\ IsFiniteSet(Free(r))
        /\ Free(r) \subseteq r.blocks /\ r.blocks \subseteq Addr
        /\ \A a \in Addr : s[a] = MetaSize + h.dataSize[a] /\ s[a] \in Nat
        /\ \A a \in Addr : t[a] = MetaSize + r.dataSize[a] /\ t[a] \in Nat
    BY <1>6, Countable
  <2>2. /\ \A a \in r.blocks \ {left} : s[a] = t[a]
        /\ s[left] + s[right] = t[left]
    <3>1. /\ \A a \in r.blocks \ {left} : r.dataSize[a] = h.dataSize[a]
          /\ r.dataSize[left] = sum
      BY <1>7, <1>t
    <3>2. (MetaSize + h.dataSize[left]) + (MetaSize + h.dataSize[right]) = MetaSize + sum
      BY <1>n, <1>s, <1>t
    <3> QED BY <1>t, <2>1, <3>1, <3>2
  <2>3. /\ left \in r.blocks /\ left \in Free(r) /\ right \notin r.blocks /\ right \notin Free(r)
        /\ r.blocks \cup {right} = h.blocks /\ Free(r) \cup {right} = Free(h)
    BY <1>7, <1>8, <1>t, <1>n
  <2>4. r.totalAllocated = h.totalAllocated /\ r.totalFreed = h.totalFreed
    BY <1>2, <1>6 DEF SameData, SameTotals
  <2>h. /\ h.totalAllocated = SumOver(s, h.blocks)
        /\ h.totalFreed = SumOver(s, Free(h))
    BY <1>13 DEF Accounted
  <2> HIDE DEF s, t
  <2>5. SumOver(s, r.blocks \cup {right}) = SumOver(t, r.blocks)
    <3>1. /\ \A a \in r.blocks : t[a] \in Nat
          /\ \A a \in r.blocks \cup {right} : s[a] \in Nat
      BY <1>t, <2>1
    <3> QED BY <2>1, <2>2, <2>3, <3>1, SumSplit
  <2>6. SumOver(s, Free(r) \cup {right}) = SumOver(t, Free(r))
    <3>1. /\ \A a \in Free(r) : t[a] \in Nat
          /\ \A a \in Free(r) \cup {right} : s[a] \in Nat
          /\ \A a \in Free(r) \ {left} : s[a] = t[a]
      BY <1>t, <2>1, <2>2
    <3> QED BY <2>1, <2>2, <2>3, <3>1, SumSplit
  <2>7. /\ r.totalAllocated = SumOver(t, r.blocks)
        /\ r.totalFreed = SumOver(t, Free(r))
    BY <2>3, <2>4, <2>h, <2>5, <2>6
  <2> QED BY <2>7 DEF Accounted, t
<1> QED BY <1>6, <1>8, <1>9, <1>10, <1>11, <1>12, <1>13

\* In a sound heap a block ends where a later one of the list starts only if that is
\* the next one.
LEMMA SeamIsLink ==
  ASSUME NEW h \in Heap, NEW top, Sound(h, Free(h), top),
         NEW b \in Free(h), NEW c \in Free(h), EndOf(h, b) = c
  PROVE  /\ b < c /\ b # c
         /\ h.next[b] = c /\ h.prev[c] = b
         /\ b # NULL /\ c # NULL
<1>1. /\ b \in Nat /\ c \in Nat /\ b # 0 /\ c # 0 /\ h.dataSize[b] \in Nat
      /\ MetaSize \in Nat \ {0}
      /\ Free(h) \subseteq h.blocks /\ Free(h) \in SUBSET Addr
  BY HeapFields, Pointers, MyMallocAssumption DEF Free
<1>2. b < c
  BY <1>1 DEF EndOf
<1>3. b # h.tail
  BY <1>1, <1>2 DEF Sound, ListOf, Chained
<1>4. /\ h.next[b] \in Free(h) /\ b < h.next[b] /\ h.prev[h.next[b]] = b
      /\ h.next[b] <= c
  BY <1>1, <1>2, <1>3 DEF Sound, ListOf, Chained
<1>5. EndOf(h, b) <= h.next[b] /\ h.next[b] \in Nat
  BY <1>1, <1>4, Pointers DEF Sound, Layout
<1> QED BY <1>1, <1>2, <1>4, <1>5 DEF NULL

\* Either coalesce of a free block leaves a sound heap with the same held blocks.
LEMMA CoalesceRightSound ==
  ASSUME NEW h \in Heap, NEW top \in Addr, Sound(h, Free(h), top), NEW b \in Free(h),
         NEW r, r = coalesceWithRight(h, b)
  PROVE  /\ r \in Heap
         /\ Sound(r, Free(r), top)
         /\ b \in Free(r)
         /\ Held(r) = Held(h)
         /\ \A a \in Held(h) : r.dataSize[a] = h.dataSize[a]
         /\ Free(r) \subseteq Free(h)
         /\ \A x \in Free(r) \ {b} : EndOf(r, x) = EndOf(h, x)
         /\ SeamsOf(r, Free(r)) \subseteq SeamsOf(h, Free(h) \ {b}) \cup {b}
         /\ Accounted(h) => Accounted(r)
<1>1. CASE h.next[b] # NULL /\ h.next[b] = EndOf(h, b)
  <2> DEFINE right == h.next[b]
  <2>1. right \in Free(h) /\ right # b /\ right = EndOf(h, b)
    <3>1. b \in Nat
      BY HeapFields, Pointers DEF Free
    <3> QED BY <1>1, <3>1 DEF Sound, ListOf, Chained, NULL
  <2>2. r = absorb(h, b, right)
    BY <1>1 DEF coalesceWithRight
  <2> HIDE DEF right
  <2>3. /\ r \in Heap
        /\ Sound(r, Free(r), top)
        /\ Free(r) = Free(h) \ {right}
        /\ Held(r) = Held(h)
        /\ \A a \in Held(h) : r.dataSize[a] = h.dataSize[a]
        /\ EndOf(r, b) = EndOf(h, right)
        /\ \A a \in Free(h) \ {b} : EndOf(r, a) = EndOf(h, a)
        /\ Accounted(h) => Accounted(r)
    BY <2>1, <2>2, AbsorbSound
  <2>4. SeamsOf(r, Free(r)) \subseteq SeamsOf(h, Free(h) \ {b}) \cup {b}
    BY <2>1, <2>3 DEF SeamsOf
  <2> QED BY <2>1, <2>3, <2>4
<1>2. CASE ~(h.next[b] # NULL /\ h.next[b] = EndOf(h, b))
  <2>1. r = h
    BY <1>2 DEF coalesceWithRight
  <2>2. \A c \in Free(h) : EndOf(h, b) # c
    BY <1>2, SeamIsLink
  <2>3. SeamsOf(h, Free(h)) \subseteq SeamsOf(h, Free(h) \ {b}) \cup {b}
    BY <2>2 DEF SeamsOf
  <2> QED BY <2>1, <2>3
<1> QED BY <1>1, <1>2

LEMMA CoalesceLeftSound ==
  ASSUME NEW h \in Heap, NEW top \in Addr, Sound(h, Free(h), top), NEW b \in Free(h),
         NEW r, r = coalesceWithLeft(h, b)
  PROVE  /\ r \in Heap
         /\ Sound(r, Free(r), top)
         /\ Held(r) = Held(h)
         /\ \A a \in Held(h) : r.dataSize[a] = h.dataSize[a]
         /\ SeamsOf(r, Free(r)) \subseteq SeamsOf(h, Free(h)) \ {b}
         /\ Accounted(h) => Accounted(r)
<1>1. CASE h.prev[b] # NULL /\ b = EndOf(h, h.prev[b])
  <2> DEFINE left == h.prev[b]
  <2>1. left \in Free(h) /\ b = EndOf(h, left)
    BY <1>1 DEF Sound, ListOf, Chained, NULL
  <2>2. r = absorb(h, left, b)
    BY <1>1 DEF coalesceWithLeft
  <2> HIDE DEF left
  <2>3. /\ r \in Heap
        /\ Sound(r, Free(r), top)
        /\ Free(r) = Free(h) \ {b}
        /\ Held(r) = Held(h)
        /\ \A a \in Held(h) : r.dataSize[a] = h.dataSize[a]
        /\ EndOf(r, left) = EndOf(h, b)
        /\ \A a \in Free(h) \ {left} : EndOf(r, a) = EndOf(h, a)
        /\ Accounted(h) => Accounted(r)
    BY <2>1, <2>2, AbsorbSound
  <2>4. SeamsOf(r, Free(r)) \subseteq SeamsOf(h, Free(h)) \ {b}
    BY <2>1, <2>3 DEF SeamsOf
  <2> QED BY <2>1, <2>3, <2>4
<1>2. CASE ~(h.prev[b] # NULL /\ b = EndOf(h, h.prev[b]))
  <2>1. r = h
    BY <1>2 DEF coalesceWithLeft
  <2>2. \A x \in Free(h) : EndOf(h, x) # b
    BY <1>2, SeamIsLink
  <2>3. SeamsOf(h, Free(h)) \subseteq SeamsOf(h, Free(h)) \ {b}
    BY <2>2 DEF SeamsOf
  <2> QED BY <2>1, <2>3
<1> QED BY <1>1, <1>2

-----------------------------------------------------------------------------
(***************************************************************************)
(* allocateMemory and the first statements of freeMemoryBlock              *)
(***************************************************************************)

\* A block initialised at the old break is held, and nothing else changes.
LEMMA NewBlockSound ==
  ASSUME NEW h \in Heap, NEW top \in Addr, Sound(h, Free(h), top),
         NEW size \in Nat \ {0}, NEW total, total = size + MetaSize,
         NEW r, r = newBlock(h, top, size)
  PROVE  /\ r \in Heap
         /\ Sound(r, Free(r), top + total)
         /\ Held(r) = Held(h) \cup {top}
         /\ \A a \in Held(h) : r.dataSize[a] = h.dataSize[a]
         /\ r.dataSize[top] = size
         /\ SeamsOf(r, Free(r)) = SeamsOf(h, Free(h))
         /\ Accounted(h) => Accounted(r)
<1> DEFINE i == initializeMemoryBlock(h, top, size, TRUE)
<1>t. /\ h.blocks \in SUBSET Addr /\ Free(h) \in SUBSET Addr
      /\ h.dataSize \in [Addr -> Nat] /\ h.allocated \in [Addr -> BOOLEAN]
      /\ MetaSize \in Nat \ {0} /\ size \in Nat /\ top \in Nat /\ total \in Nat
      /\ \A a \in h.blocks : a \in Nat /\ h.dataSize[a] \in Nat
  <2>1. h.blocks \in SUBSET Addr /\ Free(h) \in SUBSET Addr
    BY HeapFields DEF Free
  <2>2. h.dataSize \in [Addr -> Nat] /\ h.allocated \in [Addr -> BOOLEAN]
    BY HeapFields
  <2>3. MetaSize \in Nat \ {0} /\ size \in Nat /\ top \in Nat
    BY Pointers, MyMallocAssumption
  <2>4. \A a \in h.blocks : a \in Nat /\ h.dataSize[a] \in Nat
    BY <2>1, <2>2, Pointers
  <2> QED BY <2>1, <2>2, <2>3, <2>4
<1>l. /\ \A a, c \in h.blocks : a < c => a + MetaSize + h.dataSize[a] <= c
      /\ \A a \in h.blocks : a + MetaSize + h.dataSize[a] <= top
  BY DEF Sound, Layout, EndOf
<1>1. \A a \in h.blocks : a < top
  <2>1. ASSUME NEW a \in h.blocks PROVE a < top
    <3>1. a + MetaSize + h.dataSize[a] <= top /\ a \in Nat /\ h.dataSize[a] \in Nat
      BY <1>l, <1>t
    <3> QED BY <3>1, <1>t
  <2> QED BY <2>1
<1>2. top \in Addr \ h.blocks
  BY <1>1, <1>t
<1>3. /\ i \in Heap
      /\ i.blocks = h.blocks \cup {top}
      /\ i.dataSize = [h.dataSize EXCEPT ![top] = size]
      /\ i.allocated = [h.allocated EXCEPT ![top] = TRUE]
      /\ SameLinks(h, i, top)
      /\ SameTotals(h, i)
  BY <1>t, InitializedHeld
<1>e. r = [i EXCEPT !.totalAllocated = @ + total]
  BY DEF newBlock
<1> HIDE DEF i
<1>4. /\ r \in Heap /\ SameBlocks(i, r)
      /\ r.totalAllocated = i.totalAllocated + total /\ r.totalFreed = i.totalFreed
  <2>1. \A n \in Int : [i EXCEPT !.totalAllocated = n] \in Heap
    BY <1>3 DEF Heap
  <2>2. i.totalAllocated + total \in Int
    BY <1>3, <1>t, HeapFields
  <2>3. r \in Heap
    BY <1>e, <2>1, <2>2
  <2>4. SameBlocks(i, r)
    BY <1>e, <1>3 DEF Heap, SameBlocks
  <2>5. r.totalAllocated = i.totalAllocated + total /\ r.totalFreed = i.totalFreed
    BY <1>e, <1>3 DEF Heap
  <2> QED BY <2>3, <2>4, <2>5
<1>5. ListOf(i, Free(h)) /\ Detached(i, Free(h))
  BY <1>2, <1>3, <1>t, NewHeaderSound DEF Sound
<1>6. Free(i) = Free(h) /\ Held(i) = Held(h) \cup {top}
  BY <1>2, <1>3, <1>t DEF Free, Held
<1>7. \A a \in h.blocks : i.dataSize[a] = h.dataSize[a]
  BY <1>2, <1>3, <1>t
<1>8. i.dataSize[top] = size
  BY <1>3, <1>t
<1>9. Layout(i, top + total)
  <2>1. ASSUME NEW a \in i.blocks PROVE EndOf(i, a) <= top + total
    <3>1. CASE a = top
      BY <3>1, <1>8, <1>t DEF EndOf
    <3>2. CASE a \in h.blocks
      <4>1. EndOf(i, a) = a + MetaSize + h.dataSize[a]
        BY <3>2, <1>7 DEF EndOf
      <4>2. a + MetaSize + h.dataSize[a] <= top /\ a \in Nat /\ h.dataSize[a] \in Nat
        BY <3>2, <1>l, <1>t
      <4> QED BY <4>1, <4>2, <1>t
    <3> QED BY <3>1, <3>2, <1>3
  <2>2. ASSUME NEW a \in i.blocks, NEW c \in i.blocks, a < c PROVE EndOf(i, a) <= c
    <3>1. a \in h.blocks
      BY <2>2, <1>1, <1>3, <1>t
    <3> QED BY <2>2, <3>1, <1>l, <1>3, <1>7 DEF EndOf
  <2> QED BY <2>1, <2>2 DEF Layout
<1>10. Sound(i, Free(i), top + total)
  BY <1>5, <1>6, <1>9 DEF Sound, Free
<1>11. Sound(r, Free(r), top + total) /\ Held(r) = Held(i)
  BY <1>3, <1>4, <1>10, SameBlocksSound
<1>12. r.dataSize = i.dataSize
  BY <1>4 DEF SameBlocks
<1>13. SeamsOf(r, Free(r)) = SeamsOf(h, Free(h))
  <2>1. Free(r) = Free(h) /\ Free(h) \subseteq h.blocks
    BY <1>3, <1>4, <1>6, SameBlocksSound DEF Free
  <2>2. \A a \in Free(h) : EndOf(r, a) = EndOf(h, a)
    BY <2>1, <1>7, <1>12 DEF EndOf
  <2> QED BY <2>1, <2>2 DEF SeamsOf
<1>14. ASSUME Accounted(h) PROVE Accounted(r)
  <2> DEFINE s == SizeOf(h)
             t == SizeOf(r)
  <2>1. /\ IsFiniteSet(h.blocks) /\ IsFiniteSet(Free(h))
        /\ \A a \in Addr : s[a] = MetaSize + h.dataSize[a] /\ s[a] \in Nat
        /\ \A a \in Addr : t[a] = MetaSize + r.dataSize[a] /\ t[a] \in Nat
    BY <1>4, Countable
  <2>2. (\A a \in h.blocks : t[a] = s[a]) /\ t[top] = total
    <3>1. MetaSize + size = total
      BY <1>t
    <3> QED BY <1>t, <1>7, <1>8, <1>12, <2>1, <3>1
  <2>3. /\ r.totalAllocated = h.totalAllocated + total /\ r.totalFreed = h.totalFreed
        /\ r.blocks = h.blocks \cup {top} /\ Free(r) = Free(h)
    BY <1>3, <1>4, <1>6, SameBlocksSound DEF SameTotals, SameBlocks
  <2>h. /\ h.totalAllocated = SumOver(s, h.blocks)
        /\ h.totalFreed = SumOver(s, Free(h))
    BY <1>14 DEF Accounted
  <2> HIDE DEF s, t
  <2>4. SumOver(t, h.blocks) = SumOver(s, h.blocks) /\ SumOver(t, h.blocks) \in Nat
    <3>1. \A a \in h.blocks : t[a] \in Nat
      BY <1>t, <2>1
    <3> QED BY <2>1, <2>2, <3>1, SumSame, SumNat
  <2>5. SumOver(t, Free(h)) = SumOver(s, Free(h))
    <3>1. \A a \in Free(h) : t[a] = s[a]
      BY <2>2 DEF Free
    <3> QED BY <2>1, <3>1, SumSame
  <2>6. SumOver(t, h.blocks \cup {top}) = t[top] + SumOver(t, h.blocks)
    <3>1. \A a \in h.blocks \cup {top} : t[a] \in Nat
      BY <1>t, <2>1
    <3> QED BY <1>2, <2>1, <3>1, SumMore
  <2>7. /\ r.totalAllocated = SumOver(t, r.blocks)
        /\ r.totalFreed = SumOver(t, Free(r))
    BY <1>t, <2>2, <2>3, <2>h, <2>4, <2>5, <2>6
  <2> QED BY <2>7 DEF Accounted, t
<1> QED BY <1>4, <1>6, <1>7, <1>8, <1>11, <1>12, <1>13, <1>14 DEF Held

\* The break may move on.
LEMMA SoundHigher ==
  ASSUME NEW h \in Heap, NEW F, NEW top \in Addr, NEW top2 \in Addr, Sound(h, F, top), top <= top2
  PROVE  Sound(h, F, top2)
<1>1. ASSUME NEW b \in h.blocks PROVE EndOf(h, b) <= top2
  <2>1. b \in Nat /\ h.dataSize[b] \in Nat /\ MetaSize \in Nat /\ top \in Nat /\ top2 \in Nat
    BY HeapFields, Pointers, MyMallocAssumption
  <2>2. EndOf(h, b) <= top /\ EndOf(h, b) \in Nat
    BY <2>1 DEF Sound, Layout, EndOf
  <2> QED BY <2>1, <2>2
<1>2. Layout(h, top2)
  BY <1>1 DEF Sound, Layout
<1> QED BY <1>2 DEF Sound

\* A held block marked free is not yet on the list.
LEMMA MarkFreeSound ==
  ASSUME NEW h \in Heap, NEW top, Sound(h, Free(h), top), NEW b \in Held(h),
         NEW r, r = markFree(h, b)
  PROVE  /\ r \in Heap
         /\ Sound(r, Free(h), top)
         /\ b \notin Free(h)
         /\ Free(r) = Free(h) \cup {b}
         /\ Held(r) = Held(h) \ {b}
         /\ r.blocks = h.blocks
         /\ r.dataSize = h.dataSize
         /\ r.head = h.head
         /\ r.tail = h.tail
         /\ r.next = h.next
         /\ r.prev = h.prev
         /\ Accounted(h) => Accounted(r)
<1>t. /\ b \in Addr /\ b \in h.blocks /\ h.allocated[b]
      /\ h.allocated \in [Addr -> BOOLEAN]
      /\ h.blocks \in SUBSET Addr
      /\ h.totalFreed + h.dataSize[b] + MetaSize \in Int
  BY HeapFields, MyMallocAssumption DEF Held
<1>1. r = [h EXCEPT !.allocated[b] = FALSE, !.totalFreed = @ + h.dataSize[b] + MetaSize]
  BY DEF markFree
<1>2. /\ r.blocks = h.blocks
      /\ r.dataSize = h.dataSize
      /\ r.allocated = [h.allocated EXCEPT ![b] = FALSE]
      /\ r.head = h.head /\ r.tail = h.tail
      /\ r.next = h.next /\ r.prev = h.prev
  BY <1>1 DEF Heap
<1>3. r \in Heap
  <2>1. \A n \in Int : [h EXCEPT !.allocated[b] = FALSE, !.totalFreed = n] \in Heap
    BY <1>t DEF Heap
  <2>2. r = [h EXCEPT !.allocated[b] = FALSE,
                      !.totalFreed = h.totalFreed + h.dataSize[b] + MetaSize]
    BY <1>1 DEF Heap
  <2> QED BY <1>t, <2>1, <2>2, Zenon
<1>4. /\ Free(r) = Free(h) \cup {b}
      /\ Held(r) = Held(h) \ {b}
      /\ b \notin Free(h)
  BY <1>2, <1>t DEF Free, Held
<1>5. Sound(r, Free(h), top)
  <2>1. ListOf(r, Free(h)) /\ Detached(r, Free(h))
    BY <1>2 DEF Sound, ListOf, Detached
  <2>2. Layout(r, top)
    BY <1>2 DEF Sound, Layout, EndOf
  <2> QED BY <1>2, <2>1, <2>2 DEF Sound
<1>6. ASSUME Accounted(h) PROVE Accounted(r)
  <2> DEFINE s == SizeOf(h)
  <2>1. /\ IsFiniteSet(h.blocks) /\ IsFiniteSet(Free(h)) /\ Free(h) \subseteq Addr
        /\ \A a \in Addr : s[a] = MetaSize + h.dataSize[a] /\ s[a] \in Nat
    BY Countable
  <2>2. /\ r.totalAllocated = h.totalAllocated
        /\ r.totalFreed = h.totalFreed + h.dataSize[b] + MetaSize
    BY <1>1 DEF Heap
  <2>3. SizeOf(r) = s
    BY <1>2 DEF SizeOf
  <2>h. /\ h.totalAllocated = SumOver(s, h.blocks)
        /\ h.totalFreed = SumOver(s, Free(h))
    BY <1>6 DEF Accounted
  <2> HIDE DEF s
  <2>4. SumOver(s, Free(h) \cup {b}) = s[b] + SumOver(s, Free(h)) /\ SumOver(s, Free(h)) \in Nat
    <3>1. \A a \in Free(h) \cup {b} : s[a] \in Nat
      BY <1>t, <2>1
    <3> QED BY <1>4, <2>1, <3>1, SumMore, SumNat
  <2>5. h.dataSize[b] \in Nat /\ MetaSize \in Nat
    BY <1>t, HeapFields, MyMallocAssumption
  <2> QED BY <1>2, <1>4, <1>t, <2>1, <2>2, <2>3, <2>h, <2>4, <2>5 DEF Accounted
<1> QED BY <1>2, <1>3, <1>4, <1>5, <1>6

-----------------------------------------------------------------------------
(***************************************************************************)
(* The inductive invariant.  Between two steps of a loop the code relies   *)
(* on what the loop has seen so far: SearchInv and FreeInv say what.       *)
(***************************************************************************)

Searching == pc \in {"findFirstFit", "findBestFit"}

\* Every free block the search has passed is too small, until it has found one.
SearchInv ==
  Searching =>
    /\ req \in Sizes
    /\ iter \in FreeBlocks \cup {NULL}
    /\ best \in FreeBlocks \cup {NULL}
    /\ best = NULL =>
         \A f \in FreeBlocks : (iter = NULL \/ f < iter) => heap.dataSize[f] < req
    /\ pc = "findFirstFit" => best = NULL

\* The block being freed belongs between head and tail, behind all that the loop
\* has passed.
FreeInv ==
  pc = "free" =>
    /\ block \in heap.blocks
    /\ ~heap.allocated[block]
    /\ heap.head \in FreeBlocks /\ heap.tail \in FreeBlocks
    /\ heap.head < block /\ block < heap.tail
    /\ iter \in FreeBlocks
    /\ \A f \in FreeBlocks : f < iter => f < block

IInv ==
  /\ TypeOK
  /\ Sound(heap, FreeBlocks, brk)
  /\ NoBlockLost
  /\ SearchInv
  /\ FreeInv

\* Outside the loop of free, the blocks on the list are all those marked free.
LEMMA FreeBlocksAre ==
  ASSUME pc # "free"
  PROVE  FreeBlocks = Free(heap)
BY DEF FreeBlocks, Free

\* What the client holds is what is marked allocated.
LEMMA HeldAre ==
  ASSUME TypeOK
  PROVE  NoBlockLost <=> \A b \in Addr : asked[b] # 0 <=> b \in Held(heap)
BY DEF NoBlockLost, Held

\* What a step may do to the client's blocks: one that stays held keeps its size.
HeldKeepSize == \A a \in Held(heap) \cap Held(heap') : heap'.dataSize[a] = heap.dataSize[a]

\* Blocks that come to touch do so at a tail that was not on the list.
NewSeamsAtTail == Seams' \ Seams \subseteq {heap'.tail} \ FreeBlocks

\* The totals of heap_info stay right if they were.
KeepsCount == Accounted(heap) => Accounted(heap')

LEMMA SeamsAre == Seams = SeamsOf(heap, FreeBlocks)
BY DEF Seams, SeamsOf

\* A call that returns leaves on the list what is marked free.
LEMMA ReturnSeams ==
  ASSUME pc' = "idle"
  PROVE  FreeBlocks' = Free(heap') /\ Seams' = SeamsOf(heap', Free(heap'))
BY DEF FreeBlocks, Free, Seams, SeamsOf, EndOf

\* The step hands block b to the client for the size it asked for.
HandsOut(b) ==
  /\ b \in Addr /\ asked[b] = 0 /\ req \in Sizes
  /\ asked' = [asked EXCEPT ![b] = req]

\* A call that returns a sound heap keeps the invariant.
LEMMA ReturnInv ==
  ASSUME TypeOK', Return, Sound(heap', Free(heap'), brk'), NoBlockLost'
  PROVE  IInv'
<1>1. pc' = "idle"
  BY DEF Return
<1>2. FreeBlocks' = Free(heap')
  BY <1>1 DEF FreeBlocks, Free
<1> QED BY <1>1, <1>2 DEF IInv, SearchInv, Searching, FreeInv

-----------------------------------------------------------------------------
\* The data segment may start anywhere.
LEMMA InitAtInv ==
  ASSUME NEW start \in Addr, InitAt(start)
  PROVE  IInv /\ Accounted(heap)
<1>1. TypeOK
  BY MyMallocAssumption DEF InitAt, InitHeap, TypeOK, Heap, Addr, Ptr, NULL
<1>2. FreeBlocks = {} /\ Free(heap) = {} /\ heap.blocks = {}
  BY DEF InitAt, InitHeap, FreeBlocks, Free
<1>3. Sound(heap, FreeBlocks, brk)
  BY <1>2 DEF InitAt, InitHeap, Sound, ListOf, Chained, Detached, Layout, NULL
<1>4. NoBlockLost
  BY DEF InitAt, InitHeap, NoBlockLost
<1>5. Accounted(heap)
  <2>1. heap.totalAllocated = 0 /\ heap.totalFreed = 0
    BY DEF InitAt, InitHeap
  <2>2. SumOver(SizeOf(heap), {}) = 0
    BY SumEmpty
  <2> QED BY <1>2, <2>1, <2>2 DEF Accounted
<1> QED BY <1>1, <1>3, <1>4, <1>5 DEF InitAt, IInv, SearchInv, Searching, FreeInv

LEMMA InitInv == Init => IInv /\ Accounted(heap)
<1> SUFFICES ASSUME Init PROVE IInv /\ Accounted(heap)
  OBVIOUS
<1>1. 1 \in Addr
  BY MyMallocAssumption DEF Addr
<1> QED BY <1>1, InitAtInv DEF Init

\* ff_malloc and bf_malloc enter their search.
LEMMA StartSearchInv ==
  ASSUME IInv, NEW size \in Sizes, NEW loop \in {"findFirstFit", "findBestFit"},
         StartSearch(size, loop)
  PROVE  IInv'
<1>1. /\ pc = "idle" /\ pc' = loop /\ iter' = heap.head /\ best' = NULL /\ req' = size
      /\ heap' = heap /\ brk' = brk /\ errno' = errno /\ block' = block /\ asked' = asked
  BY DEF StartSearch
<1>2. FreeBlocks' = FreeBlocks
  BY <1>1 DEF FreeBlocks
<1>3. TypeOK'
  BY <1>1 DEF IInv, TypeOK, Heap, Ptr
<1>4. SearchInv'
  <2>1. \A f \in FreeBlocks : heap.head # NULL /\ ~(f < heap.head)
    <3>1. \A f \in FreeBlocks : heap.head \in Nat /\ f \in Nat /\ heap.head <= f
      BY HeapFields, Pointers DEF IInv, TypeOK, Sound, ListOf, Chained
    <3> QED BY <3>1 DEF IInv, Sound, ListOf, Chained, NULL
  <2>2. heap.head \in FreeBlocks \cup {NULL}
    BY DEF IInv, Sound, ListOf, Chained, NULL
  <2> QED BY <1>1, <1>2, <2>1, <2>2 DEF SearchInv
<1> QED BY <1>1, <1>2, <1>3, <1>4 DEF IInv, NoBlockLost, FreeInv

\* The block a search settles on is taken.
LEMMA TakeBlockInv ==
  ASSUME IInv, Searching, NEW b \in FreeBlocks, TakeBlock(b)
  PROVE  /\ IInv'
         /\ HeldKeepSize
         /\ HandsOut(b)
         /\ req <= heap.dataSize[b] => req <= heap'.dataSize[b]
         /\ brk' = brk
         /\ NewSeamsAtTail
         /\ KeepsCount
<1> DEFINE r == splitMemoryBlock(heap, b, req)
<1>1. /\ heap' = r /\ asked' = [asked EXCEPT ![b] = req]
      /\ brk' = brk /\ errno' = errno /\ Return
  BY DEF TakeBlock
<1>t. /\ heap \in Heap /\ brk \in Addr /\ asked \in [Addr -> Sizes \cup {0}]
      /\ req \in Sizes /\ req \in Nat \ {0} /\ FreeBlocks = Free(heap) /\ b \in Addr
  BY FreeBlocksAre, HeapFields, MyMallocAssumption DEF IInv, TypeOK, SearchInv, Searching, Free
<1> HIDE DEF r
<1>2. /\ r \in Heap
      /\ Sound(r, Free(r), brk)
      /\ Held(r) = Held(heap) \cup {b}
      /\ \A a \in Held(heap) : r.dataSize[a] = heap.dataSize[a]
      /\ req <= heap.dataSize[b] => req <= r.dataSize[b]
      /\ SeamsOf(r, Free(r)) \subseteq SeamsOf(heap, Free(heap))
      /\ Accounted(heap) => Accounted(r)
  BY <1>t, SplitSound DEF IInv, r
<1>3. TypeOK'
  BY <1>1, <1>2, <1>t DEF IInv, TypeOK, Return, Ptr
<1>4. NoBlockLost'
  <2>1. \A a \in Addr : asked'[a] # 0 <=> a \in Held(heap')
    BY <1>1, <1>2, <1>t, HeldAre DEF IInv
  <2> QED BY <2>1 DEF NoBlockLost, Held
<1>5. HeldKeepSize
  BY <1>1, <1>2 DEF HeldKeepSize
<1>6. HandsOut(b)
  <2>1. asked[b] = 0
    BY <1>t, HeldAre DEF IInv, Free, Held
  <2> QED BY <1>1, <1>t, <2>1 DEF HandsOut
<1>7. NewSeamsAtTail
  BY <1>1, <1>2, <1>t, SeamsAre, ReturnSeams DEF NewSeamsAtTail, Return
<1>8. KeepsCount
  BY <1>1, <1>2 DEF KeepsCount
<1> QED BY <1>1, <1>2, <1>3, <1>4, <1>5, <1>6, <1>7, <1>8, ReturnInv

\* A search that found nothing asks sbrk, whatever comes of it.
LEMMA allocateMemoryInv ==
  ASSUME IInv, Searching, allocateMemory
  PROVE  /\ IInv'
         /\ HeldKeepSize
         /\ asked' = asked \/ (HandsOut(brk) /\ heap'.dataSize[brk] = req)
         /\ brk \notin FreeBlocks
         /\ NewSeamsAtTail
         /\ KeepsCount
<1>t. /\ heap \in Heap /\ brk \in Addr /\ asked \in [Addr -> Sizes \cup {0}]
      /\ req \in Sizes /\ req \in Nat \ {0} /\ FreeBlocks = Free(heap)
      /\ errno \in {"ENOMEM", "other"} /\ MetaSize \in Nat \ {0} /\ brk \in Nat
      /\ Sound(heap, Free(heap), brk)
  BY FreeBlocksAre, Pointers, MyMallocAssumption DEF IInv, TypeOK, SearchInv, Searching
<1>r. Return
  BY DEF allocateMemory
<1>b. brk \notin heap.blocks
  <2>1. ASSUME brk \in heap.blocks PROVE FALSE
    <3>1. brk + MetaSize + heap.dataSize[brk] <= brk
      BY <1>t, <2>1 DEF Sound, Layout, EndOf
    <3> QED BY <1>t, <3>1, HeapFields
  <2> QED BY <2>1
<1>1. CASE heap' = heap /\ asked' = asked /\ brk' \in Addr /\ brk <= brk'
           /\ errno' \in {"ENOMEM", "other"}
  <2>1. TypeOK'
    BY <1>1, <1>r, <1>t DEF TypeOK, Return, Ptr
  <2>2. Sound(heap', Free(heap'), brk')
    BY <1>1, <1>t, SoundHigher
  <2>3. NoBlockLost'
    BY <1>1 DEF IInv, NoBlockLost
  <2>4. HeldKeepSize
    BY <1>1 DEF HeldKeepSize
  <2>5. NewSeamsAtTail
    BY <1>1, <1>r, <1>t, SeamsAre, ReturnSeams DEF NewSeamsAtTail, Return
  <2>6. KeepsCount
    BY <1>1 DEF KeepsCount
  <2> QED BY <1>1, <1>r, <1>b, <2>1, <2>2, <2>3, <2>4, <2>5, <2>6, ReturnInv DEF FreeBlocks
<1>2. CASE /\ brk' = brk + (req + MetaSize) /\ brk' \in Addr /\ errno' = errno
           /\ heap' = newBlock(heap, brk, req)
           /\ asked' = [asked EXCEPT ![brk] = req]
  <2> DEFINE r == newBlock(heap, brk, req)
  <2>1. /\ r \in Heap
        /\ Sound(r, Free(r), brk + (req + MetaSize))
        /\ Held(r) = Held(heap) \cup {brk}
        /\ \A a \in Held(heap) : r.dataSize[a] = heap.dataSize[a]
        /\ r.dataSize[brk] = req
        /\ SeamsOf(r, Free(r)) = SeamsOf(heap, Free(heap))
        /\ Accounted(heap) => Accounted(r)
    BY <1>t, NewBlockSound
  <2>2. heap' = r
    BY <1>2
  <2> HIDE DEF r
  <2>3. TypeOK'
    BY <1>2, <1>r, <1>t, <2>1, <2>2 DEF TypeOK, Return, Ptr
  <2>4. NoBlockLost'
    <3>1. \A a \in Addr : asked'[a] # 0 <=> a \in Held(heap')
      BY <1>2, <1>t, <2>1, <2>2, HeldAre DEF IInv
    <3> QED BY <3>1 DEF NoBlockLost, Held
  <2>5. HeldKeepSize
    BY <2>1, <2>2 DEF HeldKeepSize
  <2>6. HandsOut(brk)
    <3>1. asked[brk] = 0
      BY <1>b, <1>t, HeldAre DEF IInv, Held
    <3> QED BY <1>2, <1>t, <3>1 DEF HandsOut
  <2>7. NewSeamsAtTail
    BY <1>r, <1>t, <2>1, <2>2, SeamsAre, ReturnSeams DEF NewSeamsAtTail, Return
  <2>8. KeepsCount
    BY <2>1, <2>2 DEF KeepsCount
  <2> QED BY <1>2, <1>r, <1>b, <2>1, <2>2, <2>3, <2>4, <2>5, <2>6, <2>7, <2>8, ReturnInv DEF FreeBlocks
<1>3. brk + (req + MetaSize) <= HeapLimit => brk + (req + MetaSize) \in Addr
  BY <1>t DEF Addr
<1>4. brk <= brk + (req + MetaSize)
  BY <1>t
<1> QED BY <1>1, <1>2, <1>3, <1>4, <1>t DEF allocateMemory

\* The pointer of a search moves on past a block that is too small.
LEMMA NextFreeBlock ==
  ASSUME IInv, NEW f \in FreeBlocks
  PROVE  /\ heap.next[f] \in FreeBlocks \cup {NULL}
         /\ \A g \in FreeBlocks :
              (heap.next[f] = NULL \/ g < heap.next[f]) => g < f \/ g = f
         /\ f # heap.tail => heap.next[f] \in FreeBlocks
<1>1. /\ heap.next[f] \in FreeBlocks \cup {NULL}
      /\ f # heap.tail => heap.next[f] \in FreeBlocks
  BY DEF IInv, Sound, ListOf, Chained, NULL
<1>2. ASSUME NEW g \in FreeBlocks, heap.next[f] = NULL \/ g < heap.next[f]
      PROVE  g < f \/ g = f
  <2>1. g \in Nat /\ f \in Nat /\ f # 0
    BY HeapFields, Pointers DEF IInv, TypeOK, Sound
  <2>2. f = heap.tail => g <= f
    BY DEF IInv, Sound, ListOf, Chained
  <2>3. f # heap.tail => /\ heap.next[f] \in Nat /\ heap.next[f] # 0
                         /\ g <= f \/ heap.next[f] <= g
    BY <1>1, HeapFields, Pointers DEF IInv, TypeOK, Sound, ListOf, Chained
  <2> QED BY <1>2, <2>1, <2>2, <2>3 DEF NULL
<1> QED BY <1>1, <1>2

LEMMA findFirstFitInv ==
  ASSUME IInv, findFirstFit
  PROVE  IInv'
<1>1. pc = "findFirstFit" /\ Searching
  BY DEF findFirstFit, Searching
<1>2. CASE iter = NULL /\ allocateMemory
  BY <1>1, <1>2, allocateMemoryInv
<1>3. CASE iter # NULL /\ TakeBlock(iter)
  BY <1>1, <1>3, TakeBlockInv DEF IInv, SearchInv
<1>4. CASE /\ iter # NULL /\ heap.dataSize[iter] < req /\ iter' = heap.next[iter]
           /\ UNCHANGED <<heap, brk, errno, pc, best, req, block, asked>>
  <2>1. iter \in FreeBlocks /\ FreeBlocks' = FreeBlocks
    BY <1>1, <1>4 DEF IInv, SearchInv, FreeBlocks
  <2>2. TypeOK'
    BY <1>4, <2>1, HeapFields DEF IInv, TypeOK, FreeBlocks
  <2>3. SearchInv'
    <3>1. \A f \in FreeBlocks :
            (heap.next[iter] = NULL \/ f < heap.next[iter]) => heap.dataSize[f] < req
      BY <1>1, <1>4, <2>1, NextFreeBlock DEF IInv, SearchInv
    <3> QED BY <1>1, <1>4, <2>1, <3>1, NextFreeBlock DEF IInv, SearchInv, Searching
  <2> QED BY <1>1, <1>4, <2>1, <2>2, <2>3 DEF IInv, NoBlockLost, FreeInv
<1> QED BY <1>2, <1>3, <1>4 DEF findFirstFit

LEMMA findBestFitInv ==
  ASSUME IInv, findBestFit
  PROVE  IInv'
<1>1. pc = "findBestFit" /\ Searching
  BY DEF findBestFit, Searching
<1>2. CASE allocateMemory
  BY <1>1, <1>2, allocateMemoryInv
<1>3. CASE /\ (iter # NULL) \/ (best # NULL)
           /\ TakeBlock(heap.head)
  <2>1. heap.head \in FreeBlocks
    BY <1>1, <1>3 DEF IInv, SearchInv, Sound, ListOf, Chained
  <2> QED BY <1>1, <1>3, <2>1, TakeBlockInv
<1>4. CASE /\ iter # NULL /\ heap.dataSize[iter] # req
           /\ best' = IF heap.dataSize[iter] > req THEN Better(iter) ELSE best
           /\ iter' = heap.next[iter]
           /\ UNCHANGED <<heap, brk, errno, pc, req, block, asked>>
  <2>1. iter \in FreeBlocks /\ FreeBlocks' = FreeBlocks
    BY <1>1, <1>4 DEF IInv, SearchInv, FreeBlocks
  <2>n. /\ heap.dataSize[iter] \in Nat /\ req \in Nat /\ iter # NULL
        /\ FreeBlocks \in SUBSET Addr
    <3>1. FreeBlocks \in SUBSET Addr
      BY HeapFields DEF IInv, TypeOK, FreeBlocks
    <3> QED BY <1>1, <1>4, <2>1, <3>1, HeapFields, MyMallocAssumption DEF IInv, TypeOK, SearchInv
  <2>2. best' \in FreeBlocks \cup {NULL} /\ (best' = NULL => best = NULL /\ heap.dataSize[iter] < req)
    <3>1. CASE heap.dataSize[iter] > req
      BY <1>1, <1>4, <2>1, <2>n, <3>1 DEF IInv, SearchInv, Better
    <3>2. CASE heap.dataSize[iter] < req
      BY <1>1, <1>4, <2>1, <2>n, <3>2 DEF IInv, SearchInv
    <3> QED BY <1>4, <2>n, <3>1, <3>2
  <2>3. TypeOK'
    BY <1>4, <2>1, <2>2, <2>n, HeapFields DEF IInv, TypeOK, Ptr
  <2>4. SearchInv'
    <3>1. best' = NULL =>
            \A f \in FreeBlocks :
              (heap.next[iter] = NULL \/ f < heap.next[iter]) => heap.dataSize[f] < req
      BY <1>1, <2>1, <2>2, NextFreeBlock DEF IInv, SearchInv
    <3> QED BY <1>1, <1>4, <2>1, <2>2, <3>1, NextFreeBlock DEF IInv, SearchInv, Searching
  <2> QED BY <1>1, <1>4, <2>1, <2>3, <2>4 DEF IInv, NoBlockLost, FreeInv
<1> QED BY <1>2, <1>3, <1>4 DEF findBestFit

-----------------------------------------------------------------------------
(***************************************************************************)
(* free                                                                    *)
(***************************************************************************)

\* A heap with the freed block back on the list keeps the invariant when the
\* call returns.
LEMMA FreedInv ==
  ASSUME IInv, Return, heap' \in Heap, Sound(heap', Free(heap'), brk),
         brk' = brk, errno' = errno, NEW b \in Addr,
         asked' \in [Addr -> Sizes \cup {0}],
         \A a \in Addr : asked'[a] # 0 <=> a \in Held(heap')
  PROVE  IInv'
<1>1. TypeOK'
  BY DEF IInv, TypeOK, Return, Ptr
<1>2. NoBlockLost'
  BY DEF NoBlockLost, Held
<1> QED BY <1>1, <1>2, ReturnInv

LEMMA ff_freeInv ==
  ASSUME IInv, NEW b \in Addr, ff_free(b)
  PROVE  IInv' /\ HeldKeepSize /\ NewSeamsAtTail /\ KeepsCount
<1> DEFINE g == markFree(heap, b)
           F == Free(heap)
<1>1. /\ pc = "idle" /\ asked[b] # 0 /\ asked' = [asked EXCEPT ![b] = 0]
      /\ brk' = brk /\ errno' = errno
  BY DEF ff_free
<1>t. /\ heap \in Heap /\ brk \in Addr /\ asked \in [Addr -> Sizes \cup {0}]
      /\ F = FreeBlocks /\ F \in SUBSET Addr /\ Sound(heap, F, brk)
      /\ b \in Held(heap) /\ heap.allocated[b] /\ b \in heap.blocks
  BY <1>1, FreeBlocksAre, HeldAre, HeapFields DEF IInv, TypeOK, Free, Held
<1>2. /\ g \in Heap
      /\ Sound(g, F, brk)
      /\ b \notin F
      /\ Free(g) = F \cup {b}
      /\ Held(g) = Held(heap) \ {b}
      /\ g.blocks = heap.blocks
      /\ g.dataSize = heap.dataSize
      /\ g.head = heap.head
      /\ g.tail = heap.tail
      /\ Accounted(heap) => Accounted(g)
  BY <1>t, MarkFreeSound
<1>3. /\ asked' \in [Addr -> Sizes \cup {0}]
      /\ \A a \in Addr : asked'[a] # 0 <=> a \in Held(g)
  BY <1>1, <1>2, <1>t, HeldAre DEF IInv
<1>n. /\ b \in Nat /\ b # 0 /\ \A f \in F : f \in Nat /\ f # 0
      /\ F = {} <=> heap.head = 0
      /\ F = {} <=> heap.tail = 0
      /\ F # {} => heap.head \in F /\ heap.tail \in F
      /\ \A f \in F : heap.head <= f /\ f <= heap.tail
  <2>1. b \in Nat /\ b # 0 /\ \A f \in F : f \in Nat /\ f # 0
    BY <1>t, Pointers
  <2>2. Chained(F, heap.head, heap.tail, heap.next, heap.prev)
    BY <1>t DEF Sound, ListOf
  <2> HIDE DEF F
  <2> QED BY <2>1, <2>2 DEF Chained
<1>s. Seams = SeamsOf(heap, F)
  BY <1>t, SeamsAre
<1> HIDE DEF g, F
<1>4. CASE isEmptyFreeList(heap) \/ b > heap.tail
  <2> DEFINE a == appendToFreeList(g, b)
  <2>1. \A f \in F : f < b
    BY <1>4, <1>n, <1>2 DEF isEmptyFreeList, NULL
  <2>2. /\ a \in Heap
        /\ SameData(g, a)
        /\ a.allocated = [g.allocated EXCEPT ![b] = FALSE]
        /\ ListOf(a, F \cup {b})
        /\ Detached(a, F \cup {b})
        /\ a.tail = b
    BY <1>t, <1>2, <2>1, AppendSound DEF Sound
  <2> HIDE DEF a
  <2>3. Free(a) = F \cup {b} /\ Held(a) = Held(g)
    <3>1. g.allocated \in [Addr -> BOOLEAN] /\ ~g.allocated[b]
      BY <1>2, <1>t, HeapFields DEF Free
    <3>2. \A x \in Addr : a.allocated[x] <=> g.allocated[x]
      BY <2>2, <3>1, <1>t
    <3>3. a.blocks = g.blocks /\ g.blocks \in SUBSET Addr
      BY <1>2, <2>2, HeapFields DEF SameData
    <3>4. Free(a) = Free(g) /\ Held(a) = Held(g)
      BY <3>2, <3>3 DEF Free, Held
    <3> QED BY <1>2, <3>4
  <2>4. Sound(a, Free(a), brk)
    <3>1. Layout(a, brk)
      BY <1>2, <2>2 DEF Sound, Layout, EndOf, SameData
    <3>2. Free(a) \subseteq a.blocks
      BY DEF Free
    <3> QED BY <2>2, <2>3, <3>1, <3>2 DEF Sound
  <2>5. ~(b > a.tail)
    BY <2>2, <1>n
  <2>6. b > heap.tail => ~(b <= heap.tail)
    <3>1. heap.tail \in Nat
      BY <1>t, HeapFields, Pointers
    <3> QED BY <3>1, <1>n
  <2>7. heap' = a /\ Return
    BY <1>4, <1>t, <2>5, <2>6 DEF ff_free, appendFreed, g, a
  <2>8. HeldKeepSize
    BY <1>2, <2>2, <2>7 DEF HeldKeepSize, SameData
  <2>9. NewSeamsAtTail
    <3>1. SeamsOf(a, F \cup {b}) \subseteq SeamsOf(heap, F) \cup {b}
      <4>1. \A x \in F \cup {b} : EndOf(a, x) = EndOf(heap, x)
        BY <1>2, <2>2 DEF EndOf, SameData
      <4>2. \A c \in F : EndOf(heap, b) # c
        <5>1. MetaSize \in Nat /\ heap.dataSize[b] \in Nat
          BY <1>t, HeapFields, MyMallocAssumption
        <5> QED BY <1>n, <2>1, <5>1 DEF EndOf
      <4> QED BY <4>1, <4>2 DEF SeamsOf
    <3>2. Seams' = SeamsOf(a, F \cup {b}) /\ heap'.tail = b
      BY <2>2, <2>3, <2>7, ReturnSeams DEF Return
    <3> QED BY <1>2, <1>s, <1>t, <3>1, <3>2 DEF NewSeamsAtTail
  <2>10. KeepsCount
    BY <1>2, <2>2, <2>3, <2>7, AccountedSame DEF KeepsCount
  <2> QED BY <1>1, <1>3, <2>2, <2>3, <2>4, <2>7, <2>8, <2>9, <2>10, FreedInv
<1>5. CASE ~isEmptyFreeList(heap) /\ b <= heap.tail /\ b < heap.head
  <2> DEFINE i == insertIntoFreeList(g, b, NULL)
             c == coalesceWithRight(i, b)
  <2>1. F # {}
    BY <1>5, <1>n DEF isEmptyFreeList, NULL
  <2>2. /\ i \in Heap
        /\ SameData(g, i)
        /\ i.allocated = g.allocated
        /\ ListOf(i, F \cup {b})
        /\ Detached(i, F \cup {b})
    <3>1. b \in Addr \ F /\ NULL \in F \cup {NULL} /\ b < g.head
      BY <1>5, <1>2
    <3> QED BY <1>t, <1>2, <2>1, <3>1, InsertSound DEF Sound
  <2> HIDE DEF i
  <2>3. Free(i) = F \cup {b} /\ Held(i) = Held(g)
    BY <1>2, <2>2 DEF Free, Held, SameData
  <2>4. Sound(i, Free(i), brk)
    <3>1. Layout(i, brk)
      BY <1>2, <2>2 DEF Sound, Layout, EndOf, SameData
    <3>2. Free(i) \subseteq i.blocks
      BY DEF Free
    <3> QED BY <2>2, <2>3, <3>1, <3>2 DEF Sound
  <2>5. /\ c \in Heap /\ Sound(c, Free(c), brk) /\ Held(c) = Held(i)
        /\ \A a \in Held(i) : c.dataSize[a] = i.dataSize[a]
        /\ Free(c) \subseteq Free(i)
        /\ SeamsOf(c, Free(c)) \subseteq SeamsOf(i, Free(i) \ {b}) \cup {b}
        /\ Accounted(i) => Accounted(c)
    <3>1. i \in Heap /\ brk \in Addr /\ b \in Free(i)
      BY <1>t, <2>2, <2>3
    <3>2. PICK r : r = coalesceWithRight(i, b)
      OBVIOUS
    <3> HIDE DEF c
    <3>3. /\ r \in Heap /\ Sound(r, Free(r), brk) /\ Held(r) = Held(i)
          /\ \A a \in Held(i) : r.dataSize[a] = i.dataSize[a]
          /\ Free(r) \subseteq Free(i)
          /\ SeamsOf(r, Free(r)) \subseteq SeamsOf(i, Free(i) \ {b}) \cup {b}
          /\ Accounted(i) => Accounted(r)
      BY <2>4, <3>1, <3>2, CoalesceRightSound
    <3> QED BY <3>2, <3>3 DEF c
  <2>6. heap' = c /\ Return
    <3>1. ~(b > heap.tail) /\ ~(b >= heap.head)
      BY <1>5, <1>n, <2>1
    <3> QED BY <1>5, <1>t, <3>1 DEF ff_free, g, i
  <2> HIDE DEF c
  <2>7. HeldKeepSize
    BY <1>2, <2>2, <2>5, <2>6 DEF HeldKeepSize, SameData
  <2>8. NewSeamsAtTail
    <3>1. \A x \in F : EndOf(i, x) = EndOf(heap, x)
      BY <1>2, <2>2 DEF EndOf, SameData
    <3>2. SeamsOf(i, F) = SeamsOf(heap, F)
      BY <3>1 DEF SeamsOf
    <3>3. b \notin SeamsOf(c, Free(c))
      <4>1. ASSUME b \in Free(c), NEW x \in Free(c), EndOf(c, x) = b
            PROVE  x < b /\ x # b
        BY <2>5, <4>1, SeamIsLink
      <4>2. \A x \in F : b < x
        <5>1. heap.head \in Nat
          BY <1>t, HeapFields, Pointers
        <5> QED BY <1>5, <1>n, <5>1
      <4>3. \A x \in Free(c) : x = b \/ x \in F
        BY <1>2, <2>3, <2>5
      <4> QED BY <1>n, <4>1, <4>2, <4>3 DEF SeamsOf
    <3>4. Free(i) \ {b} = F
      BY <1>2, <2>3
    <3>5. Seams' = SeamsOf(c, Free(c))
      BY <2>6, ReturnSeams DEF Return
    <3> QED BY <1>s, <2>5, <3>2, <3>3, <3>4, <3>5 DEF NewSeamsAtTail
  <2>9. KeepsCount
    BY <1>2, <2>2, <2>3, <2>5, <2>6, AccountedSame DEF KeepsCount
  <2> QED BY <1>1, <1>3, <2>3, <2>5, <2>6, <2>7, <2>8, <2>9, FreedInv
<1>6. CASE ~isEmptyFreeList(heap) /\ b <= heap.tail /\ b >= heap.head
  <2>1. F # {}
    BY <1>6, <1>n DEF isEmptyFreeList, NULL
  <2>2. heap.head < b /\ b < heap.tail /\ ~(b > heap.tail) /\ ~(b < heap.head)
    BY <1>6, <1>2, <1>n, <2>1
  <2>3. /\ heap' = g /\ pc' = "free" /\ iter' = heap.head /\ block' = b
        /\ best' = best /\ req' = req
    BY <1>6, <1>t, <2>2 DEF ff_free, g
  <2>4. FreeBlocks' = F
    BY <1>2, <2>3 DEF FreeBlocks, Free
  <2>5. TypeOK'
    BY <1>1, <1>2, <1>3, <1>t, <2>3, HeapFields DEF IInv, TypeOK, Ptr
  <2>6. NoBlockLost'
    BY <1>3, <2>3 DEF NoBlockLost, Held
  <2>7. SearchInv'
    BY <2>3 DEF SearchInv, Searching
  <2>8. FreeInv'
    <3>1. ~g.allocated[b] /\ b \in g.blocks
      BY <1>2, <1>t DEF Free
    <3>2. \A f \in F : f < heap.head => f < b
      BY <1>n, <2>1
    <3> QED BY <1>2, <1>n, <2>1, <2>2, <2>3, <2>4, <3>1, <3>2 DEF FreeInv
  <2>9. HeldKeepSize
    BY <1>2, <2>3 DEF HeldKeepSize
  <2>10. NewSeamsAtTail
    <3>1. Seams' = Seams
      BY <1>2, <1>t, <2>3, <2>4 DEF Seams, EndOf
    <3> QED BY <3>1 DEF NewSeamsAtTail
  <2>11. KeepsCount
    BY <1>2, <2>3 DEF KeepsCount
  <2> QED BY <1>1, <1>2, <2>3, <2>4, <2>5, <2>6, <2>7, <2>8, <2>9, <2>10, <2>11 DEF IInv
<1> QED
  <2>1. heap.tail \in Nat /\ heap.head \in Nat
    BY <1>t, HeapFields, Pointers
  <2> QED BY <1>4, <1>5, <1>6, <1>n, <2>1

LEMMA freeMemoryBlockInv ==
  ASSUME IInv, freeMemoryBlock
  PROVE  IInv' /\ HeldKeepSize /\ NewSeamsAtTail /\ KeepsCount
<1> DEFINE F == FreeBlocks
<1>1. /\ pc = "free" /\ brk' = brk /\ errno' = errno /\ asked' = asked
  BY DEF freeMemoryBlock
<1>t. /\ heap \in Heap /\ brk \in Addr /\ asked \in [Addr -> Sizes \cup {0}]
      /\ F \in SUBSET Addr /\ Sound(heap, F, brk)
      /\ F = Free(heap) \ {block}
      /\ block \in heap.blocks /\ block \in Addr /\ ~heap.allocated[block]
      /\ F \cup {block} = Free(heap)
      /\ \A a \in Addr : asked[a] # 0 <=> a \in Held(heap)
  BY <1>1, HeldAre, HeapFields DEF IInv, TypeOK, FreeInv, FreeBlocks, Free
<1>n. /\ block \in Nat /\ block \notin F /\ iter \in F
      /\ \A f \in F : f \in Nat /\ f # 0
      /\ heap.head \in F /\ heap.tail \in F /\ heap.head < block /\ block < heap.tail
      /\ \A f \in F : f < iter => f < block
  <2>1. block \in Nat /\ \A f \in F : f \in Nat /\ f # 0
    BY <1>t, Pointers
  <2> QED BY <1>1, <1>t, <2>1 DEF IInv, FreeInv
<1>2. CASE iter < block
  <2>1. /\ iter' = heap.next[iter]
        /\ UNCHANGED <<heap, pc, best, req, block>>
    <3>1. ~(iter >= block)
      BY <1>2, <1>n
    <3> QED BY <3>1 DEF freeMemoryBlock
  <2>2. iter # heap.tail
    BY <1>2, <1>n
  <2>3. /\ heap.next[iter] \in F
        /\ \A f \in F : f < heap.next[iter] => f < iter \/ f = iter
    BY <1>n, <2>2, NextFreeBlock
  <2>4. FreeBlocks' = F
    BY <2>1 DEF FreeBlocks
  <2>5. TypeOK'
    BY <1>1, <1>t, <2>1, <2>3 DEF IInv, TypeOK, Ptr
  <2>6. \A f \in F : f < heap.next[iter] => f < block
    BY <1>2, <1>n, <2>3
  <2>7. FreeInv'
    BY <1>1, <1>n, <1>t, <2>1, <2>3, <2>4, <2>6 DEF FreeInv
  <2> HIDE DEF F
  <2>8. HeldKeepSize
    BY <2>1 DEF HeldKeepSize
  <2>9. NewSeamsAtTail
    <3>1. FreeBlocks' = FreeBlocks
      BY <2>1 DEF FreeBlocks
    <3> QED BY <2>1, <3>1 DEF NewSeamsAtTail, Seams, EndOf
  <2>10. KeepsCount
    BY <2>1 DEF KeepsCount
  <2> QED BY <1>1, <1>t, <2>1, <2>4, <2>5, <2>7, <2>8, <2>9, <2>10 DEF IInv, NoBlockLost, SearchInv, Searching
<1>3. CASE iter >= block
  <2> DEFINE curr == heap.prev[iter]
             i == insertIntoFreeList(heap, block, curr)
             c == coalesceWithRight(i, block)
             d == coalesceWithLeft(c, block)
  <2>1. heap' = d /\ Return
    <3>1. ~(iter < block)
      BY <1>3, <1>n
    <3> QED BY <3>1 DEF freeMemoryBlock
  <2>2. /\ curr \in F /\ curr < iter /\ heap.next[curr] = iter
    <3>1. iter # heap.head
      BY <1>3, <1>n
    <3> QED BY <1>t, <1>n, <3>1 DEF Sound, ListOf, Chained
  <2> HIDE DEF curr, F
  <2>3. curr < block /\ block < iter /\ curr # NULL
    BY <1>3, <1>n, <2>2 DEF NULL
  <2>4. /\ i \in Heap
        /\ SameData(heap, i)
        /\ i.allocated = heap.allocated
        /\ ListOf(i, F \cup {block})
        /\ Detached(i, F \cup {block})
    <3>1. block \in Addr \ F /\ F # {} /\ curr \in F \cup {NULL}
      BY <1>t, <1>n, <2>2
    <3> QED BY <1>t, <2>2, <2>3, <3>1, InsertSound DEF Sound
  <2> HIDE DEF i
  <2>5. Free(i) = F \cup {block} /\ Held(i) = Held(heap)
    BY <1>t, <2>4 DEF Free, Held, SameData
  <2>6. Sound(i, Free(i), brk)
    <3>1. Layout(i, brk)
      BY <1>t, <2>4 DEF Sound, Layout, EndOf, SameData
    <3>2. Free(i) \subseteq i.blocks
      BY DEF Free
    <3> QED BY <2>4, <2>5, <3>1, <3>2 DEF Sound
  <2>7. /\ c \in Heap /\ Sound(c, Free(c), brk) /\ Held(c) = Held(i) /\ block \in Free(c)
        /\ \A a \in Held(i) : c.dataSize[a] = i.dataSize[a]
        /\ SeamsOf(c, Free(c)) \subseteq SeamsOf(i, Free(i) \ {block}) \cup {block}
        /\ Accounted(i) => Accounted(c)
    <3>1. i \in Heap /\ block \in Free(i) /\ brk \in Addr
      BY <1>t, <2>4, <2>5
    <3>2. PICK r : r = coalesceWithRight(i, block)
      OBVIOUS
    <3> HIDE DEF c
    <3>3. /\ r \in Heap /\ Sound(r, Free(r), brk) /\ Held(r) = Held(i) /\ block \in Free(r)
          /\ \A a \in Held(i) : r.dataSize[a] = i.dataSize[a]
          /\ SeamsOf(r, Free(r)) \subseteq SeamsOf(i, Free(i) \ {block}) \cup {block}
          /\ Accounted(i) => Accounted(r)
      BY <2>6, <3>1, <3>2, CoalesceRightSound
    <3> QED BY <3>2, <3>3 DEF c
  <2> HIDE DEF c
  <2>8. /\ d \in Heap /\ Sound(d, Free(d), brk) /\ Held(d) = Held(c)
        /\ \A a \in Held(c) : d.dataSize[a] = c.dataSize[a]
        /\ SeamsOf(d, Free(d)) \subseteq SeamsOf(c, Free(c)) \ {block}
        /\ Accounted(c) => Accounted(d)
    BY <1>t, <2>7, CoalesceLeftSound
  <2> HIDE DEF d
  <2>9. HeldKeepSize
    BY <2>1, <2>4, <2>5, <2>7, <2>8 DEF HeldKeepSize, SameData
  <2>10. NewSeamsAtTail
    <3>1. \A x \in F : EndOf(i, x) = EndOf(heap, x)
      BY <2>4 DEF EndOf, SameData
    <3>2. SeamsOf(i, F) = SeamsOf(heap, F)
      BY <3>1 DEF SeamsOf
    <3>3. Free(i) \ {block} = F
      BY <1>n, <2>5
    <3>4. Seams' = SeamsOf(d, Free(d)) /\ Seams = SeamsOf(heap, F)
      BY <2>1, ReturnSeams, SeamsAre DEF Return, F
    <3> QED BY <2>7, <2>8, <3>2, <3>3, <3>4 DEF NewSeamsAtTail
  <2>11. KeepsCount
    BY <1>t, <2>1, <2>4, <2>5, <2>7, <2>8, AccountedSame DEF KeepsCount
  <2> QED BY <1>1, <1>t, <2>1, <2>5, <2>7, <2>8, <2>9, <2>10, <2>11, FreedInv
<1> QED BY <1>2, <1>3, <1>n

-----------------------------------------------------------------------------
(***************************************************************************)
(* Every step                                                              *)
(***************************************************************************)

\* Nobody outside a call touches the heap.
LEMMA LibcInv ==
  ASSUME IInv, (\E n \in ForeignSizes : LibcSbrk(n)) \/ LibcErrno
  PROVE  IInv'
<1>t. brk \in Addr /\ brk \in Nat /\ heap \in Heap /\ Sound(heap, FreeBlocks, brk)
  BY Pointers DEF IInv, TypeOK
<1>1. /\ heap' = heap /\ pc' = pc /\ iter' = iter /\ best' = best /\ req' = req
      /\ block' = block /\ asked' = asked
      /\ brk' \in Addr /\ brk <= brk' /\ errno' \in {"ENOMEM", "other"}
  <2>1. CASE LibcErrno
    BY <2>1, <1>t DEF LibcErrno, IInv, TypeOK
  <2>2. ASSUME NEW n \in ForeignSizes, LibcSbrk(n)
        PROVE  /\ heap' = heap /\ pc' = pc /\ iter' = iter /\ best' = best /\ req' = req
               /\ block' = block /\ asked' = asked
               /\ brk' \in Addr /\ brk <= brk' /\ errno' \in {"ENOMEM", "other"}
    <3>1. n \in Nat /\ (brk + n <= HeapLimit => brk + n \in Addr /\ brk <= brk + n)
      BY <1>t, MyMallocAssumption DEF Addr
    <3> QED BY <2>2, <3>1, <1>t DEF LibcSbrk, IInv, TypeOK
  <2> QED BY <2>1, <2>2
<1>2. FreeBlocks' = FreeBlocks
  BY <1>1 DEF FreeBlocks
<1>3. Sound(heap', FreeBlocks', brk')
  BY <1>1, <1>2, <1>t, SoundHigher
<1>4. TypeOK'
  BY <1>1 DEF IInv, TypeOK
<1> QED BY <1>1, <1>2, <1>3, <1>4 DEF IInv, NoBlockLost, SearchInv, Searching, FreeInv

LEMMA StutterInv ==
  ASSUME IInv, UNCHANGED vars
  PROVE  IInv'
<1>1. FreeBlocks' = FreeBlocks
  BY DEF vars, FreeBlocks
<1> QED BY <1>1 DEF vars, IInv, TypeOK, NoBlockLost, SearchInv, Searching, FreeInv

LEMMA StepInv ==
  ASSUME IInv, [Next]_vars
  PROVE  IInv'
<1>1. ASSUME NEW size \in Sizes, ff_malloc(size) PROVE IInv'
  BY <1>1, StartSearchInv DEF ff_malloc
<1>2. ASSUME NEW size \in Sizes, bf_malloc(size) PROVE IInv'
  BY <1>2, StartSearchInv DEF bf_malloc
<1>3. CASE findFirstFit
  BY <1>3, findFirstFitInv
<1>4. CASE findBestFit
  BY <1>4, findBestFitInv
<1>5. ASSUME NEW b \in Addr, ff_free(b) PROVE IInv'
  BY <1>5, ff_freeInv
<1>6. CASE freeMemoryBlock
  BY <1>6, freeMemoryBlockInv
<1>7. CASE (\E n \in ForeignSizes : LibcSbrk(n)) \/ LibcErrno
  BY <1>7, LibcInv
<1>8. CASE UNCHANGED vars
  BY <1>8, StutterInv
<1> QED BY <1>1, <1>2, <1>3, <1>4, <1>5, <1>6, <1>7, <1>8 DEF Next, FFNext

\* The invariant holds throughout, whichever mallocs the client mixes.
THEOREM Invariance == Spec => []IInv
<1>1. Init => IInv
  BY InitInv
<1>2. IInv /\ [Next]_vars => IInv'
  BY StepInv
<1> QED BY <1>1, <1>2, PTL DEF Spec

\* The headers, freeList and heap_info always have their types: no pointer of a
\* header and no loop pointer ever leaves the data segment.
THEOREM TypeCorrect == Spec => []TypeOK
<1>1. IInv => TypeOK
  BY DEF IInv
<1> QED BY <1>1, Invariance, PTL

\* The list of free blocks is never broken, unordered or incomplete.
THEOREM FreeListIsSound == Spec => []FreeListSound
<1>1. IInv => FreeListSound
  BY DEF IInv, Sound, ListOf, FreeListSound
<1> QED BY <1>1, Invariance, PTL

\* Blocks never overlap, even though bf_malloc splits a block that may be too small.
THEOREM BlocksAreDisjoint == Spec => []BlocksDisjoint
<1>1. IInv => BlocksDisjoint
  BY DEF IInv, Sound, Layout, BlocksDisjoint
<1> QED BY <1>1, Invariance, PTL

\* Every block is either on the free list or held by the client, never both.
THEOREM NoBlockIsLost == Spec => []NoBlockLost
<1>1. IInv => NoBlockLost
  BY DEF IInv
<1> QED BY <1>1, Invariance, PTL

-----------------------------------------------------------------------------
(***************************************************************************)
(* What the searches choose                                                *)
(***************************************************************************)

\* The program moves the break only for a request no free block can satisfy, in
\* the first-fit and the best-fit search alike.
THEOREM GrowsOnlyForNeed == Spec => GrowsOnlyWhenNothingFits
<1>1. ASSUME IInv, [Next]_vars, NEW f \in FreeBlocks,
             pc \in {"findFirstFit", "findBestFit"}, brk' # brk
      PROVE  heap.dataSize[f] < req
  <2>1. (pc = "findFirstFit" /\ findFirstFit) \/ (pc = "findBestFit" /\ findBestFit)
    BY <1>1 DEF Next, FFNext, vars, ff_malloc, bf_malloc, StartSearch, findFirstFit, findBestFit,
                ff_free, freeMemoryBlock, LibcSbrk, LibcErrno
  <2>2. ASSUME iter = NULL, best = NULL PROVE heap.dataSize[f] < req
    BY <1>1, <2>2 DEF IInv, SearchInv, Searching
  <2>3. CASE findFirstFit
    BY <1>1, <2>2, <2>3 DEF findFirstFit, TakeBlock, IInv, SearchInv, Searching
  <2>4. CASE findBestFit
    BY <1>1, <2>2, <2>4 DEF findBestFit, TakeBlock
  <2> QED BY <2>1, <2>3, <2>4
<1>2. IInv /\ [Next]_vars =>
        [\A f \in FreeBlocks :
           (pc \in {"findFirstFit", "findBestFit"} /\ brk' # brk)
             => (heap.dataSize[f] < req)]_vars
  BY <1>1
<1> QED BY <1>2, Invariance, PTL DEF Spec, GrowsOnlyWhenNothingFits

\* ff_malloc takes the lowest free block that is large enough: every block below
\* the one it hands out is too small.
THEOREM TakesTheFirstFit == Spec => FirstFitChoice
<1>1. ASSUME IInv, [Next]_vars, NEW b \in FreeBlocks, NEW f \in FreeBlocks,
             pc = "findFirstFit", asked'[b] # asked[b], f < b
      PROVE  heap.dataSize[f] < req
  <2>1. findFirstFit /\ Searching
    BY <1>1 DEF Next, FFNext, vars, ff_malloc, bf_malloc, StartSearch, findFirstFit, findBestFit,
                ff_free, freeMemoryBlock, LibcSbrk, LibcErrno, Searching
  <2>2. CASE allocateMemory
    <3>1. /\ asked' = asked \/ asked' = [asked EXCEPT ![brk] = req]
          /\ b # brk
      BY <1>1, <2>1, <2>2, allocateMemoryInv DEF HandsOut
    <3>2. b \in Addr /\ asked \in [Addr -> Sizes \cup {0}]
      BY <1>1, HeapFields DEF IInv, TypeOK, FreeBlocks
    <3> QED BY <1>1, <3>1, <3>2
  <2>3. CASE iter # NULL /\ TakeBlock(iter)
    <3>1. b = iter
      BY <1>1, <2>3 DEF TakeBlock, IInv, TypeOK
    <3> QED BY <1>1, <2>1, <3>1 DEF IInv, SearchInv
  <2>4. CASE asked' = asked
    BY <1>1, <2>4
  <2> QED BY <2>1, <2>2, <2>3, <2>4 DEF findFirstFit
<1>2. IInv /\ [Next]_vars =>
        [\A b, f \in FreeBlocks :
           (pc = "findFirstFit" /\ asked'[b] # asked[b] /\ f < b)
             => (heap.dataSize[f] < req)]_vars
  BY <1>1
<1> QED BY <1>2, Invariance, PTL DEF Spec, FirstFitChoice

\* Coalescing, splitting and inserting leave no two free blocks side by side that
\* were not before; only a free behind the tail does.
THEOREM SeamsComeAtTail == Spec => SeamsOnlyAtTail
<1>1. ASSUME IInv, [Next]_vars PROVE NewSeamsAtTail
  <2>1. ASSUME UNCHANGED heap, FreeBlocks' = FreeBlocks PROVE NewSeamsAtTail
    BY <2>1 DEF NewSeamsAtTail, Seams, EndOf
  <2>2. ASSUME UNCHANGED heap, pc # "free", pc' # "free" PROVE NewSeamsAtTail
    BY <2>1, <2>2 DEF FreeBlocks
  <2>3. ASSUME NEW size \in Sizes, ff_malloc(size) \/ bf_malloc(size) PROVE NewSeamsAtTail
    BY <2>2, <2>3 DEF ff_malloc, bf_malloc, StartSearch
  <2>4. CASE findFirstFit
    <3>1. Searching /\ pc = "findFirstFit"
      BY <2>4 DEF findFirstFit, Searching
    <3>2. CASE allocateMemory
      BY <1>1, <3>1, <3>2, allocateMemoryInv
    <3>3. CASE iter # NULL /\ TakeBlock(iter)
      BY <1>1, <3>1, <3>3, TakeBlockInv DEF IInv, SearchInv
    <3>4. CASE UNCHANGED <<heap, pc>>
      BY <2>2, <3>1, <3>4
    <3> QED BY <2>4, <3>2, <3>3, <3>4 DEF findFirstFit
  <2>5. CASE findBestFit
    <3>1. Searching /\ pc = "findBestFit"
      BY <2>5 DEF findBestFit, Searching
    <3>2. CASE allocateMemory
      BY <1>1, <3>1, <3>2, allocateMemoryInv
    <3>3. CASE (iter # NULL \/ best # NULL) /\ TakeBlock(heap.head)
      <4>1. heap.head \in FreeBlocks
        BY <1>1, <3>1, <3>3 DEF IInv, SearchInv, Sound, ListOf, Chained
      <4> QED BY <1>1, <3>1, <3>3, <4>1, TakeBlockInv
    <3>4. CASE UNCHANGED <<heap, pc>>
      BY <2>2, <3>1, <3>4
    <3> QED BY <2>5, <3>2, <3>3, <3>4 DEF findBestFit
  <2>6. ASSUME NEW b \in Addr, ff_free(b) PROVE NewSeamsAtTail
    BY <1>1, <2>6, ff_freeInv
  <2>7. CASE freeMemoryBlock
    BY <1>1, <2>7, freeMemoryBlockInv
  <2>8. CASE (\E n \in ForeignSizes : LibcSbrk(n)) \/ LibcErrno
    BY <2>2, <2>8 DEF LibcSbrk, LibcErrno
  <2>9. CASE UNCHANGED vars
    BY <2>1, <2>9 DEF vars, FreeBlocks
  <2> QED BY <1>1, <2>3, <2>4, <2>5, <2>6, <2>7, <2>8, <2>9 DEF Next, FFNext
<1>2. IInv /\ [Next]_vars => [Seams' \ Seams \subseteq {heap'.tail} \ FreeBlocks]_vars
  BY <1>1 DEF NewSeamsAtTail
<1> QED BY <1>2, Invariance, PTL DEF Spec, SeamsOnlyAtTail

-----------------------------------------------------------------------------
(***************************************************************************)
(* The loops' progress                                                     *)
(***************************************************************************)

\* The free blocks a loop still has before it.
Ahead == {f \in FreeBlocks : iter # NULL /\ iter <= f}

\* An iteration of a loop that goes on: the pointer is on a free block, never
\* NULL, and of the blocks ahead exactly that one is passed.
OnePassed ==
  /\ iter \in Ahead
  /\ Ahead' = Ahead \ {iter}
  /\ Cardinality(Ahead') < Cardinality(Ahead)

LEMMA PassesOne ==
  ASSUME IInv, iter \in FreeBlocks, FreeBlocks' = FreeBlocks, iter' = heap.next[iter]
  PROVE  OnePassed
<1> DEFINE F == FreeBlocks
<1>1. /\ F \in SUBSET Addr /\ \A f \in F : f \in Nat /\ f # 0
      /\ IsFiniteSet(F)
  <2>1. F \in SUBSET Addr /\ IsFiniteSet(Addr)
    BY Countable, HeapFields DEF IInv, TypeOK, FreeBlocks
  <2>2. \A f \in F : f \in Nat /\ f # 0
    BY <2>1, Pointers
  <2> QED BY <2>1, <2>2, FS_Subset
<1>2. /\ heap.next[iter] \in F \cup {NULL}
      /\ \A g \in F : (heap.next[iter] = NULL \/ g < heap.next[iter]) => g < iter \/ g = iter
  BY NextFreeBlock
<1>3. heap.next[iter] = NULL \/ iter < heap.next[iter]
  BY HeapFields, Pointers DEF IInv, TypeOK, Sound, ListOf, Chained, NULL
<1>4. iter \in Ahead
  BY <1>1 DEF Ahead, NULL
<1>5. ASSUME NEW f \in F PROVE f \in Ahead' <=> (f \in Ahead /\ f # iter)
  <2>1. f \in Ahead' <=> (heap.next[iter] # NULL /\ heap.next[iter] <= f)
    BY DEF Ahead
  <2>2. f \in Ahead <=> iter <= f
    BY <1>1 DEF Ahead, NULL
  <2>3. f \in Nat /\ iter \in Nat /\ (heap.next[iter] # NULL => heap.next[iter] \in Nat)
    BY <1>1, <1>2
  <2>4. (heap.next[iter] = NULL \/ f < heap.next[iter]) => f < iter \/ f = iter
    BY <1>2
  <2> QED BY <1>3, <2>1, <2>2, <2>3, <2>4
<1>6. Ahead' = Ahead \ {iter}
  BY <1>5 DEF Ahead
<1>7. IsFiniteSet(Ahead)
  BY <1>1, FS_Subset DEF Ahead
<1>8. Cardinality(Ahead') < Cardinality(Ahead)
  <2>1. /\ Cardinality(Ahead \ {iter}) = Cardinality(Ahead) - 1
        /\ Cardinality(Ahead) \in Nat
    BY <1>4, <1>7, FS_RemoveElement, FS_CardinalityType
  <2> QED BY <1>6, <2>1
<1> QED BY <1>4, <1>6, <1>8 DEF OnePassed

\* Each iteration of the loops of findFirstFit, findBestFit and freeMemoryBlock
\* passes exactly one free block and none twice, so none loops for ever on the list
\* or leaves a block out, and none follows a NULL pointer.
THEOREM LoopsAdvance ==
  Spec => [][pc # "idle" /\ pc' = pc => OnePassed]_vars
<1>1. ASSUME IInv, Next, pc # "idle", pc' = pc PROVE OnePassed
  <2>1. findFirstFit \/ findBestFit \/ freeMemoryBlock
    BY <1>1 DEF Next, FFNext, ff_malloc, bf_malloc, StartSearch, ff_free, LibcSbrk, LibcErrno
  <2>2. CASE findFirstFit
    <3>1. /\ iter # NULL /\ iter' = heap.next[iter] /\ UNCHANGED <<heap, pc, block>>
          /\ pc = "findFirstFit"
      BY <1>1, <2>2 DEF findFirstFit, allocateMemory, TakeBlock, Return
    <3>2. iter \in FreeBlocks /\ FreeBlocks' = FreeBlocks
      BY <1>1, <3>1 DEF IInv, SearchInv, Searching, FreeBlocks
    <3> QED BY <1>1, <3>1, <3>2, PassesOne
  <2>3. CASE findBestFit
    <3>1. /\ iter # NULL /\ iter' = heap.next[iter] /\ UNCHANGED <<heap, pc, block>>
          /\ pc = "findBestFit"
      BY <1>1, <2>3 DEF findBestFit, allocateMemory, TakeBlock, Return
    <3>2. iter \in FreeBlocks /\ FreeBlocks' = FreeBlocks
      BY <1>1, <3>1 DEF IInv, SearchInv, Searching, FreeBlocks
    <3> QED BY <1>1, <3>1, <3>2, PassesOne
  <2>4. CASE freeMemoryBlock
    <3>1. /\ iter' = heap.next[iter] /\ UNCHANGED <<heap, pc, block>>
          /\ pc = "free"
      BY <1>1, <2>4 DEF freeMemoryBlock, Return
    <3>2. iter \in FreeBlocks /\ FreeBlocks' = FreeBlocks
      BY <1>1, <3>1 DEF IInv, FreeInv, FreeBlocks
    <3> QED BY <1>1, <3>1, <3>2, PassesOne
  <2> QED BY <2>1, <2>2, <2>3, <2>4
<1>2. IInv /\ [Next]_vars => [pc # "idle" /\ pc' = pc => OnePassed]_vars
  BY <1>1
<1> QED BY <1>2, Invariance, PTL DEF Spec

-----------------------------------------------------------------------------
(***************************************************************************)
(* The totals of heap_info                                                 *)
(***************************************************************************)

\* A sum is a fold, and two folds with the same equation are the same.
LEMMA BytesAre ==
  ASSUME heap \in Heap, NEW S \in SUBSET Addr
  PROVE  Bytes(S) = SumOver(SizeOf(heap), S)
<1>1. \A s \in SUBSET S : s # {} => Pick(s) \in Addr
  BY DEF Pick
<1>2. \A b \in Addr : MetaSize + heap.dataSize[b] = SizeOf(heap)[b]
  BY DEF SizeOf
<1> DEFINE IsIt(g) ==
      g = [s \in SUBSET S |-> IF s = {} THEN 0
                              ELSE (MetaSize + heap.dataSize[Pick(s)]) + g[s \ {Pick(s)}]]
<1>3. \A g : IsIt(g) <=> IsFold(g, SizeOf(heap), S)
  <2> SUFFICES ASSUME NEW g PROVE IsIt(g) <=> IsFold(g, SizeOf(heap), S)
    OBVIOUS
  <2>1. \A s \in SUBSET S :
          (IF s = {} THEN 0 ELSE (MetaSize + heap.dataSize[Pick(s)]) + g[s \ {Pick(s)}])
            = (IF s = {} THEN 0 ELSE SizeOf(heap)[Pick(s)] + g[s \ {Pick(s)}])
    BY <1>1, <1>2
  <2> QED BY <2>1 DEF IsFold
<1>4. Bytes(S) = (CHOOSE g : IsIt(g))[S]
  BY DEF Bytes, MapThenSumSet, MapThenFoldSet, Pick
<1>5. SumOver(SizeOf(heap), S) = (CHOOSE g : IsFold(g, SizeOf(heap), S))[S]
  BY DEF SumOver, MapThenSumSet, MapThenFoldSet, IsFold, Pick
<1>6. (CHOOSE g : IsIt(g)) = (CHOOSE g : IsFold(g, SizeOf(heap), S))
  <2> HIDE DEF IsIt
  <2> QED BY <1>3
<1> QED BY <1>4, <1>5, <1>6

LEMMA AccountingIs ==
  ASSUME heap \in Heap
  PROVE  Accounting <=> Accounted(heap)
<1>1. heap.blocks \in SUBSET Addr /\ Free(heap) \in SUBSET Addr
  BY HeapFields DEF Free
<1>2. /\ Bytes(heap.blocks) = SumOver(SizeOf(heap), heap.blocks)
      /\ Bytes(Free(heap)) = SumOver(SizeOf(heap), Free(heap))
  BY <1>1, BytesAre
<1> QED BY <1>2 DEF Accounting, Accounted, Free

\* No step puts the totals and the blocks out of step with each other.
LEMMA StepCount ==
  ASSUME IInv, [Next]_vars
  PROVE  KeepsCount
<1>1. ASSUME UNCHANGED heap PROVE KeepsCount
  BY <1>1 DEF KeepsCount
<1>2. ASSUME NEW size \in Sizes, ff_malloc(size) \/ bf_malloc(size) PROVE KeepsCount
  BY <1>1, <1>2 DEF ff_malloc, bf_malloc, StartSearch
<1>3. CASE findFirstFit
  <2>1. Searching /\ pc = "findFirstFit"
    BY <1>3 DEF findFirstFit, Searching
  <2>2. CASE allocateMemory
    BY <2>1, <2>2, allocateMemoryInv
  <2>3. CASE iter # NULL /\ TakeBlock(iter)
    BY <2>1, <2>3, TakeBlockInv DEF IInv, SearchInv
  <2>4. CASE UNCHANGED heap
    BY <1>1, <2>4
  <2> QED BY <1>3, <2>2, <2>3, <2>4 DEF findFirstFit
<1>4. CASE findBestFit
  <2>1. Searching /\ pc = "findBestFit"
    BY <1>4 DEF findBestFit, Searching
  <2>2. CASE allocateMemory
    BY <2>1, <2>2, allocateMemoryInv
  <2>3. CASE (iter # NULL \/ best # NULL) /\ TakeBlock(heap.head)
    <3>1. heap.head \in FreeBlocks
      BY <2>1, <2>3 DEF IInv, SearchInv, Sound, ListOf, Chained
    <3> QED BY <2>1, <2>3, <3>1, TakeBlockInv
  <2>4. CASE UNCHANGED heap
    BY <1>1, <2>4
  <2> QED BY <1>4, <2>2, <2>3, <2>4 DEF findBestFit
<1>5. ASSUME NEW b \in Addr, ff_free(b) PROVE KeepsCount
  BY <1>5, ff_freeInv
<1>6. CASE freeMemoryBlock
  BY <1>6, freeMemoryBlockInv
<1>7. CASE (\E n \in ForeignSizes : LibcSbrk(n)) \/ LibcErrno \/ UNCHANGED vars
  BY <1>1, <1>7 DEF LibcSbrk, LibcErrno, vars
<1> QED BY <1>2, <1>3, <1>4, <1>5, <1>6, <1>7 DEF Next, FFNext

\* get_data_segment_size() and get_data_segment_free_space_size() tell the truth
\* about the blocks, after any sequence of splits, merges, frees and sbrks: no
\* increment of heap_info is ever forgotten, doubled or taken at the wrong size.
THEOREM AccountsAgree == Spec => []Accounting
<1>1. Init => Accounted(heap)
  BY InitInv
<1>2. Accounted(heap) /\ IInv /\ [Next]_vars => Accounted(heap)'
  BY StepCount DEF KeepsCount
<1>3. IInv /\ Accounted(heap) => Accounting
  BY AccountingIs DEF IInv, TypeOK
<1> QED BY <1>1, <1>2, <1>3, Invariance, PTL DEF Spec

-----------------------------------------------------------------------------
(***************************************************************************)
(* First fit on its own                                                    *)
(***************************************************************************)

\* With no bf_malloc, what is handed out is large enough.
RoomInv == IInv /\ EnoughRoom /\ pc # "findBestFit"

\* A step hands one block out, takes one back, or leaves the client's blocks.
LEMMA RoomStep ==
  ASSUME "BF" \notin Policies, RoomInv, [Next]_vars
  PROVE  /\ RoomInv'
         /\ \/ asked' = asked
            \/ \E b \in Addr : HandsOut(b)
            \/ \E b \in Addr : asked[b] # 0 /\ asked' = [asked EXCEPT ![b] = 0]
<1>i. IInv'
  BY StepInv DEF RoomInv
<1>h. /\ \A a \in Addr : asked[a] # 0 <=> a \in Held(heap)
      /\ \A a \in Addr : asked'[a] # 0 <=> a \in Held(heap')
  BY <1>i DEF RoomInv, IInv, NoBlockLost, Held
<1>e. ASSUME HeldKeepSize, \A a \in Addr : asked'[a] = asked[a] \/ asked'[a] = 0 \/ asked'[a] <= heap'.dataSize[a]
      PROVE  EnoughRoom'
  BY <1>e, <1>h DEF RoomInv, EnoughRoom, HeldKeepSize
<1>t. asked \in [Addr -> Sizes \cup {0}]
  BY DEF RoomInv, IInv, TypeOK
<1>1. ASSUME UNCHANGED <<heap, asked>>, pc' # "findBestFit"
      PROVE  RoomInv' /\ asked' = asked
  BY <1>1, <1>i DEF RoomInv, EnoughRoom
<1>2. ASSUME findFirstFit, ~UNCHANGED <<heap, asked>>
      PROVE  RoomInv' /\ (asked' = asked \/ \E b \in Addr : HandsOut(b))
  <2>1. Searching /\ IInv
    BY <1>2 DEF RoomInv, findFirstFit, Searching
  <2>2. CASE allocateMemory
    <3>1. /\ HeldKeepSize
          /\ asked' = asked \/ (HandsOut(brk) /\ heap'.dataSize[brk] = req)
      BY <2>1, <2>2, allocateMemoryInv
    <3>2. req \in Nat
      BY <2>1, MyMallocAssumption DEF IInv, SearchInv
    <3>3. EnoughRoom'
      BY <3>1, <3>2, <1>e, <1>t DEF HandsOut
    <3>4. pc' # "findBestFit"
      BY <2>2 DEF allocateMemory, Return
    <3> QED BY <1>i, <3>1, <3>3, <3>4 DEF RoomInv, HandsOut
  <2>3. CASE iter # NULL /\ TakeBlock(iter) /\ heap.dataSize[iter] >= req
    <3>1. iter \in FreeBlocks
      BY <2>1, <2>3 DEF IInv, SearchInv
    <3>n. req \in Nat /\ heap.dataSize[iter] \in Nat
      BY <2>1, <3>1, HeapFields, MyMallocAssumption DEF IInv, TypeOK, SearchInv, FreeBlocks
    <3>2. HeldKeepSize /\ HandsOut(iter) /\ req <= heap'.dataSize[iter]
      BY <2>1, <2>3, <3>1, <3>n, TakeBlockInv
    <3>3. EnoughRoom'
      BY <3>2, <1>e, <1>t DEF HandsOut
    <3>4. pc' # "findBestFit"
      BY <2>3 DEF TakeBlock, Return
    <3> QED BY <1>i, <3>2, <3>3, <3>4 DEF RoomInv, HandsOut
  <2> QED BY <1>2, <2>2, <2>3 DEF findFirstFit
<1>3. ASSUME NEW b \in Addr, ff_free(b)
      PROVE  RoomInv' /\ asked[b] # 0 /\ asked' = [asked EXCEPT ![b] = 0]
  <2>1. HeldKeepSize /\ asked[b] # 0 /\ asked' = [asked EXCEPT ![b] = 0]
    BY <1>3, ff_freeInv DEF RoomInv, ff_free
  <2>2. EnoughRoom'
    BY <2>1, <1>e, <1>t
  <2>3. pc' # "findBestFit"
    BY <1>3 DEF ff_free, Return
  <2> QED BY <1>i, <2>1, <2>2, <2>3 DEF RoomInv
<1>4. ASSUME freeMemoryBlock
      PROVE  RoomInv' /\ asked' = asked
  <2>1. HeldKeepSize /\ asked' = asked
    BY <1>4, freeMemoryBlockInv DEF RoomInv, freeMemoryBlock
  <2>2. EnoughRoom'
    BY <2>1, <1>e
  <2>3. pc' # "findBestFit"
    BY <1>4 DEF freeMemoryBlock, Return, RoomInv
  <2> QED BY <1>i, <2>1, <2>2, <2>3 DEF RoomInv
<1>5. ASSUME NEW size \in Sizes, ff_malloc(size)
      PROVE  UNCHANGED <<heap, asked>> /\ pc' # "findBestFit"
  BY <1>5 DEF ff_malloc, StartSearch
<1>6. ASSUME (\E n \in ForeignSizes : LibcSbrk(n)) \/ LibcErrno \/ UNCHANGED vars
      PROVE  UNCHANGED <<heap, asked>> /\ pc' # "findBestFit"
  BY <1>6 DEF LibcSbrk, LibcErrno, vars, RoomInv
<1>7. ASSUME findFirstFit, UNCHANGED <<heap, asked>> PROVE pc' # "findBestFit"
  BY <1>7 DEF findFirstFit, TakeBlock, allocateMemory, Return
<1>8. ~findBestFit /\ \A size \in Sizes : ~bf_malloc(size)
  BY DEF findBestFit, bf_malloc, RoomInv
<1> QED BY <1>1, <1>2, <1>3, <1>4, <1>5, <1>6, <1>7, <1>8 DEF Next, FFNext

\* RoomInv holds as long as the client never calls bf_malloc.
THEOREM RoomInvariance ==
  ASSUME "BF" \notin Policies
  PROVE  Spec => []RoomInv
<1>1. Init => RoomInv
  <2>1. ASSUME Init PROVE EnoughRoom /\ pc # "findBestFit"
    BY <2>1 DEF Init, InitAt, EnoughRoom
  <2> QED BY <2>1, InitInv DEF RoomInv
<1>2. RoomInv /\ [Next]_vars => RoomInv'
  BY RoomStep
<1> QED BY <1>1, <1>2, PTL DEF Spec

\* First fit never hands out less than it was asked for.
THEOREM FirstFitGivesEnough ==
  ASSUME "BF" \notin Policies
  PROVE  Spec => []EnoughRoom
<1>1. RoomInv => EnoughRoom
  BY DEF RoomInv
<1> QED BY <1>1, RoomInvariance, PTL

-----------------------------------------------------------------------------
(***************************************************************************)
(* First fit implements HeapPromise                                        *)
(***************************************************************************)

\* The regions of two blocks the client holds do not overlap, and lie below the
\* limit of the data segment.
Apart ==
  \A b \in Addr : asked[b] # 0 =>
    /\ b + MetaSize \in 1 .. HeapLimit
    /\ b + MetaSize + asked[b] <= HeapLimit
    /\ \A c \in Addr : asked[c] # 0 /\ c # b =>
         \/ b + MetaSize + asked[b] <= c + MetaSize
         \/ c + MetaSize + asked[c] <= b + MetaSize

LEMMA RegionsApart == RoomInv => Apart
<1> SUFFICES ASSUME RoomInv, NEW b \in Addr, asked[b] # 0
             PROVE  /\ b + MetaSize \in 1 .. HeapLimit
                    /\ b + MetaSize + asked[b] <= HeapLimit
                    /\ \A c \in Addr : asked[c] # 0 /\ c # b =>
                         \/ b + MetaSize + asked[b] <= c + MetaSize
                         \/ c + MetaSize + asked[c] <= b + MetaSize
  BY DEF Apart
<1>t. /\ MetaSize \in Nat \ {0} /\ HeapLimit \in Nat /\ brk \in Nat /\ brk <= HeapLimit
      /\ \A a \in Addr : a \in Nat /\ a # 0 /\ asked[a] \in Nat /\ heap.dataSize[a] \in Nat
  <2>1. \A a \in Addr : a \in Nat /\ a # 0 /\ asked[a] \in Nat
    <3>1. asked \in [Addr -> Sizes \cup {0}] /\ Sizes \cup {0} \subseteq Nat
      BY MyMallocAssumption DEF RoomInv, IInv, TypeOK
    <3> QED BY <3>1, Pointers
  <2>2. \A a \in Addr : heap.dataSize[a] \in Nat
    BY HeapFields DEF RoomInv, IInv, TypeOK
  <2>3. brk \in Nat /\ brk <= HeapLimit
    BY MyMallocAssumption DEF RoomInv, IInv, TypeOK, Addr
  <2> QED BY <2>1, <2>2, <2>3, MyMallocAssumption
<1>1. \A a \in Addr : asked[a] # 0 =>
        /\ a \in heap.blocks /\ asked[a] <= heap.dataSize[a]
        /\ a + MetaSize + heap.dataSize[a] <= brk
        /\ \A c \in heap.blocks : a < c => a + MetaSize + heap.dataSize[a] <= c
  BY DEF RoomInv, IInv, NoBlockLost, EnoughRoom, Sound, Layout, EndOf
<1>2. b + MetaSize \in 1 .. HeapLimit /\ b + MetaSize + asked[b] <= HeapLimit
  <2>1. /\ b \in Nat /\ b # 0 /\ asked[b] \in Nat /\ heap.dataSize[b] \in Nat
        /\ asked[b] <= heap.dataSize[b] /\ b + MetaSize + heap.dataSize[b] <= brk
    BY <1>t, <1>1
  <2> QED BY <1>t, <2>1
<1>3. ASSUME NEW c \in Addr, asked[c] # 0, c # b
      PROVE  \/ b + MetaSize + asked[b] <= c + MetaSize
             \/ c + MetaSize + asked[c] <= b + MetaSize
  <2>1. /\ b \in Nat /\ c \in Nat /\ asked[b] \in Nat /\ asked[c] \in Nat
        /\ heap.dataSize[b] \in Nat /\ heap.dataSize[c] \in Nat
        /\ asked[b] <= heap.dataSize[b] /\ asked[c] <= heap.dataSize[c]
    BY <1>t, <1>1, <1>3
  <2>2. CASE b < c
    <3>1. b + MetaSize + heap.dataSize[b] <= c
      BY <1>1, <1>3, <2>2
    <3> QED BY <1>t, <2>1, <3>1
  <2>3. CASE c < b
    <3>1. c + MetaSize + heap.dataSize[c] <= b
      BY <1>1, <1>3, <2>3
    <3> QED BY <1>t, <2>1, <3>1
  <2> QED BY <1>3, <2>1, <2>2, <2>3
<1> QED BY <1>2, <1>3

\* A malloc that hands out a block is an Allocate of the promise.
LEMMA HandsOutAllocates ==
  ASSUME RoomInv, RoomInv', NEW b \in Addr, HandsOut(b)
  PROVE  \E r \in Promise!Region : Promise!Allocate(r)
<1> DEFINE r == [start |-> b + MetaSize, size |-> req]
<1>1. /\ asked \in [Addr -> Sizes \cup {0}] /\ req \in Sizes /\ req # 0
      /\ asked[b] = 0 /\ asked' = [asked EXCEPT ![b] = req]
  BY MyMallocAssumption DEF HandsOut, RoomInv, IInv, TypeOK
<1>2. asked'[b] = req /\ \A a \in Addr \ {b} : asked'[a] = asked[a]
  BY <1>1
<1>3. /\ b + MetaSize \in 1 .. HeapLimit
      /\ b + MetaSize + req <= HeapLimit
      /\ \A c \in Addr : asked[c] # 0 =>
           \/ b + MetaSize + req <= c + MetaSize
           \/ c + MetaSize + asked[c] <= b + MetaSize
  <2>1. /\ b + MetaSize \in 1 .. HeapLimit
        /\ b + MetaSize + asked'[b] <= HeapLimit
        /\ \A c \in Addr : asked'[c] # 0 /\ c # b =>
             \/ b + MetaSize + asked'[b] <= c + MetaSize
             \/ c + MetaSize + asked'[c] <= b + MetaSize
    <3>1. Apart'
      BY RegionsApart, PTL
    <3>2. asked'[b] # 0
      BY <1>1, <1>2
    <3> QED BY <3>1, <3>2 DEF Apart
  <2> QED BY <1>1, <1>2, <2>1
<1>4. r \in Promise!Region
  BY <1>1, <1>3 DEF Promise!Region
<1>5. ClientRegions' = ClientRegions \cup {r}
  BY <1>1, <1>2 DEF ClientRegions
<1>6. \A s \in ClientRegions : Promise!Disjoint(r, s)
  BY <1>3 DEF ClientRegions, Promise!Disjoint
<1>7. Promise!Allocate(r)
  BY <1>3, <1>5, <1>6 DEF Promise!Allocate
<1> QED BY <1>4, <1>7

\* A free is a Release of the promise.
LEMMA FreeReleases ==
  ASSUME RoomInv, NEW b \in Addr, asked[b] # 0, asked' = [asked EXCEPT ![b] = 0]
  PROVE  \E r \in ClientRegions : Promise!Release(r)
<1> DEFINE r == [start |-> b + MetaSize, size |-> asked[b]]
<1>1. asked \in [Addr -> Sizes \cup {0}] /\ MetaSize \in Nat /\ \A a \in Addr : a \in Nat
  BY Pointers, MyMallocAssumption DEF RoomInv, IInv, TypeOK
<1>2. r \in ClientRegions
  BY DEF ClientRegions
<1>3. \A a \in Addr \ {b} : a + MetaSize # b + MetaSize
  BY <1>1
<1>4. ClientRegions' = ClientRegions \ {r}
  BY <1>1, <1>3 DEF ClientRegions
<1> QED BY <1>2, <1>4 DEF Promise!Release

\* As long as the client calls no bf_malloc, the allocator keeps its promise: every
\* malloc returns a region of the size asked for that overlaps no other, and a
\* region stays as it is until it is freed.
THEOREM FirstFitKeepsPromise ==
  ASSUME "BF" \notin Policies
  PROVE  Spec => KeepsPromise
<1>1. Init => Promise!Init
  BY DEF Init, InitAt, Promise!Init, ClientRegions
<1>2. RoomInv /\ RoomInv' /\ [Next]_vars => [Promise!Next]_ClientRegions
  <2> SUFFICES ASSUME RoomInv, RoomInv', [Next]_vars PROVE [Promise!Next]_ClientRegions
    OBVIOUS
  <2>1. CASE asked' = asked
    BY <2>1 DEF ClientRegions
  <2>2. ASSUME NEW b \in Addr, HandsOut(b) PROVE Promise!Next
    BY <2>2, HandsOutAllocates DEF Promise!Next
  <2>3. ASSUME NEW b \in Addr, asked[b] # 0, asked' = [asked EXCEPT ![b] = 0] PROVE Promise!Next
    BY <2>3, FreeReleases DEF Promise!Next
  <2> QED BY <2>1, <2>2, <2>3, RoomStep
<1> QED BY <1>1, <1>2, RoomInvariance, PTL DEF Spec, KeepsPromise, Promise!Spec
=============================================================================
