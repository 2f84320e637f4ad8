---------------------------- MODULE HotPotatoProofs ----------------------------
(***************************************************************************)
(* For any number of players, hops and deaths: there is one potato, it is  *)
(* never sent to a player that has left before its last hop, and it plays  *)
(* the abstract game.                                                      *)
(***************************************************************************)
EXTENDS RingProofs

-----------------------------------------------------------------------------
(***************************************************************************)
(* The potato on a channel                                                 *)
(***************************************************************************)

Has(s)    == \E i \in 1 .. Len(s) : s[i].kind = "potato"
Single(s) == \A i, j \in 1 .. Len(s) : s[i].kind = "potato" /\ s[j].kind = "potato" => i = j
Value(s)  == s[CHOOSE i \in 1 .. Len(s) : s[i].kind = "potato"].potato
Ended(s)  == \E i \in 1 .. Len(s) : s[i] = EOF

\* The channels with a potato on them, and the potato on a channel.
Carrying == {c \in Channel : Has(chan[c])}
On(c)    == Value(chan[c])

\* A potato with hops left, or on its way back: what is left are the copies that
\* tell the players the end.
Flying(c) == On(c).ttl > 0 \/ c[2] = "toMaster"

-----------------------------------------------------------------------------
(***************************************************************************)
(* The invariant                                                           *)
(***************************************************************************)

Before == mpc \in Early \cup {"playGame"}

Alone == \A c \in Channel : Single(chan[c])

\* While the potato flies nothing else does, and afterwards there are only copies for
\* the players.
Travels ==
  \A c \in Carrying :
    /\ c[1] \in Players
    /\ c[2] = "toLeft" => pc[c[1]] \in InRing
    /\ c[2] = "toMaster" => On(c).ttl = 0
    /\ IF Flying(c) THEN Carrying = {c} ELSE c[2] = "fromMaster" /\ mpc \in {"close", "done"}

Thrown == Before => Carrying = {} /\ potato = Potato(numHops)

\* Somebody is leaving, or could.
Ending ==
  \/ mpc \in {"close", "done"}
  \/ \E p \in Players : pc[p] \in {"close", "done"}
  \/ \E c \in Channel : Ended(chan[c])
  \/ \E c \in Carrying : On(c).ttl = 0

\* Unless a player has died, nobody leaves before the last hop.
InTime == died = {} /\ Ending => ~Before /\ \A c \in Carrying : On(c).ttl = 0

KInv == Alone /\ Travels /\ Thrown /\ InTime

\* Hops made and hops left.
Counted ==
  /\ potato.ttl + potato.count = numHops
  /\ \A c \in Carrying : On(c).ttl + On(c).count = numHops

-----------------------------------------------------------------------------
(***************************************************************************)
(* What a step does to the potato                                          *)
(***************************************************************************)

Kept(C) == \A c \in C : On(c)' = On(c)

Rests == Carrying' = Carrying /\ Kept(Carrying) /\ potato' = potato

IsThrown ==
  /\ mpc = "playGame" /\ numHops > 0 /\ Carrying = {} /\ potato' = potato
  /\ \E q \in Players : Carrying' = {fromM(q)} /\ On(fromM(q))' = potato

Hops(p, c, d) ==
  /\ pc[p] = "listen" /\ c \in {fromL(p), toL(rightFd[p]), fromM(p)}
  /\ Carrying = {c} /\ Carrying' = {d} /\ potato' = potato
  /\ On(d)' = RecordHop(On(c), playerId[p])
  /\ \/ On(c).ttl = 1 /\ d = toM(p)
     \/ On(c).ttl > 1 /\ d \in {toL(p), fromL(rightFd[p])}

IsRead ==
  \E c \in Carrying :
    ~Flying(c) /\ Carrying' = Carrying \ {c} /\ Kept(Carrying \ {c}) /\ potato' = potato

IsCaught ==
  \E c \in Carrying :
    /\ Carrying = {c} /\ c[2] = "toMaster" /\ potato' = On(c)
    /\ \A d \in Carrying' : d[2] = "fromMaster" /\ On(d)' = On(c)

Move ==
  \/ Rests \/ IsThrown \/ IsRead \/ IsCaught
  \/ \E p \in Players : \E c, d \in Channel : Hops(p, c, d)

-----------------------------------------------------------------------------
(***************************************************************************)
(* Messages appended to a channel and read from it                         *)
(***************************************************************************)

LEMMA MsgKinds ==
  /\ EOF \in AnyMsg /\ EOF.kind # "potato"
  /\ \A m \in SetupMsg : m \in AnyMsg /\ m.kind # "potato" /\ m # EOF
  /\ \A m \in AnyMsg : m.kind = "potato" => m.potato \in Potatoes /\ m # EOF
  /\ \A p \in Potatoes : /\ PotatoMsg(p) \in AnyMsg /\ PotatoMsg(p).kind = "potato"
                         /\ PotatoMsg(p).potato = p /\ PotatoMsg(p) # EOF
BY DEF EOF, AnyMsg, GameMsg, SetupMsg, PotatoMsg

LEMMA ValueIs ==
  ASSUME NEW s, Single(s), NEW i \in 1 .. Len(s), s[i].kind = "potato"
  PROVE  Has(s) /\ Value(s) = s[i].potato
<1> DEFINE j == CHOOSE j \in 1 .. Len(s) : s[j].kind = "potato"
<1>1. j \in 1 .. Len(s) /\ s[j].kind = "potato"
  OBVIOUS
<1>2. j = i
  BY <1>1 DEF Single
<1> QED
  BY <1>2 DEF Has, Value

LEMMA OnAppend ==
  ASSUME NEW s \in Seq(AnyMsg), NEW m \in AnyMsg, Single(s), m.kind = "potato" => ~Has(s)
  PROVE  /\ Single(Append(s, m))
         /\ Has(Append(s, m)) <=> Has(s) \/ m.kind = "potato"
         /\ Has(s) => Value(Append(s, m)) = Value(s)
         /\ m.kind = "potato" => Value(Append(s, m)) = m.potato
         /\ Ended(Append(s, m)) <=> Ended(s) \/ m = EOF
<1>1. PICK t \in Seq(AnyMsg) : t = Append(s, m)
  BY AppendProperties
<1>2. PICK n \in Nat : n = Len(s)
  OBVIOUS
<1>3. /\ Len(t) = n + 1 /\ t[n + 1] = m
      /\ \A i \in 1 .. n : t[i] = s[i]
  BY <1>1, <1>2, AppendProperties
<1>4. \A i \in 1 .. n + 1 : i \in 1 .. n \/ i = n + 1
  OBVIOUS
<1>5. Single(t)
  <2>1. ASSUME NEW i \in 1 .. n + 1, NEW j \in 1 .. n + 1, t[i].kind = "potato", t[j].kind = "potato"
        PROVE  i = j
    <3>1. CASE i \in 1 .. n /\ j \in 1 .. n
      BY <1>2, <1>3, <2>1, <3>1 DEF Single
    <3>2. CASE i = n + 1 /\ j \in 1 .. n
      BY <1>2, <1>3, <2>1, <3>2 DEF Has
    <3>3. CASE i \in 1 .. n /\ j = n + 1
      BY <1>2, <1>3, <2>1, <3>3 DEF Has
    <3> QED
      BY <1>4, <3>1, <3>2, <3>3
  <2> QED
    BY <1>3, <2>1 DEF Single
<1>6. Has(t) <=> Has(s) \/ m.kind = "potato"
  BY <1>2, <1>3, <1>4 DEF Has
<1>7. ASSUME Has(s) PROVE Value(t) = Value(s)
  <2>1. PICK i \in 1 .. n : s[i].kind = "potato"
    BY <1>2, <1>7 DEF Has
  <2>2. Value(s) = s[i].potato
    BY <1>2, <2>1, ValueIs
  <2>3. i \in 1 .. Len(t) /\ t[i] = s[i]
    BY <1>3, <2>1
  <2>4. Value(t) = t[i].potato
    BY <1>5, <2>1, <2>3, ValueIs
  <2> QED
    BY <2>2, <2>3, <2>4
<1>8. ASSUME m.kind = "potato" PROVE Value(t) = m.potato
  <2>1. n + 1 \in 1 .. Len(t) /\ t[n + 1].kind = "potato"
    BY <1>3, <1>8
  <2> QED
    BY <1>3, <1>5, <2>1, ValueIs
<1>9. Ended(t) <=> Ended(s) \/ m = EOF
  BY <1>2, <1>3, <1>4 DEF Ended
<1> QED
  BY <1>1, <1>5, <1>6, <1>7, <1>8, <1>9

LEMMA OnTail ==
  ASSUME NEW s \in Seq(AnyMsg), s # <<>>, Single(s)
  PROVE  /\ Single(Tail(s))
         /\ Head(s).kind = "potato" => Has(s) /\ Value(s) = Head(s).potato /\ ~Has(Tail(s))
         /\ Head(s).kind # "potato" => /\ Has(Tail(s)) <=> Has(s)
                                       /\ Has(s) => Value(Tail(s)) = Value(s)
         /\ Ended(Tail(s)) => Ended(s)
<1>1. PICK t \in Seq(AnyMsg) : t = Tail(s)
  BY HeadTailProperties
<1>2. PICK n \in Nat : n = Len(t)
  OBVIOUS
<1>3. /\ Len(s) = n + 1 /\ Head(s) = s[1]
      /\ \A i \in 1 .. n : t[i] = s[i + 1]
  BY <1>1, <1>2, HeadTailProperties
<1>4. Single(t)
  <2>1. ASSUME NEW i \in 1 .. n, NEW j \in 1 .. n, t[i].kind = "potato", t[j].kind = "potato"
        PROVE  i = j
    <3>1. i + 1 \in 1 .. Len(s) /\ j + 1 \in 1 .. Len(s) /\ s[i + 1].kind = "potato" /\ s[j + 1].kind = "potato"
      BY <1>3, <2>1
    <3>2. i + 1 = j + 1
      BY <3>1 DEF Single
    <3> QED
      BY <3>2
  <2> QED
    BY <1>2, <2>1 DEF Single
<1>5. ASSUME Head(s).kind = "potato"
      PROVE  Has(s) /\ Value(s) = Head(s).potato /\ ~Has(t)
  <2>1. 1 \in 1 .. Len(s) /\ s[1].kind = "potato"
    BY <1>3, <1>5
  <2>2. Has(s) /\ Value(s) = s[1].potato
    BY <2>1, ValueIs
  <2>3. ASSUME NEW i \in 1 .. n, t[i].kind = "potato" PROVE FALSE
    <3>1. i + 1 \in 1 .. Len(s) /\ s[i + 1].kind = "potato"
      BY <1>3, <2>3
    <3>2. i + 1 = 1
      BY <2>1, <3>1 DEF Single
    <3> QED
      BY <3>2
  <2> QED
    BY <1>2, <1>3, <2>2, <2>3 DEF Has
<1>6. ASSUME Head(s).kind # "potato"
      PROVE  (Has(t) <=> Has(s)) /\ (Has(s) => Value(t) = Value(s))
  <2>1. ASSUME Has(s) PROVE Has(t) /\ Value(t) = Value(s)
    <3>1. PICK i \in 1 .. n + 1 : s[i].kind = "potato"
      BY <1>3, <2>1 DEF Has
    <3>2. i # 1 /\ i - 1 \in 1 .. n /\ (i - 1) + 1 = i
      BY <1>3, <1>6, <3>1
    <3>3. PICK j \in 1 .. n : j + 1 = i /\ t[j] = s[i]
      BY <1>3, <3>2
    <3>4. Has(t) /\ Value(t) = t[j].potato
      BY <1>2, <1>4, <3>1, <3>3, ValueIs
    <3>5. Value(s) = s[i].potato
      BY <1>3, <3>1, ValueIs
    <3> QED
      BY <3>3, <3>4, <3>5
  <2>2. ASSUME Has(t) PROVE Has(s)
    <3>1. PICK i \in 1 .. n : t[i].kind = "potato"
      BY <1>2, <2>2 DEF Has
    <3>2. i + 1 \in 1 .. Len(s) /\ s[i + 1].kind = "potato"
      BY <1>3, <3>1
    <3> QED
      BY <3>2 DEF Has
  <2> QED
    BY <2>1, <2>2
<1>7. ASSUME Ended(t) PROVE Ended(s)
  <2>1. PICK i \in 1 .. n : t[i] = EOF
    BY <1>2, <1>7 DEF Ended
  <2>2. i + 1 \in 1 .. Len(s) /\ s[i + 1] = EOF
    BY <1>3, <2>1
  <2> QED
    BY <2>2 DEF Ended
<1> QED
  BY <1>1, <1>4, <1>5, <1>6, <1>7
-----------------------------------------------------------------------------
\* Steps of the channels that leave every potato where it is.
LEMMA Quietly ==
  ASSUME chan \in [Channel -> Seq(AnyMsg)], Alone,
         \A c \in Channel :
           \/ chan'[c] = chan[c]
           \/ \E m \in SetupMsg \cup {EOF} : chan'[c] = Append(chan[c], m)
           \/ chan[c] # <<>> /\ Head(chan[c]).kind # "potato" /\ chan'[c] = Tail(chan[c])
  PROVE  Alone' /\ Carrying' = Carrying /\ Kept(Carrying)
<1>1. ASSUME NEW c \in Channel
      PROVE  /\ Single(chan'[c]) /\ (Has(chan'[c]) <=> Has(chan[c]))
             /\ Has(chan[c]) => Value(chan'[c]) = Value(chan[c])
  <2>1. PICK s \in Seq(AnyMsg) : s = chan[c]
    OBVIOUS
  <2>2. Single(s)
    BY <2>1 DEF Alone
  <2>3. CASE chan'[c] = chan[c]
    BY <2>1, <2>2, <2>3
  <2>4. ASSUME NEW m \in SetupMsg \cup {EOF}, chan'[c] = Append(s, m)
        PROVE  /\ Single(chan'[c]) /\ (Has(chan'[c]) <=> Has(s))
               /\ Has(s) => Value(chan'[c]) = Value(s)
    <3>1. m \in AnyMsg /\ m.kind # "potato"
      BY MsgKinds
    <3>2. /\ Single(Append(s, m)) /\ (Has(Append(s, m)) <=> Has(s) \/ m.kind = "potato")
          /\ Has(s) => Value(Append(s, m)) = Value(s)
      BY <2>2, <3>1, OnAppend
    <3> QED
      BY <2>4, <3>1, <3>2
  <2>5. CASE s # <<>> /\ Head(s).kind # "potato" /\ chan'[c] = Tail(s)
    <3>1. /\ Single(Tail(s)) /\ (Has(Tail(s)) <=> Has(s))
          /\ Has(s) => Value(Tail(s)) = Value(s)
      BY <2>2, <2>5, OnTail
    <3> QED
      BY <2>1, <2>5, <3>1
  <2> QED
    BY <2>1, <2>3, <2>4, <2>5
<1> QED
  BY <1>1 DEF Alone, Carrying, Kept, On

\* Steps that take the potatoes of some channels and send one to others.
LEMMA Passing ==
  ASSUME chan \in [Channel -> Seq(AnyMsg)], Alone,
         NEW X \in SUBSET Channel, NEW D \in SUBSET Channel, NEW q \in Potatoes,
         Carrying \cap D \subseteq X, X \cap D = {},
         \A c \in X : chan[c] # <<>> /\ Head(chan[c]).kind = "potato" /\ chan'[c] = Tail(chan[c]),
         \A c \in D : chan'[c] = Append(chan[c], PotatoMsg(q)),
         \A c \in Channel \ (X \cup D) : chan'[c] = chan[c]
  PROVE  /\ Alone' /\ Carrying' = (Carrying \ X) \cup D
         /\ Kept(Carrying \ X)
         /\ \A c \in D : On(c)' = q
         /\ \A c \in Channel : Ended(chan'[c]) => Ended(chan[c])
<1>1. ASSUME NEW c \in X
      PROVE  Single(chan'[c]) /\ ~Has(chan'[c]) /\ (Ended(chan'[c]) => Ended(chan[c]))
  <2>1. PICK s \in Seq(AnyMsg) : s = chan[c]
    OBVIOUS
  <2>2. Single(s) /\ s # <<>> /\ Head(s).kind = "potato" /\ chan'[c] = Tail(s)
    BY <2>1 DEF Alone
  <2> QED
    BY <2>1, <2>2, OnTail
<1>2. ASSUME NEW c \in D
      PROVE  /\ Single(chan'[c]) /\ Has(chan'[c]) /\ Value(chan'[c]) = q
             /\ Ended(chan'[c]) => Ended(chan[c])
  <2>1. PICK s \in Seq(AnyMsg) : s = chan[c]
    OBVIOUS
  <2>2. PICK m \in AnyMsg : m = PotatoMsg(q) /\ m.kind = "potato" /\ m.potato = q /\ m # EOF
    BY MsgKinds
  <2>3. Single(s) /\ ~Has(s) /\ chan'[c] = Append(s, m)
    BY <2>1, <2>2 DEF Alone, Carrying
  <2> QED
    BY <2>1, <2>2, <2>3, OnAppend
<1>3. ASSUME NEW c \in Channel \ (X \cup D)
      PROVE  /\ Single(chan'[c]) /\ (Has(chan'[c]) <=> Has(chan[c])) /\ Value(chan'[c]) = Value(chan[c])
             /\ Ended(chan'[c]) => Ended(chan[c])
  BY DEF Alone
<1>4. Alone'
  BY <1>1, <1>2, <1>3 DEF Alone
<1>5. Carrying' = (Carrying \ X) \cup D
  BY <1>1, <1>2, <1>3 DEF Carrying
<1>6. Kept(Carrying \ X)
  <2>1. \A c \in Carrying \ X : c \in Channel \ (X \cup D)
    BY DEF Carrying
  <2> QED
    BY <1>3, <2>1 DEF Kept, On
<1> QED
  BY <1>1, <1>2, <1>3, <1>4, <1>5, <1>6 DEF On

\* A step that leaves the potatoes and sets nobody off.
LEMMA RestKeeps ==
  ASSUME KInv, Rests, Alone', UNCHANGED <<numPlayers, numHops>>,
         Before' => Before, ~Before => ~Before',
         mpc \in {"close", "done"} => mpc' \in {"close", "done"},
         \A p \in Players : pc[p] \in InRing => pc'[p] \in InRing,
         died' = {} /\ Ending' => (died = {} /\ Ending) \/ (Carrying = {} /\ ~Before')
  PROVE  KInv'
<1>1. Players' = Players
  BY DEF Players
<1>2. /\ Carrying' = Carrying /\ potato' = potato
      /\ \A c \in Carrying : On(c)' = On(c) /\ (Flying(c)' <=> Flying(c))
  BY DEF Rests, Kept, Flying
<1>3. Travels'
  BY <1>1, <1>2 DEF KInv, Travels
<1>4. Thrown'
  <2>1. Potato(numHops)' = Potato(numHops)
    BY DEF Potato
  <2> QED
    BY <1>2, <2>1 DEF KInv, Thrown
<1>5. InTime'
  BY <1>2 DEF KInv, InTime
<1> QED
  BY <1>3, <1>4, <1>5 DEF KInv

\* The steps of the setup.
LEMMA SetupKeeps ==
  ASSUME KInv, Rests, Alone', UNCHANGED <<numPlayers, numHops, died>>,
         mpc' = mpc \/ (mpc \in Early /\ mpc' \in Early \cup {"playGame"}),
         \A p \in Players : pc'[p] = pc[p] \/ (pc[p] \notin InRing /\ pc'[p] \notin {"close", "done"}),
         \A c \in Channel : Ended(chan'[c]) => Ended(chan[c])
  PROVE  KInv'
<1>1. Players' = Players
  BY DEF Players
<1>2. (Before' <=> Before) /\ (mpc' \in {"close", "done"} <=> mpc \in {"close", "done"})
  BY DEF Before, Early
<1>3. \A p \in Players : /\ pc[p] \in InRing => pc'[p] \in InRing
                        /\ pc'[p] \in {"close", "done"} => pc[p] \in {"close", "done"}
  BY DEF InRing
<1>4. Ending' => Ending
  BY <1>1, <1>2, <1>3 DEF Ending, Rests, Kept
<1> QED
  BY <1>2, <1>3, <1>4, RestKeeps
LEMMA SetupQuietly ==
  ASSUME chan \in [Channel -> Seq(AnyMsg)], KInv, potato' = potato,
         \A c \in Channel :
           \/ chan'[c] = chan[c]
           \/ \E m \in SetupMsg : chan'[c] = Append(chan[c], m)
           \/ chan[c] # <<>> /\ Head(chan[c]).kind # "potato" /\ chan'[c] = Tail(chan[c])
  PROVE  Alone' /\ Rests /\ \A c \in Channel : Ended(chan'[c]) => Ended(chan[c])
<1>1. Alone' /\ Carrying' = Carrying /\ Kept(Carrying)
  BY Quietly DEF KInv
<1>2. ASSUME NEW c \in Channel, Ended(chan'[c]) PROVE Ended(chan[c])
  <2>1. PICK s \in Seq(AnyMsg) : s = chan[c]
    OBVIOUS
  <2>2. Single(s)
    BY <2>1 DEF KInv, Alone
  <2>3. ASSUME NEW m \in SetupMsg, chan'[c] = Append(s, m) PROVE Ended(s)
    <3>1. m \in AnyMsg /\ m.kind # "potato" /\ m # EOF
      BY MsgKinds
    <3>2. Ended(Append(s, m)) <=> Ended(s) \/ m = EOF
      BY <2>2, <3>1, OnAppend
    <3> QED
      BY <1>2, <2>3, <3>1, <3>2
  <2>4. CASE s # <<>> /\ chan'[c] = Tail(s)
    BY <1>2, <2>1, <2>2, <2>4, OnTail
  <2> QED
    BY <1>2, <2>1, <2>3, <2>4
<1> QED
  BY <1>1, <1>2 DEF Rests

LEMMA SetupSends ==
  ASSUME NEW ch \in [Channel -> Seq(AnyMsg)], NEW d \in Channel, NEW m \in SetupMsg
  PROVE  \A c \in Channel : Send(ch, d, m)[c] = IF c = d THEN Append(ch[c], m) ELSE ch[c]
BY MsgKinds, SentOne

LEMMA MasterSetup ==
  ASSUME RInv, KInv, acceptPlayer \/ recvPort \/ sendNeighbors, UNCHANGED died
  PROVE  Rests /\ KInv'
<1>0. /\ Shape /\ Seating /\ Players \subseteq AllPlayers /\ numPlayers \in Nat /\ Index \in Nat
      /\ chan \in [Channel -> Seq(AnyMsg)]
  BY Counts DEF RInv, Shape
<1>1. /\ UNCHANGED <<numPlayers, numHops, pc, potato>>
      /\ mpc \in Early /\ mpc' \in Early \cup {"playGame"}
  BY DEF acceptPlayer, recvPort, sendNeighbors, args, ringVars, Early
<1>2. ASSUME NEW c \in Channel
      PROVE  \/ chan'[c] = chan[c]
             \/ \E m \in SetupMsg : chan'[c] = Append(chan[c], m)
             \/ chan[c] # <<>> /\ Head(chan[c]).kind # "potato" /\ chan'[c] = Tail(chan[c])
  <2>1. CASE acceptPlayer
    <3>1. PICK p \in Players : p = Head(backlog[Master])
      <4>1. backlog[Master] \in Seq(Players) /\ backlog[Master] # <<>>
        BY <1>0, <2>1 DEF Shape, acceptPlayer
      <4> QED
        BY <4>1, HeadTailProperties
    <3>2. fromM(p) \in Channel /\ IdMsg(Index, numPlayers) \in SetupMsg
      BY <1>0, <3>1, Names DEF IdMsg, SetupMsg
    <3>3. chan' = Send(chan, fromM(p), IdMsg(Index, numPlayers))
      BY <2>1, <3>1 DEF acceptPlayer, fromM
    <3>4. chan'[c] = IF c = fromM(p) THEN Append(chan[c], IdMsg(Index, numPlayers)) ELSE chan[c]
      BY <1>0, <3>2, <3>3, SetupSends
    <3> QED
      BY <3>2, <3>4
  <2>2. CASE recvPort
    <3>1. PICK p \in Players : p = playerFds[Index]
      <4>1. Index \in Seats
        BY <1>0, <2>2 DEF recvPort, Seating, Seats
      <4> QED
        BY <1>0, <4>1, Counts
    <3>2. toM(p) \in Channel /\ chan[toM(p)] # <<>> /\ chan' = Received(chan, toM(p))
      BY <1>0, <2>2, <3>1, Names DEF recvPort, toM
    <3>3. chan'[c] = IF c = toM(p) /\ Head(chan[toM(p)]) # EOF THEN Tail(chan[c]) ELSE chan[c]
      BY <1>0, <3>2, Took
    <3>4. Head(chan[toM(p)]).kind # "potato"
      <4>1. PICK s \in Seq(AnyMsg) : s = chan[toM(p)] /\ s # <<>>
        BY <1>0, <3>2
      <4>2. ~Has(s) /\ Single(s)
        BY <1>1, <3>2, <4>1 DEF KInv, Thrown, Before, Carrying, Alone
      <4> QED
        BY <4>1, <4>2, OnTail
    <3> QED
      BY <3>2, <3>3, <3>4
  <2>3. CASE sendNeighbors
    <3>1. ASSUME c[1] \in Players, c[2] = "fromMaster"
          PROVE  \E m \in SetupMsg : chan'[c] = Append(chan[c], m)
      <4>1. Index = numPlayers /\ Seats = 1 .. numPlayers
        BY <1>0, <2>3 DEF sendNeighbors, Seating, Seats
      <4>2. PICK k \in 1 .. numPlayers : playerFds[k] = c[1]
        BY <1>0, <3>1, <4>1, AllSeated
      <4> DEFINE i == CHOOSE j \in Ids : playerFds[j + 1] = c[1]
      <4>3. k - 1 \in Ids /\ playerFds[(k - 1) + 1] = c[1]
        BY <1>0, <4>2 DEF Ids
      <4>4. i \in Ids
        BY <4>3
      <4>5. chan'[c] = Append(chan[c], PortMsg(playerPorts[((i - 1 + numPlayers) % numPlayers) + 1]))
        BY <2>3, <3>1 DEF sendNeighbors
      <4>6. ((i - 1 + numPlayers) % numPlayers) + 1 \in 1 .. numPlayers
        <5> HIDE DEF i
        <5>1. i \in 0 .. numPlayers - 1 /\ numPlayers > 0
          BY <1>0, <4>2, <4>4 DEF Ids
        <5>2. (i - 1 + numPlayers) % numPlayers \in 0 .. numPlayers - 1
          BY <1>0, <5>1
        <5> QED
          BY <1>0, <5>2
      <4>7. PICK l \in 1 .. numPlayers : l = ((i - 1 + numPlayers) % numPlayers) + 1
        BY <4>6
      <4>8. playerPorts[l] \in Nat
        BY <1>0, <2>3, <4>1, Counts DEF sendNeighbors, Seating
      <4>9. PortMsg(playerPorts[l]) \in SetupMsg
        BY <4>8 DEF PortMsg, SetupMsg
      <4> QED
        BY <4>5, <4>7, <4>9
    <3>2. ASSUME ~(c[1] \in Players /\ c[2] = "fromMaster") PROVE chan'[c] = chan[c]
      BY <2>3, <3>2 DEF sendNeighbors
    <3> QED
      BY <3>1, <3>2
  <2> QED
    BY <2>1, <2>2, <2>3
<1>3. Alone' /\ Rests /\ \A c \in Channel : Ended(chan'[c]) => Ended(chan[c])
  BY <1>0, <1>1, <1>2, SetupQuietly
<1> QED
  BY <1>1, <1>3, SetupKeeps

LEMMA PlayerSetup ==
  ASSUME RInv, KInv, UNCHANGED died, NEW p \in Players,
         buildMasterConnect(p) \/ joinGame(p) \/ buildNeighborConnect(p) \/ acceptRight(p)
  PROVE  Rests /\ KInv'
<1>0. /\ Shape /\ Seating /\ p \in AllPlayers /\ Players \subseteq AllPlayers
      /\ chan \in [Channel -> Seq(AnyMsg)]
  BY Counts DEF RInv, Shape
<1>1. /\ UNCHANGED <<numPlayers, numHops, mpc, potato>>
      /\ \E n \in {"recvId", "recvLeft", "accept", "listen"} : pc' = [pc EXCEPT ![p] = n]
      /\ pc[p] \in {"start", "recvId", "recvLeft", "accept"}
  BY DEF buildMasterConnect, joinGame, buildNeighborConnect, acceptRight, args
<1>2. \A q \in Players : pc'[q] = pc[q] \/ (pc[q] \notin InRing /\ pc'[q] \notin {"close", "done"})
  BY <1>0, <1>1 DEF Shape, InRing
<1>3. ASSUME joinGame(p) \/ buildNeighborConnect(p)
      PROVE  /\ chan[fromM(p)] # <<>> /\ Head(chan[fromM(p)]).kind # "potato"
             /\ Head(chan[fromM(p)]) # EOF
  <2>1. chan[fromM(p)] # <<>>
    BY <1>3 DEF joinGame, buildNeighborConnect, fromM
  <2>2. PICK k \in Seats : playerFds[k] = p
    BY <2>1 DEF RInv, Outside, Unseated
  <2>3. AtSeat(k)
    BY DEF RInv
  <2>4. \/ chan[fromM(p)] = <<IdMsg(k - 1, numPlayers)>>
        \/ Head(chan[fromM(p)]) = PortMsg(playerFds[LeftOf(k)])
    BY <1>3, <2>1, <2>2, <2>3 DEF joinGame, buildNeighborConnect, AtSeat
  <2> QED
    BY <2>1, <2>4 DEF IdMsg, PortMsg, EOF
<1>4. ASSUME NEW c \in Channel
      PROVE  \/ chan'[c] = chan[c]
             \/ \E m \in SetupMsg : chan'[c] = Append(chan[c], m)
             \/ chan[c] # <<>> /\ Head(chan[c]).kind # "potato" /\ chan'[c] = Tail(chan[c])
  <2>1. CASE buildMasterConnect(p) \/ acceptRight(p)
    BY <2>1 DEF buildMasterConnect, acceptRight
  <2>2. CASE joinGame(p) \/ buildNeighborConnect(p)
    <3>1. fromM(p) \in Channel /\ toM(p) \in Channel /\ fromM(p) # toM(p)
      BY <1>0, Names
    <3>2. /\ Received(chan, fromM(p)) \in [Channel -> Seq(AnyMsg)]
          /\ \A e \in Channel :
               Received(chan, fromM(p))[e] =
                 IF e = fromM(p) /\ Head(chan[fromM(p)]) # EOF THEN Tail(chan[e]) ELSE chan[e]
      BY <1>0, <1>3, <2>2, <3>1, Took
    <3>3. PortMsg(p) \in SetupMsg
      BY <1>0, Counts DEF PortMsg, SetupMsg
    <3>4. CASE joinGame(p)
      <4>1. chan' = Send(Received(chan, fromM(p)), toM(p), PortMsg(p))
        BY <3>4 DEF joinGame, fromM, toM
      <4>2. chan'[c] = IF c = toM(p) THEN Append(Received(chan, fromM(p))[c], PortMsg(p))
                      ELSE Received(chan, fromM(p))[c]
        BY <3>1, <3>2, <3>3, <4>1, SetupSends
      <4> QED
        BY <1>3, <2>2, <3>1, <3>2, <3>3, <4>2
    <3>5. CASE buildNeighborConnect(p)
      <4>1. chan' = Received(chan, fromM(p))
        BY <3>5 DEF buildNeighborConnect, fromM
      <4> QED
        BY <1>3, <2>2, <3>2, <4>1
    <3> QED
      BY <2>2, <3>4, <3>5
  <2> QED
    BY <2>1, <2>2
<1>5. Alone' /\ Rests /\ \A c \in Channel : Ended(chan'[c]) => Ended(chan[c])
  BY <1>0, <1>1, <1>4, SetupQuietly
<1> QED
  BY <1>1, <1>2, <1>5, SetupKeeps
-----------------------------------------------------------------------------
\* A potato read, and any on a channel.
LEMMA HeadIs ==
  ASSUME Alone, NEW c \in Channel, chan[c] \in Seq(GameMsg), chan[c] # <<>>,
         chan \in [Channel -> Seq(AnyMsg)]
  PROVE  /\ Head(chan[c]) = EOF => Ended(chan[c])
         /\ Head(chan[c]) # EOF =>
              /\ c \in Carrying /\ On(c) = Head(chan[c]).potato /\ Head(chan[c]).kind = "potato"
              /\ On(c) \in Potatoes /\ Head(chan[c]) = PotatoMsg(On(c))
<1>1. PICK s \in Seq(AnyMsg) : s = chan[c] /\ s # <<>> /\ Single(s)
  BY DEF Alone
<1>2. Head(s) = s[1] /\ 1 \in 1 .. Len(s) /\ Head(s) \in GameMsg
  BY <1>1, HeadTailProperties
<1>3. Head(s) = EOF => Ended(s)
  BY <1>2 DEF Ended
<1>4. ASSUME Head(s) # EOF
      PROVE  /\ Head(s).kind = "potato" /\ Head(s).potato \in Potatoes
             /\ Head(s) = PotatoMsg(Head(s).potato)
  BY <1>2, <1>4, Kinds
<1>5. Head(s) # EOF => Has(s) /\ Value(s) = Head(s).potato
  BY <1>1, <1>4, OnTail
<1> QED
  BY <1>1, <1>3, <1>4, <1>5 DEF Carrying, On

LEMMA OnType ==
  ASSUME chan \in [Channel -> Seq(AnyMsg)], Alone, NEW c \in Carrying
  PROVE  On(c) \in Potatoes /\ c \in Channel
<1>1. c \in Channel /\ Has(chan[c])
  BY DEF Carrying
<1>2. PICK s \in Seq(AnyMsg) : s = chan[c] /\ Single(s)
  BY <1>1 DEF Alone
<1>3. PICK i \in 1 .. Len(s) : s[i].kind = "potato"
  BY <1>1, <1>2 DEF Has
<1>4. s[i] \in AnyMsg
  BY <1>3, ElementOfSeq
<1>5. Value(s) = s[i].potato
  BY <1>2, <1>3, ValueIs
<1> QED
  BY <1>1, <1>2, <1>3, <1>4, <1>5, MsgKinds DEF On

\* The ends of connections sent by one that leaves.
LEMMA Closes ==
  ASSUME chan \in [Channel -> Seq(AnyMsg)], KInv, potato' = potato,
         NEW C, chan' = SendAll(chan, C, EOF)
  PROVE  Alone' /\ Rests
<1>1. \A c \in Channel : chan'[c] = IF c \in C THEN Append(chan[c], EOF) ELSE chan[c]
  BY MsgKinds, Sent
<1> QED
  BY <1>1, Quietly DEF KInv, Rests

LEMMA LeaveMoves ==
  ASSUME RInv, KInv,
         \/ closeRingmaster /\ UNCHANGED died
         \/ \E p \in Players : closePlayer(p) /\ UNCHANGED died
         \/ \E p \in Players : die(p)
  PROVE  Rests /\ KInv'
<1>0. /\ chan \in [Channel -> Seq(AnyMsg)] /\ pc \in [AllPlayers -> PlayerPCs]
      /\ Players \subseteq AllPlayers
  BY Counts DEF RInv, Shape
<1>1. CASE closeRingmaster /\ UNCHANGED died
  <2>1. /\ mpc = "close" /\ mpc' = "done" /\ UNCHANGED <<numPlayers, numHops, potato, pc>>
        /\ chan' = SendAll(chan, Players \X {"fromMaster"}, EOF)
    BY <1>1 DEF closeRingmaster, args
  <2>2. Alone' /\ Rests
    BY <1>0, <2>1, Closes
  <2>3. ~Before' /\ Ending
    BY <2>1 DEF Before, Early, Ending
  <2> QED
    BY <1>1, <2>1, <2>2, <2>3, RestKeeps
<1>2. ASSUME NEW p \in Players, (closePlayer(p) /\ UNCHANGED died) \/ die(p)
      PROVE  Rests /\ KInv'
  <2>1. /\ UNCHANGED <<numPlayers, numHops, mpc, potato>>
        /\ pc' = [pc EXCEPT ![p] = "done"]
        /\ chan' = SendAll(chan, Range(outFds(p)), EOF)
    BY <1>2 DEF closePlayer, die, args
  <2>2. Alone' /\ Rests
    BY <1>0, <2>1, Closes
  <2>3. \A q \in Players : pc[q] \in InRing => pc'[q] \in InRing
    BY <1>0, <2>1 DEF InRing
  <2>4. died' = {} => died = {} /\ Ending
    BY <1>2 DEF closePlayer, die, Ending
  <2>5. Before' <=> Before
    BY <2>1 DEF Before
  <2> QED
    BY <2>1, <2>2, <2>3, <2>4, <2>5, RestKeeps
<1> QED
  BY <1>1, <1>2

LEMMA ThrowMoves ==
  ASSUME RInv, KInv, throwPotato, UNCHANGED died
  PROVE  ((Rests /\ mpc' = "close") \/ IsThrown) /\ KInv'
<1>0. /\ chan \in [Channel -> Seq(AnyMsg)] /\ potato \in Potatoes /\ Shape /\ Seating
      /\ Players \subseteq AllPlayers /\ numHops \in Nat
  BY Counts, HotPotatoAssumption DEF RInv, Shape
<1>1. /\ mpc = "playGame" /\ UNCHANGED <<numPlayers, numHops, potato, pc>> /\ Players' = Players
      /\ Index = numPlayers
  BY <1>0 DEF throwPotato, args, ringVars, Players, Seating
<1>2. Before /\ Carrying = {} /\ potato = Potato(numHops) /\ (died = {} => ~Ending)
  BY <1>1 DEF KInv, Before, Thrown, InTime
<1>3. CASE numHops = 0 /\ mpc' = "close" /\ UNCHANGED chan
  <2>1. Alone' /\ Rests
    BY <1>0, <1>1, <1>3, Quietly DEF KInv, Rests
  <2>2. ~Before'
    BY <1>3 DEF Before, Early
  <2> QED
    BY <1>1, <1>2, <1>3, <2>1, <2>2, RestKeeps
<1>4. CASE /\ numHops # 0 /\ mpc' = "catch"
           /\ \E i \in 1 .. numPlayers :
                chan' = Send(chan, <<playerFds[i], "fromMaster">>, PotatoMsg(potato))
  <2>1. PICK q \in Players : chan' = Send(chan, fromM(q), PotatoMsg(potato))
    BY <1>0, <1>1, <1>4, Counts DEF fromM, Seats
  <2>2. PICK d \in Channel : d = fromM(q) /\ d[1] = q /\ d[2] = "fromMaster"
    BY <1>0, Names DEF fromM
  <2>3. PICK m \in AnyMsg : m = PotatoMsg(potato)
    BY <1>0, MsgKinds
  <2>4. \A c \in Channel : chan'[c] = IF c = d THEN Append(chan[c], PotatoMsg(potato)) ELSE chan[c]
    <3>1. \A c \in Channel : Send(chan, d, m)[c] = IF c = d THEN Append(chan[c], m) ELSE chan[c]
      BY <1>0, SentOne
    <3> QED
      BY <2>1, <2>2, <2>3, <3>1
  <2>5. /\ Alone' /\ Carrying' = {d} /\ On(d)' = potato
        /\ \A c \in Channel : Ended(chan'[c]) => Ended(chan[c])
    <3> DEFINE X == {}
               D == {d}
    <3>1. /\ Alone' /\ Carrying' = (Carrying \ X) \cup D
          /\ \A c \in D : On(c)' = potato
          /\ \A c \in Channel : Ended(chan'[c]) => Ended(chan[c])
      <4>1. /\ X \in SUBSET Channel /\ D \in SUBSET Channel
            /\ Carrying \cap D \subseteq X /\ X \cap D = {}
            /\ \A c \in X : chan[c] # <<>> /\ Head(chan[c]).kind = "potato" /\ chan'[c] = Tail(chan[c])
            /\ \A c \in D : chan'[c] = Append(chan[c], PotatoMsg(potato))
            /\ \A c \in Channel \ (X \cup D) : chan'[c] = chan[c]
        BY <1>2, <2>4
      <4> HIDE DEF X, D
      <4> QED
        BY <1>0, <4>1, Passing DEF KInv
    <3> QED
      BY <1>2, <3>1
  <2>6. On(d)'.ttl > 0 /\ Flying(d)' /\ mpc' = "catch"
    BY <1>0, <1>2, <1>4, <2>5 DEF Potato, Flying
  <2>7. IsThrown
    BY <1>0, <1>1, <1>2, <1>4, <2>2, <2>5 DEF IsThrown
  <2>8. Travels'
    BY <1>1, <2>2, <2>5, <2>6 DEF Travels
  <2>9. Thrown' /\ ~Before'
    BY <2>6 DEF Thrown, Before, Early
  <2>10. InTime'
    <3>1. Ending' => Ending
      BY <1>1, <2>5, <2>6 DEF Ending
    <3> QED
      BY <1>2, <3>1 DEF InTime
  <2> QED
    BY <2>5, <2>7, <2>8, <2>9, <2>10 DEF KInv
<1> QED
  BY <1>3, <1>4 DEF throwPotato
\* A player reads.
LEMMA ListenMoves ==
  ASSUME RInv, KInv, NEW p \in Players, listenAndForwardPotato(p), UNCHANGED died
  PROVE  /\ Rests \/ IsRead \/ \E c, d \in Channel : Hops(p, c, d)
         /\ KInv'
<1>0. /\ chan \in [Channel -> Seq(AnyMsg)] /\ pc \in [AllPlayers -> PlayerPCs]
      /\ playerId \in [AllPlayers -> Nat] /\ Alone /\ Travels
  BY DEF RInv, Shape, KInv
<1>1. /\ pc[p] = "listen" /\ UNCHANGED <<numPlayers, numHops, mpc, potato>> /\ Players' = Players
  BY DEF listenAndForwardPotato, args, Players
<1>2. /\ Late /\ p \in AllPlayers /\ rightFd[p] \in AllPlayers /\ rightFd[p] \in Players /\ rightFd[p] # p
  BY <1>1, InTheRing DEF InRing, Linked
<1>3. PICK k \in FirstReady(listenFds(p)) :
        LET m == Head(chan[listenFds(p)[k]])
            rest == Received(chan, listenFds(p)[k])
        IN  \/ /\ m = EOF \/ (m # EOF /\ m.potato.ttl = 0)
               /\ chan' = rest
               /\ pc' = [pc EXCEPT ![p] = "close"]
            \/ /\ m # EOF /\ m.potato.ttl = 1
               /\ chan' = Send(rest, outFds(p)[3], PotatoMsg(RecordHop(m.potato, playerId[p])))
               /\ pc' = [pc EXCEPT ![p] = "close"]
            \/ /\ m # EOF /\ m.potato.ttl > 1
               /\ \E picked \in {1, 2} :
                    chan' = Send(rest, outFds(p)[picked],
                                 PotatoMsg(RecordHop(m.potato, playerId[p])))
               /\ UNCHANGED pc
  BY DEF listenAndForwardPotato
<1>4. PICK c \in {fromL(p), toL(rightFd[p]), fromM(p)} :
        /\ listenFds(p)[k] = c /\ c \in Channel /\ chan[c] \in Seq(GameMsg) /\ chan[c] # <<>>
  BY <1>1, Reads
<1>5. c[2] # "toMaster"
  BY <1>4 DEF fromL, toL, fromM
<1> DEFINE m == Head(chan[c])
           rest == Received(chan, c)
<1>6. /\ rest \in [Channel -> Seq(AnyMsg)]
      /\ \A e \in Channel : rest[e] = IF e = c /\ m # EOF THEN Tail(chan[e]) ELSE chan[e]
  BY <1>0, <1>4, Took
<1>7. /\ m = EOF => Ended(chan[c])
      /\ m # EOF => /\ c \in Carrying /\ On(c) = m.potato /\ m.kind = "potato" /\ On(c) \in Potatoes
  BY <1>0, <1>4, HeadIs
<1>8. \A q \in Players : pc[q] \in InRing /\ pc' = [pc EXCEPT ![p] = "close"] => pc'[q] \in InRing
  BY <1>0, <1>1, <1>2, Counts DEF InRing, RInv, Shape
<1>9. CASE m = EOF
  <2>1. chan' = chan /\ pc' = [pc EXCEPT ![p] = "close"]
    BY <1>3, <1>4, <1>9 DEF Received
  <2>2. Alone' /\ Rests
    BY <1>0, <1>1, <2>1, Quietly DEF Rests
  <2>3. Ending /\ (Before' <=> Before)
    BY <1>1, <1>4, <1>7, <1>9 DEF Ending, Before
  <2> QED
    BY <1>1, <1>8, <2>1, <2>2, <2>3, RestKeeps
<1>10. CASE m # EOF /\ m.potato.ttl = 0
  <2>1. chan' = rest /\ pc' = [pc EXCEPT ![p] = "close"]
    BY <1>3, <1>4, <1>10
  <2>2. /\ Alone' /\ Carrying' = Carrying \ {c} /\ Kept(Carrying \ {c})
    <3> DEFINE X == {c}
               D == {}
    <3>1. Alone' /\ Carrying' = (Carrying \ X) \cup D /\ Kept(Carrying \ X)
      <4>1. /\ X \in SUBSET Channel /\ D \in SUBSET Channel
            /\ Carrying \cap D \subseteq X /\ X \cap D = {}
            /\ \A e \in X : chan[e] # <<>> /\ Head(chan[e]).kind = "potato" /\ chan'[e] = Tail(chan[e])
            /\ \A e \in D : chan'[e] = Append(chan[e], PotatoMsg(On(c)))
            /\ \A e \in Channel \ (X \cup D) : chan'[e] = chan[e]
        BY <1>4, <1>6, <1>7, <1>10, <2>1
      <4> HIDE DEF X, D
      <4> QED
        BY <1>0, <1>7, <1>10, <4>1, Passing
    <3> QED
      BY <3>1
  <2>3. c \in Carrying /\ ~Flying(c)
    BY <1>5, <1>7, <1>10 DEF Flying
  <2>4. mpc \in {"close", "done"}
    BY <1>0, <2>3 DEF Travels
  <2>5. \A e \in Carrying : ~Flying(e) /\ On(e).ttl = 0
    <3>1. \A e \in Carrying : ~Flying(e)
      BY <1>0, <2>3 DEF Travels
    <3> QED
      BY <1>0, <3>1, OnType DEF Flying, Potatoes
  <2>6. IsRead
    BY <1>1, <2>2, <2>3 DEF IsRead
  <2>7. \A e \in Carrying' : e \in Carrying /\ On(e)' = On(e) /\ On(e)'.ttl = 0 /\ ~Flying(e)'
    BY <2>2, <2>5 DEF Kept, Flying
  <2>8. Travels'
    BY <1>0, <1>1, <1>8, <2>1, <2>5, <2>7 DEF Travels
  <2>9. ~Before' /\ Thrown' /\ InTime'
    BY <1>1, <2>4, <2>7 DEF Before, Early, Thrown, InTime
  <2> QED
    BY <2>2, <2>6, <2>8, <2>9 DEF KInv
<1>11. CASE m # EOF /\ m.potato.ttl > 0
  <2>1. PICK d \in Channel :
          /\ d \notin {fromL(p), toL(rightFd[p]), fromM(p)}
          /\ chan' = Send(rest, d, PotatoMsg(RecordHop(On(c), playerId[p])))
          /\ \/ On(c).ttl = 1 /\ d = toM(p) /\ pc' = [pc EXCEPT ![p] = "close"]
             \/ On(c).ttl > 1 /\ d \in {toL(p), fromL(rightFd[p])} /\ UNCHANGED pc
    <3>1. \/ /\ On(c).ttl = 1 /\ pc' = [pc EXCEPT ![p] = "close"]
             /\ chan' = Send(rest, toM(p), PotatoMsg(RecordHop(On(c), playerId[p])))
          \/ /\ On(c).ttl > 1 /\ UNCHANGED pc
             /\ \E d \in {toL(p), fromL(rightFd[p])} :
                  chan' = Send(rest, d, PotatoMsg(RecordHop(On(c), playerId[p])))
      BY <1>3, <1>4, <1>7, <1>11, Sends
    <3>2. \A d \in {toL(p), fromL(rightFd[p]), toM(p)} :
             d \in Channel /\ d \notin {fromL(p), toL(rightFd[p]), fromM(p)}
      BY <1>2, Names
    <3> QED
      BY <3>1, <3>2
  <2>2. PICK r \in Potatoes : r = RecordHop(On(c), playerId[p]) /\ r.ttl = On(c).ttl - 1
    <3>1. playerId[p] \in Nat
      BY <1>0, <1>2
    <3>2. RecordHop(On(c), playerId[p]) \in Potatoes
      BY <1>7, <1>11, <3>1, Hopped
    <3>3. RecordHop(On(c), playerId[p]).ttl = On(c).ttl - 1
      BY <1>7, <1>11 DEF RecordHop, Potatoes
    <3> QED
      BY <3>2, <3>3
  <2>3. c \in Carrying /\ Flying(c) /\ Carrying = {c} /\ On(c).ttl > 0 /\ On(c).ttl \in Nat
    BY <1>0, <1>7, <1>11 DEF Flying, Travels, Potatoes
  <2>4. /\ Alone' /\ Carrying' = {d} /\ On(d)' = r
        /\ \A e \in Channel : Ended(chan'[e]) => Ended(chan[e])
    <3> DEFINE X == {c}
               D == {d}
    <3>1. PICK g \in AnyMsg : g = PotatoMsg(r)
      BY MsgKinds
    <3>2. \A e \in Channel : chan'[e] = IF e = d THEN Append(rest[e], PotatoMsg(r)) ELSE rest[e]
      <4> HIDE DEF rest
      <4>1. \A e \in Channel : Send(rest, d, g)[e] = IF e = d THEN Append(rest[e], g) ELSE rest[e]
        BY <1>6, SentOne
      <4> QED
        BY <2>1, <2>2, <3>1, <4>1
    <3>3. /\ Alone' /\ Carrying' = (Carrying \ X) \cup D
          /\ \A e \in D : On(e)' = r
          /\ \A e \in Channel : Ended(chan'[e]) => Ended(chan[e])
      <4>1. /\ X \in SUBSET Channel /\ D \in SUBSET Channel
            /\ Carrying \cap D \subseteq X /\ X \cap D = {}
            /\ \A e \in X : chan[e] # <<>> /\ Head(chan[e]).kind = "potato" /\ chan'[e] = Tail(chan[e])
            /\ \A e \in D : chan'[e] = Append(chan[e], PotatoMsg(r))
            /\ \A e \in Channel \ (X \cup D) : chan'[e] = chan[e]
        <5>1. c # d
          BY <1>4, <2>1
        <5>2. chan[c] # <<>> /\ Head(chan[c]).kind = "potato" /\ chan'[c] = Tail(chan[c])
          BY <1>4, <1>6, <1>7, <1>11, <3>2, <5>1
        <5>3. chan'[d] = Append(chan[d], PotatoMsg(r))
          BY <1>6, <3>2, <5>1
        <5>4. \A e \in Channel \ (X \cup D) : chan'[e] = chan[e]
          BY <1>6, <3>2
        <5> QED
          BY <1>4, <2>3, <5>1, <5>2, <5>3, <5>4
      <4> HIDE DEF X, D
      <4> QED
        BY <1>0, <4>1, Passing
    <3> QED
      BY <2>3, <3>3
  <2>5. Hops(p, c, d)
    BY <1>1, <1>4, <2>1, <2>2, <2>3, <2>4 DEF Hops
  <2>6. ~Before /\ ~Before'
    BY <1>1, <2>3 DEF KInv, Thrown, Before
  <2>7. Travels'
    <3>1. /\ d = toM(p) => d[1] = p /\ d[2] = "toMaster"
          /\ d = toL(p) => d[1] = p /\ d[2] = "toLeft"
          /\ d = fromL(rightFd[p]) => d[1] = rightFd[p] /\ d[2] = "fromLeft"
      BY DEF toM, toL, fromL
    <3>2. Flying(d)' /\ d[1] \in Players' /\ (d[2] = "toMaster" => On(d)'.ttl = 0)
          /\ (d[2] = "toLeft" => pc'[d[1]] \in InRing)
      BY <1>1, <1>2, <2>1, <2>2, <2>3, <2>4, <3>1 DEF Flying, InRing
    <3> QED
      BY <2>4, <3>2 DEF Travels
  <2>8. InTime'
    <3>1. CASE On(c).ttl = 1
      BY <2>2, <2>4, <2>6, <3>1 DEF InTime
    <3>2. CASE On(c).ttl > 1
      <4>1. pc' = pc /\ On(d)'.ttl # 0
        BY <2>1, <2>2, <2>3, <2>4, <3>2
      <4>2. Ending' => Ending
        BY <1>1, <2>4, <4>1 DEF Ending
      <4>3. died = {} => ~Ending
        BY <2>3 DEF KInv, InTime
      <4> QED
        BY <4>2, <4>3 DEF InTime
    <3> QED
      BY <2>3, <3>1, <3>2
  <2>9. Thrown'
    BY <2>6 DEF Thrown
  <2> QED
    BY <1>4, <2>4, <2>5, <2>7, <2>8, <2>9 DEF KInv
<1> QED
  <2>1. m # EOF => m.potato.ttl \in Nat
    BY <1>7 DEF Potatoes
  <2> QED
    BY <1>9, <1>10, <1>11, <2>1
\* The ringmaster reads.
LEMMA CatchMoves ==
  ASSUME RInv, KInv, catchPotato, UNCHANGED died
  PROVE  (Rests \/ IsCaught) /\ KInv'
<1>0. /\ chan \in [Channel -> Seq(AnyMsg)] /\ Shape /\ Seating /\ Alone /\ Travels
      /\ Players \subseteq AllPlayers
  BY Counts DEF RInv, Shape, KInv
<1>1. /\ mpc = "catch" /\ mpc' = "close" /\ UNCHANGED <<numPlayers, numHops, pc>> /\ Players' = Players
      /\ Late /\ Index = numPlayers
  BY <1>0 DEF catchPotato, args, ringVars, Players, Late, Early, Seating
<1> DEFINE fds == [k \in 1 .. numPlayers |-> <<playerFds[k], "toMaster">>]
<1>2. PICK k \in FirstReady(fds) :
        LET m == Head(chan[fds[k]])
        IN  \/ m = EOF /\ UNCHANGED <<potato, chan>>
            \/ /\ m # EOF
               /\ potato' = m.potato
               /\ chan' = SendAll(Received(chan, fds[k]), Players \X {"fromMaster"}, m)
  BY DEF catchPotato
<1>3. PICK q \in Players : fds[k] = toM(q) /\ chan[toM(q)] # <<>>
  <2>1. k \in 1 .. numPlayers /\ chan[fds[k]] # <<>>
    BY <1>2 DEF FirstReady
  <2>2. playerFds[k] \in Players
    BY <1>0, <1>1, <2>1, Counts DEF Seats
  <2> QED
    BY <2>1, <2>2 DEF toM
<1>4. PICK c \in Channel : c = toM(q) /\ c[2] = "toMaster" /\ chan[c] # <<>> /\ chan[c] \in Seq(GameMsg)
  BY <1>0, <1>1, <1>3, Names, Late_toM DEF toM
<1> DEFINE m == Head(chan[c])
<1>5. /\ m = EOF => Ended(chan[c])
      /\ m # EOF => /\ c \in Carrying /\ On(c) = m.potato /\ m.kind = "potato" /\ On(c) \in Potatoes
                    /\ m = PotatoMsg(On(c))
  BY <1>0, <1>4, HeadIs
<1>6. ~Before /\ ~Before'
  BY <1>1 DEF Before, Early
<1>7. CASE m = EOF
  <2>1. UNCHANGED <<potato, chan>>
    BY <1>2, <1>3, <1>4, <1>7
  <2>2. Alone' /\ Rests
    BY <1>0, <2>1, Quietly DEF Rests
  <2>3. Ending
    BY <1>4, <1>5, <1>7 DEF Ending
  <2> QED
    BY <1>1, <1>6, <2>2, <2>3, RestKeeps
<1>8. CASE m # EOF
  <2> DEFINE X == {c}
             D == Players \X {"fromMaster"}
             rest == Received(chan, c)
  <2>1. potato' = On(c) /\ chan' = SendAll(rest, D, PotatoMsg(On(c)))
    BY <1>2, <1>3, <1>4, <1>5, <1>8
  <2>2. c \in Carrying /\ Carrying = {c} /\ On(c).ttl = 0
    BY <1>0, <1>4, <1>5, <1>8 DEF Flying, Travels
  <2>3. /\ rest \in [Channel -> Seq(AnyMsg)]
        /\ \A e \in Channel : rest[e] = IF e = c THEN Tail(chan[e]) ELSE chan[e]
    BY <1>0, <1>4, <1>8, Took
  <2>4. \A e \in Channel : chan'[e] = IF e \in D THEN Append(rest[e], PotatoMsg(On(c))) ELSE rest[e]
    <3> HIDE DEF rest, D
    <3>1. PICK g \in AnyMsg : g = PotatoMsg(On(c))
      BY <1>5, <1>8, MsgKinds
    <3>2. \A e \in Channel : SendAll(rest, D, g)[e] = IF e \in D THEN Append(rest[e], g) ELSE rest[e]
      BY <2>3, Sent
    <3> QED
      BY <2>1, <3>1, <3>2
  <2>5. c \notin D /\ D \in SUBSET Channel
    BY <1>0, <1>4 DEF Channel
  <2>6. /\ Alone' /\ Carrying' = D
        /\ \A e \in D : On(e)' = On(c)
    <3>1. /\ Alone' /\ Carrying' = (Carrying \ X) \cup D
          /\ \A e \in D : On(e)' = On(c)
      <4>1. PICK r \in Potatoes : r = On(c)
        BY <1>5, <1>8
      <4>2. /\ X \in SUBSET Channel /\ D \in SUBSET Channel
            /\ Carrying \cap D \subseteq X /\ X \cap D = {}
            /\ \A e \in X : chan[e] # <<>> /\ Head(chan[e]).kind = "potato" /\ chan'[e] = Tail(chan[e])
            /\ \A e \in D : chan'[e] = Append(chan[e], PotatoMsg(r))
            /\ \A e \in Channel \ (X \cup D) : chan'[e] = chan[e]
        <5>1. chan'[c] = Tail(chan[c]) /\ chan[c] # <<>> /\ Head(chan[c]).kind = "potato"
          BY <1>4, <1>5, <1>8, <2>3, <2>4, <2>5
        <5>2. \A e \in D : e # c /\ chan'[e] = Append(chan[e], PotatoMsg(r))
          <6> HIDE DEF rest, D
          <6> QED
            BY <2>3, <2>4, <2>5, <4>1
        <5>3. \A e \in Channel \ (X \cup D) : chan'[e] = chan[e]
          <6> HIDE DEF rest, D
          <6> QED
            BY <2>3, <2>4
        <5> HIDE DEF rest, D
        <5> QED
          BY <2>2, <2>5, <5>1, <5>2, <5>3
      <4> HIDE DEF X, D
      <4>3. /\ Alone' /\ Carrying' = (Carrying \ X) \cup D
            /\ \A e \in D : On(e)' = r
        BY <1>0, <4>2, Passing
      <4> QED
        BY <4>1, <4>3
    <3> HIDE DEF D
    <3> QED
      BY <2>2, <3>1
  <2>7. \A e \in Carrying' : /\ e[1] \in Players /\ e[2] = "fromMaster" /\ On(e)' = On(c)
                            /\ On(e)'.ttl = 0 /\ ~Flying(e)'
    BY <2>2, <2>6 DEF Flying
  <2>8. IsCaught
    BY <1>4, <2>1, <2>2, <2>7 DEF IsCaught
  <2>9. Travels'
    BY <1>1, <2>7 DEF Travels
  <2>10. Thrown' /\ InTime'
    BY <1>6, <2>7 DEF Thrown, InTime
  <2> QED
    BY <2>6, <2>8, <2>9, <2>10 DEF KInv
<1> QED
  BY <1>7, <1>8

-----------------------------------------------------------------------------
LEMMA PotatoInit ==
  ASSUME Init
  PROVE  KInv /\ Counted
<1>1. \A c \in Channel : chan[c] = <<>>
  BY DEF Init
<1>2. Carrying = {} /\ Alone /\ \A c \in Channel : ~Ended(chan[c])
  BY <1>1 DEF Carrying, Has, Alone, Single, Ended
<1>3. \A p \in Players : pc[p] = "start"
  BY RingInit, Counts DEF Init, RInv
<1>4. Before /\ mpc = "accept"
  BY DEF Init, Before, Early
<1>5. ~Ending
  BY <1>2, <1>3, <1>4 DEF Ending
<1>6. potato = Potato(numHops) /\ numHops \in Nat
  BY HotPotatoAssumption DEF Init
<1> QED
  BY <1>2, <1>4, <1>5, <1>6 DEF KInv, Travels, Thrown, InTime, Counted, Potato

\* Every step leaves the potatoes where they are, or is a throw, a hop, a copy read, or
\* the catch.
LEMMA PotatoStep ==
  ASSUME RInv, KInv, [Next]_vars
  PROVE  Move /\ KInv'
<1>1. CASE UNCHANGED vars
  <2>1. UNCHANGED <<numPlayers, numHops, mpc, potato, pc, chan, died>>
    BY <1>1 DEF vars, args
  <2>2. Alone' /\ Rests
    BY <2>1, Quietly DEF RInv, Shape, KInv, Rests
  <2>3. \A c \in Channel : Ended(chan'[c]) => Ended(chan[c])
    BY <2>1
  <2>4. KInv'
    BY <2>1, <2>2, <2>3, SetupKeeps
  <2> QED
    BY <2>2, <2>4 DEF Move
<1>2. CASE Ringmaster
  BY <1>2, MasterSetup, ThrowMoves, CatchMoves, LeaveMoves DEF Ringmaster, Move
<1>3. ASSUME NEW p \in Players, Player(p) \/ die(p) PROVE Move /\ KInv'
  BY <1>3, PlayerSetup, ListenMoves, LeaveMoves DEF Player, Move
<1> QED
  BY <1>1, <1>2, <1>3 DEF Next, Finished

LEMMA PotatoInvariance == Spec => [](RInv /\ KInv)
<1>1. Init => RInv /\ KInv
  BY RingInit, PotatoInit
<1>2. RInv /\ KInv /\ [Next]_vars => (RInv /\ KInv)'
  BY RingStep, PotatoStep
<1> QED
  BY <1>1, <1>2, PTL DEF Spec
-----------------------------------------------------------------------------
(***************************************************************************)
(* The properties, in terms of the channels that carry a potato            *)
(***************************************************************************)

LEMMA Transit ==
  ASSUME chan \in [Channel -> Seq(AnyMsg)], Alone
  PROVE  /\ \A ci \in InTransit : ci[1] \in Carrying /\ At(ci) = On(ci[1])
         /\ \A ci, cj \in InTransit : ci[1] = cj[1] => ci = cj
         /\ \A c \in Carrying : \E ci \in InTransit : ci[1] = c
<1>1. ASSUME NEW c \in Channel
      PROVE  DOMAIN chan[c] = 1 .. Len(chan[c]) /\ Single(chan[c])
  BY DEF Alone
<1>2. ASSUME NEW ci \in InTransit
      PROVE  /\ ci[1] \in Channel /\ ci[2] \in 1 .. Len(chan[ci[1]]) /\ ci = <<ci[1], ci[2]>>
             /\ chan[ci[1]][ci[2]].kind = "potato"
  <2>1. PICK c \in Channel : ci \in {c} \X DOMAIN chan[c]
    BY DEF InTransit
  <2>2. ci[1] = c /\ ci[2] \in DOMAIN chan[c] /\ ci = <<ci[1], ci[2]>>
    BY <2>1
  <2>3. chan[ci[1]][ci[2]].kind = "potato"
    BY DEF InTransit
  <2> QED
    BY <1>1, <2>2, <2>3
<1>3. ASSUME NEW ci \in InTransit PROVE ci[1] \in Carrying /\ At(ci) = On(ci[1])
  <2>1. Has(chan[ci[1]]) /\ Value(chan[ci[1]]) = chan[ci[1]][ci[2]].potato
    BY <1>1, <1>2, ValueIs
  <2> QED
    BY <1>2, <2>1 DEF Carrying, On, At
<1>4. ASSUME NEW ci \in InTransit, NEW cj \in InTransit, ci[1] = cj[1] PROVE ci = cj
  <2>1. ci[2] = cj[2]
    BY <1>1, <1>2, <1>4 DEF Single
  <2> QED
    BY <1>2, <1>4, <2>1
<1>5. ASSUME NEW c \in Carrying PROVE \E ci \in InTransit : ci[1] = c
  <2>1. c \in Channel
    BY DEF Carrying
  <2>2. PICK i \in 1 .. Len(chan[c]) : chan[c][i].kind = "potato"
    BY DEF Carrying, Has
  <2> DEFINE ci == <<c, i>>
  <2>3. ci[1] = c /\ ci[2] = i
    OBVIOUS
  <2>4. ci \in {c} \X DOMAIN chan[c]
    BY <1>1, <2>1, <2>3
  <2> HIDE DEF ci
  <2>5. ci \in InTransit
    BY <2>1, <2>2, <2>3, <2>4 DEF InTransit
  <2> QED
    BY <2>3, <2>5
<1> QED
  BY <1>3, <1>4, <1>5

LEMMA HotOnes ==
  ASSUME chan \in [Channel -> Seq(AnyMsg)], KInv
  PROVE  /\ \A ci \in Hot : /\ ci \in InTransit /\ ci[1] \in Carrying /\ On(ci[1]).ttl > 0
                            /\ At(ci) = On(ci[1]) /\ Carrying = {ci[1]} /\ ci[1][2] # "toMaster"
         /\ \A ci, cj \in Hot : ci = cj
         /\ \A c \in Carrying : On(c).ttl > 0 => \E ci \in Hot : ci[1] = c
<1>1. ASSUME NEW ci \in Hot
      PROVE  /\ ci \in InTransit /\ ci[1] \in Carrying /\ On(ci[1]).ttl > 0
             /\ At(ci) = On(ci[1]) /\ Carrying = {ci[1]} /\ ci[1][2] # "toMaster"
  <2>1. ci \in InTransit /\ At(ci).ttl > 0
    BY DEF Hot
  <2>2. ci[1] \in Carrying /\ At(ci) = On(ci[1])
    BY <2>1, Transit DEF KInv
  <2> QED
    BY <2>1, <2>2 DEF KInv, Travels, Flying
<1>2. ASSUME NEW ci \in Hot, NEW cj \in Hot PROVE ci = cj
  BY <1>1, Transit DEF KInv
<1>3. ASSUME NEW c \in Carrying, On(c).ttl > 0 PROVE \E ci \in Hot : ci[1] = c
  BY <1>3, Transit DEF KInv, Hot
<1> QED
  BY <1>1, <1>2, <1>3

\* One potato, whatever the number of players and hops and whoever dies.
THEOREM OneAtATime == Spec => []OnePotato
<1>1. ASSUME RInv, KInv PROVE OnePotato
  <2>0. chan \in [Channel -> Seq(AnyMsg)] /\ mpc \in MasterPCs
    BY <1>1 DEF RInv, Shape
  <2>1. Cardinality(Hot) <= 1
    <3>1. CASE Hot = {}
      BY <3>1, FS_EmptySet
    <3>2. CASE Hot # {}
      <4>1. PICK x : x \in Hot
        BY <3>2
      <4>2. Hot = {x}
        BY <1>1, <2>0, <4>1, HotOnes
      <4>3. Cardinality({x}) = 1
        BY FS_Singleton
      <4> QED
        BY <4>2, <4>3
    <3> QED
      BY <3>1, <3>2
  <2>2. ASSUME Hot # {} PROVE /\ died = {} => mpc = "catch"
                             /\ \A ci \in InTransit : ci[1][2] # "toMaster"
    <3>1. PICK x \in Hot : /\ x[1] \in Carrying /\ On(x[1]).ttl > 0
                           /\ Carrying = {x[1]} /\ x[1][2] # "toMaster"
      BY <1>1, <2>0, <2>2, HotOnes
    <3>2. \A ci \in InTransit : ci[1][2] # "toMaster"
      BY <1>1, <2>0, <3>1, Transit DEF KInv
    <3>3. ~Before
      BY <1>1, <3>1 DEF KInv, Thrown
    <3>4. died = {} => ~Ending
      BY <1>1, <3>1 DEF KInv, InTime
    <3> QED
      BY <2>0, <3>2, <3>3, <3>4 DEF Ending, Before, MasterPCs
  <2> QED
    BY <2>1, <2>2 DEF OnePotato
<1> QED
  BY <1>1, PotatoInvariance, PTL

\* Who reads a flying potato is a player of the ring.
LEMMA Reader ==
  ASSUME RInv, KInv, NEW c \in Carrying, c[2] # "toMaster"
  PROVE  ReaderOf(c) \in Players
<1>1. c[1] \in Players /\ (c[2] = "toLeft" => pc[c[1]] \in InRing)
  BY DEF KInv, Travels
<1>2. c[2] = "toLeft" => leftFd[c[1]] \in Players
  BY <1>1, InTheRing DEF Linked
<1> QED
  BY <1>1, <1>2 DEF ReaderOf

\* No potato with hops left goes to a player that has left, unless somebody has died,
\* and then no second one does.
THEOREM NotToTheDeparted == Spec => []NeverToTheDeparted
<1>1. ASSUME RInv, KInv PROVE NeverToTheDeparted
  <2>0. chan \in [Channel -> Seq(AnyMsg)]
    BY <1>1 DEF RInv, Shape
  <2>1. ASSUME NEW ci \in Hot
        PROVE  /\ ReaderOf(ci[1]) \in Players
               /\ died = {} => pc[ReaderOf(ci[1])] \notin {"close", "done"}
    <3>1. ci[1] \in Carrying /\ On(ci[1]).ttl > 0 /\ ci[1][2] # "toMaster"
      BY <1>1, <2>0, HotOnes
    <3>2. ReaderOf(ci[1]) \in Players
      BY <1>1, <3>1, Reader
    <3>3. died = {} => ~Ending
      BY <1>1, <3>1 DEF KInv, InTime
    <3> QED
      BY <3>2, <3>3 DEF Ending
  <2>2. \A ci, cj \in InTransit : ci[1] = cj[1] => ci = cj
    BY <1>1, <2>0, Transit DEF KInv
  <2> QED
    BY <2>1, <2>2 DEF NeverToTheDeparted
<1> QED
  BY <1>1, PotatoInvariance, PTL

-----------------------------------------------------------------------------
(***************************************************************************)
(* The count                                                               *)
(***************************************************************************)

\* The arguments are those that fit, as MAX_NUM_HOPS suggests.
Fits == \A h \in HopCounts : h <= MaxNumHops

LEMMA ArgsKept ==
  ASSUME [Next]_vars
  PROVE  UNCHANGED <<numPlayers, numHops>>
BY DEF Next, vars, args, Ringmaster, Player, die, Finished, acceptPlayer, recvPort, sendNeighbors,
       throwPotato, catchPotato, closeRingmaster, buildMasterConnect, joinGame,
       buildNeighborConnect, acceptRight, listenAndForwardPotato, closePlayer

\* A hop that has room in path.
LEMMA RoomToHop ==
  ASSUME Fits, RInv, KInv, Counted, NEW c \in Carrying, On(c).ttl > 0, NEW id \in Nat
  PROVE  /\ On(c) \in Potatoes /\ On(c).count < MaxNumHops
         /\ RecordHop(On(c), id).ttl = On(c).ttl - 1
         /\ RecordHop(On(c), id).count = On(c).count + 1
<1>1. On(c) \in Potatoes
  BY OnType DEF RInv, Shape, KInv
<1>2. numHops \in Nat /\ numHops <= MaxNumHops /\ MaxNumHops \in Nat
  BY HotPotatoAssumption DEF Fits, RInv, Shape
<1>3. On(c).ttl \in Nat /\ On(c).count \in Nat /\ On(c).ttl + On(c).count = numHops
  BY <1>1 DEF Potatoes, Counted
<1>4. On(c).count < MaxNumHops
  BY <1>2, <1>3
<1> QED
  BY <1>1, <1>4 DEF RecordHop, Potatoes

LEMMA CountedStep ==
  ASSUME Fits, RInv, KInv, Counted, [Next]_vars
  PROVE  Counted'
<1>1. Move /\ numHops' = numHops
  BY PotatoStep, ArgsKept
<1>2. CASE Rests
  BY <1>1, <1>2 DEF Rests, Kept, Counted
<1>3. CASE IsThrown
  BY <1>1, <1>3 DEF IsThrown, Counted
<1>4. CASE IsRead
  BY <1>1, <1>4 DEF IsRead, Kept, Counted
<1>5. CASE IsCaught
  BY <1>1, <1>5 DEF IsCaught, Counted
<1>6. ASSUME NEW p \in Players, NEW c \in Channel, NEW d \in Channel, Hops(p, c, d)
      PROVE  Counted'
  <2>0. /\ c \in Carrying /\ Carrying' = {d} /\ potato' = potato
        /\ On(d)' = RecordHop(On(c), playerId[p])
        /\ On(c).ttl = 1 \/ On(c).ttl > 1
    BY <1>6 DEF Hops
  <2>1. On(c).ttl > 0
    <3>1. On(c) \in Potatoes
      BY <2>0, OnType DEF RInv, Shape, KInv
    <3>2. On(c).ttl \in Nat
      BY <3>1 DEF Potatoes
    <3> QED
      BY <2>0, <3>2
  <2>2. playerId[p] \in Nat
    BY Counts DEF RInv, Shape
  <2>3. /\ On(c) \in Potatoes /\ On(d)'.ttl = On(c).ttl - 1 /\ On(d)'.count = On(c).count + 1
    BY <2>0, <2>1, <2>2, RoomToHop
  <2>4. On(c).ttl \in Nat /\ On(c).count \in Nat
    BY <2>3 DEF Potatoes
  <2>5. On(d)'.ttl + On(d)'.count = numHops'
    BY <1>1, <2>0, <2>3, <2>4 DEF Counted
  <2> QED
    BY <1>1, <2>0, <2>5 DEF Counted
<1> QED
  BY <1>1, <1>2, <1>3, <1>4, <1>5, <1>6 DEF Move

LEMMA CountInvariance ==
  ASSUME Fits
  PROVE  Spec => [](RInv /\ KInv /\ Counted)
<1>1. Init => RInv /\ KInv /\ Counted
  BY RingInit, PotatoInit
<1>2. RInv /\ KInv /\ Counted /\ [Next]_vars => (RInv /\ KInv /\ Counted)'
  BY RingStep, PotatoStep, CountedStep
<1> QED
  BY <1>1, <1>2, PTL DEF Spec

\* In every game that fits into path, count and ttl of every potato add up to the
\* hops asked for.
THEOREM HopsAreCounted ==
  ASSUME Fits
  PROVE  Spec => []HopsCounted
<1>1. ASSUME RInv, KInv, Counted PROVE HopsCounted
  <2>1. \A ci \in InTransit : ci[1] \in Carrying /\ At(ci) = On(ci[1])
    BY <1>1, Transit DEF RInv, Shape, KInv
  <2> QED
    BY <1>1, <2>1 DEF HopsCounted, Counted
<1> QED
  BY <1>1, CountInvariance, PTL-----------------------------------------------------------------------------
(***************************************************************************)
(* The refinement                                                          *)
(***************************************************************************)

\* The abstract potato is the one on the channel that carries it.
View ==
  /\ \A c \in Carrying : On(c).ttl > 0 => ThePotato = On(c) /\ ThePlace = playerId[ReaderOf(c)]
  /\ \A c \in Carrying : c[2] = "toMaster" => ThePotato = On(c) /\ ThePlace = -1
  /\ (\A c \in Carrying : ~Flying(c)) => ThePotato = potato /\ ThePlace = -1

LEMMA Seen ==
  ASSUME RInv, KInv
  PROVE  View
<1>0. chan \in [Channel -> Seq(AnyMsg)] /\ Alone
  BY DEF RInv, Shape, KInv
<1>1. ASSUME NEW c \in Carrying, On(c).ttl > 0
      PROVE  ThePotato = On(c) /\ ThePlace = playerId[ReaderOf(c)]
  <2>1. PICK x : x = CHOOSE ci \in Hot : TRUE
    OBVIOUS
  <2>2. Hot # {} /\ x \in Hot
    BY <1>0, <1>1, <2>1, HotOnes
  <2>3. At(x) = On(c) /\ x[1] = c
    BY <1>0, <1>1, <2>2, HotOnes
  <2> QED
    BY <2>1, <2>2, <2>3 DEF ThePotato, ThePlace
<1>2. ASSUME NEW c \in Carrying, ~(On(c).ttl > 0), Carrying = {c} \/ ~Flying(c)
      PROVE  Hot = {}
  <2>1. ASSUME NEW x \in Hot PROVE FALSE
    <3>1. x[1] \in Carrying /\ On(x[1]).ttl > 0 /\ Carrying = {x[1]}
      BY <1>0, HotOnes
    <3> QED
      BY <1>2, <3>1
  <2> QED
    BY <2>1
<1>3. ASSUME NEW c \in Carrying, c[2] = "toMaster"
      PROVE  ThePotato = On(c) /\ ThePlace = -1
  <2>1. On(c).ttl = 0 /\ Carrying = {c}
    BY <1>3 DEF KInv, Travels, Flying
  <2>2. Hot = {}
    BY <1>2, <2>1
  <2>3. PICK y : y = CHOOSE ci \in InTransit : ci[1][2] = "toMaster"
    OBVIOUS
  <2>4. \E ci \in InTransit : ci[1][2] = "toMaster"
    BY <1>0, <1>3, Transit
  <2>5. y \in InTransit /\ y[1][2] = "toMaster"
    BY <2>3, <2>4
  <2>6. At(y) = On(c)
    BY <1>0, <2>1, <2>5, Transit
  <2> QED
    BY <2>2, <2>3, <2>4, <2>6 DEF ThePotato, ThePlace
<1>4. ASSUME \A c \in Carrying : ~Flying(c)
      PROVE  ThePotato = potato /\ ThePlace = -1
  <2>1. Hot = {}
    BY <1>0, <1>4, HotOnes DEF Flying
  <2>2. ~ \E ci \in InTransit : ci[1][2] = "toMaster"
    BY <1>0, <1>4, Transit DEF Flying
  <2> QED
    BY <2>1, <2>2 DEF ThePotato, ThePlace
<1> QED
  BY <1>1, <1>3, <1>4 DEF View

\* From the last sendNeighbors on, ids and, in the ring, neighbours stay.
LEMMA IdsGiven ==
  ASSUME RInv, Late
  PROVE  \A p \in Players : pc[p] # "recvId" /\ playerId[p] \in Ids
<1>1. Shape /\ Seating /\ Index = numPlayers /\ mpc # "recvPort"
  BY DEF RInv, Late, Early, Seating
<1>2. ASSUME NEW p \in Players PROVE pc[p] # "recvId" /\ playerId[p] \in Ids
  <2>1. PICK i \in 1 .. numPlayers : playerFds[i] = p
    <3>1. \E j \in Seats : playerFds[j] = p
      BY <1>1, AllSeated
    <3> QED
      BY <1>1, <3>1 DEF Seats
  <2>2. i \in Seats
    BY <1>1, <2>1 DEF Seats
  <2>3. pc[p] # "recvId" /\ playerId[p] = i - 1
    BY <1>1, <2>1, <2>2 DEF RInv, AtSeat
  <2>4. numPlayers \in Nat
    BY <1>1, Counts
  <2> QED
    BY <2>1, <2>3, <2>4 DEF Ids
<1> QED
  BY <1>2

LEMMA ReadersStay ==
  ASSUME RInv, Late, [Next]_vars
  PROVE  /\ playerId' = playerId
         /\ \A q \in Players : pc[q] \in InRing => leftFd'[q] = leftFd[q]
<1>1. CASE UNCHANGED vars
  BY <1>1 DEF vars, ringVars
<1>2. CASE Ringmaster
  BY <1>2 DEF Ringmaster, acceptPlayer, recvPort, sendNeighbors, throwPotato, catchPotato,
              closeRingmaster, ringVars
<1>3. ASSUME NEW p \in Players, Player(p) \/ die(p)
      PROVE  /\ playerId' = playerId
             /\ \A q \in Players : pc[q] \in InRing => leftFd'[q] = leftFd[q]
  <2>1. CASE buildNeighborConnect(p)
    BY <2>1 DEF buildNeighborConnect, InRing, RInv, Shape
  <2>2. CASE joinGame(p)
    BY <2>2, IdsGiven DEF joinGame
  <2>3. CASE buildMasterConnect(p) \/ acceptRight(p) \/ listenAndForwardPotato(p) \/ closePlayer(p) \/ die(p)
    BY <2>3 DEF buildMasterConnect, acceptRight, listenAndForwardPotato, closePlayer, die, ringVars
  <2> QED
    BY <1>3, <2>1, <2>2, <2>3 DEF Player
<1> QED
  BY <1>1, <1>2, <1>3 DEF Next, Finished

LEMMA TraceGrows ==
  ASSUME NEW x \in Potatoes, NEW id \in Nat, x.count < MaxNumHops
  PROVE  TraceOf(RecordHop(x, id)) = Append(TraceOf(x), id)
<1>1. PICK n \in Nat : n = x.count /\ n < MaxNumHops
  BY DEF Potatoes
<1>2. PICK f \in [0 .. MaxNumHops - 1 -> Nat] : f = x.path
  BY DEF Potatoes
<1>3. MaxNumHops \in Nat
  BY HotPotatoAssumption
<1>4. PICK g : g = [f EXCEPT ![n] = id]
  OBVIOUS
<1>5. RecordHop(x, id).path = g /\ RecordHop(x, id).count = n + 1
  BY <1>1, <1>2, <1>4 DEF RecordHop, Potatoes
<1>6. /\ \A i \in 1 .. n : g[i - 1] = f[i - 1]
      /\ g[n] = id
  BY <1>1, <1>2, <1>3, <1>4
<1>7. PICK s \in Seq(Nat) : s = [i \in 1 .. n |-> f[i - 1]]
  <2>1. \A i \in 1 .. n : f[i - 1] \in Nat
    BY <1>1, <1>2, <1>3
  <2>2. [i \in 1 .. n |-> f[i - 1]] \in [1 .. n -> Nat]
    BY <2>1
  <2>3. PICK h \in [1 .. n -> Nat] : h = [i \in 1 .. n |-> f[i - 1]]
    BY <2>2
  <2>4. Seq(Nat) = UNION {[1 .. l -> Nat] : l \in Nat}
    BY SeqDef
  <2>5. h \in Seq(Nat)
    BY <2>4, Zenon
  <2> QED
    BY <2>3, <2>5
<1>8. TraceOf(x) = s /\ Len(s) = n
  BY <1>1, <1>2, <1>7 DEF TraceOf
<1>9. Append(s, id) = [i \in 1 .. n + 1 |-> g[i - 1]]
  <2>1. PICK t \in Seq(Nat) :
          /\ t = Append(s, id) /\ Len(t) = n + 1 /\ t[n + 1] = id
          /\ \A i \in 1 .. n : t[i] = s[i]
    <3>1. PICK u \in Seq(Nat) : u = Append(s, id)
      BY AppendProperties
    <3>2. /\ Len(u) = n + 1 /\ u[n + 1] = id
          /\ \A i \in 1 .. n : u[i] = s[i]
      BY <1>8, <3>1, AppendProperties
    <3> QED
      BY <3>1, <3>2
  <2>2. t = [i \in 1 .. n + 1 |-> t[i]]
    <3>1. t \in [1 .. n + 1 -> Nat]
      BY <2>1, LenProperties
    <3> QED
      BY <3>1
  <2>3. ASSUME NEW i \in 1 .. n + 1 PROVE t[i] = g[i - 1]
    <3>1. i \in 1 .. n => t[i] = g[i - 1]
      BY <1>6, <1>7, <2>1
    <3>2. i = n + 1 => t[i] = g[i - 1]
      <4>1. (n + 1) - 1 = n
        OBVIOUS
      <4> QED
        BY <1>6, <2>1, <4>1
    <3> QED
      BY <1>1, <3>1, <3>2
  <2>4. [i \in 1 .. n + 1 |-> t[i]] = [i \in 1 .. n + 1 |-> g[i - 1]]
    BY <2>3
  <2> QED
    BY <2>1, <2>2, <2>4
<1>10. TraceOf(RecordHop(x, id)) = [i \in 1 .. n + 1 |-> g[i - 1]]
  BY <1>5 DEF TraceOf
<1> QED
  BY <1>8, <1>9, <1>10-----------------------------------------------------------------------------
\* A potato that rests stays where the game sees it.
LEMMA GameRests ==
  ASSUME RInv, KInv, View, View', [Next]_vars, Rests
  PROVE  ThePotato' = ThePotato /\ ThePlace' = ThePlace
<1>1. CASE \E c \in Carrying : Flying(c)
  <2>1. PICK c \in Carrying : Flying(c)
    BY <1>1
  <2>2. c \in Carrying' /\ On(c)' = On(c) /\ ~Before /\ c[1] \in Players
    BY <2>1 DEF Rests, Kept, KInv, Thrown, Travels
  <2>3. CASE c[2] = "toMaster"
    BY <2>1, <2>2, <2>3 DEF View
  <2>4. CASE c[2] # "toMaster" /\ On(c).ttl > 0
    <3>1. Late
      BY <2>2 DEF Before, Late
    <3>2. ReaderOf(c)' = ReaderOf(c) /\ playerId' = playerId
      <4>1. c[2] = "toLeft" => pc[c[1]] \in InRing
        BY <2>1 DEF KInv, Travels
      <4> QED
        BY <2>2, <3>1, <4>1, ReadersStay DEF ReaderOf
    <3>3. ThePotato = On(c) /\ ThePlace = playerId[ReaderOf(c)]
      BY <2>4 DEF View
    <3>4. ThePotato' = On(c)' /\ ThePlace' = playerId'[ReaderOf(c)']
      BY <2>2, <2>4 DEF View
    <3> QED
      BY <2>2, <3>2, <3>3, <3>4
  <2> QED
    BY <2>1, <2>3, <2>4 DEF Flying
<1>2. CASE \A c \in Carrying : ~Flying(c)
  <2>1. \A c \in Carrying' : ~Flying(c)'
    BY <1>2 DEF Rests, Kept, Flying
  <2> QED
    BY <1>2, <2>1 DEF View, Rests
<1> QED
  BY <1>1, <1>2

LEMMA GameThrow ==
  ASSUME RInv, KInv, View, View', [Next]_vars, IsThrown
  PROVE  Game!Throw
<1>1. PICK q \in Players : Carrying' = {fromM(q)} /\ On(fromM(q))' = potato
  BY DEF IsThrown
<1>2. ThePotato = potato /\ ThePlace = -1
  BY DEF IsThrown, View
<1>3. potato.ttl = numHops /\ numHops > 0
  BY DEF IsThrown, KInv, Thrown, Before, Potato
<1>4. ThePotato' = potato /\ ThePlace' = playerId'[q]
  <2>1. ReaderOf(fromM(q))' = q
    BY DEF ReaderOf, fromM
  <2> QED
    BY <1>1, <1>3, <2>1 DEF View
<1>5. playerId' = playerId /\ playerId[q] \in Ids
  <2>1. Late
    BY DEF IsThrown, Late, Early
  <2> QED
    BY <2>1, ReadersStay, IdsGiven
<1>6. numPlayers' = numPlayers
  BY ArgsKept
<1> QED
  BY <1>2, <1>3, <1>4, <1>5, <1>6 DEF Game!Throw, Game!Ids, Game!Ringmaster, Ids, TraceOf

LEMMA GameHop ==
  ASSUME Fits, RInv, KInv, Counted, View, View', [Next]_vars,
         NEW p \in Players, NEW c \in Channel, NEW d \in Channel, Hops(p, c, d)
  PROVE  Game!Pass \/ Game!ComeBack
<1>1. /\ pc[p] = "listen" /\ c \in {fromL(p), toL(rightFd[p]), fromM(p)}
      /\ c \in Carrying /\ d \in Carrying'
      /\ On(d)' = RecordHop(On(c), playerId[p])
      /\ \/ On(c).ttl = 1 /\ d = toM(p)
         \/ On(c).ttl > 1 /\ d \in {toL(p), fromL(rightFd[p])}
  BY DEF Hops
<1>2. /\ playerId[leftFd[p]] = (playerId[p] + numPlayers - 1) % numPlayers
      /\ playerId[rightFd[p]] = (playerId[p] + 1) % numPlayers
      /\ leftFd[rightFd[p]] = p
  BY <1>1, Wired DEF RingWired
<1>3. On(c).ttl \in Nat /\ On(c).ttl > 0
  <2>1. On(c) \in Potatoes
    BY <1>1, OnType DEF RInv, Shape, KInv
  <2> QED
    BY <1>1, <2>1 DEF Potatoes
<1>4. Late
  BY <1>1, <1>3 DEF KInv, Thrown, Before, Late
<1>5. playerId[p] \in Ids /\ playerId' = playerId /\ leftFd'[p] = leftFd[p]
  BY <1>1, <1>4, ReadersStay, IdsGiven DEF InRing
<1>6. ThePotato = On(c) /\ ThePlace = playerId[p]
  <2>1. ReaderOf(c) = p
    BY <1>1, <1>2 DEF ReaderOf, fromL, toL, fromM
  <2> QED
    BY <1>1, <1>3, <2>1 DEF View
<1>7. /\ RecordHop(On(c), playerId[p]).ttl = On(c).ttl - 1
      /\ TraceOf(RecordHop(On(c), playerId[p])) = Append(TraceOf(On(c)), playerId[p])
  <2>1. playerId[p] \in Nat
    BY Counts DEF RInv, Shape
  <2>2. /\ On(c) \in Potatoes /\ On(c).count < MaxNumHops
        /\ RecordHop(On(c), playerId[p]).ttl = On(c).ttl - 1
    BY <1>1, <1>3, <2>1, RoomToHop
  <2> QED
    BY <2>1, <2>2, TraceGrows
<1>8. ThePotato' = RecordHop(On(c), playerId[p])
      /\ \/ On(c).ttl = 1 /\ ThePlace' = -1
         \/ On(c).ttl > 1 /\ ThePlace' \in {Game!Left(ThePlace), Game!Right(ThePlace)}
  <2>1. CASE On(c).ttl = 1 /\ d = toM(p)
    <3>1. d[2] = "toMaster"
      BY <2>1 DEF toM
    <3> QED
      BY <1>1, <2>1, <3>1 DEF View
  <2>2. CASE On(c).ttl > 1 /\ d \in {toL(p), fromL(rightFd[p])}
    <3>1. On(d)'.ttl > 0
      BY <1>1, <1>3, <1>7, <2>2
    <3>2. ThePotato' = On(d)' /\ ThePlace' = playerId'[ReaderOf(d)']
      BY <1>1, <3>1 DEF View
    <3>3. d = toL(p) => ReaderOf(d)' = leftFd[p]
      BY <1>5 DEF ReaderOf, toL
    <3>4. d = fromL(rightFd[p]) => ReaderOf(d)' = rightFd[p]
      BY DEF ReaderOf, fromL
    <3>5. ThePlace' \in {playerId[leftFd[p]], playerId[rightFd[p]]}
      BY <1>5, <2>2, <3>2, <3>3, <3>4
    <3> QED
      BY <1>1, <1>2, <1>6, <2>2, <3>2, <3>5 DEF Game!Left, Game!Right
  <2> QED
    BY <1>1, <2>1, <2>2
<1>9. /\ ThePlace \in Game!Ids /\ numPlayers' = numPlayers
      /\ TraceOf(ThePotato)' = Append(TraceOf(ThePotato), ThePlace)
      /\ ThePotato'.ttl = ThePotato.ttl - 1
  <2>1. TraceOf(ThePotato)' = TraceOf(RecordHop(On(c), playerId[p]))
    BY <1>8 DEF TraceOf
  <2> QED
    BY <1>5, <1>6, <1>7, <1>8, <2>1, ArgsKept DEF Game!Ids, Ids
<1>10. CASE On(c).ttl = 1 /\ ThePlace' = -1
  BY <1>6, <1>9, <1>10 DEF Game!ComeBack, Game!Hop, Game!Ringmaster
<1>11. CASE On(c).ttl > 1 /\ ThePlace' \in {Game!Left(ThePlace), Game!Right(ThePlace)}
  BY <1>6, <1>9, <1>11 DEF Game!Pass, Game!Hop
<1> QED
  BY <1>8, <1>10, <1>11

LEMMA GameRead ==
  ASSUME KInv, View, View', IsRead
  PROVE  ThePotato' = ThePotato /\ ThePlace' = ThePlace
<1>1. PICK c \in Carrying :
        ~Flying(c) /\ Carrying' = Carrying \ {c} /\ Kept(Carrying \ {c}) /\ potato' = potato
  BY DEF IsRead
<1>2. \A d \in Carrying : ~Flying(d)
  BY <1>1 DEF KInv, Travels
<1>3. \A d \in Carrying' : ~Flying(d)'
  BY <1>1, <1>2 DEF Kept, Flying
<1> QED
  BY <1>1, <1>2, <1>3 DEF View

LEMMA GameCaught ==
  ASSUME KInv, View, View', IsCaught
  PROVE  ThePotato' = ThePotato /\ ThePlace' = ThePlace
<1>1. PICK c \in Carrying :
        /\ Carrying = {c} /\ c[2] = "toMaster" /\ potato' = On(c)
        /\ \A d \in Carrying' : d[2] = "fromMaster" /\ On(d)' = On(c)
  BY DEF IsCaught
<1>2. On(c).ttl = 0
  BY <1>1 DEF KInv, Travels
<1>3. \A d \in Carrying' : ~Flying(d)'
  BY <1>1, <1>2 DEF Flying
<1> QED
  BY <1>1, <1>3 DEF View

LEMMA GameInit ==
  ASSUME Init, View
  PROVE  Game!Init
<1>1. Carrying = {}
  BY DEF Init, Carrying, Has
<1>2. ThePotato = Potato(numHops) /\ ThePlace = -1
  BY <1>1 DEF View, Init
<1>3. ThePotato.ttl \in Nat /\ ThePotato.count = 0
  BY <1>2, HotPotatoAssumption DEF Init, Potato
<1>4. TraceOf(ThePotato) = <<>>
  BY <1>3 DEF TraceOf
<1>5. numPlayers \in Nat \ {0, 1}
  BY HotPotatoAssumption DEF Init
<1> QED
  BY <1>2, <1>3, <1>4, <1>5 DEF Game!Init, Game!Ringmaster

LEMMA GameNext ==
  ASSUME Fits, RInv, KInv, Counted, View, View', [Next]_vars
  PROVE  [Game!Next]_Game!gameVars
<1>1. Move /\ numPlayers' = numPlayers
  BY PotatoStep, ArgsKept
<1>2. CASE Rests \/ IsRead \/ IsCaught
  <2>1. ThePotato' = ThePotato /\ ThePlace' = ThePlace
    BY <1>2, GameRests, GameRead, GameCaught
  <2>2. TraceOf(ThePotato)' = TraceOf(ThePotato)
    BY <2>1 DEF TraceOf
  <2> QED
    BY <1>1, <2>1, <2>2 DEF Game!gameVars
<1>3. CASE IsThrown
  BY <1>3, GameThrow DEF Game!Next
<1>4. ASSUME NEW p \in Players, NEW c \in Channel, NEW d \in Channel, Hops(p, c, d)
      PROVE  Game!Next
  BY <1>4, GameHop DEF Game!Next
<1> QED
  BY <1>1, <1>2, <1>3, <1>4 DEF Move

\* In every game that fits into path, the processes, their connections and the messages
\* on them play the abstract game: each hop goes to a neighbour in the ring and is
\* recorded, and the last one goes back to the ringmaster.
THEOREM PlaysTheGame ==
  ASSUME Fits
  PROVE  Spec => Game!Safety
<1>1. RInv /\ KInv => View
  BY Seen
<1>2. Init /\ View => Game!Init
  BY GameInit
<1>3. RInv /\ KInv /\ Counted /\ View /\ View' /\ [Next]_vars => [Game!Next]_Game!gameVars
  BY GameNext
<1> QED
  BY <1>1, <1>2, <1>3, CountInvariance, PTL DEF Spec, Game!Safety

-----------------------------------------------------------------------------
(***************************************************************************)
(* Nobody waits for ever on somebody who waits: a process blocks in an     *)
(* accept, a receive or select, and somebody's is always going to return.  *)
(***************************************************************************)

\* What each process waits for, by the guards of its actions.
MasterCanMove ==
  \/ mpc = "accept" /\ backlog[Master] # <<>>
  \/ mpc = "recvPort" /\ chan[toM(playerFds[Index])] # <<>>
  \/ mpc = "catch" /\ \E p \in Players : chan[toM(p)] # <<>>
  \/ mpc \in {"sendNeighbors", "playGame", "close"}

PlayerCanMove(p) ==
  \/ pc[p] \in {"start", "close"}
  \/ pc[p] \in {"recvId", "recvLeft"} /\ chan[fromM(p)] # <<>>
  \/ pc[p] = "accept" /\ backlog[p] # <<>>
  \/ pc[p] = "listen" /\ \E k \in 1 .. 3 : chan[listenFds(p)[k]] # <<>>

AllDone == mpc = "done" /\ \A p \in Players : pc[p] = "done"

SomebodyMoves == AllDone \/ MasterCanMove \/ \E p \in Players : PlayerCanMove(p)

\* Whoever waits for its id, and has no seat, is in the ringmaster's queue.
Queued ==
  \A p \in Players : Unseated(p) /\ pc[p] = "recvId" =>
    \E k \in 1 .. Len(backlog[Master]) : backlog[Master][k] = p

\* Who has left has said so.
Told ==
  /\ mpc = "done" => \A p \in Players : Ended(chan[fromM(p)])
  /\ \A p \in Players : pc[p] = "done" => Ended(chan[toM(p)])

\* While the ringmaster waits for the potato it is under way, or the ends of those that
\* leave are.
Coming ==
  mpc = "catch" => Carrying # {} \/ \E p \in Players : pc[p] \in {"close", "done"}

WInv == Queued /\ Told /\ Coming

\* An end of file is never read away, nor passed by.
LEMMA EndStays ==
  ASSUME NEW s \in Seq(AnyMsg), Ended(s)
  PROVE  /\ s # <<>>
         /\ \A m : Ended(Append(s, m))
         /\ Head(s) # EOF => Ended(Tail(s)) /\ Tail(s) \in Seq(AnyMsg)
<1>1. PICK i \in 1 .. Len(s) : s[i] = EOF
  BY DEF Ended
<1>2. s # <<>>
  BY <1>1
<1>3. ASSUME NEW m PROVE Ended(Append(s, m))
  <2> DEFINE S == AnyMsg \cup {m}
  <2>1. s \in Seq(S) /\ m \in S
    OBVIOUS
  <2> HIDE DEF S
  <2>2. /\ Append(s, m) \in Seq(S) /\ Len(Append(s, m)) = Len(s) + 1
        /\ Append(s, m)[i] = s[i] /\ Len(s) \in Nat
    BY <1>1, <2>1, AppendProperties
  <2>3. i \in 1 .. Len(s) + 1
    BY <1>1, <2>2
  <2> QED
    BY <1>1, <2>2, <2>3 DEF Ended
<1>4. ASSUME Head(s) # EOF PROVE Ended(Tail(s)) /\ Tail(s) \in Seq(AnyMsg)
  <2>1. PICK j \in Nat : j = i - 1 /\ j # 0
    BY <1>1, <1>2, <1>4, HeadTailProperties
  <2>2. j \in 1 .. Len(Tail(s)) /\ Tail(s)[j] = s[i] /\ Tail(s) \in Seq(AnyMsg)
    BY <1>1, <1>2, <2>1, HeadTailProperties
  <2> QED
    BY <1>1, <2>2 DEF Ended
<1> QED
  BY <1>2, <1>3, <1>4

LEMMA EndArrives ==
  ASSUME NEW s \in Seq(AnyMsg)
  PROVE  Ended(Append(s, EOF))
<1>1. Len(Append(s, EOF)) = Len(s) + 1 /\ Append(s, EOF)[Len(s) + 1] = EOF /\ Len(s) \in Nat
  BY MsgKinds, AppendProperties
<1> QED
  BY <1>1 DEF Ended

LEMMA EndsSend ==
  ASSUME NEW ch, DOMAIN ch = Channel, NEW c \in Channel, ch[c] \in Seq(AnyMsg), Ended(ch[c])
  PROVE  \A d, m : Ended(Send(ch, d, m)[c]) /\ Ended(SendAll(ch, d, m)[c])
<1> SUFFICES ASSUME NEW d, NEW m PROVE Ended(Send(ch, d, m)[c]) /\ Ended(SendAll(ch, d, m)[c])
  OBVIOUS
<1>1. Send(ch, d, m)[c] \in {ch[c], Append(ch[c], m)}
  BY DEF Send
<1>2. SendAll(ch, d, m)[c] \in {ch[c], Append(ch[c], m)}
  BY DEF SendAll
<1> QED
  BY <1>1, <1>2, EndStays

LEMMA EndsReceived ==
  ASSUME chan \in [Channel -> Seq(AnyMsg)], NEW c \in Channel, Ended(chan[c]), NEW d
  PROVE  /\ DOMAIN Received(chan, d) = Channel
         /\ Received(chan, d)[c] \in Seq(AnyMsg) /\ Ended(Received(chan, d)[c])
<1>1. DOMAIN Received(chan, d) = Channel
  BY DEF Received
<1>2. \/ Received(chan, d)[c] = chan[c]
      \/ Head(chan[c]) # EOF /\ Received(chan, d)[c] = Tail(chan[c])
  BY DEF Received
<1> QED
  BY <1>1, <1>2, EndStays

\* No step takes the end of file off a channel.
LEMMA EndsRemain ==
  ASSUME chan \in [Channel -> Seq(AnyMsg)], [Next]_vars, NEW c \in Channel, Ended(chan[c])
  PROVE  Ended(chan'[c])
<1>0. DOMAIN chan = Channel /\ chan[c] \in Seq(AnyMsg)
  OBVIOUS
<1>1. \A d, m : Ended(Send(chan, d, m)[c]) /\ Ended(SendAll(chan, d, m)[c])
  BY <1>0, EndsSend
<1>2. \A e, d, m : /\ Ended(Received(chan, e)[c])
                   /\ Ended(Send(Received(chan, e), d, m)[c])
                   /\ Ended(SendAll(Received(chan, e), d, m)[c])
  <2> SUFFICES ASSUME NEW e
               PROVE  /\ Ended(Received(chan, e)[c])
                      /\ \A d, m : /\ Ended(Send(Received(chan, e), d, m)[c])
                                   /\ Ended(SendAll(Received(chan, e), d, m)[c])
    OBVIOUS
  <2>1. PICK ch : ch = Received(chan, e)
    OBVIOUS
  <2>2. DOMAIN ch = Channel /\ ch[c] \in Seq(AnyMsg) /\ Ended(ch[c])
    BY <2>1, EndsReceived
  <2>3. \A d, m : Ended(Send(ch, d, m)[c]) /\ Ended(SendAll(ch, d, m)[c])
    BY <2>2, EndsSend
  <2> QED
    BY <2>1, <2>2, <2>3
<1>3. ASSUME Ringmaster PROVE Ended(chan'[c])
  <2>1. CASE acceptPlayer \/ recvPort
    BY <1>1, <1>2, <2>1 DEF acceptPlayer, recvPort
  <2>2. CASE sendNeighbors
    <3>1. chan'[c] = chan[c] \/ \E m : chan'[c] = Append(chan[c], m)
      BY <2>2 DEF sendNeighbors
    <3> QED
      BY <1>0, <3>1, EndStays
  <2>3. CASE throwPotato
    BY <1>1, <2>3 DEF throwPotato
  <2>4. CASE catchPotato
    BY <1>2, <2>4 DEF catchPotato
  <2>5. CASE closeRingmaster
    BY <1>1, <2>5 DEF closeRingmaster
  <2> QED
    BY <1>3, <2>1, <2>2, <2>3, <2>4, <2>5 DEF Ringmaster
<1>4. ASSUME NEW p \in Players, Player(p) \/ die(p) PROVE Ended(chan'[c])
  <2>1. CASE buildMasterConnect(p) \/ acceptRight(p)
    BY <2>1 DEF buildMasterConnect, acceptRight
  <2>2. CASE joinGame(p)
    BY <1>2, <2>2 DEF joinGame
  <2>3. CASE buildNeighborConnect(p)
    BY <1>2, <2>3 DEF buildNeighborConnect
  <2>4. CASE listenAndForwardPotato(p)
    BY <1>2, <2>4 DEF listenAndForwardPotato
  <2>5. CASE closePlayer(p) \/ die(p)
    BY <1>1, <2>5 DEF closePlayer, die
  <2> QED
    BY <1>4, <2>1, <2>2, <2>3, <2>4, <2>5 DEF Player
<1>5. CASE UNCHANGED vars
  BY <1>5 DEF vars
<1> QED
  BY <1>3, <1>4, <1>5 DEF Next, Finished

LEMMA ToldStep ==
  ASSUME RInv, Told, [Next]_vars
  PROVE  Told'
<1>0. /\ chan \in [Channel -> Seq(AnyMsg)] /\ Players \subseteq AllPlayers
      /\ pc \in [AllPlayers -> PlayerPCs]
      /\ \A p \in Players : fromM(p) \in Channel /\ toM(p) \in Channel
  BY Counts, Names DEF RInv, Shape
<1>1. Players' = Players
  <2>1. numPlayers' = numPlayers
    BY DEF Next, Ringmaster, Player, Finished, acceptPlayer, recvPort, sendNeighbors, throwPotato,
           catchPotato, closeRingmaster, buildMasterConnect, joinGame, buildNeighborConnect,
           acceptRight, listenAndForwardPotato, closePlayer, die, vars, args
  <2> QED
    BY <2>1 DEF Players
<1>2. \A c \in Channel : Ended(chan[c]) => Ended(chan'[c])
  BY <1>0, EndsRemain
<1>3. ASSUME NEW C, chan' = SendAll(chan, C, EOF), NEW c \in Channel \cap C
      PROVE  Ended(chan'[c])
  <2>1. chan'[c] = Append(chan[c], EOF)
    BY <1>0, <1>3 DEF SendAll
  <2> QED
    BY <1>0, <2>1, EndArrives
<1>4. ASSUME mpc' = "done", mpc # "done", NEW p \in Players PROVE Ended(chan'[fromM(p)])
  <2>1. closeRingmaster
    BY <1>4 DEF Next, Ringmaster, Player, Finished, acceptPlayer, recvPort, sendNeighbors,
                throwPotato, catchPotato, buildMasterConnect, joinGame, buildNeighborConnect,
                acceptRight, listenAndForwardPotato, closePlayer, die, vars
  <2>2. fromM(p) \in Channel \cap (Players \X {"fromMaster"})
    BY <1>0 DEF fromM
  <2> QED
    BY <1>3, <2>1, <2>2 DEF closeRingmaster
<1>5. ASSUME NEW p \in Players, pc'[p] = "done", pc[p] # "done" PROVE Ended(chan'[toM(p)])
  <2>1. ~UNCHANGED pc /\ p \in AllPlayers
    BY <1>0, <1>5
  <2>2. PICK q \in Players : Player(q) \/ die(q)
    BY <2>1 DEF Next, Ringmaster, Finished, acceptPlayer, recvPort, sendNeighbors,
                throwPotato, catchPotato, closeRingmaster, vars
  <2>3. closePlayer(q) \/ die(q)
    BY <1>0, <1>5, <2>1, <2>2
       DEF Player, buildMasterConnect, joinGame, buildNeighborConnect, acceptRight,
           listenAndForwardPotato
  <2>4. p = q /\ chan' = SendAll(chan, Range(outFds(q)), EOF)
    BY <1>0, <1>5, <2>1, <2>3 DEF closePlayer, die
  <2>5. toM(p) \in Channel \cap Range(outFds(p))
    BY <1>0, Sends
  <2> QED
    BY <1>3, <2>4, <2>5
<1> QED
  BY <1>0, <1>1, <1>2, <1>4, <1>5 DEF Told

LEMMA ComingStep ==
  ASSUME RInv, KInv, Coming, [Next]_vars
  PROVE  Coming'
<1> SUFFICES ASSUME mpc' = "catch"
             PROVE  Carrying' # {} \/ \E p \in Players' : pc'[p] \in {"close", "done"}
  BY DEF Coming
<1>0. pc \in [AllPlayers -> PlayerPCs] /\ Players \subseteq AllPlayers
  BY Counts DEF RInv, Shape
<1>1. CASE UNCHANGED vars
  <2>1. Carrying' = Carrying /\ pc' = pc /\ Players' = Players /\ mpc' = mpc
    BY <1>1 DEF vars, args, Carrying, Players
  <2> QED
    BY <2>1 DEF Coming
<1>2. CASE Ringmaster
  <2>1. throwPotato /\ UNCHANGED died
    BY <1>2 DEF Ringmaster, acceptPlayer, recvPort, sendNeighbors, catchPotato, closeRingmaster
  <2>2. IsThrown
    BY <2>1, ThrowMoves
  <2> QED
    BY <2>2 DEF IsThrown
<1>3. ASSUME NEW p \in Players, Player(p) \/ die(p)
      PROVE  Carrying' # {} \/ \E q \in Players' : pc'[q] \in {"close", "done"}
  <2>1. mpc' = mpc /\ Players' = Players
    BY <1>3 DEF Player, die, buildMasterConnect, joinGame, buildNeighborConnect, acceptRight,
                listenAndForwardPotato, closePlayer, args, Players
  <2>2. \A q \in Players : pc[q] \in {"close", "done"} => pc'[q] \in {"close", "done"}
    BY <1>0, <1>3 DEF Player, die, buildMasterConnect, joinGame, buildNeighborConnect,
                      acceptRight, listenAndForwardPotato, closePlayer
  <2>3. Rests \/ IsRead \/ \E c, d \in Channel : Hops(p, c, d)
    BY <1>3, PlayerSetup, ListenMoves, LeaveMoves DEF Player
  <2>4. ~IsRead
    BY <2>1 DEF IsRead, KInv, Travels
  <2>5. Carrying # {} => Carrying' # {}
    BY <2>3, <2>4 DEF Rests, Hops
  <2> QED
    BY <2>1, <2>2, <2>5 DEF Coming
<1> QED
  BY <1>1, <1>2, <1>3 DEF Next, Finished

LEMMA QueuedStep ==
  ASSUME RInv, Queued, [Next]_vars
  PROVE  Queued'
<1>0. /\ pc \in [AllPlayers -> PlayerPCs] /\ Players \subseteq AllPlayers /\ Master \notin AllPlayers
      /\ playerFds \in Seq(Players) /\ Index \in Nat
      /\ backlog \in [AllPlayers \cup {Master} -> Seq(Players)]
  BY Counts DEF RInv, Shape
<1> DEFINE B == backlog[Master]
<1>b. B \in Seq(Players)
  BY <1>0
<1>1. ASSUME Players' = Players, playerFds' = playerFds, backlog'[Master] = backlog[Master],
             \A p \in Players : pc'[p] = "recvId" => pc[p] = "recvId"
      PROVE  Queued'
  <2>1. \A p : Unseated(p)' <=> Unseated(p)
    BY <1>1 DEF Unseated, Seats, Index
  <2> QED
    BY <1>1, <2>1 DEF Queued
<1>2. CASE acceptPlayer
  <2>1. /\ B # <<>> /\ playerFds' = Append(playerFds, Head(B)) /\ backlog'[Master] = Tail(B)
        /\ pc' = pc /\ Players' = Players
    BY <1>0, <1>2 DEF acceptPlayer, args, Players
  <2>2. PICK h \in Players : h = Head(B)
    BY <1>b, <2>1, HeadTailProperties
  <2>3. /\ Index' = Index + 1 /\ playerFds'[Index + 1] = h
        /\ \A i \in 1 .. Index : playerFds'[i] = playerFds[i]
    BY <1>0, <2>1, <2>2, AppendProperties DEF Index
  <2>4. ASSUME NEW p \in Players, Unseated(p)', pc[p] = "recvId"
        PROVE  \E k \in 1 .. Len(Tail(B)) : Tail(B)[k] = p
    <3>1. p # h /\ Unseated(p)
      <4>1. Index + 1 \in 1 .. Index + 1 /\ \A i \in 1 .. Index : i \in 1 .. Index + 1
        BY <1>0
      <4> QED
        BY <2>3, <2>4, <4>1 DEF Unseated, Seats
    <3>2. PICK k \in 1 .. Len(B) : B[k] = p
      BY <2>4, <3>1 DEF Queued
    <3>3. k # 1
      BY <1>b, <2>1, <2>2, <3>1, <3>2, HeadTailProperties
    <3>4. PICK j \in Nat : j = k - 1 /\ j # 0
      BY <3>3
    <3>5. j \in 1 .. Len(Tail(B)) /\ Tail(B)[j] = B[k]
      BY <1>b, <2>1, <3>2, <3>4, HeadTailProperties
    <3> QED
      BY <3>2, <3>5
  <2> HIDE DEF B
  <2> QED
    BY <2>1, <2>4 DEF Queued
<1>3. ASSUME NEW q \in Players, buildMasterConnect(q) PROVE Queued'
  <2>1. /\ backlog'[Master] = Append(B, q) /\ playerFds' = playerFds /\ Players' = Players
        /\ \A p \in Players : p # q => pc'[p] = pc[p]
    BY <1>0, <1>3 DEF buildMasterConnect, args, Players
  <2>2. PICK C \in Seq(Players) : C = Append(B, q)
    BY <1>b, AppendProperties
  <2>3. Len(C) = Len(B) + 1 /\ C[Len(B) + 1] = q /\ (\A k \in 1 .. Len(B) : C[k] = B[k]) /\ Len(B) \in Nat
    BY <1>b, <2>2, AppendProperties
  <2>4. \A p : Unseated(p)' <=> Unseated(p)
    BY <2>1 DEF Unseated, Seats, Index
  <2>5. ASSUME NEW p \in Players, Unseated(p), pc'[p] = "recvId"
        PROVE  \E k \in 1 .. Len(C) : C[k] = p
    <3>1. CASE p = q
      <4>1. Len(B) + 1 \in 1 .. Len(C)
        BY <2>3
      <4> QED
        BY <2>3, <3>1, <4>1
    <3>2. CASE p # q
      <4>1. PICK k \in 1 .. Len(B) : B[k] = p
        BY <2>1, <2>5, <3>2 DEF Queued
      <4>2. k \in 1 .. Len(C)
        BY <2>3
      <4> QED
        BY <2>3, <4>1, <4>2
    <3> QED
      BY <3>1, <3>2
  <2> HIDE DEF B
  <2> QED
    BY <2>1, <2>2, <2>4, <2>5 DEF Queued
<1>4. ASSUME NEW q \in Players, buildNeighborConnect(q) PROVE Queued'
  <2>1. /\ playerFds' = playerFds /\ Players' = Players
        /\ \A p \in Players : pc'[p] = "recvId" => pc[p] = "recvId"
    BY <1>0, <1>4 DEF buildNeighborConnect, args, Players
  <2>2. PICK r \in Players : backlog' = [backlog EXCEPT ![r] = Append(@, q)]
    <3>1. PICK k \in Seats : playerFds[k] = q
      BY <1>4 DEF RInv, Outside, Unseated, buildNeighborConnect, fromM
    <3>2. AtSeat(k) /\ pc[q] = "recvLeft" /\ chan[fromM(q)] # <<>>
      BY <1>4 DEF RInv, buildNeighborConnect, fromM
    <3>3. Late /\ Head(chan[fromM(q)]) = PortMsg(playerFds[LeftOf(k)])
      BY <3>1, <3>2 DEF AtSeat
    <3>4. playerFds[LeftOf(k)] \in Players
      <4>1. Seats = 1 .. numPlayers
        BY <3>3 DEF RInv, Seating, Late, Early, Seats
      <4> QED
        BY <4>1, Counts DEF RInv
    <3>5. PICK r \in Players : r = playerFds[LeftOf(k)]
      BY <3>4
    <3>6. Head(chan[<<q, "fromMaster">>]).port = r
      BY <3>3, <3>5 DEF fromM, PortMsg
    <3>7. backlog' = [backlog EXCEPT ![r] = Append(@, q)]
      BY <1>4, <3>6 DEF buildNeighborConnect
    <3> QED
      BY <3>7
  <2>3. backlog'[Master] = backlog[Master]
    BY <1>0, <2>2
  <2> QED
    BY <1>1, <2>1, <2>3
<1>5. ASSUME NEW q \in Players,
             joinGame(q) \/ acceptRight(q) \/ listenAndForwardPotato(q) \/ closePlayer(q) \/ die(q)
      PROVE  Queued'
  <2>1. /\ playerFds' = playerFds /\ Players' = Players /\ q \in AllPlayers
        /\ backlog'[Master] = backlog[Master]
        /\ \A p \in Players : pc'[p] = "recvId" => pc[p] = "recvId"
    BY <1>0, <1>5 DEF joinGame, acceptRight, listenAndForwardPotato, closePlayer, die, args,
                      ringVars, Players
  <2> QED
    BY <1>1, <2>1
<1>6. CASE recvPort \/ sendNeighbors \/ throwPotato \/ catchPotato \/ closeRingmaster \/ UNCHANGED vars
  <2>1. /\ playerFds' = playerFds /\ Players' = Players /\ backlog' = backlog /\ pc' = pc
    BY <1>6 DEF recvPort, sendNeighbors, throwPotato, catchPotato, closeRingmaster, vars, args,
                ringVars, Players
  <2> QED
    BY <1>1, <2>1
<1> QED
  BY <1>2, <1>3, <1>4, <1>5, <1>6 DEF Next, Finished, Ringmaster, Player

LEMMA WaitInvariance == Spec => [](RInv /\ KInv /\ WInv)
<1>1. Init => RInv /\ KInv /\ WInv
  <2> SUFFICES ASSUME Init PROVE WInv
    BY RingInit, PotatoInit
  <2>1. \A p \in Players : pc[p] = "start"
    BY RingInit, Counts DEF Init, RInv
  <2> QED
    BY <2>1 DEF Init, WInv, Queued, Told, Coming
<1>2. RInv /\ KInv /\ WInv /\ [Next]_vars => (RInv /\ KInv /\ WInv)'
  <2> SUFFICES ASSUME RInv, KInv, WInv, [Next]_vars PROVE WInv'
    BY RingStep, PotatoStep
  <2> QED
    BY QueuedStep, ToldStep, ComingStep DEF WInv
<1> QED
  BY <1>1, <1>2, PTL DEF Spec

\* Fewer seats than players leave somebody without one.
LEMMA SomebodyUnseated ==
  ASSUME Shape, Seating, Index < numPlayers
  PROVE  \E p \in Players : Unseated(p)
<1>1. numPlayers \in Nat /\ Index \in Nat
  BY Counts
<1>2. Cardinality(Players) = numPlayers
  <2>1. 1 \in Int /\ numPlayers \in Int
    BY <1>1
  <2>2. Cardinality(1 .. numPlayers) = numPlayers
    BY <1>1, <2>1, FS_Interval
  <2> QED
    BY <2>2 DEF Players
<1> SUFFICES ASSUME \A p \in Players : ~Unseated(p) PROVE FALSE
  OBVIOUS
<1>3. playerFds \in [1 .. Index -> Players]
  BY LenProperties DEF Shape, Index
<1>4. playerFds \in Surjection(1 .. Index, Players)
  BY <1>3 DEF Surjection, Unseated, Seats
<1>5. ExistsSurjection(1 .. Index, Players)
  BY <1>4 DEF ExistsSurjection
<1>6. Cardinality(Players) <= Index
  BY <1>1, <1>5, FS_SurjCardinalityBound
<1> QED
  BY <1>1, <1>2, <1>6

LEMMA SomebodyCan ==
  ASSUME RInv, KInv, WInv
  PROVE  SomebodyMoves
<1> SUFFICES ASSUME ~MasterCanMove, \A p \in Players : ~PlayerCanMove(p) PROVE AllDone
  BY DEF SomebodyMoves
<1> USE DEF Early
<1>0. /\ Shape /\ Seating /\ Players \subseteq AllPlayers /\ Index \in Nat /\ numPlayers \in Nat
      /\ pc \in [AllPlayers -> PlayerPCs] /\ chan \in [Channel -> Seq(AnyMsg)]
      /\ mpc \in MasterPCs
  BY Counts DEF RInv, Shape
\* Before the ports are sent: somebody is not started yet, waits to be accepted, or answers.
<1>1. mpc # "accept"
  <2> SUFFICES ASSUME mpc = "accept" PROVE FALSE
    OBVIOUS
  <2>1. PICK p \in Players : Unseated(p)
    BY <1>0, SomebodyUnseated DEF Seating
  <2>2. pc[p] = "recvId"
    BY <2>1 DEF RInv, Outside, PlayerCanMove
  <2>3. PICK k \in 1 .. Len(backlog[Master]) : backlog[Master][k] = p
    BY <2>1, <2>2 DEF WInv, Queued
  <2>4. backlog[Master] = <<>>
    BY DEF MasterCanMove
  <2> QED
    BY <2>3, <2>4
<1>2. mpc # "recvPort"
  <2> SUFFICES ASSUME mpc = "recvPort" PROVE FALSE
    OBVIOUS
  <2>1. Index \in Seats
    BY <1>0 DEF Seating, Seats
  <2>2. PICK p \in Players : p = playerFds[Index]
    BY <1>0, <2>1, Counts
  <2>3. /\ pc[p] # "start" /\ pc[p] \notin Linked
        /\ pc[p] = "recvId" => chan[fromM(p)] = <<IdMsg(Index - 1, numPlayers)>>
        /\ pc[p] = "recvLeft" => chan[toM(p)] = <<PortMsg(p)>>
    BY <2>1, <2>2 DEF RInv, AtSeat, Late
  <2>4. pc[p] \in {"recvId", "recvLeft"}
    BY <1>0, <2>3 DEF PlayerPCs
  <2>5. chan[toM(p)] = <<>> /\ chan[fromM(p)] = <<>>
    BY <2>2, <2>4 DEF MasterCanMove, PlayerCanMove
  <2> QED
    BY <2>3, <2>4, <2>5
\* Afterwards nobody waits in the setup.
<1>3. Late /\ mpc \in {"catch", "done"} /\ Index = numPlayers /\ Seats = 1 .. numPlayers
  BY <1>0, <1>1, <1>2 DEF Late, MasterPCs, MasterCanMove, Seating, Seats
<1>4. \A p \in Players : \E i \in Seats : playerFds[i] = p
  BY <1>0, <1>3, AllSeated
<1>5. ASSUME NEW p \in Players PROVE pc[p] \in Linked
  <2>1. PICK i \in Seats : playerFds[i] = p
    BY <1>4
  <2>2. pc[p] # "start" /\ pc[p] # "recvId" /\ (pc[p] = "recvLeft" => chan[fromM(p)] # <<>>)
    BY <1>2, <1>3, <2>1 DEF RInv, AtSeat
  <2>3. pc[p] # "recvLeft"
    BY <2>2 DEF PlayerCanMove
  <2> QED
    BY <1>0, <2>2, <2>3 DEF PlayerPCs
<1>6. ASSUME NEW i \in Seats
      PROVE  LET p == playerFds[i]
                 q == playerFds[LeftOf(i)]
             IN  /\ p \in Players /\ q \in Players /\ pc[q] \in InRing
                 /\ leftFd[p] = q /\ rightFd[q] = p
  <2>1. PICK p \in Players, q \in Players : p = playerFds[i] /\ q = playerFds[LeftOf(i)]
    BY <1>0, <1>3, Counts
  <2>2. Link(i) /\ AtSeat(i)
    BY <1>3 DEF RInv, Links
  <2>3. /\ backlog[q] = IF pc[q] \notin InRing THEN <<p>> ELSE <<>>
        /\ pc[q] \in InRing => rightFd[q] = p
        /\ leftFd[p] = q
    BY <1>5, <2>1, <2>2 DEF Link, AtSeat
  <2>4. pc[q] \in InRing
    <3>1. pc[q] # "accept"
      BY <2>3 DEF PlayerCanMove, InRing
    <3> QED
      BY <1>5, <3>1 DEF Linked
  <2> QED
    BY <2>1, <2>3, <2>4
\* Whoever listens has nothing to read.
<1>7. ASSUME NEW p \in Players
      PROVE  /\ pc[p] \in {"listen", "done"}
             /\ pc[p] = "listen" =>
                  chan[fromL(p)] = <<>> /\ chan[toL(rightFd[p])] = <<>> /\ chan[fromM(p)] = <<>>
  <2>1. PICK j \in Seats : playerFds[j] = p
    BY <1>4
  <2>2. PICK i \in Seats : LeftOf(i) = j
    <3> DEFINE i == IF j = numPlayers THEN 1 ELSE j + 1
    <3>1. i \in Seats /\ LeftOf(i) = j
      BY <1>0, <1>3 DEF LeftOf
    <3> QED
      BY <3>1
  <2>3. pc[p] \in {"listen", "done"}
    <3>1. pc[p] \in InRing
      BY <1>6, <2>1, <2>2
    <3>2. pc[p] # "close"
      BY DEF PlayerCanMove
    <3> QED
      BY <3>1, <3>2 DEF InRing
  <2>4. /\ listenFds(p)[1] = fromL(p) /\ listenFds(p)[2] = toL(rightFd[p])
        /\ listenFds(p)[3] = fromM(p)
    BY DEF listenFds, fromL, toL, fromM
  <2>5. pc[p] = "listen" => \A k \in 1 .. 3 : chan[listenFds(p)[k]] = <<>>
    BY DEF PlayerCanMove
  <2> QED
    BY <2>3, <2>4, <2>5
\* So the potato, or the end of somebody, would be there for whoever waits.
<1>8. mpc # "catch"
  <2> SUFFICES ASSUME mpc = "catch" PROVE FALSE
    OBVIOUS
  <2>1. \A p \in Players : chan[toM(p)] = <<>>
    BY DEF MasterCanMove
  <2>2. ASSUME NEW p \in Players PROVE pc[p] = "listen"
    <3>1. ~Ended(chan[toM(p)])
      BY <2>1, <2>2 DEF Ended
    <3> QED
      BY <1>7, <2>2, <3>1 DEF WInv, Told
  <2>3. PICK c \in Channel : Has(chan[c])
    BY <2>2 DEF WInv, Coming, Carrying
  <2>4. chan[c] # <<>> /\ c \in Carrying
    BY <2>3 DEF Has, Carrying
  <2>5. PICK p \in Players : c \in {fromM(p), toM(p), fromL(p), toL(p)}
    <3>1. c[1] \in Players
      BY <2>4 DEF KInv, Travels
    <3>2. c \in {fromM(c[1]), toM(c[1]), fromL(c[1]), toL(c[1])}
      BY <2>3 DEF Channel, fromM, toM, fromL, toL
    <3> QED
      BY <3>1, <3>2
  <2>6. chan[fromM(p)] = <<>> /\ chan[fromL(p)] = <<>> /\ chan[toM(p)] = <<>>
    BY <1>7, <2>1, <2>2
  <2>7. chan[toL(p)] = <<>>
    <3>1. PICK i \in Seats : playerFds[i] = p
      BY <1>4
    <3>2. PICK q \in Players : q = playerFds[LeftOf(i)] /\ rightFd[q] = p
      BY <1>6, <3>1
    <3> QED
      BY <1>7, <2>2, <3>2
  <2> QED
    BY <2>4, <2>5, <2>6, <2>7
<1>9. mpc = "done"
  BY <1>3, <1>8
<1>10. ASSUME NEW p \in Players PROVE pc[p] = "done"
  <2>1. Ended(chan[fromM(p)])
    BY <1>9 DEF WInv, Told
  <2>2. chan[fromM(p)] # <<>>
    BY <2>1 DEF Ended
  <2> QED
    BY <1>7, <2>2
<1> QED
  BY <1>9, <1>10 DEF AllDone

\* However many players there are, in whatever order they come, and whoever of them is
\* killed during the game: as long as somebody has not exited, some process has what it
\* waits for, a connection to accept, an answer, or a potato or an end of file to read.
\* Nobody waits for ever on one that waits.
THEOREM NobodyIsStuck == Spec => []SomebodyMoves
BY WaitInvariance, SomebodyCan, PTL
=============================================================================
