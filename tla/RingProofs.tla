------------------------------ MODULE RingProofs ------------------------------
(***************************************************************************)
(* For any number of players, started in any order and at any speed: the   *)
(* ring is wired by the ids, and every variable keeps its type.            *)
(***************************************************************************)
EXTENDS HotPotato, FiniteSetTheorems, SequenceTheorems, TLAPS

Early     == {"accept", "recvPort", "sendNeighbors"}
MasterPCs == Early \cup {"playGame", "catch", "close", "done"}
InRing    == {"listen", "close", "done"}
Linked    == InRing \cup {"accept"}
PlayerPCs == Linked \cup {"start", "recvId", "recvLeft"}

\* The ports have been sent to all.
Late == mpc \notin Early

\* The channels between player p and the ringmaster, and its left neighbour.
fromM(p) == <<p, "fromMaster">>
toM(p)   == <<p, "toMaster">>
fromL(p) == <<p, "fromLeft">>
toL(p)   == <<p, "toLeft">>

\* What is sent once the ring is built, and before.
Potatoes == [ttl : Nat, path : [0 .. MaxNumHops - 1 -> Nat], count : Nat]
GameMsg  == {EOF} \cup [kind : {"potato"}, potato : Potatoes]
SetupMsg == [kind : {"id"}, id : Nat, num : Nat] \cup [kind : {"port"}, port : Nat]
AnyMsg   == GameMsg \cup SetupMsg

-----------------------------------------------------------------------------
(***************************************************************************)
(* The invariant.  A player has a seat once it has been accepted; ids and  *)
(* ports go by the seats.                                                  *)
(***************************************************************************)

Seats       == 1 .. Index
LeftOf(i)   == IF i = 1 THEN numPlayers ELSE i - 1
Unseated(p) == \A i \in Seats : playerFds[i] # p

Shape ==
  /\ numPlayers \in PlayerCounts /\ numHops \in HopCounts
  /\ mpc \in MasterPCs
  /\ potato \in Potatoes
  /\ pc \in [AllPlayers -> PlayerPCs]
  /\ playerId \in [AllPlayers -> Nat]
  /\ leftFd \in [AllPlayers -> Nat]
  /\ rightFd \in [AllPlayers -> Nat]
  /\ backlog \in [AllPlayers \cup {Master} -> Seq(Players)]
  /\ chan \in [Channel -> Seq(AnyMsg)]
  /\ playerFds \in Seq(Players) /\ playerPorts \in Seq(Players)

\* The seats are taken one after the other.
Seating ==
  /\ \A i, j \in Seats : playerFds[i] = playerFds[j] => i = j
  /\ Index <= numPlayers
  /\ Len(playerPorts) = IF mpc = "recvPort" THEN Index - 1 ELSE Index
  /\ \A i \in 1 .. Len(playerPorts) : playerPorts[i] = playerFds[i]
  /\ mpc = "accept" => Index < numPlayers
  /\ mpc = "recvPort" => Index > 0
  /\ mpc \notin {"accept", "recvPort"} => Index = numPlayers

\* Those that wait to be accepted.
Waiting ==
  /\ \A k \in 1 .. Len(backlog[Master]) :
       Unseated(backlog[Master][k]) /\ pc[backlog[Master][k]] = "recvId"
  /\ \A k, l \in 1 .. Len(backlog[Master]) : backlog[Master][k] = backlog[Master][l] => k = l

Outside ==
  \A p \in Players : Unseated(p) =>
    pc[p] \in {"start", "recvId"} /\ chan[fromM(p)] = <<>> /\ chan[toM(p)] = <<>>

\* The setup of the player at seat i, and what it is sent.
AtSeat(i) ==
  LET p == playerFds[i]
  IN  /\ pc[p] # "start"
      /\ pc[p] = "recvId" => /\ mpc = "recvPort" /\ i = Index
                             /\ chan[fromM(p)] = <<IdMsg(i - 1, numPlayers)>>
                             /\ chan[toM(p)] = <<>>
      /\ pc[p] # "recvId" => playerId[p] = i - 1
      /\ pc[p] = "recvLeft" =>
           IF Late THEN /\ chan[fromM(p)] # <<>>
                        /\ Head(chan[fromM(p)]) = PortMsg(playerFds[LeftOf(i)])
                        /\ Tail(chan[fromM(p)]) \in Seq(GameMsg)
           ELSE chan[fromM(p)] = <<>>
      /\ pc[p] \in Linked => /\ Late /\ leftFd[p] = playerFds[LeftOf(i)]
                             /\ chan[fromM(p)] \in Seq(GameMsg)
      /\ IF mpc = "recvPort" /\ i = Index
         THEN pc[p] = "recvLeft" => chan[toM(p)] = <<PortMsg(p)>>
         ELSE chan[toM(p)] \in Seq(GameMsg)

\* The connection that the player at seat i opens to its left neighbour.
Link(i) ==
  LET p == playerFds[i]
      q == playerFds[LeftOf(i)]
  IN  /\ backlog[q] = IF pc[p] \in Linked /\ pc[q] \notin InRing THEN <<p>> ELSE <<>>
      /\ pc[q] \in InRing => pc[p] \in Linked /\ rightFd[q] = p

Links == IF Late THEN \A i \in Seats : Link(i) ELSE \A p \in Players : backlog[p] = <<>>

\* Between two players nothing is sent but the potato and the end.
Sides == \A p \in AllPlayers : chan[toL(p)] \in Seq(GameMsg) /\ chan[fromL(p)] \in Seq(GameMsg)

RInv == /\ Shape /\ Seating /\ Waiting /\ Outside /\ Links /\ Sides
        /\ \A i \in Seats : AtSeat(i)

-----------------------------------------------------------------------------
LEMMA Counts ==
  ASSUME Shape, Seating
  PROVE  /\ numPlayers \in Nat /\ numPlayers >= 2 /\ Index \in Nat
         /\ Players \subseteq AllPlayers /\ AllPlayers \subseteq Nat /\ Master \notin AllPlayers
         /\ \A i \in Seats : playerFds[i] \in Players
         /\ \A i \in 1 .. numPlayers : LeftOf(i) \in 1 .. numPlayers
<1>1. numPlayers \in Nat /\ numPlayers >= 2 /\ numPlayers \in PlayerCounts
  BY HotPotatoAssumption DEF Shape
<1>2. Players \subseteq AllPlayers
  BY <1>1 DEF Players, AllPlayers
<1>3. AllPlayers \subseteq Nat /\ Master \notin AllPlayers
  BY HotPotatoAssumption DEF AllPlayers, Master
<1>4. Index \in Nat /\ \A i \in Seats : playerFds[i] \in Players
  BY DEF Shape, Index, Seats
<1>5. \A i \in 1 .. numPlayers : LeftOf(i) \in 1 .. numPlayers
  BY <1>1 DEF LeftOf
<1> QED
  BY <1>1, <1>2, <1>3, <1>4, <1>5

LEMMA Names ==
  ASSUME NEW p \in AllPlayers
  PROVE  /\ fromM(p) \in Channel /\ toM(p) \in Channel /\ fromL(p) \in Channel /\ toL(p) \in Channel
         /\ \A q : /\ fromM(p) = fromM(q) => p = q
                   /\ toM(p) = toM(q) => p = q
                   /\ fromL(p) = fromL(q) => p = q
                   /\ toL(p) = toL(q) => p = q
                   /\ fromM(p) # toM(q) /\ fromM(p) # fromL(q) /\ fromM(p) # toL(q)
                   /\ toM(p) # fromM(q) /\ toM(p) # fromL(q) /\ toM(p) # toL(q)
                   /\ fromL(p) # fromM(q) /\ fromL(p) # toM(q) /\ fromL(p) # toL(q)
                   /\ toL(p) # fromM(q) /\ toL(p) # toM(q) /\ toL(p) # fromL(q)
BY DEF fromM, toM, fromL, toL, Channel

\* Once there are as many seats as players, every player has one.
LEMMA AllSeated ==
  ASSUME Shape, Seating, Index = numPlayers
  PROVE  \A p \in Players : \E i \in Seats : playerFds[i] = p
<1>1. numPlayers \in Nat
  BY Counts
<1>2. IsFiniteSet(Players)
  BY <1>1, FS_Interval DEF Players
<1>3. playerFds \in Injection(Players, Players)
  <2>1. playerFds \in [Players -> Players]
    BY LenProperties DEF Shape, Index, Players
  <2>2. IsInjective(playerFds)
    BY <2>1 DEF IsInjective, Seating, Seats, Players
  <2> QED
    BY <2>1, <2>2 DEF Injection
<1>4. playerFds \in Surjection(Players, Players)
  BY <1>2, <1>3, FS_Injection
<1> QED
  BY <1>4 DEF Surjection, Seats, Players

-----------------------------------------------------------------------------
(***************************************************************************)
(* The steps of the game leave the ring as it is.                          *)
(***************************************************************************)

GameStep ==
  /\ Late /\ mpc' \in MasterPCs \ Early
  /\ UNCHANGED <<args, ringVars>>
  /\ potato' \in Potatoes
  /\ pc' \in [AllPlayers -> PlayerPCs]
  /\ \A p \in AllPlayers : pc'[p] = pc[p] \/ (pc[p] \in InRing /\ pc'[p] \in InRing)
  /\ chan' \in [Channel -> Seq(AnyMsg)]
  /\ \A p \in AllPlayers : chan'[fromL(p)] \in Seq(GameMsg) /\ chan'[toL(p)] \in Seq(GameMsg)
  /\ \A p \in Players :
       /\ \/ chan'[fromM(p)] = chan[fromM(p)]
          \/ \E g \in GameMsg : chan'[fromM(p)] = Append(chan[fromM(p)], g)
          \/ pc[p] \in InRing /\ chan'[fromM(p)] \in Seq(GameMsg)
       /\ chan'[toM(p)] \in Seq(GameMsg)

LEMMA GameKeepsRing ==
  ASSUME RInv, GameStep
  PROVE  RInv'
<1> USE DEF InRing, Linked, Early
<1>0. /\ Shape /\ Seating /\ Index = numPlayers
      /\ UNCHANGED <<numPlayers, numHops, playerFds, playerPorts, playerId, leftFd, rightFd, backlog>>
  BY DEF RInv, Seating, GameStep, args, ringVars, Late
<1>1. Shape'
  BY <1>0 DEF Shape, GameStep, Players
<1>2. Index' = Index /\ Seats' = Seats
  BY <1>0 DEF Index, Seats
<1>3. Late' /\ mpc' \notin Early
  BY DEF GameStep, Late
<1>4. Seating'
  BY <1>0, <1>2, <1>3 DEF RInv, Seating, GameStep, Late
<1>5. \A i \in Seats : playerFds[i] \in AllPlayers /\ LeftOf(i) \in Seats /\ LeftOf(i)' = LeftOf(i)
  BY <1>0, Counts DEF Seats, LeftOf
<1>6. Waiting'
  <2>1. \A k \in 1 .. Len(backlog[Master]) : backlog[Master][k] \in AllPlayers
    <3>1. backlog[Master] \in Seq(Players)
      BY <1>0 DEF Shape
    <3> QED
      BY <1>0, <3>1, ElementOfSeq, Counts
  <2>2. \A p : Unseated(p)' <=> Unseated(p)
    BY <1>0, <1>2 DEF Unseated
  <2> QED
    BY <1>0, <2>1, <2>2 DEF RInv, Waiting, GameStep
<1>7. Outside'
  <2>1. \A p \in Players' : ~Unseated(p)'
    BY <1>0, <1>2, AllSeated DEF Unseated, Players
  <2> QED
    BY <2>1 DEF Outside
<1>8. Sides'
  BY DEF Sides, GameStep
<1>9. Links'
  <2>1. ASSUME NEW i \in Seats PROVE Link(i)'
    <3> DEFINE p == playerFds[i]
               q == playerFds[LeftOf(i)]
    <3>1. p \in AllPlayers /\ q \in AllPlayers
      BY <1>5
    <3>2. Link(i)
      BY DEF RInv, Links, GameStep
    <3>3. (pc'[p] \in Linked <=> pc[p] \in Linked) /\ (pc'[q] \in InRing <=> pc[q] \in InRing)
      BY <3>1 DEF GameStep
    <3> QED
      BY <1>0, <1>5, <3>2, <3>3 DEF Link
  <2> QED
    BY <1>2, <1>3, <2>1 DEF Links
<1>10. ASSUME NEW i \in Seats PROVE AtSeat(i)'
  <2>1. PICK p \in Players : p = playerFds[i] /\ p \in AllPlayers
    BY <1>0, <1>5, Counts
  <2>2. AtSeat(i) /\ p = playerFds'[i] /\ Late
    BY <1>0, <2>1 DEF RInv, GameStep
  <2>3. pc'[p] = pc[p] \/ (pc[p] \in InRing /\ pc'[p] \in InRing)
    BY <2>1 DEF GameStep
  <2>4. /\ pc'[p] # "start"
        /\ pc'[p] # "recvId" /\ playerId'[p] = i - 1
    BY <1>0, <2>1, <2>2, <2>3 DEF AtSeat, Late
  <2>5. chan'[toM(p)] \in Seq(GameMsg)
    BY DEF GameStep
  <2>6. \/ chan'[fromM(p)] = chan[fromM(p)]
        \/ \E g \in GameMsg : chan'[fromM(p)] = Append(chan[fromM(p)], g)
        \/ pc[p] \in InRing /\ chan'[fromM(p)] \in Seq(GameMsg)
    BY DEF GameStep
  <2>7. chan[fromM(p)] \in Seq(AnyMsg)
    BY <1>0, <2>1, Names DEF Shape
  <2>8. pc'[p] \in Linked => leftFd'[p] = playerFds'[LeftOf(i)'] /\ chan'[fromM(p)] \in Seq(GameMsg)
    <3>1. pc'[p] \in Linked => leftFd[p] = playerFds[LeftOf(i)] /\ chan[fromM(p)] \in Seq(GameMsg)
      BY <2>1, <2>2, <2>3 DEF AtSeat
    <3>2. playerFds'[LeftOf(i)'] = playerFds[LeftOf(i)] /\ leftFd' = leftFd
      BY <1>0, <1>5
    <3>3. chan[fromM(p)] \in Seq(GameMsg) =>
            \A g \in GameMsg : Append(chan[fromM(p)], g) \in Seq(GameMsg)
      BY AppendProperties
    <3>4. pc'[p] \in Linked => chan'[fromM(p)] \in Seq(GameMsg)
      BY <2>6, <3>1, <3>3
    <3> QED
      BY <3>1, <3>2, <3>4
  <2>9. pc'[p] = "recvLeft" =>
          /\ chan'[fromM(p)] # <<>>
          /\ Head(chan'[fromM(p)]) = PortMsg(playerFds'[LeftOf(i)'])
          /\ Tail(chan'[fromM(p)]) \in Seq(GameMsg)
    <3>1. SUFFICES ASSUME pc'[p] = "recvLeft"
                   PROVE  /\ chan'[fromM(p)] # <<>>
                          /\ Head(chan'[fromM(p)]) = PortMsg(playerFds[LeftOf(i)])
                          /\ Tail(chan'[fromM(p)]) \in Seq(GameMsg)
      BY <1>0, <1>5 DEF PortMsg
    <3>2. /\ chan[fromM(p)] # <<>> /\ Head(chan[fromM(p)]) = PortMsg(playerFds[LeftOf(i)])
          /\ Tail(chan[fromM(p)]) \in Seq(GameMsg)
      BY <2>1, <2>2, <2>3, <3>1 DEF AtSeat
    <3>3. CASE chan'[fromM(p)] = chan[fromM(p)]
      BY <3>2, <3>3
    <3>4. CASE \E g \in GameMsg : chan'[fromM(p)] = Append(chan[fromM(p)], g)
      <4>1. PICK g \in GameMsg : chan'[fromM(p)] = Append(chan[fromM(p)], g)
        BY <3>4
      <4>2. /\ Head(chan'[fromM(p)]) = Head(chan[fromM(p)])
            /\ Tail(chan'[fromM(p)]) = Append(Tail(chan[fromM(p)]), g)
        BY <2>7, <3>2, <4>1, HeadTailAppend
      <4>3. Append(Tail(chan[fromM(p)]), g) \in Seq(GameMsg) /\ chan'[fromM(p)] # <<>>
        BY <2>7, <3>2, <4>1, AppendProperties DEF AnyMsg
      <4> QED
        BY <3>2, <4>2, <4>3
    <3> QED
      BY <2>3, <2>6, <3>1, <3>3, <3>4
  <2> QED
    BY <1>3, <2>2, <2>4, <2>5, <2>8, <2>9 DEF AtSeat, Late
<1> QED
  BY <1>1, <1>2, <1>4, <1>6, <1>7, <1>8, <1>9, <1>10 DEF RInv

\* What is appended to some channels, and what a receive leaves.
LEMMA Sent ==
  ASSUME NEW S, NEW ch \in [Channel -> Seq(S)], NEW C, NEW m \in S
  PROVE  /\ SendAll(ch, C, m) \in [Channel -> Seq(S)]
         /\ \A c \in Channel : SendAll(ch, C, m)[c] = IF c \in C THEN Append(ch[c], m) ELSE ch[c]
<1>1. \A c \in Channel : ch[c] \in Seq(S) /\ Append(ch[c], m) \in Seq(S)
  BY AppendProperties
<1> QED
  BY <1>1 DEF SendAll

LEMMA SentOne ==
  ASSUME NEW S, NEW ch \in [Channel -> Seq(S)], NEW d \in Channel, NEW m \in S
  PROVE  /\ Send(ch, d, m) \in [Channel -> Seq(S)]
         /\ \A c \in Channel : Send(ch, d, m)[c] = IF c = d THEN Append(ch[c], m) ELSE ch[c]
<1>1. Append(ch[d], m) \in Seq(S)
  BY AppendProperties
<1> QED
  BY <1>1 DEF Send

LEMMA Took ==
  ASSUME NEW S, NEW ch \in [Channel -> Seq(S)], NEW d \in Channel, ch[d] # <<>>
  PROVE  /\ Received(ch, d) \in [Channel -> Seq(S)]
         /\ \A c \in Channel :
              Received(ch, d)[c] = IF c = d /\ Head(ch[d]) # EOF THEN Tail(ch[c]) ELSE ch[c]
<1>1. Tail(ch[d]) \in Seq(S)
  BY HeadTailProperties
<1> QED
  BY <1>1 DEF Received

LEMMA Hopped ==
  ASSUME NEW p \in Potatoes, p.ttl > 0, NEW id \in Nat
  PROVE  RecordHop(p, id) \in Potatoes
<1>1. p.ttl - 1 \in Nat /\ p.count \in Nat /\ p.path \in [0 .. MaxNumHops - 1 -> Nat]
  BY DEF Potatoes
<1>2. CASE p.count < MaxNumHops
  <2>1. [p EXCEPT !.ttl = @ - 1, !.path[p.count] = id, !.count = @ + 1]
          = [p EXCEPT !.ttl = p.ttl - 1, !.path = [p.path EXCEPT ![p.count] = id], !.count = p.count + 1]
    BY DEF Potatoes
  <2>2. p.count + 1 \in Nat /\ [p.path EXCEPT ![p.count] = id] \in [0 .. MaxNumHops - 1 -> Nat]
    <3>1. ASSUME NEW D, NEW f \in [D -> Nat], NEW n PROVE [f EXCEPT ![n] = id] \in [D -> Nat]
      OBVIOUS
    <3>2. PICK f \in [0 .. MaxNumHops - 1 -> Nat], n \in Nat : f = p.path /\ n = p.count
      BY <1>1
    <3>3. [f EXCEPT ![n] = id] \in [0 .. MaxNumHops - 1 -> Nat]
      BY <3>1
    <3> QED
      BY <3>2, <3>3
  <2> QED
    BY <1>1, <1>2, <2>1, <2>2 DEF RecordHop, Potatoes
<1>3. CASE ~(p.count < MaxNumHops)
  BY <1>1, <1>3 DEF RecordHop, Potatoes
<1> QED
  BY <1>2, <1>3

LEMMA Kinds ==
  ASSUME NEW m \in GameMsg
  PROVE  m \in AnyMsg /\ (m # EOF => m.kind = "potato" /\ m.potato \in Potatoes /\ m = PotatoMsg(m.potato))
BY DEF GameMsg, AnyMsg, PotatoMsg

LEMMA IsGame == EOF \in GameMsg /\ \A p \in Potatoes : PotatoMsg(p) \in GameMsg
BY DEF GameMsg, PotatoMsg

\* A player that has connected to its left neighbour is linked to both of them, and to
\* the ringmaster, by channels that carry the game.
LEMMA InTheRing ==
  ASSUME RInv, NEW p \in Players, pc[p] \in Linked
  PROVE  /\ Late /\ p \in AllPlayers
         /\ chan[fromM(p)] \in Seq(GameMsg) /\ chan[toM(p)] \in Seq(GameMsg)
         /\ leftFd[p] \in Players
         /\ pc[p] \in InRing => /\ rightFd[p] \in Players /\ rightFd[p] \in AllPlayers
                                /\ rightFd[p] # p /\ pc[rightFd[p]] \in Linked
                                /\ leftFd[rightFd[p]] = p
<1> USE DEF InRing, Linked, Early
<1>1. Shape /\ Seating
  BY DEF RInv
<1>2. PICK j \in Seats : playerFds[j] = p
  BY DEF RInv, Outside, Unseated
<1>3. AtSeat(j)
  BY DEF RInv
<1>4. Late /\ leftFd[p] = playerFds[LeftOf(j)] /\ chan[fromM(p)] \in Seq(GameMsg)
  BY <1>2, <1>3 DEF AtSeat
<1>5. Index = numPlayers /\ mpc # "recvPort"
  BY <1>1, <1>4 DEF Seating, Late
<1>6. chan[toM(p)] \in Seq(GameMsg)
  BY <1>2, <1>3, <1>5 DEF AtSeat
<1>7. leftFd[p] \in Players /\ p \in AllPlayers
  BY <1>1, <1>4, <1>5, Counts DEF Seats
<1>8. ASSUME pc[p] \in InRing
      PROVE  /\ rightFd[p] \in Players /\ rightFd[p] \in AllPlayers
             /\ rightFd[p] # p /\ pc[rightFd[p]] \in Linked
             /\ leftFd[rightFd[p]] = p
  <2>1. PICK i \in Seats : LeftOf(i) = j /\ i # j
    <3> DEFINE i == IF j = numPlayers THEN 1 ELSE j + 1
    <3>1. i \in Seats /\ LeftOf(i) = j /\ i # j
      BY <1>1, <1>5, Counts DEF Seats, LeftOf
    <3> QED
      BY <3>1
  <2>2. Link(i) /\ AtSeat(i)
    BY <1>4 DEF RInv, Links
  <2>3. rightFd[p] = playerFds[i] /\ pc[playerFds[i]] \in Linked
    BY <1>2, <1>8, <2>1, <2>2 DEF Link
  <2>4. leftFd[playerFds[i]] = playerFds[j]
    BY <2>1, <2>2, <2>3 DEF AtSeat
  <2>5. playerFds[i] \in Players /\ playerFds[i] \in AllPlayers /\ playerFds[i] # playerFds[j]
    BY <1>1, <2>1, Counts DEF Seating
  <2> QED
    BY <1>2, <2>3, <2>4, <2>5
<1> QED
  BY <1>4, <1>6, <1>7, <1>8

LEMMA Late_toM ==
  ASSUME RInv, Late, NEW p \in Players
  PROVE  chan[toM(p)] \in Seq(GameMsg)
<1>1. Shape /\ Seating /\ Index = numPlayers /\ mpc # "recvPort"
  BY DEF RInv, Seating, Late, Early
<1>2. PICK j \in Seats : playerFds[j] = p
  BY <1>1, AllSeated
<1> QED
  BY <1>1, <1>2 DEF RInv, AtSeat

\* What a listening player reads, and where it sends.
LEMMA Reads ==
  ASSUME RInv, NEW p \in Players, pc[p] = "listen", NEW k \in FirstReady(listenFds(p))
  PROVE  \E c \in {fromL(p), toL(rightFd[p]), fromM(p)} :
           /\ listenFds(p)[k] = c /\ c \in Channel
           /\ chan[c] \in Seq(GameMsg) /\ chan[c] # <<>> /\ Head(chan[c]) \in GameMsg
<1>1. /\ p \in AllPlayers /\ rightFd[p] \in AllPlayers /\ chan[fromM(p)] \in Seq(GameMsg)
  BY InTheRing DEF InRing, Linked
<1>2. listenFds(p) = <<fromL(p), toL(rightFd[p]), fromM(p)>>
  BY DEF listenFds, fromL, toL, fromM
<1>3. k \in 1 .. 3 /\ chan[listenFds(p)[k]] # <<>>
  BY <1>2 DEF FirstReady
<1>4. PICK c \in {fromL(p), toL(rightFd[p]), fromM(p)} : listenFds(p)[k] = c
  BY <1>2, <1>3
<1>5. c \in Channel /\ chan[c] \in Seq(GameMsg)
  BY <1>1, Names DEF RInv, Sides
<1> QED
  BY <1>3, <1>4, <1>5, HeadTailProperties

LEMMA Sends ==
  ASSUME NEW p
  PROVE  /\ outFds(p)[1] = toL(p) /\ outFds(p)[2] = fromL(rightFd[p]) /\ outFds(p)[3] = toM(p)
         /\ Range(outFds(p)) = {toL(p), fromL(rightFd[p]), toM(p)}
<1>1. outFds(p) = <<toL(p), fromL(rightFd[p]), toM(p)>>
  BY DEF outFds, toL, fromL, toM
<1>2. DOMAIN outFds(p) = 1 .. 3
  BY <1>1
<1> QED
  BY <1>1, <1>2 DEF Range

LEMMA GameSteps ==
  ASSUME RInv,
         \/ throwPotato \/ catchPotato \/ closeRingmaster
         \/ \E p \in Players : listenAndForwardPotato(p) \/ closePlayer(p) \/ die(p)
  PROVE  GameStep
<1> USE DEF Early, Linked, InRing
<1>0. /\ Shape /\ Sides /\ chan \in [Channel -> Seq(AnyMsg)] /\ Players \subseteq AllPlayers
      /\ pc \in [AllPlayers -> PlayerPCs] /\ potato \in Potatoes /\ mpc \in MasterPCs
  BY Counts DEF RInv, Shape
\* What goes to a set of channels of the game leaves these channels of the game.
<1>1. ASSUME NEW C, NEW m \in GameMsg, Late, chan' = SendAll(chan, C, m)
      PROVE  /\ chan' \in [Channel -> Seq(AnyMsg)]
             /\ \A p \in AllPlayers : chan'[fromL(p)] \in Seq(GameMsg) /\ chan'[toL(p)] \in Seq(GameMsg)
             /\ \A p \in Players :
                  /\ \/ chan'[fromM(p)] = chan[fromM(p)]
                     \/ \E g \in GameMsg : chan'[fromM(p)] = Append(chan[fromM(p)], g)
                  /\ chan'[toM(p)] \in Seq(GameMsg)
  <2>1. m \in AnyMsg
    BY Kinds
  <2>2. /\ chan' \in [Channel -> Seq(AnyMsg)]
        /\ \A c \in Channel : chan'[c] = IF c \in C THEN Append(chan[c], m) ELSE chan[c]
    BY <1>0, <1>1, <2>1, Sent
  <2>3. ASSUME NEW c \in Channel, chan[c] \in Seq(GameMsg) PROVE chan'[c] \in Seq(GameMsg)
    <3>1. Append(chan[c], m) \in Seq(GameMsg)
      BY <2>3, AppendProperties
    <3> QED
      BY <2>2, <2>3, <3>1
  <2>4. \A p \in AllPlayers : chan'[fromL(p)] \in Seq(GameMsg) /\ chan'[toL(p)] \in Seq(GameMsg)
    BY <1>0, <2>3, Names DEF Sides
  <2>5. \A p \in Players : chan'[toM(p)] \in Seq(GameMsg)
    BY <1>0, <1>1, <2>3, Names, Late_toM
  <2>6. \A p \in Players : chan'[fromM(p)] \in {chan[fromM(p)], Append(chan[fromM(p)], m)}
    BY <1>0, <2>2, Names
  <2> QED
    BY <2>2, <2>4, <2>5, <2>6
<1>2. ASSUME throwPotato PROVE GameStep
  <2>1. Late /\ mpc' \in MasterPCs \ Early /\ UNCHANGED <<args, ringVars, potato, pc>>
    BY <1>2 DEF throwPotato, Late, MasterPCs
  <2>2. CASE chan' = chan
    <3>1. \A p \in Players : chan[toM(p)] \in Seq(GameMsg)
      BY <2>1, Late_toM
    <3> QED
      BY <1>0, <2>1, <2>2, <3>1 DEF GameStep, Sides
  <2>3. CASE \E k \in 1 .. numPlayers :
               chan' = Send(chan, <<playerFds[k], "fromMaster">>, PotatoMsg(potato))
    <3>1. PICK k \in 1 .. numPlayers : chan' = Send(chan, fromM(playerFds[k]), PotatoMsg(potato))
      BY <2>3 DEF fromM
    <3>2. playerFds[k] \in AllPlayers
      <4>1. Index = numPlayers /\ Seating
        BY <2>1 DEF RInv, Seating, Late
      <4> QED
        BY <1>0, <4>1, Counts DEF Seats
    <3>3. PotatoMsg(potato) \in GameMsg
      BY <1>0, IsGame
    <3>4. Send(chan, fromM(playerFds[k]), PotatoMsg(potato))
            = SendAll(chan, {fromM(playerFds[k])}, PotatoMsg(potato))
      BY <1>0, <3>2, Names DEF Send, SendAll
    <3> QED
      BY <1>0, <1>1, <2>1, <3>1, <3>3, <3>4 DEF GameStep
  <2> QED
    BY <1>2, <2>2, <2>3 DEF throwPotato
<1>3. ASSUME closeRingmaster PROVE GameStep
  <2>1. Late /\ mpc' \in MasterPCs \ Early /\ UNCHANGED <<args, ringVars, potato, pc>>
    BY <1>3 DEF closeRingmaster, Late, MasterPCs
  <2>2. chan' = SendAll(chan, Players \X {"fromMaster"}, EOF)
    BY <1>3 DEF closeRingmaster
  <2> QED
    BY <1>0, <1>1, <2>1, <2>2, IsGame DEF GameStep
<1>4. ASSUME catchPotato PROVE GameStep
  <2> DEFINE fds == [k \in 1 .. numPlayers |-> <<playerFds[k], "toMaster">>]
  <2>1. Late /\ mpc' \in MasterPCs \ Early /\ UNCHANGED <<args, ringVars, pc>>
    BY <1>4 DEF catchPotato, Late, MasterPCs
  <2>2. PICK k \in FirstReady(fds) :
          LET m == Head(chan[fds[k]])
          IN  \/ m = EOF /\ UNCHANGED <<potato, chan>>
              \/ /\ m # EOF
                 /\ potato' = m.potato
                 /\ chan' = SendAll(Received(chan, fds[k]), Players \X {"fromMaster"}, m)
    BY <1>4 DEF catchPotato
  <2>3. PICK q \in Players : fds[k] = toM(q) /\ chan[toM(q)] # <<>>
    <3>1. k \in 1 .. numPlayers /\ chan[fds[k]] # <<>>
      BY <2>2 DEF FirstReady
    <3>2. playerFds[k] \in Players
      <4>1. Index = numPlayers /\ Seating
        BY <2>1 DEF RInv, Seating, Late
      <4> QED
        BY <1>0, <3>1, <4>1, Counts DEF Seats
    <3> QED
      BY <3>1, <3>2 DEF toM
  <2>4. \A p \in Players : chan[toM(p)] \in Seq(GameMsg)
    BY <2>1, Late_toM
  <2> DEFINE m == Head(chan[toM(q)])
  <2>5. m \in GameMsg
    BY <2>3, <2>4, HeadTailProperties
  <2>6. CASE m = EOF
    <3>1. UNCHANGED <<potato, chan>>
      BY <2>2, <2>3, <2>6
    <3> QED
      BY <1>0, <2>1, <2>4, <3>1 DEF GameStep, Sides
  <2>7. CASE m # EOF
    <3>1. potato' = m.potato /\ chan' = SendAll(Received(chan, toM(q)), Players \X {"fromMaster"}, m)
      BY <2>2, <2>3, <2>7
    <3>2. m \in AnyMsg /\ potato' \in Potatoes
      BY <2>5, <2>7, <3>1, Kinds
    <3>3. /\ Received(chan, toM(q)) \in [Channel -> Seq(AnyMsg)]
          /\ \A c \in Channel : Received(chan, toM(q))[c] = IF c = toM(q) THEN Tail(chan[c]) ELSE chan[c]
      <4>1. toM(q) \in Channel
        BY <1>0, Names
      <4> QED
        BY <1>0, <2>3, <2>7, <4>1, Took
    <3>4. /\ chan' \in [Channel -> Seq(AnyMsg)]
          /\ \A c \in Channel : chan'[c] = IF c \in Players \X {"fromMaster"}
                                          THEN Append(Received(chan, toM(q))[c], m)
                                          ELSE Received(chan, toM(q))[c]
      <4>1. PICK left : left = Received(chan, toM(q))
        OBVIOUS
      <4>2. PICK sent \in AnyMsg : sent = m
        BY <3>2
      <4>3. left \in [Channel -> Seq(AnyMsg)]
        BY <3>3, <4>1
      <4>4. /\ SendAll(left, Players \X {"fromMaster"}, sent) \in [Channel -> Seq(AnyMsg)]
            /\ \A c \in Channel :
                 SendAll(left, Players \X {"fromMaster"}, sent)[c]
                   = IF c \in Players \X {"fromMaster"} THEN Append(left[c], sent) ELSE left[c]
        BY <4>3, Sent
      <4>5. chan' = SendAll(left, Players \X {"fromMaster"}, sent)
        BY <3>1, <4>1, <4>2
      <4> HIDE DEF m
      <4> QED
        BY <4>1, <4>2, <4>4, <4>5
    <3>5. \A p \in AllPlayers :
            /\ chan'[fromL(p)] = chan[fromL(p)] /\ chan'[toL(p)] = chan[toL(p)]
            /\ chan'[toM(p)] = IF p = q THEN Tail(chan[toM(p)]) ELSE chan[toM(p)]
            /\ p \in Players => chan'[fromM(p)] = Append(chan[fromM(p)], m)
      <4>1. \A p \in AllPlayers :
              /\ fromL(p) \notin Players \X {"fromMaster"} /\ toL(p) \notin Players \X {"fromMaster"}
              /\ toM(p) \notin Players \X {"fromMaster"}
              /\ p \in Players => fromM(p) \in Players \X {"fromMaster"}
        BY DEF fromL, toL, toM, fromM
      <4> QED
        BY <3>3, <3>4, <4>1, Names
    <3>6. Tail(chan[toM(q)]) \in Seq(GameMsg)
      BY <2>3, <2>4, HeadTailProperties
    <3> QED
      BY <1>0, <2>1, <2>4, <2>5, <3>2, <3>4, <3>5, <3>6 DEF GameStep, Sides
  <2> QED
    BY <2>6, <2>7
<1>5. ASSUME NEW p \in Players, closePlayer(p) \/ die(p) PROVE GameStep
  <2>1. /\ pc[p] \in InRing /\ pc' = [pc EXCEPT ![p] = "done"]
        /\ UNCHANGED <<args, ringVars, mpc, potato>>
        /\ chan' = SendAll(chan, Range(outFds(p)), EOF)
    BY <1>5 DEF closePlayer, die
  <2>2. Late
    BY <2>1, InTheRing
  <2>3. /\ pc' \in [AllPlayers -> PlayerPCs]
        /\ \A q \in AllPlayers : pc'[q] = pc[q] \/ (pc[q] \in InRing /\ pc'[q] \in InRing)
    BY <1>0, <2>1 DEF PlayerPCs
  <2>4. mpc' \in MasterPCs \ Early
    BY <1>0, <2>1, <2>2 DEF Late
  <2> QED
    BY <1>0, <1>1, <2>1, <2>2, <2>3, <2>4, IsGame DEF GameStep
<1>6. ASSUME NEW p \in Players, listenAndForwardPotato(p) PROVE GameStep
  <2>1. /\ pc[p] = "listen" /\ UNCHANGED <<args, ringVars, mpc, potato>>
        /\ pc' = pc \/ pc' = [pc EXCEPT ![p] = "close"]
    BY <1>6 DEF listenAndForwardPotato
  <2>2. /\ Late /\ p \in AllPlayers /\ rightFd[p] \in AllPlayers
        /\ chan[fromM(p)] \in Seq(GameMsg) /\ chan[toM(p)] \in Seq(GameMsg)
    BY <2>1, InTheRing
  <2>3. /\ pc' \in [AllPlayers -> PlayerPCs]
        /\ \A q \in AllPlayers : pc'[q] = pc[q] \/ (pc[q] \in InRing /\ pc'[q] \in InRing)
    BY <1>0, <2>1 DEF PlayerPCs
  <2>4. mpc' \in MasterPCs \ Early
    BY <1>0, <2>1, <2>2 DEF Late
  <2>5. PICK k \in FirstReady(listenFds(p)) :
          LET m == Head(chan[listenFds(p)[k]])
              rest == Received(chan, listenFds(p)[k])
          IN  \/ chan' = rest
              \/ /\ m # EOF /\ m.potato.ttl > 0
                 /\ \E out \in 1 .. 3 :
                      chan' = Send(rest, outFds(p)[out], PotatoMsg(RecordHop(m.potato, playerId[p])))
    <3>1. PICK k \in FirstReady(listenFds(p)) :
            LET m == Head(chan[listenFds(p)[k]])
                rest == Received(chan, listenFds(p)[k])
            IN  \/ chan' = rest
                \/ /\ m # EOF /\ m.potato.ttl = 1
                   /\ chan' = Send(rest, outFds(p)[3], PotatoMsg(RecordHop(m.potato, playerId[p])))
                \/ /\ m # EOF /\ m.potato.ttl > 1
                   /\ \E out \in {1, 2} :
                        chan' = Send(rest, outFds(p)[out], PotatoMsg(RecordHop(m.potato, playerId[p])))
      BY <1>6 DEF listenAndForwardPotato
    <3>2. PICK c \in Channel : c = listenFds(p)[k] /\ Head(chan[c]) \in GameMsg
      BY <2>1, Reads
    <3>3. Head(chan[c]) # EOF => Head(chan[c]).potato.ttl \in Nat
      BY <3>2, Kinds DEF Potatoes
    <3> QED
      BY <3>1, <3>2, <3>3
  <2>6. PICK c \in {fromL(p), toL(rightFd[p]), fromM(p)} :
          /\ listenFds(p)[k] = c /\ c \in Channel
          /\ chan[c] \in Seq(GameMsg) /\ chan[c] # <<>> /\ Head(chan[c]) \in GameMsg
    BY <2>1, Reads
  <2> DEFINE m == Head(chan[c])
             rest == Received(chan, c)
  <2>7. /\ rest \in [Channel -> Seq(AnyMsg)]
        /\ \A d \in Channel : rest[d] = IF d = c /\ m # EOF THEN Tail(chan[d]) ELSE chan[d]
    BY <1>0, <2>6, Took
  <2>8. ASSUME NEW d \in Channel, chan[d] \in Seq(GameMsg) PROVE rest[d] \in Seq(GameMsg)
    BY <2>6, <2>7, <2>8, HeadTailProperties
  <2> HIDE DEF rest
  <2>9. /\ chan' \in [Channel -> Seq(AnyMsg)]
        /\ \A d \in Channel :
             \/ chan'[d] = rest[d]
             \/ d \notin {fromM(q) : q \in AllPlayers} /\ \E g \in GameMsg : chan'[d] = Append(rest[d], g)
    <3>1. CASE chan' = rest
      BY <2>7, <3>1
    <3>2. CASE \E out \in 1 .. 3 : m # EOF /\ m.potato.ttl > 0 /\
                 chan' = Send(rest, outFds(p)[out], PotatoMsg(RecordHop(m.potato, playerId[p])))
      <4>1. PICK out \in 1 .. 3 : m # EOF /\ m.potato.ttl > 0 /\
              chan' = Send(rest, outFds(p)[out], PotatoMsg(RecordHop(m.potato, playerId[p])))
        BY <3>2
      <4>2. PICK d \in {toL(p), fromL(rightFd[p]), toM(p)} : d = outFds(p)[out]
        BY Sends
      <4>3. d \in Channel /\ d \notin {fromM(q) : q \in AllPlayers}
        BY <2>2, <4>2, Names
      <4>4. PICK g \in GameMsg : g = PotatoMsg(RecordHop(m.potato, playerId[p]))
        BY <1>0, <2>2, <2>6, <4>1, Kinds, Hopped, IsGame DEF Shape
      <4>5. g \in AnyMsg
        BY Kinds
      <4>6. chan' = Send(rest, d, g)
        BY <4>1, <4>2, <4>4
      <4>7. /\ Send(rest, d, g) \in [Channel -> Seq(AnyMsg)]
            /\ \A e \in Channel : Send(rest, d, g)[e] = IF e = d THEN Append(rest[e], g) ELSE rest[e]
        BY <2>7, <4>3, <4>5, SentOne
      <4> QED
        BY <4>3, <4>6, <4>7
    <3> QED
      BY <2>5, <2>6, <3>1, <3>2 DEF rest
  <2>10. ASSUME NEW d \in Channel, chan[d] \in Seq(GameMsg) PROVE chan'[d] \in Seq(GameMsg)
    <3>1. rest[d] \in Seq(GameMsg)
      BY <2>8, <2>10
    <3>2. \A g \in GameMsg : Append(rest[d], g) \in Seq(GameMsg)
      BY <3>1, AppendProperties
    <3> QED
      BY <2>9, <3>1, <3>2
  <2>11. \A q \in AllPlayers : chan'[fromL(q)] \in Seq(GameMsg) /\ chan'[toL(q)] \in Seq(GameMsg)
    BY <1>0, <2>10, Names DEF Sides
  <2>12. \A q \in Players : chan'[toM(q)] \in Seq(GameMsg)
    BY <1>0, <2>2, <2>10, Names, Late_toM
  <2>13. ASSUME NEW q \in Players
         PROVE  \/ chan'[fromM(q)] = chan[fromM(q)]
                \/ pc[q] \in InRing /\ chan'[fromM(q)] \in Seq(GameMsg)
    <3>1. chan'[fromM(q)] = rest[fromM(q)] /\ fromM(q) \in Channel
      BY <1>0, <2>9, Names
    <3>2. CASE q = p
      BY <2>1, <2>2, <2>10, <3>1, <3>2
    <3>3. CASE q # p
      BY <1>0, <2>2, <2>6, <2>7, <3>1, <3>3, Names
    <3> QED
      BY <3>2, <3>3
  <2> QED
    BY <1>0, <2>1, <2>2, <2>3, <2>4, <2>9, <2>11, <2>12, <2>13 DEF GameStep
<1> QED
  BY <1>2, <1>3, <1>4, <1>5, <1>6

-----------------------------------------------------------------------------
(***************************************************************************)
(* The setup                                                               *)
(***************************************************************************)

LEMMA RingInit ==
  ASSUME Init
  PROVE  RInv
<1>1. Index = 0 /\ Seats = {} /\ Len(playerPorts) = 0 /\ mpc = "accept"
  BY DEF Init, Index, Seats
<1>2. numPlayers \in Nat /\ numPlayers >= 2 /\ numHops \in Nat
  BY HotPotatoAssumption DEF Init
<1>3. Potato(numHops) \in Potatoes
  BY <1>2 DEF Potato, Potatoes
<1>4. Shape
  <2>1. \A S : <<>> \in Seq(S)
    OBVIOUS
  <2> QED
    BY <1>3, <2>1 DEF Init, Shape, MasterPCs, Early, PlayerPCs, None
<1>5. Seating
  BY <1>1, <1>2 DEF Seating
<1>6. Waiting
  BY DEF Init, Waiting
<1>7. \A p \in AllPlayers : /\ chan[fromM(p)] = <<>> /\ chan[toM(p)] = <<>>
                           /\ chan[fromL(p)] = <<>> /\ chan[toL(p)] = <<>>
  BY Names DEF Init
<1>8. Players \subseteq AllPlayers
  BY <1>4, <1>5, Counts
<1>9. Outside
  BY <1>7, <1>8 DEF Init, Outside
<1>10. Links
  BY <1>1, <1>8 DEF Init, Links, Late, Early
<1>11. Sides
  <2>1. <<>> \in Seq(GameMsg)
    OBVIOUS
  <2> QED
    BY <1>7, <2>1 DEF Sides
<1> QED
  BY <1>1, <1>4, <1>5, <1>6, <1>9, <1>10, <1>11 DEF RInv

\* A player connects to the ringmaster.
LEMMA RingConnect ==
  ASSUME RInv, NEW p \in Players, buildMasterConnect(p)
  PROVE  RInv'
<1>0. /\ Shape /\ Seating /\ Waiting /\ p \in AllPlayers /\ Master \notin AllPlayers
      /\ Players \subseteq AllPlayers
  BY Counts DEF RInv
<1>1. /\ pc[p] = "start" /\ pc' = [pc EXCEPT ![p] = "recvId"]
      /\ backlog' = [backlog EXCEPT ![Master] = Append(backlog[Master], p)]
      /\ UNCHANGED <<numPlayers, numHops, playerFds, playerPorts, playerId, leftFd, rightFd,
                     mpc, potato, chan>>
  BY DEF buildMasterConnect, args
<1>2. /\ Index' = Index /\ Seats' = Seats /\ Late' = Late
      /\ \A q : Unseated(q)' <=> Unseated(q)
      /\ \A i : LeftOf(i)' = LeftOf(i)
  BY <1>1 DEF Index, Seats, Late, Unseated, LeftOf
<1>3. Unseated(p) /\ \A i \in Seats : playerFds[i] # p /\ playerFds[i] \in Players
  BY <1>0, <1>1, Counts DEF RInv, AtSeat, Unseated
<1>4. backlog[Master] \in Seq(Players)
  BY <1>0 DEF Shape
<1>5. Shape'
  <2>1. Append(backlog[Master], p) \in Seq(Players)
    BY <1>4, AppendProperties
  <2>2. backlog' \in [AllPlayers \cup {Master} -> Seq(Players')]
    BY <1>0, <1>1, <2>1 DEF Shape, Players
  <2>3. pc' \in [AllPlayers -> PlayerPCs]
    BY <1>0, <1>1 DEF Shape, PlayerPCs
  <2>4. Players' = Players
    BY <1>1 DEF Players
  <2> QED
    BY <1>0, <1>1, <2>2, <2>3, <2>4 DEF Shape
<1>6. Seating'
  BY <1>0, <1>1, <1>2 DEF Seating
<1>7. Waiting'
  <2> DEFINE b == backlog[Master]
  <2>1. /\ Len(b) \in Nat /\ backlog'[Master] = Append(b, p) /\ Len(backlog'[Master]) = Len(b) + 1
        /\ \A k \in 1 .. Len(b) : backlog'[Master][k] = b[k] /\ b[k] \in Players /\ pc[b[k]] = "recvId"
        /\ backlog'[Master][Len(b) + 1] = p
    <3>1. backlog'[Master] = Append(b, p)
      BY <1>0, <1>1 DEF Shape
    <3>2. \A k \in 1 .. Len(b) : b[k] \in Players /\ pc[b[k]] = "recvId"
      BY <1>0, <1>4, ElementOfSeq DEF Waiting
    <3> QED
      BY <1>4, <3>1, <3>2, AppendProperties
  <2>2. \A k \in 1 .. Len(b) : Unseated(b[k])' /\ pc'[b[k]] = "recvId" /\ b[k] # p
    BY <1>0, <1>1, <1>2, <2>1 DEF Waiting, Shape
  <2>3. Unseated(p)' /\ pc'[p] = "recvId"
    BY <1>0, <1>1, <1>2, <1>3 DEF Shape
  <2>4. \A k \in 1 .. Len(b) + 1 : k \in 1 .. Len(b) \/ k = Len(b) + 1
    BY <2>1
  <2> QED
    BY <1>0, <2>1, <2>2, <2>3, <2>4 DEF Waiting
<1>8. Outside'
  <2>1. Outside /\ Players' = Players /\ \A q \in Players : pc'[q] = IF q = p THEN "recvId" ELSE pc[q]
    BY <1>0, <1>1 DEF RInv, Shape, Players
  <2> QED
    BY <1>1, <1>2, <1>3, <2>1 DEF Outside
<1>9. \A q \in AllPlayers : backlog'[q] = backlog[q]
  BY <1>0, <1>1 DEF Shape
<1>10. Seating => \A i \in Seats : Late => LeftOf(i) \in Seats
  BY <1>0, Counts DEF Seating, Seats, Late, Early
<1>11. Links'
  <2>1. CASE Late
    <3>1. ASSUME NEW i \in Seats PROVE Link(i)'
      <4>1. /\ playerFds[i] \in AllPlayers /\ playerFds[i] # p
            /\ playerFds[LeftOf(i)] \in AllPlayers /\ playerFds[LeftOf(i)] # p
        BY <1>0, <1>3, <1>10, <2>1
      <4>2. Link(i)
        BY <2>1 DEF RInv, Links
      <4> QED
        BY <1>1, <1>2, <1>9, <4>1, <4>2 DEF Link
    <3> QED
      BY <1>2, <2>1, <3>1 DEF Links
  <2>2. CASE ~Late
    BY <1>0, <1>1, <1>2, <1>9, <2>2 DEF RInv, Links, Players
  <2> QED
    BY <2>1, <2>2
<1>12. Sides'
  BY <1>1 DEF RInv, Sides
<1>13. ASSUME NEW i \in Seats PROVE AtSeat(i)'
  <2>1. AtSeat(i) /\ pc'[playerFds[i]] = pc[playerFds[i]]
    BY <1>0, <1>1, <1>3 DEF RInv
  <2> QED
    BY <1>1, <1>2, <2>1 DEF AtSeat, PortMsg, IdMsg
<1> QED
  BY <1>2, <1>5, <1>6, <1>7, <1>8, <1>11, <1>12, <1>13 DEF RInv

\* The ringmaster accepts a player.
LEMMA RingAccept ==
  ASSUME RInv, acceptPlayer
  PROVE  RInv'
<1> USE DEF Early
<1>0. /\ Shape /\ Seating /\ Waiting /\ Master \notin AllPlayers /\ Players \subseteq AllPlayers
      /\ numPlayers \in Nat /\ Index \in Nat
  BY Counts DEF RInv
<1>1. backlog[Master] \in Seq(Players) /\ backlog[Master] # <<>>
  BY <1>0 DEF Shape, acceptPlayer
<1>2. PICK p \in Players : p = Head(backlog[Master])
  BY <1>1, HeadTailProperties
<1>3. /\ mpc = "accept" /\ mpc' = "recvPort"
      /\ playerFds' = Append(playerFds, p)
      /\ chan' = Send(chan, fromM(p), IdMsg(Index, numPlayers))
      /\ backlog' = [backlog EXCEPT ![Master] = Tail(backlog[Master])]
      /\ UNCHANGED <<numPlayers, numHops, playerPorts, playerId, leftFd, rightFd, potato, pc>>
  BY <1>2 DEF acceptPlayer, args, fromM
<1>4. p = backlog[Master][1] /\ 1 \in 1 .. Len(backlog[Master])
  BY <1>1, <1>2
<1>5. Unseated(p) /\ pc[p] = "recvId" /\ chan[fromM(p)] = <<>> /\ chan[toM(p)] = <<>> /\ p \in AllPlayers
  BY <1>0, <1>4 DEF Waiting, RInv, Outside
<1>6. Index < numPlayers /\ ~Late /\ ~Late'
  BY <1>0, <1>3 DEF Seating, Late
<1>7. /\ Index' = Index + 1 /\ Seats' = Seats \cup {Index + 1}
      /\ \A i \in Seats : playerFds'[i] = playerFds[i] /\ i # Index + 1 /\ playerFds[i] # p
                         /\ playerFds[i] \in Players
      /\ playerFds'[Index + 1] = p
  <2>1. playerFds \in Seq(Players)
    BY <1>0 DEF Shape
  <2>2. /\ Len(playerFds') = Len(playerFds) + 1 /\ playerFds'[Len(playerFds) + 1] = p
        /\ \A i \in 1 .. Len(playerFds) : playerFds'[i] = playerFds[i]
    BY <1>3, <2>1, AppendProperties
  <2>3. \A i \in Seats : playerFds[i] # p /\ playerFds[i] \in Players
    BY <1>0, <1>5, Counts DEF Unseated
  <2> QED
    BY <1>0, <2>2, <2>3 DEF Index, Seats
<1>8. \A q : Unseated(q)' <=> Unseated(q) /\ q # p
  BY <1>7 DEF Unseated
<1>9. /\ chan' \in [Channel -> Seq(AnyMsg)]
      /\ \A c \in Channel : chan'[c] = IF c = fromM(p) THEN Append(chan[c], IdMsg(Index, numPlayers))
                                      ELSE chan[c]
  <2>1. IdMsg(Index, numPlayers) \in AnyMsg
    BY <1>0 DEF IdMsg, AnyMsg, SetupMsg
  <2>2. fromM(p) \in Channel
    BY <1>5, Names
  <2>3. chan \in [Channel -> Seq(AnyMsg)]
    BY <1>0 DEF Shape
  <2> QED
    BY <1>3, <2>1, <2>2, <2>3, SentOne
<1>9a. chan'[fromM(p)] = <<IdMsg(Index, numPlayers)>>
  BY <1>5, <1>9, Names
<1>10. \A q \in AllPlayers :
         /\ chan'[toM(q)] = chan[toM(q)]
         /\ chan'[fromL(q)] = chan[fromL(q)] /\ chan'[toL(q)] = chan[toL(q)]
         /\ q # p => chan'[fromM(q)] = chan[fromM(q)]
  BY <1>5, <1>9, Names
<1>11. Shape'
  <2>1. Tail(backlog[Master]) \in Seq(Players)
    BY <1>1, HeadTailProperties
  <2>2. Append(playerFds, p) \in Seq(Players)
    BY <1>0, AppendProperties DEF Shape
  <2>3. Players' = Players
    BY <1>3 DEF Players
  <2>4. backlog' \in [AllPlayers \cup {Master} -> Seq(Players)]
    BY <1>0, <1>3, <2>1 DEF Shape
  <2>5. mpc' \in MasterPCs
    BY <1>3 DEF MasterPCs
  <2> QED
    BY <1>0, <1>3, <1>9, <2>2, <2>3, <2>4, <2>5 DEF Shape
<1>12. Seating'
  <2>1. \A i, j \in Seats' : playerFds'[i] = playerFds'[j] => i = j
    BY <1>0, <1>7 DEF Seating
  <2>2. Len(playerPorts) = Index /\ \A i \in 1 .. Index : playerPorts[i] = playerFds[i]
    BY <1>0, <1>3 DEF Seating
  <2>3. \A i \in 1 .. Len(playerPorts') : playerPorts'[i] = playerFds'[i]
    BY <1>3, <1>7, <2>2 DEF Seats
  <2>4. Len(playerPorts') = Index' - 1 /\ Index' <= numPlayers' /\ Index' > 0
    BY <1>0, <1>3, <1>6, <1>7, <2>2
  <2> QED
    BY <1>3, <2>1, <2>3, <2>4 DEF Seating
<1>13. Waiting'
  <2>0. PICK b \in Seq(Players) : b = backlog[Master] /\ b # <<>>
    BY <1>1
  <2>1. backlog'[Master] = Tail(b)
    BY <1>0, <1>3, <2>0 DEF Shape
  <2>2. /\ Len(Tail(b)) = Len(b) - 1 /\ Len(b) \in Nat
        /\ \A k \in 1 .. Len(Tail(b)) : Tail(b)[k] = b[k + 1] /\ k + 1 \in 1 .. Len(b) /\ k + 1 # 1
    BY <2>0, HeadTailProperties
  <2>3. \A k \in 1 .. Len(b) : k # 1 => b[k] # p
    BY <1>0, <1>4, <2>0 DEF Waiting
  <2>4. \A k, l \in 1 .. Len(b) : b[k] = b[l] => k = l
    BY <1>0, <2>0 DEF Waiting
  <2>5. ASSUME NEW k \in 1 .. Len(Tail(b)), NEW l \in 1 .. Len(Tail(b)), Tail(b)[k] = Tail(b)[l]
        PROVE  k = l
    <3>1. k + 1 = l + 1
      BY <2>2, <2>4, <2>5
    <3> QED
      BY <2>2, <3>1
  <2>6. \A k \in 1 .. Len(Tail(b)) : Unseated(Tail(b)[k])' /\ pc'[Tail(b)[k]] = "recvId"
    BY <1>0, <1>3, <1>8, <2>0, <2>2, <2>3 DEF Waiting
  <2> QED
    BY <2>1, <2>5, <2>6 DEF Waiting
<1>14. Outside'
  <2>1. Players' = Players /\ Outside
    BY <1>3 DEF Players, RInv
  <2> QED
    BY <1>0, <1>3, <1>8, <1>10, <2>1 DEF Outside
<1>15. Links'
  <2>1. \A q \in AllPlayers : backlog'[q] = backlog[q]
    BY <1>0, <1>3 DEF Shape
  <2> QED
    BY <1>0, <1>3, <1>6, <2>1 DEF RInv, Links, Players
<1>16. Sides'
  BY <1>10 DEF RInv, Sides
<1>17. ASSUME NEW i \in Seats PROVE AtSeat(i)'
  <2>1. PICK q \in Players : q = playerFds[i] /\ q # p /\ q \in AllPlayers
    BY <1>0, <1>7
  <2>2. AtSeat(i)
    BY DEF RInv
  <2>3. /\ pc[q] = "recvLeft" /\ playerId[q] = i - 1 /\ chan[fromM(q)] = <<>>
        /\ chan[toM(q)] \in Seq(GameMsg)
    <3>1. pc[q] \in PlayerPCs
      BY <1>0, <2>1 DEF Shape
    <3> QED
      BY <1>3, <1>6, <2>1, <2>2, <3>1 DEF AtSeat, PlayerPCs
  <2>4. q = playerFds'[i] /\ i # Index'
    BY <1>7, <2>1
  <2> QED
    BY <1>3, <1>6, <1>10, <2>1, <2>3, <2>4 DEF AtSeat, Linked, InRing
<1>18. PICK n \in Nat : n = Index
  BY <1>0
<1>19. AtSeat(n + 1)'
  <2>1. n + 1 = Index' /\ p = playerFds'[n + 1] /\ (n + 1) - 1 = n
    BY <1>0, <1>7, <1>18
  <2>2. chan'[fromM(p)] = <<IdMsg((n + 1) - 1, numPlayers')>> /\ chan'[toM(p)] = <<>>
    BY <1>3, <1>5, <1>9a, <1>10, <1>18, <2>1
  <2>3. pc'[p] = "recvId" /\ mpc' = "recvPort"
    BY <1>3, <1>5
  <2> QED
    BY <2>1, <2>2, <2>3 DEF AtSeat, Linked, InRing
<1> QED
  BY <1>7, <1>11, <1>12, <1>13, <1>14, <1>15, <1>16, <1>17, <1>18, <1>19 DEF RInv
\* The player's port arrives.
LEMMA RingPort ==
  ASSUME RInv, recvPort
  PROVE  RInv'
<1> USE DEF Early
<1>0. /\ Shape /\ Seating /\ Waiting /\ Master \notin AllPlayers /\ Players \subseteq AllPlayers
      /\ numPlayers \in Nat /\ Index \in Nat
  BY Counts DEF RInv
<1>1. PICK n \in Nat : n = Index /\ n \in Seats
  BY <1>0 DEF recvPort, Seating, Seats
<1>2. PICK p \in Players : p = playerFds[n] /\ p \in AllPlayers
  BY <1>0, <1>1, Counts
<1>3. /\ mpc = "recvPort" /\ mpc' = IF n < numPlayers THEN "accept" ELSE "sendNeighbors"
      /\ chan[toM(p)] # <<>> /\ chan' = Received(chan, toM(p))
      /\ playerPorts' = Append(playerPorts, Head(chan[toM(p)]).port)
      /\ UNCHANGED <<numPlayers, numHops, playerFds, playerId, leftFd, rightFd, backlog, potato, pc>>
  BY <1>1, <1>2 DEF recvPort, args, toM
<1>4. \A i \in Seats : /\ pc[playerFds[i]] = "recvLeft" /\ playerId[playerFds[i]] = i - 1
                      /\ chan[fromM(playerFds[i])] = <<>>
                      /\ IF i = n THEN chan[toM(playerFds[i])] = <<PortMsg(playerFds[i])>>
                         ELSE chan[toM(playerFds[i])] \in Seq(GameMsg)
  <2>1. TAKE i \in Seats
  <2>2. PICK q \in AllPlayers : q = playerFds[i]
    BY <1>0, Counts
  <2>3. pc[q] \in PlayerPCs
    BY <1>0, <2>2 DEF Shape
  <2>4. AtSeat(i) /\ ~Late
    BY <1>3 DEF RInv, Late
  <2> QED
    BY <1>1, <1>2, <1>3, <2>2, <2>3, <2>4 DEF AtSeat, PlayerPCs
<1>5. chan[toM(p)] = <<PortMsg(p)>>
  BY <1>1, <1>2, <1>4
<1>6. /\ Head(chan[toM(p)]) = PortMsg(p) /\ Tail(chan[toM(p)]) = <<>>
      /\ PortMsg(p) # EOF /\ PortMsg(p).port = p
  BY <1>5 DEF PortMsg, EOF
<1>7. /\ chan' \in [Channel -> Seq(AnyMsg)]
      /\ \A c \in Channel : chan'[c] = IF c = toM(p) THEN <<>> ELSE chan[c]
  <2>1. chan \in [Channel -> Seq(AnyMsg)] /\ toM(p) \in Channel
    BY <1>0, <1>2, Names DEF Shape
  <2>2. /\ Received(chan, toM(p)) \in [Channel -> Seq(AnyMsg)]
        /\ \A c \in Channel : Received(chan, toM(p))[c] =
              IF c = toM(p) /\ Head(chan[toM(p)]) # EOF THEN Tail(chan[c]) ELSE chan[c]
    BY <1>3, <2>1, Took
  <2> QED
    BY <1>3, <1>6, <2>2
<1>8. \A q \in AllPlayers :
        /\ chan'[fromM(q)] = chan[fromM(q)]
        /\ chan'[fromL(q)] = chan[fromL(q)] /\ chan'[toL(q)] = chan[toL(q)]
        /\ q # p => chan'[toM(q)] = chan[toM(q)]
  BY <1>2, <1>7, Names
<1>8a. chan'[toM(p)] = <<>>
  BY <1>2, <1>7, Names
<1>9. /\ Index' = Index /\ Seats' = Seats /\ ~Late /\ ~Late'
      /\ \A q : Unseated(q)' <=> Unseated(q)
  BY <1>3 DEF Index, Seats, Late, Unseated
<1>10. Shape'
  <2>1. Append(playerPorts, p) \in Seq(Players)
    BY <1>0, AppendProperties DEF Shape
  <2>2. Players' = Players
    BY <1>3 DEF Players
  <2>3. mpc' \in MasterPCs
    BY <1>3 DEF MasterPCs
  <2> QED
    BY <1>0, <1>3, <1>6, <1>7, <2>1, <2>2, <2>3 DEF Shape
<1>11. Seating'
  <2>1. playerPorts \in Seq(Players) /\ Len(playerPorts) = n - 1
    BY <1>0, <1>1, <1>3 DEF Shape, Seating
  <2>2. /\ Len(playerPorts') = n /\ playerPorts'[n] = p
        /\ \A i \in 1 .. n - 1 : playerPorts'[i] = playerPorts[i]
    BY <1>1, <1>3, <1>6, <2>1, AppendProperties
  <2>3. \A i \in 1 .. n - 1 : playerPorts[i] = playerFds[i]
    BY <1>0, <2>1 DEF Seating
  <2>4. \A i \in 1 .. n : i = n \/ i \in 1 .. n - 1
    BY <1>1
  <2>5. \A i \in 1 .. Len(playerPorts') : playerPorts'[i] = playerFds'[i]
    BY <1>2, <1>3, <2>2, <2>3, <2>4
  <2>6. Index' <= numPlayers' /\ (mpc' = "accept" => Index' < numPlayers')
        /\ (mpc' # "accept" => Index' = numPlayers') /\ mpc' # "recvPort"
    BY <1>0, <1>1, <1>3, <1>9 DEF Seating
  <2>7. \A i, j \in Seats' : playerFds'[i] = playerFds'[j] => i = j
    BY <1>0, <1>3, <1>9 DEF Seating
  <2> QED
    BY <1>1, <1>9, <2>2, <2>5, <2>6, <2>7 DEF Seating
<1>12. Waiting'
  BY <1>0, <1>3, <1>9 DEF Waiting
<1>13. Outside'
  <2>1. Players' = Players /\ Outside /\ ~Unseated(p)
    BY <1>1, <1>2, <1>3 DEF Players, RInv, Unseated
  <2> QED
    BY <1>0, <1>3, <1>8, <1>9, <2>1 DEF Outside
<1>14. Links'
  BY <1>3, <1>9 DEF RInv, Links, Players
<1>15. Sides'
  BY <1>8 DEF RInv, Sides
<1>16. ASSUME NEW i \in Seats PROVE AtSeat(i)'
  <2>1. PICK q \in AllPlayers : q = playerFds[i]
    BY <1>0, Counts
  <2>2. pc[q] = "recvLeft" /\ playerId[q] = i - 1 /\ chan[fromM(q)] = <<>>
    BY <1>4, <2>1
  <2>3. chan'[toM(q)] \in Seq(GameMsg)
    <3>1. <<>> \in Seq(GameMsg)
      OBVIOUS
    <3>2. q # p => chan[toM(q)] \in Seq(GameMsg)
      BY <1>2, <1>4, <2>1
    <3> QED
      BY <1>8, <1>8a, <2>1, <3>1, <3>2
  <2>4. mpc' # "recvPort"
    BY <1>3
  <2> QED
    BY <1>3, <1>8, <1>9, <2>1, <2>2, <2>3, <2>4 DEF AtSeat, Linked, InRing
<1> QED
  BY <1>9, <1>10, <1>11, <1>12, <1>13, <1>14, <1>15, <1>16 DEF RInv
LEMMA LeftMod ==
  ASSUME NEW n \in Nat, n >= 2, NEW k \in 1 .. n
  PROVE  /\ (((k - 1) - 1 + n) % n) + 1 = (IF k = 1 THEN n ELSE k - 1)
         /\ ((k - 1) + n - 1) % n = (IF k = 1 THEN n ELSE k - 1) - 1
         /\ ((k - 1) + 1) % n = (IF k = n THEN 1 ELSE k + 1) - 1
<1>1. ASSUME NEW m \in 0 .. n - 1 PROVE m % n = m /\ (m + n) % n = m
  BY <1>1
<1>2. CASE k = 1
  BY <1>1, <1>2
<1>3. CASE k > 1
  <2>1. (k - 2) % n = k - 2 /\ (k - 2 + n) % n = k - 2
    BY <1>1, <1>3
  <2>2. k < n => k % n = k
    BY <1>1
  <2>3. n % n = 0
    BY <1>1
  <2> QED
    BY <1>3, <2>1, <2>2, <2>3
<1> QED
  BY <1>2, <1>3

\* The ringmaster sends every player the port of its left neighbour.
LEMMA RingNeighbors ==
  ASSUME RInv, sendNeighbors
  PROVE  RInv'
<1> USE DEF Early
<1>0. /\ Shape /\ Seating /\ Waiting /\ Master \notin AllPlayers /\ Players \subseteq AllPlayers
      /\ numPlayers \in Nat /\ numPlayers >= 2
  BY Counts DEF RInv
<1>1. /\ mpc = "sendNeighbors" /\ mpc' = "playGame" /\ Index = numPlayers /\ Seats = 1 .. numPlayers
      /\ UNCHANGED <<numPlayers, numHops, playerFds, playerPorts, playerId, leftFd, rightFd,
                     backlog, potato, pc>>
  BY <1>0 DEF sendNeighbors, args, ringVars, Seating, Seats
<1>2. \A i \in Seats : /\ playerFds[i] \in Players /\ LeftOf(i) \in Seats
                      /\ playerPorts[LeftOf(i)] = playerFds[LeftOf(i)]
  BY <1>0, <1>1, Counts DEF Seating
<1>3. /\ Index' = Index /\ Seats' = Seats /\ ~Late /\ Late'
      /\ \A q : Unseated(q)' <=> Unseated(q)
      /\ \A i : LeftOf(i)' = LeftOf(i)
  BY <1>1 DEF Index, Seats, Late, Unseated, LeftOf
<1>4. \A i \in Seats : /\ pc[playerFds[i]] = "recvLeft" /\ playerId[playerFds[i]] = i - 1
                      /\ chan[fromM(playerFds[i])] = <<>>
                      /\ chan[toM(playerFds[i])] \in Seq(GameMsg)
  <2>1. TAKE i \in Seats
  <2>2. PICK q \in AllPlayers : q = playerFds[i]
    BY <1>0, <1>2
  <2>3. pc[q] \in PlayerPCs
    BY <1>0, <2>2 DEF Shape
  <2>4. AtSeat(i) /\ ~Late
    BY <1>3 DEF RInv
  <2> QED
    BY <1>1, <2>2, <2>3, <2>4 DEF AtSeat, PlayerPCs
<1>5. \A q \in Players : \E i \in Seats : playerFds[i] = q
  BY <1>0, <1>1, AllSeated
<1>6. ASSUME NEW i \in Seats
      PROVE  chan'[fromM(playerFds[i])] = <<PortMsg(playerFds[LeftOf(i)])>>
  <2> DEFINE j == CHOOSE j \in Ids : playerFds[j + 1] = playerFds[i]
  <2>1. j = i - 1
    <3>1. i - 1 \in Ids /\ playerFds[(i - 1) + 1] = playerFds[i]
      BY <1>0, <1>1 DEF Ids
    <3>2. j \in Ids /\ playerFds[j + 1] = playerFds[i]
      BY <3>1
    <3>3. j + 1 \in Seats
      BY <1>0, <1>1, <3>2 DEF Ids
    <3>4. j + 1 = i
      BY <1>0, <3>2, <3>3 DEF Seating
    <3> QED
      BY <1>0, <1>1, <3>2, <3>4 DEF Ids
  <2>2. ((j - 1 + numPlayers) % numPlayers) + 1 = LeftOf(i)
    <3>1. (((i - 1) - 1 + numPlayers) % numPlayers) + 1 = (IF i = 1 THEN numPlayers ELSE i - 1)
      BY <1>0, <1>1, LeftMod
    <3> QED
      BY <2>1, <3>1 DEF LeftOf
  <2>3. playerFds[i] \in Players /\ fromM(playerFds[i]) \in Channel
    BY <1>0, <1>2, Names
  <2>4. chan'[fromM(playerFds[i])]
          = Append(chan[fromM(playerFds[i])],
                   PortMsg(playerPorts[((j - 1 + numPlayers) % numPlayers) + 1]))
    BY <2>3 DEF sendNeighbors, fromM
  <2>5. PICK l \in Nat : l = ((j - 1 + numPlayers) % numPlayers) + 1 /\ l = LeftOf(i)
    <3>1. LeftOf(i) \in Nat
      BY <1>0, <1>1, <1>2
    <3> HIDE DEF j
    <3> QED
      BY <2>2, <3>1
  <2>6. chan'[fromM(playerFds[i])] = Append(chan[fromM(playerFds[i])], PortMsg(playerPorts[l]))
    BY <2>4, <2>5
  <2>7. chan'[fromM(playerFds[i])] = Append(<<>>, PortMsg(playerFds[LeftOf(i)]))
    BY <1>2, <1>4, <2>5, <2>6
  <2> QED
    BY <2>7
<1>7. ASSUME NEW c \in Channel, ~(c[1] \in Players /\ c[2] = "fromMaster")
      PROVE  chan'[c] = chan[c]
  BY <1>7 DEF sendNeighbors
<1>8. \A q \in AllPlayers : /\ chan'[toM(q)] = chan[toM(q)]
                           /\ chan'[fromL(q)] = chan[fromL(q)] /\ chan'[toL(q)] = chan[toL(q)]
  <2>1. \A q \in AllPlayers : toM(q)[2] # "fromMaster" /\ fromL(q)[2] # "fromMaster"
                             /\ toL(q)[2] # "fromMaster"
    BY DEF toM, fromL, toL
  <2> QED
    BY <1>7, <2>1, Names
<1>9. \A S, x : x \in S => <<x>> \in Seq(S)
  OBVIOUS
<1>10. \A q \in Players : PortMsg(q) \in AnyMsg
  BY <1>0, Counts DEF PortMsg, AnyMsg, SetupMsg, Players
<1>11. Shape'
  <2>1. chan' \in [Channel -> Seq(AnyMsg)]
    <3>1. ASSUME NEW c \in Channel PROVE chan'[c] \in Seq(AnyMsg)
      <4>1. CASE c[1] \in Players /\ c[2] = "fromMaster"
        <5>1. PICK i \in Seats : playerFds[i] = c[1]
          BY <1>5, <4>1
        <5>2. c = fromM(playerFds[i])
          BY <4>1, <5>1 DEF fromM, Channel
        <5> QED
          BY <1>2, <1>6, <1>9, <1>10, <5>2
      <4>2. CASE ~(c[1] \in Players /\ c[2] = "fromMaster")
        BY <1>0, <1>7, <4>2 DEF Shape
      <4> QED
        BY <4>1, <4>2
    <3>2. chan' = [c \in Channel |-> chan'[c]]
      BY DEF sendNeighbors
    <3> QED
      BY <3>1, <3>2
  <2>2. Players' = Players
    BY <1>1 DEF Players
  <2> QED
    BY <1>0, <1>1, <2>1, <2>2 DEF Shape, MasterPCs
<1>12. Seating'
  BY <1>0, <1>1, <1>3 DEF Seating
<1>13. Waiting'
  BY <1>0, <1>1, <1>3 DEF Waiting
<1>14. Outside'
  <2>1. \A q \in Players' : ~Unseated(q)'
    BY <1>1, <1>3, <1>5 DEF Unseated, Players
  <2> QED
    BY <2>1 DEF Outside
<1>15. Links'
  <2>1. \A q \in Players : backlog[q] = <<>>
    BY <1>3 DEF RInv, Links
  <2>2. ASSUME NEW i \in Seats PROVE Link(i)'
    <3>1. PICK p \in Players, q \in Players : p = playerFds[i] /\ q = playerFds[LeftOf(i)]
      BY <1>2
    <3>2. pc[p] = "recvLeft" /\ pc[q] = "recvLeft"
      BY <1>2, <1>4, <3>1
    <3>3. p = playerFds'[i] /\ q = playerFds'[LeftOf(i)']
      BY <1>1, <1>3, <3>1
    <3> QED
      BY <1>1, <2>1, <3>1, <3>2, <3>3 DEF Link, Linked, InRing
  <2> QED
    BY <1>3, <2>2 DEF Links
<1>16. Sides'
  BY <1>8 DEF RInv, Sides
<1>17. ASSUME NEW i \in Seats PROVE AtSeat(i)'
  <2>1. PICK q \in Players, r \in Players : q = playerFds[i] /\ r = playerFds[LeftOf(i)]
    BY <1>2
  <2>2. /\ pc'[q] = "recvLeft" /\ playerId'[q] = i - 1 /\ chan'[toM(q)] \in Seq(GameMsg)
    BY <1>0, <1>1, <1>4, <1>8, <2>1
  <2>3. chan'[fromM(q)] = <<PortMsg(r)>>
    BY <1>6, <2>1
  <2>4. /\ chan'[fromM(q)] # <<>> /\ Head(chan'[fromM(q)]) = PortMsg(r)
        /\ Tail(chan'[fromM(q)]) \in Seq(GameMsg)
    BY <2>3
  <2>5. q = playerFds'[i] /\ r = playerFds'[LeftOf(i)'] /\ mpc' # "recvPort"
    BY <1>1, <1>3, <2>1
  <2>6. PortMsg(r) = PortMsg(playerFds[LeftOf(i)])'
    BY <2>5 DEF PortMsg
  <2> QED
    BY <1>3, <2>2, <2>4, <2>5, <2>6 DEF AtSeat, Linked, InRing
<1> QED
  BY <1>3, <1>11, <1>12, <1>13, <1>14, <1>15, <1>16, <1>17 DEF RInv
\* A player gets its id and answers with its port.
LEMMA RingJoin ==
  ASSUME RInv, NEW p \in Players, joinGame(p)
  PROVE  RInv'
<1> USE DEF Early
<1>0. /\ Shape /\ Seating /\ Waiting /\ p \in AllPlayers /\ Players \subseteq AllPlayers
      /\ numPlayers \in Nat /\ Index \in Nat
  BY Counts DEF RInv
<1>1. /\ pc[p] = "recvId" /\ pc' = [pc EXCEPT ![p] = "recvLeft"] /\ chan[fromM(p)] # <<>>
      /\ playerId' = [playerId EXCEPT ![p] = Head(chan[fromM(p)]).id]
      /\ chan' = Send(Received(chan, fromM(p)), toM(p), PortMsg(p))
      /\ UNCHANGED <<numPlayers, numHops, playerFds, playerPorts, leftFd, rightFd, backlog, mpc, potato>>
  BY DEF joinGame, args, fromM, toM
<1>2. PICK k \in Seats : playerFds[k] = p
  BY <1>1 DEF RInv, Outside, Unseated
<1>3. /\ mpc = "recvPort" /\ k = Index /\ k \in Nat
      /\ chan[fromM(p)] = <<IdMsg(k - 1, numPlayers)>> /\ chan[toM(p)] = <<>>
  <2>1. AtSeat(k)
    BY DEF RInv
  <2> QED
    BY <1>0, <1>1, <1>2, <2>1 DEF AtSeat
<1>4. /\ Head(chan[fromM(p)]).id = k - 1 /\ Head(chan[fromM(p)]) # EOF
      /\ Tail(chan[fromM(p)]) = <<>> /\ k - 1 \in Nat
  BY <1>0, <1>3 DEF IdMsg, EOF, Seats
<1>5. /\ Received(chan, fromM(p)) \in [Channel -> Seq(AnyMsg)]
      /\ \A c \in Channel : Received(chan, fromM(p))[c] = IF c = fromM(p) THEN <<>> ELSE chan[c]
  <2>1. chan \in [Channel -> Seq(AnyMsg)] /\ fromM(p) \in Channel
    BY <1>0, Names DEF Shape
  <2>2. /\ Received(chan, fromM(p)) \in [Channel -> Seq(AnyMsg)]
        /\ \A c \in Channel : Received(chan, fromM(p))[c] =
              IF c = fromM(p) /\ Head(chan[fromM(p)]) # EOF THEN Tail(chan[c]) ELSE chan[c]
    BY <1>1, <2>1, Took
  <2> QED
    BY <1>4, <2>2
<1>6. /\ chan' \in [Channel -> Seq(AnyMsg)]
      /\ \A c \in Channel : chan'[c] = IF c = toM(p) THEN Append(Received(chan, fromM(p))[c], PortMsg(p))
                                      ELSE Received(chan, fromM(p))[c]
  <2>1. PortMsg(p) \in AnyMsg
    BY <1>0, Counts DEF PortMsg, AnyMsg, SetupMsg
  <2>2. toM(p) \in Channel
    BY <1>0, Names
  <2> QED
    BY <1>1, <1>5, <2>1, <2>2, SentOne
<1>7. \A q \in AllPlayers :
        /\ chan'[fromL(q)] = chan[fromL(q)] /\ chan'[toL(q)] = chan[toL(q)]
        /\ q # p => chan'[fromM(q)] = chan[fromM(q)] /\ chan'[toM(q)] = chan[toM(q)]
  BY <1>0, <1>5, <1>6, Names
<1>8. chan'[fromM(p)] = <<>>
  BY <1>0, <1>5, <1>6, Names
<1>9. chan'[toM(p)] = <<PortMsg(p)>>
  <2>1. chan'[toM(p)] = Append(<<>>, PortMsg(p))
    BY <1>0, <1>3, <1>5, <1>6, Names
  <2> QED
    BY <2>1
<1>10. /\ Index' = Index /\ Seats' = Seats /\ ~Late /\ ~Late'
       /\ \A q : Unseated(q)' <=> Unseated(q)
  BY <1>1, <1>3 DEF Index, Seats, Late, Unseated
<1>11. /\ playerId' \in [AllPlayers -> Nat] /\ playerId'[p] = k - 1
       /\ \A q \in AllPlayers : q # p => playerId'[q] = playerId[q]
  BY <1>0, <1>1, <1>4 DEF Shape
<1>12. /\ pc' \in [AllPlayers -> PlayerPCs] /\ pc'[p] = "recvLeft"
       /\ \A q \in AllPlayers : q # p => pc'[q] = pc[q]
  BY <1>0, <1>1 DEF Shape, PlayerPCs
<1>13. Shape'
  <2>1. Players' = Players
    BY <1>1 DEF Players
  <2> QED
    BY <1>0, <1>1, <1>6, <1>11, <1>12, <2>1 DEF Shape
<1>14. Seating'
  BY <1>0, <1>1, <1>10 DEF Seating
<1>15. Waiting'
  <2>1. PICK b \in Seq(Players) : b = backlog[Master]
    BY <1>0 DEF Shape
  <2>2. \A l \in 1 .. Len(b) : b[l] \in AllPlayers /\ b[l] # p
    <3>1. ~Unseated(p)
      BY <1>2 DEF Unseated
    <3> QED
      BY <1>0, <2>1, <3>1, ElementOfSeq DEF Waiting
  <2>3. b = backlog'[Master]
    BY <1>1, <2>1
  <2> QED
    BY <1>0, <1>10, <1>12, <2>1, <2>2, <2>3 DEF Waiting
<1>16. Outside'
  <2>1. Players' = Players /\ Outside /\ ~Unseated(p)
    BY <1>1, <1>2 DEF Players, RInv, Unseated
  <2> QED
    BY <1>0, <1>7, <1>10, <1>12, <2>1 DEF Outside
<1>17. Links'
  BY <1>1, <1>10 DEF RInv, Links, Players
<1>18. Sides'
  BY <1>7 DEF RInv, Sides
<1>19. ASSUME NEW i \in Seats, i # k PROVE AtSeat(i)'
  <2>1. PICK q \in AllPlayers : q = playerFds[i] /\ q # p
    BY <1>0, <1>2, <1>19, Counts DEF Seating
  <2>2. AtSeat(i)
    BY DEF RInv
  <2>3. /\ pc[q] = "recvLeft" /\ playerId[q] = i - 1 /\ chan[fromM(q)] = <<>>
        /\ chan[toM(q)] \in Seq(GameMsg)
    <3>1. pc[q] \in PlayerPCs
      BY <1>0, <2>1 DEF Shape
    <3> QED
      BY <1>3, <1>10, <1>19, <2>1, <2>2, <3>1 DEF AtSeat, PlayerPCs
  <2>4. q = playerFds'[i] /\ i # Index'
    BY <1>1, <1>3, <1>10, <1>19, <2>1
  <2> QED
    BY <1>7, <1>10, <1>11, <1>12, <2>1, <2>3, <2>4 DEF AtSeat, Linked, InRing
<1>20. AtSeat(k)'
  <2>1. p = playerFds'[k] /\ k = Index' /\ mpc' = "recvPort"
    BY <1>1, <1>2, <1>3, <1>10
  <2>2. PortMsg(p)' = PortMsg(p)
    BY DEF PortMsg
  <2> QED
    BY <1>8, <1>9, <1>10, <1>11, <1>12, <2>1, <2>2 DEF AtSeat, Linked, InRing
<1> QED
  BY <1>10, <1>13, <1>14, <1>15, <1>16, <1>17, <1>18, <1>19, <1>20 DEF RInv
\* The left neighbours of two seats are two.
LEMMA LeftOnce ==
  ASSUME Shape, Seating, NEW i \in 1 .. numPlayers, NEW k \in 1 .. numPlayers, LeftOf(i) = LeftOf(k)
  PROVE  i = k
BY Counts DEF LeftOf

\* A player gets its left neighbour's port and connects.
LEMMA RingLeft ==
  ASSUME RInv, NEW p \in Players, buildNeighborConnect(p)
  PROVE  RInv'
<1> USE DEF Early
<1>0. /\ Shape /\ Seating /\ Waiting /\ p \in AllPlayers /\ Players \subseteq AllPlayers
      /\ numPlayers \in Nat /\ Index \in Nat /\ Master \notin AllPlayers
  BY Counts DEF RInv
<1>1. /\ pc[p] = "recvLeft" /\ pc' = [pc EXCEPT ![p] = "accept"] /\ chan[fromM(p)] # <<>>
      /\ leftFd' = [leftFd EXCEPT ![p] = Head(chan[fromM(p)]).port]
      /\ backlog' = [backlog EXCEPT ![Head(chan[fromM(p)]).port] =
                                      Append(backlog[Head(chan[fromM(p)]).port], p)]
      /\ chan' = Received(chan, fromM(p))
      /\ UNCHANGED <<numPlayers, numHops, playerFds, playerPorts, playerId, rightFd, mpc, potato>>
  BY DEF buildNeighborConnect, args, fromM
<1>2. PICK k \in Seats : playerFds[k] = p
  BY <1>1 DEF RInv, Outside, Unseated
<1>3. /\ Late /\ Head(chan[fromM(p)]) = PortMsg(playerFds[LeftOf(k)])
      /\ Tail(chan[fromM(p)]) \in Seq(GameMsg)
  <2>1. AtSeat(k)
    BY DEF RInv
  <2> QED
    BY <1>1, <1>2, <2>1 DEF AtSeat
<1>4. Index = numPlayers /\ Seats = 1 .. numPlayers /\ mpc # "recvPort"
  BY <1>0, <1>3 DEF Late, Seating, Seats
<1>5. \A i \in Seats : playerFds[i] \in Players /\ LeftOf(i) \in Seats
  BY <1>0, <1>4, Counts
<1>6. PICK q \in Players : q = playerFds[LeftOf(k)] /\ q \in AllPlayers
  BY <1>0, <1>5
<1>7. Head(chan[fromM(p)]).port = q /\ Head(chan[fromM(p)]) # EOF
  BY <1>3, <1>6 DEF PortMsg, EOF
<1>8. backlog[q] = <<>> /\ pc[q] \notin InRing
  <2>1. Link(k)
    BY <1>3 DEF RInv, Links
  <2> QED
    BY <1>1, <1>2, <1>6, <2>1 DEF Link, Linked, InRing
<1>9. /\ chan' \in [Channel -> Seq(AnyMsg)]
      /\ \A c \in Channel : chan'[c] = IF c = fromM(p) THEN Tail(chan[c]) ELSE chan[c]
  <2>1. chan \in [Channel -> Seq(AnyMsg)] /\ fromM(p) \in Channel
    BY <1>0, Names DEF Shape
  <2>2. /\ Received(chan, fromM(p)) \in [Channel -> Seq(AnyMsg)]
        /\ \A c \in Channel : Received(chan, fromM(p))[c] =
              IF c = fromM(p) /\ Head(chan[fromM(p)]) # EOF THEN Tail(chan[c]) ELSE chan[c]
    BY <1>1, <2>1, Took
  <2> QED
    BY <1>1, <1>7, <2>2
<1>10. \A r \in AllPlayers :
         /\ chan'[fromL(r)] = chan[fromL(r)] /\ chan'[toL(r)] = chan[toL(r)]
         /\ chan'[toM(r)] = chan[toM(r)]
         /\ r # p => chan'[fromM(r)] = chan[fromM(r)]
  BY <1>0, <1>9, Names
<1>11. chan'[fromM(p)] \in Seq(GameMsg)
  BY <1>0, <1>3, <1>9, Names
<1>12. /\ Index' = Index /\ Seats' = Seats /\ Late'
       /\ \A r : Unseated(r)' <=> Unseated(r)
       /\ \A i : LeftOf(i)' = LeftOf(i)
  BY <1>1, <1>3 DEF Index, Seats, Late, Unseated, LeftOf
<1>13. /\ leftFd' \in [AllPlayers -> Nat] /\ leftFd'[p] = q
       /\ \A r \in AllPlayers : r # p => leftFd'[r] = leftFd[r]
  <2>1. q \in Nat
    BY <1>0, <1>6, Counts
  <2> QED
    BY <1>0, <1>1, <1>7, <2>1 DEF Shape
<1>14. /\ pc' \in [AllPlayers -> PlayerPCs] /\ pc'[p] = "accept"
       /\ \A r \in AllPlayers : r # p => pc'[r] = pc[r]
  BY <1>0, <1>1 DEF Shape, PlayerPCs, Linked
<1>15. /\ backlog' \in [AllPlayers \cup {Master} -> Seq(Players)] /\ backlog'[q] = <<p>>
       /\ backlog'[Master] = backlog[Master]
       /\ \A r \in AllPlayers : r # q => backlog'[r] = backlog[r]
  <2>1. Append(backlog[q], p) = <<p>> /\ <<p>> \in Seq(Players)
    BY <1>8
  <2>2. backlog' = [backlog EXCEPT ![q] = <<p>>]
    BY <1>1, <1>7, <2>1
  <2> QED
    BY <1>0, <1>6, <2>1, <2>2 DEF Shape
<1>16. Shape'
  <2>1. Players' = Players
    BY <1>1 DEF Players
  <2> QED
    BY <1>0, <1>1, <1>9, <1>13, <1>14, <1>15, <2>1 DEF Shape
<1>17. Seating'
  BY <1>0, <1>1, <1>12 DEF Seating
<1>18. \A r \in Players : ~Unseated(r)
  BY <1>0, <1>4, AllSeated DEF Unseated
<1>19. Waiting'
  <2>1. PICK b \in Seq(Players) : b = backlog[Master] /\ b = backlog'[Master]
    BY <1>0, <1>15 DEF Shape
  <2>2. \A l \in 1 .. Len(b) : b[l] \in Players /\ Unseated(b[l])
    BY <1>0, <2>1, ElementOfSeq DEF Waiting
  <2>3. Len(b) = 0
    BY <1>18, <2>1, <2>2
  <2> QED
    BY <2>1, <2>3 DEF Waiting
<1>20. Outside'
  <2>1. Players' = Players
    BY <1>1 DEF Players
  <2> QED
    BY <1>12, <1>18, <2>1 DEF Outside
<1>21. Links'
  <2>1. ASSUME NEW i \in Seats PROVE Link(i)'
    <3>1. PICK r \in Players, s \in Players :
            r = playerFds[i] /\ s = playerFds[LeftOf(i)] /\ r \in AllPlayers /\ s \in AllPlayers
      BY <1>0, <1>5
    <3>2. r = playerFds'[i] /\ s = playerFds'[LeftOf(i)']
      BY <1>1, <1>12, <3>1
    <3>3. /\ backlog[s] = IF pc[r] \in Linked /\ pc[s] \notin InRing THEN <<r>> ELSE <<>>
          /\ pc[s] \in InRing => pc[r] \in Linked /\ rightFd[s] = r
      BY <1>3, <3>1 DEF RInv, Links, Link
    <3>4. pc'[s] \in InRing <=> pc[s] \in InRing
      BY <1>1, <1>14, <3>1 DEF InRing
    <3>5. CASE i = k
      <4>1. r = p /\ s = q /\ pc'[r] \in Linked
        BY <1>2, <1>6, <1>14, <3>1, <3>5 DEF Linked
      <4> QED
        BY <1>8, <1>15, <3>2, <3>4, <4>1 DEF Link
    <3>6. CASE i # k
      <4>1. r # p
        BY <1>0, <1>2, <3>1, <3>6 DEF Seating
      <4>2. LeftOf(i) # LeftOf(k)
        BY <1>0, <1>4, <3>6, LeftOnce
      <4>3. s # q
        BY <1>0, <1>5, <1>6, <3>1, <4>2 DEF Seating
      <4>4. pc'[r] = pc[r] /\ backlog'[s] = backlog[s]
        BY <1>14, <1>15, <3>1, <4>1, <4>3
      <4> QED
        BY <1>1, <3>2, <3>3, <3>4, <4>4 DEF Link
    <3> QED
      BY <3>5, <3>6
  <2> QED
    BY <1>12, <2>1 DEF Links
<1>22. Sides'
  BY <1>10 DEF RInv, Sides
<1>23. ASSUME NEW i \in Seats PROVE AtSeat(i)'
  <2>1. PICK r \in Players, s \in Players :
          r = playerFds[i] /\ s = playerFds[LeftOf(i)] /\ r \in AllPlayers
    BY <1>0, <1>5
  <2>2. r = playerFds'[i] /\ s = playerFds'[LeftOf(i)'] /\ playerId' = playerId /\ mpc' # "recvPort"
    BY <1>1, <1>4, <1>12, <2>1
  <2>3. AtSeat(i) /\ Late
    BY <1>3 DEF RInv
  <2>4. chan'[toM(r)] \in Seq(GameMsg)
    BY <1>4, <1>10, <2>1, <2>3 DEF AtSeat
  <2>5. CASE i = k
    <3>1. r = p /\ s = q /\ playerId[r] = i - 1
      BY <1>1, <1>2, <1>6, <2>1, <2>3, <2>5 DEF AtSeat
    <3> QED
      BY <1>11, <1>12, <1>13, <1>14, <2>2, <2>4, <3>1 DEF AtSeat
  <2>6. CASE i # k
    <3>1. r # p
      BY <1>0, <1>2, <2>1, <2>6 DEF Seating
    <3>2. /\ pc'[r] = pc[r] /\ leftFd'[r] = leftFd[r] /\ chan'[fromM(r)] = chan[fromM(r)]
      BY <1>10, <1>13, <1>14, <2>1, <3>1
    <3>3. PortMsg(playerFds[LeftOf(i)])' = PortMsg(s)
      BY <2>2 DEF PortMsg
    <3> QED
      BY <1>4, <1>12, <2>1, <2>2, <2>3, <2>4, <3>2, <3>3 DEF AtSeat
  <2> QED
    BY <2>5, <2>6
<1> QED
  BY <1>12, <1>16, <1>17, <1>19, <1>20, <1>21, <1>22, <1>23 DEF RInv
\* A player accepts its right neighbour.
LEMMA RingRight ==
  ASSUME RInv, NEW p \in Players, acceptRight(p)
  PROVE  RInv'
<1> USE DEF Early
<1>0. /\ Shape /\ Seating /\ Waiting /\ p \in AllPlayers /\ Players \subseteq AllPlayers
      /\ numPlayers \in Nat /\ numPlayers >= 2 /\ Index \in Nat /\ Master \notin AllPlayers
  BY Counts DEF RInv
<1>1. /\ pc[p] = "accept" /\ pc' = [pc EXCEPT ![p] = "listen"] /\ backlog[p] # <<>>
      /\ rightFd' = [rightFd EXCEPT ![p] = Head(backlog[p])]
      /\ backlog' = [backlog EXCEPT ![p] = Tail(backlog[p])]
      /\ UNCHANGED <<numPlayers, numHops, playerFds, playerPorts, playerId, leftFd, mpc, potato, chan>>
  BY DEF acceptRight, args
<1>2. PICK k \in Seats : playerFds[k] = p
  BY <1>1 DEF RInv, Outside, Unseated
<1>3. Late /\ Index = numPlayers /\ Seats = 1 .. numPlayers
  <2>1. Late
    BY <1>1, InTheRing DEF Linked
  <2> QED
    BY <1>0, <2>1 DEF Late, Seating, Seats
<1>4. \A i \in Seats : playerFds[i] \in Players /\ LeftOf(i) \in Seats
  BY <1>0, <1>3, Counts
<1>5. PICK m \in Seats : LeftOf(m) = k
  <2> DEFINE m == IF k = numPlayers THEN 1 ELSE k + 1
  <2>1. m \in Seats /\ LeftOf(m) = k
    BY <1>0, <1>3 DEF LeftOf
  <2> QED
    BY <2>1
<1>6. PICK r \in Players : r = playerFds[m] /\ r \in AllPlayers
  BY <1>0, <1>4
<1>7. backlog[p] = <<r>> /\ pc[r] \in Linked
  <2>1. Link(m)
    BY <1>3 DEF RInv, Links
  <2> QED
    BY <1>1, <1>2, <1>5, <1>6, <2>1 DEF Link
<1>8. Head(backlog[p]) = r /\ Tail(backlog[p]) = <<>>
  BY <1>7
<1>9. /\ Index' = Index /\ Seats' = Seats /\ Late'
      /\ \A q : Unseated(q)' <=> Unseated(q)
      /\ \A i : LeftOf(i)' = LeftOf(i)
  BY <1>1, <1>3 DEF Index, Seats, Late, Unseated, LeftOf
<1>10. /\ rightFd' \in [AllPlayers -> Nat] /\ rightFd'[p] = r
       /\ \A q \in AllPlayers : q # p => rightFd'[q] = rightFd[q]
  <2>1. r \in Nat
    BY <1>0, <1>6, Counts
  <2> QED
    BY <1>0, <1>1, <1>8, <2>1 DEF Shape
<1>11. /\ pc' \in [AllPlayers -> PlayerPCs] /\ pc'[p] = "listen"
       /\ \A q \in AllPlayers : q # p => pc'[q] = pc[q]
  BY <1>0, <1>1 DEF Shape, PlayerPCs, Linked, InRing
<1>12. /\ backlog' \in [AllPlayers \cup {Master} -> Seq(Players)] /\ backlog'[p] = <<>>
       /\ backlog'[Master] = backlog[Master]
       /\ \A q \in AllPlayers : q # p => backlog'[q] = backlog[q]
  <2>1. <<>> \in Seq(Players)
    OBVIOUS
  <2>2. backlog' = [backlog EXCEPT ![p] = <<>>]
    BY <1>1, <1>8
  <2> QED
    BY <1>0, <2>1, <2>2 DEF Shape
<1>13. Shape'
  <2>1. Players' = Players
    BY <1>1 DEF Players
  <2> QED
    BY <1>0, <1>1, <1>10, <1>11, <1>12, <2>1 DEF Shape
<1>14. Seating'
  BY <1>0, <1>1, <1>9 DEF Seating
<1>15. \A q \in Players : ~Unseated(q)
  BY <1>0, <1>3, AllSeated DEF Unseated
<1>16. Waiting'
  <2>1. PICK b \in Seq(Players) : b = backlog[Master] /\ b = backlog'[Master]
    BY <1>0, <1>12 DEF Shape
  <2>2. \A l \in 1 .. Len(b) : b[l] \in Players /\ Unseated(b[l])
    BY <1>0, <2>1, ElementOfSeq DEF Waiting
  <2>3. Len(b) = 0
    BY <1>15, <2>1, <2>2
  <2> QED
    BY <2>1, <2>3 DEF Waiting
<1>17. Outside'
  <2>1. Players' = Players
    BY <1>1 DEF Players
  <2> QED
    BY <1>9, <1>15, <2>1 DEF Outside
<1>18. Links'
  <2>1. ASSUME NEW i \in Seats PROVE Link(i)'
    <3>1. PICK t \in Players, s \in Players :
            t = playerFds[i] /\ s = playerFds[LeftOf(i)] /\ t \in AllPlayers /\ s \in AllPlayers
      BY <1>0, <1>4
    <3>2. t = playerFds'[i] /\ s = playerFds'[LeftOf(i)']
      BY <1>1, <1>9, <3>1
    <3>3. /\ backlog[s] = IF pc[t] \in Linked /\ pc[s] \notin InRing THEN <<t>> ELSE <<>>
          /\ pc[s] \in InRing => pc[t] \in Linked /\ rightFd[s] = t
      BY <1>3, <3>1 DEF RInv, Links, Link
    <3>4. pc'[t] \in Linked <=> pc[t] \in Linked
      BY <1>1, <1>11, <3>1 DEF Linked, InRing
    <3>5. CASE i = m
      <4>1. t = r /\ s = p /\ pc'[p] \in InRing
        BY <1>2, <1>5, <1>6, <1>11, <3>1, <3>5 DEF InRing
      <4> QED
        BY <1>7, <1>10, <1>12, <3>2, <3>4, <4>1 DEF Link
    <3>6. CASE i # m
      <4>1. LeftOf(i) # LeftOf(m)
        BY <1>0, <1>3, <3>6, LeftOnce
      <4>2. s # p
        BY <1>0, <1>2, <1>4, <1>5, <3>1, <4>1 DEF Seating
      <4>3. pc'[s] = pc[s] /\ backlog'[s] = backlog[s] /\ rightFd'[s] = rightFd[s]
        BY <1>10, <1>11, <1>12, <3>1, <4>2
      <4> QED
        BY <3>2, <3>3, <3>4, <4>3 DEF Link
    <3> QED
      BY <3>5, <3>6
  <2> QED
    BY <1>9, <2>1 DEF Links
<1>19. Sides'
  BY <1>1 DEF RInv, Sides
<1>20. ASSUME NEW i \in Seats PROVE AtSeat(i)'
  <2>1. PICK t \in Players, s \in Players :
          t = playerFds[i] /\ s = playerFds[LeftOf(i)] /\ t \in AllPlayers
    BY <1>0, <1>4
  <2>2. /\ t = playerFds'[i] /\ s = playerFds'[LeftOf(i)']
        /\ playerId' = playerId /\ leftFd' = leftFd /\ chan' = chan /\ mpc' = mpc
    BY <1>1, <1>9, <2>1
  <2>3. AtSeat(i)
    BY DEF RInv
  <2>4. \/ pc'[t] = pc[t]
        \/ pc[t] = "accept" /\ pc'[t] = "listen"
    BY <1>1, <1>11, <2>1
  <2>5. PortMsg(playerFds[LeftOf(i)])' = PortMsg(s)
    BY <2>2 DEF PortMsg
  <2>6. mpc # "recvPort"
    BY <1>3 DEF Late
  <2> QED
    BY <1>3, <1>9, <2>1, <2>2, <2>3, <2>4, <2>5, <2>6 DEF AtSeat, Linked, InRing
<1> QED
  BY <1>9, <1>13, <1>14, <1>16, <1>17, <1>18, <1>19, <1>20 DEF RInv

-----------------------------------------------------------------------------
LEMMA RingStep ==
  ASSUME RInv, [Next]_vars
  PROVE  RInv'
<1>1. CASE UNCHANGED vars
  <2>1. UNCHANGED <<numPlayers, numHops, playerFds, playerPorts, playerId, leftFd, rightFd, backlog,
                    mpc, potato, pc, chan>>
    BY <1>1 DEF vars, args, ringVars
  <2>2. /\ Index' = Index /\ Seats' = Seats /\ Late' = Late /\ Players' = Players
        /\ \A q : Unseated(q)' <=> Unseated(q)
        /\ \A i : LeftOf(i)' = LeftOf(i)
    BY <2>1 DEF Index, Seats, Late, Unseated, LeftOf, Players
  <2>3. Shape' /\ Seating' /\ Waiting'
    BY <2>1, <2>2 DEF RInv, Shape, Seating, Waiting
  <2>4. Outside' /\ Sides'
    BY <2>1, <2>2 DEF RInv, Outside, Sides
  <2>5. \A i : Link(i)' <=> Link(i)
    BY <2>1, <2>2 DEF Link
  <2>6. Links'
    BY <2>1, <2>2, <2>5 DEF RInv, Links
  <2>7. ASSUME NEW i \in Seats PROVE AtSeat(i)'
    <3>1. AtSeat(i)
      BY DEF RInv
    <3>2. /\ PortMsg(playerFds[LeftOf(i)])' = PortMsg(playerFds[LeftOf(i)])
          /\ PortMsg(playerFds[i])' = PortMsg(playerFds[i])
          /\ IdMsg(i - 1, numPlayers)' = IdMsg(i - 1, numPlayers)
      BY <2>1, <2>2 DEF PortMsg, IdMsg
    <3> QED
      BY <2>1, <2>2, <3>1, <3>2 DEF AtSeat
  <2> QED
    BY <2>2, <2>3, <2>4, <2>6, <2>7 DEF RInv
<1>2. CASE Ringmaster
  BY <1>2, RingAccept, RingPort, RingNeighbors, GameSteps, GameKeepsRing DEF Ringmaster
<1>3. ASSUME NEW p \in Players, Player(p) \/ die(p) PROVE RInv'
  BY <1>3, RingConnect, RingJoin, RingLeft, RingRight, GameSteps, GameKeepsRing DEF Player
<1> QED
  BY <1>1, <1>2, <1>3 DEF Next, Finished

LEMMA RingInvariance == Spec => []RInv
BY RingInit, RingStep, PTL DEF Spec

LEMMA Wired ==
  ASSUME RInv
  PROVE  RingWired
<1> USE DEF Early
<1>0. /\ Shape /\ Seating /\ Players \subseteq AllPlayers
      /\ numPlayers \in Nat /\ numPlayers >= 2
  BY Counts DEF RInv
<1> SUFFICES ASSUME NEW p \in Players, pc[p] \in InRing
             PROVE  /\ playerId[leftFd[p]] = (playerId[p] + numPlayers - 1) % numPlayers
                    /\ playerId[rightFd[p]] = (playerId[p] + 1) % numPlayers
                    /\ leftFd[rightFd[p]] = p
                    /\ \A q \in Players : playerId[p] = playerId[q] => p = q
  BY DEF RingWired, InRing
<1>1. /\ Late /\ rightFd[p] \in Players /\ leftFd[rightFd[p]] = p /\ pc[rightFd[p]] \in Linked
  BY InTheRing DEF Linked
<1>2. Index = numPlayers /\ Seats = 1 .. numPlayers /\ mpc # "recvPort"
  BY <1>0, <1>1 DEF Late, Seating, Seats
<1>3. \A i \in 1 .. numPlayers : /\ playerId[playerFds[i]] = i - 1 /\ playerFds[i] \in Players
                                 /\ pc[playerFds[i]] \in Linked =>
                                      leftFd[playerFds[i]] = playerFds[LeftOf(i)]
                                 /\ LeftOf(i) \in 1 .. numPlayers
  BY <1>0, <1>2, Counts DEF RInv, AtSeat
<1>4. \A q \in Players : \E i \in 1 .. numPlayers : playerFds[i] = q
  BY <1>0, <1>2, AllSeated
<1>5. PICK k \in 1 .. numPlayers : playerFds[k] = p
  BY <1>4
<1>6. PICK m \in 1 .. numPlayers : playerFds[m] = rightFd[p]
  BY <1>1, <1>4
<1>7. playerId[leftFd[p]] = LeftOf(k) - 1 /\ playerId[p] = k - 1
  <2>1. playerId[p] = k - 1 /\ leftFd[p] = playerFds[LeftOf(k)] /\ LeftOf(k) \in 1 .. numPlayers
    BY <1>3, <1>5 DEF Linked
  <2>2. playerId[playerFds[LeftOf(k)]] = LeftOf(k) - 1
    BY <1>3, <2>1
  <2> QED
    BY <2>1, <2>2
<1>8. LeftOf(m) = k /\ playerId[rightFd[p]] = m - 1
  <2>1. playerFds[LeftOf(m)] = playerFds[k] /\ LeftOf(m) \in 1 .. numPlayers
    BY <1>1, <1>3, <1>5, <1>6
  <2> QED
    BY <1>0, <1>2, <1>3, <1>6, <2>1 DEF Seating
<1>9. m = IF k = numPlayers THEN 1 ELSE k + 1
  BY <1>0, <1>2, <1>8 DEF LeftOf
<1>10. /\ ((k - 1) + numPlayers - 1) % numPlayers = LeftOf(k) - 1
       /\ ((k - 1) + 1) % numPlayers = m - 1
  BY <1>0, <1>2, <1>9, LeftMod DEF LeftOf
<1>11. ASSUME NEW q \in Players, playerId[p] = playerId[q] PROVE p = q
  <2>1. PICK i \in 1 .. numPlayers : playerFds[i] = q
    BY <1>4
  <2>2. playerId[q] = i - 1
    BY <1>3, <2>1
  <2>3. i = k
    BY <1>0, <1>7, <1>11, <2>2
  <2> QED
    BY <1>5, <2>1, <2>3
<1> QED
  BY <1>1, <1>7, <1>8, <1>10, <1>11

\* Who is connected to whom, whatever the number of players and whatever the order
\* they came in: the ring is the one of the ids.
THEOREM RingIsWired == Spec => []RingWired
BY Wired, RingInvariance, PTL

\* No connect of the setup is refused.
THEOREM ConnectsToListeners == Spec => ConnectsToListener
<1>1. ASSUME RInv, [Next]_vars, NEW p \in Players, leftFd'[p] # leftFd[p]
      PROVE  pc[leftFd'[p]] \notin {"start", "recvId", "close", "done"}
  <2> USE DEF Early
  <2>0. /\ Shape /\ Seating /\ Players \subseteq AllPlayers
    BY <1>1, Counts DEF RInv
  <2>1. PICK q \in Players : buildNeighborConnect(q)
    BY <1>1 DEF Next, vars, ringVars, Ringmaster, Player, die, Finished, acceptPlayer, recvPort, sendNeighbors,
                throwPotato, catchPotato, closeRingmaster, buildMasterConnect, joinGame, acceptRight,
                listenAndForwardPotato, closePlayer
  <2>2. p = q /\ pc[p] = "recvLeft" /\ chan[fromM(p)] # <<>> /\ leftFd'[p] = Head(chan[fromM(p)]).port
    BY <1>1, <2>0, <2>1 DEF buildNeighborConnect, fromM, Shape
  <2>3. PICK k \in Seats : playerFds[k] = p
    BY <1>1, <2>2 DEF RInv, Outside, Unseated
  <2>4. /\ Late /\ Head(chan[fromM(p)]) = PortMsg(playerFds[LeftOf(k)])
    BY <1>1, <2>2, <2>3 DEF RInv, AtSeat
  <2>5. Index = numPlayers /\ Seats = 1 .. numPlayers /\ mpc # "recvPort"
    BY <2>0, <2>4 DEF Late, Seating, Seats
  <2>6. PICK l \in Seats : l = LeftOf(k)
    BY <2>0, <2>5, Counts
  <2>7. leftFd'[p] = playerFds[l]
    BY <2>2, <2>4, <2>6 DEF PortMsg
  <2>8. pc[playerFds[l]] \notin InRing
    BY <1>1, <2>2, <2>3, <2>4, <2>6 DEF RInv, Links, Link, Linked, InRing
  <2>9. pc[playerFds[l]] \notin {"start", "recvId"}
    BY <1>1, <2>5 DEF RInv, AtSeat
  <2> QED
    BY <2>7, <2>8, <2>9 DEF InRing
<1>2. ASSUME RInv, [Next]_vars
      PROVE  [\A p \in Players : leftFd'[p] # leftFd[p] =>
                pc[leftFd'[p]] \notin {"start", "recvId", "close", "done"}]_vars
  BY <1>1, <1>2
<1> QED
  BY <1>2, RingInvariance, PTL DEF Spec, ConnectsToListener

-----------------------------------------------------------------------------
(***************************************************************************)
(* Types.  RInv has the processes' positions and sequences; the rest is    *)
(* what is sent, and what is kept of it.                                   *)
(***************************************************************************)

\* A step leaves this typed, by the arguments of the game.
Typed ==
  /\ UNCHANGED args
  /\ potato' \in PotatoType
  /\ playerId' \in [AllPlayers -> Ids]
  /\ leftFd' \in [AllPlayers -> Players \cup {None}]
  /\ rightFd' \in [AllPlayers -> Players \cup {None}]
  /\ died' \in SUBSET Players
  /\ chan' \in [Channel -> Seq(Messages)]

LEMMA ItsMessages ==
  ASSUME RInv
  PROVE  /\ EOF \in Messages
         /\ \A q \in PotatoType : PotatoMsg(q) \in Messages
         /\ \A i \in Ids : IdMsg(i, numPlayers) \in Messages
         /\ \A q \in Players : PortMsg(q) \in Messages
BY DEF Messages, EOF, PotatoMsg, IdMsg, PortMsg

\* A message of the game is an end or a typed potato.
LEMMA GameTyped ==
  ASSUME NEW m \in Messages, m \in GameMsg, m # EOF
  PROVE  m.potato \in PotatoType /\ m = PotatoMsg(m.potato)
BY DEF Messages, GameMsg, PotatoMsg, EOF

LEMMA HopTyped ==
  ASSUME RInv, NEW p \in PotatoType, p.ttl > 0, NEW id \in Ids
  PROVE  RecordHop(p, id) \in PotatoType
<1>1. numHops \in Nat /\ Ids \subseteq Nat
  BY HotPotatoAssumption, Counts DEF RInv, Shape, Ids
<1>2. /\ p.ttl - 1 \in 0 .. numHops /\ p.count \in Nat
      /\ p.path \in [0 .. MaxNumHops - 1 -> Ids]
  BY <1>1 DEF PotatoType
<1>3. CASE p.count < MaxNumHops
  <2>1. [p EXCEPT !.ttl = @ - 1, !.path[p.count] = id, !.count = @ + 1]
          = [p EXCEPT !.ttl = p.ttl - 1, !.path = [p.path EXCEPT ![p.count] = id], !.count = p.count + 1]
    BY DEF PotatoType
  <2>2. p.count + 1 \in Nat /\ [p.path EXCEPT ![p.count] = id] \in [0 .. MaxNumHops - 1 -> Ids]
    <3>1. ASSUME NEW D, NEW f \in [D -> Ids], NEW n PROVE [f EXCEPT ![n] = id] \in [D -> Ids]
      OBVIOUS
    <3>2. PICK f \in [0 .. MaxNumHops - 1 -> Ids], n \in Nat : f = p.path /\ n = p.count
      BY <1>2
    <3>3. [f EXCEPT ![n] = id] \in [0 .. MaxNumHops - 1 -> Ids]
      BY <3>1
    <3> QED
      BY <3>2, <3>3
  <2> QED
    BY <1>2, <1>3, <2>1, <2>2 DEF RecordHop, PotatoType
<1>4. CASE ~(p.count < MaxNumHops)
  BY <1>1, <1>2, <1>4 DEF RecordHop, PotatoType
<1> QED
  BY <1>3, <1>4

\* What is at the head of a channel.
LEMMA HeadTyped ==
  ASSUME TypeOK, NEW c \in Channel, chan[c] # <<>>
  PROVE  Head(chan[c]) \in Messages
BY HeadTailProperties DEF TypeOK

LEMMA ThrowTyped ==
  ASSUME RInv, TypeOK, throwPotato, UNCHANGED died
  PROVE  Typed
<1>1. UNCHANGED <<args, playerId, leftFd, rightFd, potato>>
  BY DEF throwPotato, ringVars
<1>2. chan \in [Channel -> Seq(Messages)] /\ PotatoMsg(potato) \in Messages
  BY ItsMessages DEF TypeOK
<1>3. chan' \in [Channel -> Seq(Messages)]
  <2>1. CASE UNCHANGED chan
    BY <1>2, <2>1
  <2>2. CASE \E i \in 1 .. numPlayers : chan' = Send(chan, <<playerFds[i], "fromMaster">>, PotatoMsg(potato))
    <3>1. PICK i \in 1 .. numPlayers : chan' = Send(chan, fromM(playerFds[i]), PotatoMsg(potato))
      BY <2>2 DEF fromM
    <3>2. i \in Seats
      BY DEF RInv, Seating, throwPotato, Seats
    <3>3. playerFds[i] \in AllPlayers
      BY <3>2, Counts DEF RInv
    <3>4. fromM(playerFds[i]) \in Channel
      BY <3>3, Names
    <3> QED
      BY <1>2, <3>1, <3>4, SentOne
  <2> QED
    BY <2>1, <2>2 DEF throwPotato
<1> QED
  BY <1>1, <1>3 DEF TypeOK, Typed

LEMMA CatchTyped ==
  ASSUME RInv, TypeOK, catchPotato, UNCHANGED died
  PROVE  Typed
<1>1. UNCHANGED <<args, playerId, leftFd, rightFd>> /\ mpc = "catch"
  BY DEF catchPotato, ringVars
<1>2. chan \in [Channel -> Seq(Messages)] /\ potato \in PotatoType
  BY DEF TypeOK
<1>3. PICK i \in 1 .. numPlayers :
        LET c == toM(playerFds[i])
            m == Head(chan[c])
        IN  /\ chan[c] # <<>>
            /\ \/ UNCHANGED <<potato, chan>>
               \/ /\ m # EOF
                  /\ potato' = m.potato
                  /\ chan' = SendAll(Received(chan, c), Players \X {"fromMaster"}, m)
  BY DEF catchPotato, FirstReady, toM
<1>4. PICK q \in Players : q = playerFds[i] /\ toM(q) \in Channel
  <2>1. i \in Seats
    BY <1>1 DEF RInv, Seating, Seats
  <2> QED
    BY <2>1, Counts, Names DEF RInv
<1>5. chan[toM(q)] \in Seq(GameMsg) /\ chan[toM(q)] # <<>>
  BY <1>1, <1>3, <1>4, Late_toM DEF Late, Early
<1>6. PICK m \in Messages : m = Head(chan[toM(q)]) /\ m \in GameMsg
  BY <1>4, <1>5, HeadTyped, HeadTailProperties
<1>7. CASE UNCHANGED <<potato, chan>>
  BY <1>1, <1>2, <1>7 DEF TypeOK, Typed
<1>8. CASE m # EOF /\ potato' = m.potato
           /\ chan' = SendAll(Received(chan, toM(q)), Players \X {"fromMaster"}, m)
  <2>1. Received(chan, toM(q)) \in [Channel -> Seq(Messages)]
    BY <1>2, <1>4, <1>5, Took
  <2>2. chan' \in [Channel -> Seq(Messages)]
    BY <1>8, <2>1, Sent
  <2>3. potato' \in PotatoType
    BY <1>6, <1>8, GameTyped
  <2> QED
    BY <1>1, <2>2, <2>3 DEF TypeOK, Typed
<1> QED
  BY <1>3, <1>4, <1>6, <1>7, <1>8

\* A process that leaves.
LEMMA LeaveTyped ==
  ASSUME RInv, TypeOK,
         \/ closeRingmaster /\ UNCHANGED died
         \/ \E p \in Players : (closePlayer(p) /\ UNCHANGED died) \/ die(p)
  PROVE  Typed
<1>1. UNCHANGED <<args, playerId, leftFd, rightFd, potato>> /\ died' \in SUBSET Players
  BY DEF closeRingmaster, closePlayer, die, ringVars, TypeOK
<1>2. PICK C : chan' = SendAll(chan, C, EOF)
  BY DEF closeRingmaster, closePlayer, die
<1>3. chan' \in [Channel -> Seq(Messages)]
  BY <1>2, ItsMessages, Sent DEF TypeOK
<1> QED
  BY <1>1, <1>3 DEF TypeOK, Typed

LEMMA ListenTyped ==
  ASSUME RInv, TypeOK, NEW p \in Players, listenAndForwardPotato(p), UNCHANGED died
  PROVE  Typed
<1>1. UNCHANGED <<args, playerId, leftFd, rightFd, potato>> /\ pc[p] = "listen"
  BY DEF listenAndForwardPotato, ringVars
<1>2. PICK k \in FirstReady(listenFds(p)) :
        LET m == Head(chan[listenFds(p)[k]])
            rest == Received(chan, listenFds(p)[k])
        IN  \/ chan' = rest
            \/ /\ m # EOF /\ (m.potato.ttl = 1 \/ m.potato.ttl > 1)
               /\ \E out \in 1 .. 3 :
                    chan' = Send(rest, outFds(p)[out], PotatoMsg(RecordHop(m.potato, playerId[p])))
  BY DEF listenAndForwardPotato
<1>3. PICK c \in Channel : /\ listenFds(p)[k] = c /\ chan[c] # <<>> /\ Head(chan[c]) \in GameMsg
  BY <1>1, Reads
<1>4. PICK m \in Messages : m = Head(chan[c]) /\ m \in GameMsg
  BY <1>3, HeadTyped
<1>5. PICK rest \in [Channel -> Seq(Messages)] : rest = Received(chan, c)
  BY <1>3, Took DEF TypeOK
<1>6. CASE chan' = rest
  BY <1>1, <1>5, <1>6 DEF TypeOK, Typed
<1>7. ASSUME m # EOF, m.potato.ttl = 1 \/ m.potato.ttl > 1, NEW out \in 1 .. 3,
             chan' = Send(rest, outFds(p)[out], PotatoMsg(RecordHop(m.potato, playerId[p])))
      PROVE  Typed
  <2>1. m.potato \in PotatoType /\ m.potato.ttl > 0
    <3>1. m.potato \in PotatoType
      BY <1>4, <1>7, GameTyped
    <3>2. m.potato.ttl \in Int
      BY <3>1 DEF PotatoType
    <3> QED
      BY <1>7, <3>1, <3>2
  <2>2. p \in AllPlayers /\ rightFd[p] \in AllPlayers
    BY <1>1, InTheRing DEF InRing, Linked
  <2>3. playerId[p] \in Ids
    BY <2>2 DEF TypeOK
  <2>4. PotatoMsg(RecordHop(m.potato, playerId[p])) \in Messages
    BY <2>1, <2>3, HopTyped, ItsMessages
  <2>5. PICK d \in Channel : d = outFds(p)[out]
    BY <2>2, Sends, Names
  <2>6. chan' \in [Channel -> Seq(Messages)]
    BY <1>7, <2>4, <2>5, SentOne
  <2> QED
    BY <1>1, <2>6 DEF TypeOK, Typed
<1> QED
  BY <1>2, <1>3, <1>4, <1>5, <1>6, <1>7

\* The setup: ids count the accepts, and ports are players.
LEMMA MasterTyped ==
  ASSUME RInv, TypeOK, acceptPlayer \/ recvPort \/ sendNeighbors, UNCHANGED died
  PROVE  Typed
<1>0. /\ Shape /\ Seating /\ numPlayers \in Nat /\ numPlayers >= 2 /\ Index \in Nat
      /\ Players \subseteq AllPlayers
  BY Counts DEF RInv
<1>1. /\ UNCHANGED <<args, playerId, leftFd, rightFd, potato>>
      /\ chan \in [Channel -> Seq(Messages)]
  BY DEF acceptPlayer, recvPort, sendNeighbors, ringVars, TypeOK
<1>2. CASE acceptPlayer
  <2>1. PICK q : q = Head(backlog[Master]) /\ chan' = Send(chan, fromM(q), IdMsg(Index, numPlayers))
    BY <1>2 DEF acceptPlayer, fromM
  <2>2. backlog[Master] \in Seq(Players) /\ backlog[Master] # <<>>
    BY <1>0, <1>2 DEF acceptPlayer, Shape
  <2>3. q \in AllPlayers
    BY <1>0, <2>1, <2>2, HeadTailProperties
  <2>4. Index \in Ids
    BY <1>0, <1>2 DEF acceptPlayer, Seating, Ids
  <2>5. IdMsg(Index, numPlayers) \in Messages /\ fromM(q) \in Channel
    BY <2>3, <2>4, ItsMessages, Names
  <2>6. chan' \in [Channel -> Seq(Messages)]
    BY <1>1, <2>1, <2>5, SentOne
  <2> QED
    BY <1>1, <2>6 DEF TypeOK, Typed
<1>3. CASE recvPort
  <2>1. PICK q : /\ q = playerFds[Index] /\ chan[toM(q)] # <<>>
                 /\ chan' = Received(chan, toM(q))
    BY <1>3 DEF recvPort, toM
  <2>2. q \in AllPlayers
    BY <1>0, <1>3, <2>1, Counts DEF recvPort, Seating, Seats
  <2>3. chan' \in [Channel -> Seq(Messages)]
    BY <1>1, <2>1, <2>2, Took, Names
  <2> QED
    BY <1>1, <2>3 DEF TypeOK, Typed
<1>4. CASE sendNeighbors
  <2>1. Index = numPlayers /\ Len(playerPorts) = numPlayers /\ playerPorts \in Seq(Players)
    BY <1>0, <1>4 DEF sendNeighbors, Seating, Shape
  <2>2. ASSUME NEW c \in Channel, c[1] \in Players
        PROVE  LET i    == CHOOSE j \in Ids : playerFds[j + 1] = c[1]
                   left == (i - 1 + numPlayers) % numPlayers
               IN  PortMsg(playerPorts[left + 1]) \in Messages
    <3>1. PICK j \in Seats : playerFds[j] = c[1]
      BY <1>0, <2>1, <2>2, AllSeated
    <3>2. j - 1 \in Ids /\ playerFds[(j - 1) + 1] = c[1]
      BY <1>0, <2>1, <3>1 DEF Seats, Ids
    <3>3. PICK i \in Ids : i = CHOOSE k \in Ids : playerFds[k + 1] = c[1]
      BY <3>2
    <3>4. PICK left \in Ids : left = (i - 1 + numPlayers) % numPlayers
      <4>1. \A n \in Nat \ {0} : \A k \in 0 .. n - 1 : (k - 1 + n) % n \in 0 .. n - 1
        OBVIOUS
      <4>2. numPlayers \in Nat \ {0} /\ i \in 0 .. numPlayers - 1
        BY <1>0, <3>3 DEF Ids
      <4>3. (i - 1 + numPlayers) % numPlayers \in 0 .. numPlayers - 1
        BY <4>1, <4>2
      <4> QED
        BY <4>3 DEF Ids
    <3>5. left + 1 \in 1 .. Len(playerPorts)
      BY <1>0, <2>1, <3>4 DEF Ids
    <3>6. playerPorts[left + 1] \in Players
      BY <2>1, <3>5, ElementOfSeq
    <3> QED
      BY <3>3, <3>4, <3>6, ItsMessages
  <2>3. ASSUME NEW c \in Channel, NEW m \in Messages PROVE Append(chan[c], m) \in Seq(Messages)
    BY <1>1, AppendProperties
  <2>4. chan' \in [Channel -> Seq(Messages)]
    BY <1>1, <1>4, <2>2, <2>3 DEF sendNeighbors
  <2> QED
    BY <1>1, <2>4 DEF TypeOK, Typed
<1> QED
  BY <1>2, <1>3, <1>4

LEMMA PlayerTyped ==
  ASSUME RInv, TypeOK, UNCHANGED died, NEW p \in Players,
         buildMasterConnect(p) \/ joinGame(p) \/ buildNeighborConnect(p) \/ acceptRight(p)
  PROVE  Typed
<1>0. /\ Shape /\ Seating /\ p \in AllPlayers /\ fromM(p) \in Channel /\ toM(p) \in Channel
  BY Counts, Names DEF RInv
<1>1. UNCHANGED <<args, potato>> /\ chan \in [Channel -> Seq(Messages)]
  BY DEF buildMasterConnect, joinGame, buildNeighborConnect, acceptRight, TypeOK
<1>2. CASE buildMasterConnect(p)
  BY <1>1, <1>2 DEF buildMasterConnect, TypeOK, Typed
<1>3. CASE joinGame(p)
  <2>1. /\ pc[p] = "recvId" /\ chan[fromM(p)] # <<>>
        /\ playerId' = [playerId EXCEPT ![p] = Head(chan[fromM(p)]).id]
        /\ chan' = Send(Received(chan, fromM(p)), toM(p), PortMsg(p))
        /\ UNCHANGED <<leftFd, rightFd>>
    BY <1>3 DEF joinGame, fromM, toM
  <2>2. PICK k \in Seats : playerFds[k] = p
    BY <2>1 DEF RInv, Outside, Unseated
  <2>3. chan[fromM(p)] = <<IdMsg(k - 1, numPlayers)>>
    BY <2>1, <2>2 DEF RInv, AtSeat
  <2>4. Head(chan[fromM(p)]).id = k - 1 /\ k - 1 \in Ids
    BY <1>0, <2>3, Counts DEF IdMsg, Seats, Ids, Seating
  <2>5. Received(chan, fromM(p)) \in [Channel -> Seq(Messages)] /\ PortMsg(p) \in Messages
    BY <1>0, <1>1, <2>1, Took, ItsMessages
  <2>6. chan' \in [Channel -> Seq(Messages)]
    BY <1>0, <2>1, <2>5, SentOne
  <2>7. playerId' \in [AllPlayers -> Ids]
    BY <2>1, <2>4 DEF TypeOK
  <2> QED
    BY <1>1, <2>1, <2>6, <2>7 DEF TypeOK, Typed
<1>4. CASE buildNeighborConnect(p)
  <2>1. /\ pc[p] = "recvLeft" /\ chan[fromM(p)] # <<>>
        /\ leftFd' = [leftFd EXCEPT ![p] = Head(chan[fromM(p)]).port]
        /\ chan' = Received(chan, fromM(p))
        /\ UNCHANGED <<playerId, rightFd>>
    BY <1>4 DEF buildNeighborConnect, fromM
  <2>2. PICK k \in Seats : playerFds[k] = p
    BY <2>1 DEF RInv, Outside, Unseated
  <2>3. Late /\ Head(chan[fromM(p)]) = PortMsg(playerFds[LeftOf(k)])
    BY <2>1, <2>2 DEF RInv, AtSeat
  <2>4. playerFds[LeftOf(k)] \in Players
    BY <1>0, <2>3, Counts DEF Seating, Seats, Late, Early
  <2>5. leftFd' \in [AllPlayers -> Players \cup {None}]
    <3>1. Head(chan[fromM(p)]).port \in Players
      BY <2>3, <2>4 DEF PortMsg
    <3> QED
      BY <2>1, <3>1 DEF TypeOK
  <2>6. chan' \in [Channel -> Seq(Messages)]
    BY <1>0, <1>1, <2>1, Took
  <2> QED
    BY <1>1, <2>1, <2>5, <2>6 DEF TypeOK, Typed
<1>5. CASE acceptRight(p)
  <2>1. /\ backlog[p] # <<>> /\ rightFd' = [rightFd EXCEPT ![p] = Head(backlog[p])]
        /\ UNCHANGED <<playerId, leftFd, chan>>
    BY <1>5 DEF acceptRight
  <2>2. backlog[p] \in Seq(Players)
    BY <1>0 DEF Shape
  <2>3. Head(backlog[p]) \in Players
    BY <2>1, <2>2, HeadTailProperties
  <2>4. rightFd' \in [AllPlayers -> Players \cup {None}]
    BY <2>1, <2>3 DEF TypeOK
  <2> QED
    BY <1>1, <2>1, <2>4 DEF TypeOK, Typed
<1> QED
  BY <1>2, <1>3, <1>4, <1>5

LEMMA TypeInit ==
  ASSUME Init
  PROVE  TypeOK
<1>1. RInv /\ 0 \in Ids /\ numHops \in Nat
  <2>1. RInv /\ numHops \in Nat
    BY RingInit, HotPotatoAssumption DEF RInv, Shape
  <2>2. numPlayers \in Nat /\ numPlayers >= 2
    BY <2>1, Counts DEF RInv
  <2> QED
    BY <2>1, <2>2 DEF Ids
<1>2. potato \in PotatoType
  BY <1>1 DEF Init, Potato, PotatoType
<1>3. chan \in [Channel -> Seq(Messages)]
  BY DEF Init
<1> QED
  BY <1>1, <1>2, <1>3
  DEF Init, RInv, Shape, TypeOK, MasterPCs, Early, PlayerPCs, Linked, InRing

LEMMA TypeStep ==
  ASSUME RInv, TypeOK, [Next]_vars
  PROVE  TypeOK'
<1>1. CASE UNCHANGED vars
  BY <1>1 DEF vars, args, ringVars, TypeOK, Players, Ids, Messages, PotatoType
<1>2. CASE ~UNCHANGED vars
  <2>1. Typed
    <3>1. CASE Ringmaster
      BY <3>1, MasterTyped, ThrowTyped, CatchTyped, LeaveTyped DEF Ringmaster
    <3>2. ASSUME NEW p \in Players, Player(p) \/ die(p) PROVE Typed
      BY <3>2, PlayerTyped, ListenTyped, LeaveTyped DEF Player
    <3> QED
      BY <1>2, <3>1, <3>2 DEF Next, Finished
  <2>2. Shape'
    BY RingStep DEF RInv
  <2>3. /\ Players' = Players /\ Ids' = Ids /\ Messages' = Messages /\ PotatoType' = PotatoType
    BY <2>1 DEF Typed, args, Players, Ids, Messages, PotatoType
  <2> QED
    BY <2>1, <2>2, <2>3
    DEF Typed, Shape, TypeOK, MasterPCs, Early, PlayerPCs, Linked, InRing
<1> QED
  BY <1>1, <1>2

\* Every variable keeps its type: the ids, ports and potatoes that travel are those of
\* this game, and each process reads the kind of message it waits for.
THEOREM TypeCorrect == Spec => []TypeOK
<1>1. Init => RInv /\ TypeOK
  BY RingInit, TypeInit
<1>2. RInv /\ TypeOK /\ [Next]_vars => (RInv /\ TypeOK)'
  BY RingStep, TypeStep
<1> QED
  BY <1>1, <1>2, PTL DEF Spec

==============================================================================
