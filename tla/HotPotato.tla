------------------------------ MODULE HotPotato ------------------------------
(***************************************************************************)
(* The processes of project3_hot_potato (ringmaster.cpp, player.cpp,       *)
(* server.cpp) and the TCP connections between them.  The players connect  *)
(* to the ringmaster in any order, get their ids, build the ring, and pass *)
(* the potato along it until it is out of hops.                            *)
(*                                                                         *)
(* A connection between a player and the ringmaster, or between a player   *)
(* and its left neighbour, is two FIFO channels that carry whole messages  *)
(* (setup integers, potatoes) and, when the sender has closed the          *)
(* connection, end with an EOF.  A channel is named by the player that     *)
(* opened the connection and the direction.                                *)
(***************************************************************************)
EXTENDS Integers, Sequences, FiniteSets, SequencesExt

CONSTANTS
  PlayerCounts,  \* the values of the argument num_players
  HopCounts,     \* the values of the argument num_hops
  MaxNumHops,    \* MAX_NUM_HOPS, the length of Potato.path
  MaxDeaths,     \* how many players may be killed during the game
  Instant        \* TRUE: what was sent has arrived (all processes on one machine)

ASSUME HotPotatoAssumption ==
  /\ PlayerCounts \subseteq Nat \ {0, 1}
  /\ IsFiniteSet(PlayerCounts) /\ PlayerCounts # {}
  /\ HopCounts \subseteq Nat
  /\ MaxNumHops \in Nat \ {0}
  /\ MaxDeaths \in Nat
  /\ Instant \in BOOLEAN

\* Player processes; the ringmaster is process 0.
AllPlayers == UNION {1 .. n : n \in PlayerCounts}
Master     == 0
None       == 0

Channel == AllPlayers \X {"toMaster", "fromMaster", "toLeft", "fromLeft"}

VARIABLES
  numPlayers, numHops,  \* the ringmaster's arguments
  mpc,          \* where the ringmaster is
  playerFds,    \* ringmaster: the players, in the order of its accepts
  playerPorts,  \* ringmaster: their ports (a port is named by who listens on it)
  potato,       \* ringmaster: its potato
  pc,           \* where each player is
  playerId,     \* each player's id
  leftFd,       \* whom it is connected to on its left
  rightFd,      \* whose connection it accepted
  backlog,      \* connections each process has not accepted yet
  chan,         \* messages sent and not received
  died          \* the players that were killed

ringVars == <<playerFds, playerPorts, playerId, leftFd, rightFd, backlog>>
args     == <<numPlayers, numHops>>
vars     == <<args, ringVars, mpc, potato, pc, chan, died>>

Players == 1 .. numPlayers
Ids     == 0 .. numPlayers - 1

-----------------------------------------------------------------------------
(***************************************************************************)
(* The potato (potato.hpp)                                                 *)
(***************************************************************************)

Potato(hops) == [ttl   |-> hops,
                 path  |-> [i \in 0 .. MaxNumHops - 1 |-> 0],
                 count |-> 0]

\* Deviation: count is not advanced.
RecordHopUncounted(p, id) == [p EXCEPT !.ttl = @ - 1, !.path[p.count] = id]

\* Deviation: the player's id is stored one place further on.
RecordHopShifted(p, id) ==
  [p EXCEPT !.ttl = @ - 1,
            !.path = [i \in DOMAIN @ |-> IF i = p.count + 1 THEN id ELSE @[i]],
            !.count = @ + 1]

\* One hop: ttl is decremented, path[count++] = id.  Past the end of path lies
\* count itself: in the build of the Makefile (no optimisation, count stored
\* before the path element) the id ends up in count.
RecordHop(p, id) ==
  IF p.count < MaxNumHops
  THEN [p EXCEPT !.ttl = @ - 1, !.path[p.count] = id, !.count = @ + 1]
  ELSE [p EXCEPT !.ttl = @ - 1, !.count = id]

\* What printPath prints.
TraceOf(p) == [i \in 1 .. p.count |-> p.path[i - 1]]

EOF             == [kind |-> "EOF"]
PotatoMsg(p)    == [kind |-> "potato", potato |-> p]

\* Deviation: ids count from 1.
IdMsgFromOne(id, num) == [kind |-> "id", id |-> id + 1, num |-> num]

IdMsg(id, num)  == [kind |-> "id", id |-> id, num |-> num]
PortMsg(port)   == [kind |-> "port", port |-> port]

-----------------------------------------------------------------------------
(***************************************************************************)
(* External: connections                                                   *)
(***************************************************************************)

Send(ch, c, m) == [ch EXCEPT ![c] = Append(@, m)]

SendAll(ch, C, m) ==
  [c \in DOMAIN ch |-> IF c \in C THEN Append(ch[c], m) ELSE ch[c]]

\* A message read leaves its channel; an EOF stays.
Received(ch, c) ==
  IF Head(ch[c]) = EOF THEN ch ELSE [ch EXCEPT ![c] = Tail(@)]

\* The positions in fds that a loop over FD_ISSET may read first: the lowest of
\* those that select reports, and select reports what has arrived.
FirstReady(fds) ==
  LET pending == {i \in DOMAIN fds : chan[fds[i]] # <<>>}
  IN  {i \in pending : Instant => \A j \in pending : i <= j}

-----------------------------------------------------------------------------
(***************************************************************************)
(* The ringmaster                                                          *)
(***************************************************************************)

Index == Len(playerFds)

\* buildPlayerRing, first loop, up to the player's answer.
acceptPlayer ==
  /\ mpc = "accept"
  /\ backlog[Master] # <<>>
  /\ LET p == Head(backlog[Master])
     IN  /\ playerFds' = Append(playerFds, p)
         /\ chan' = Send(chan, <<p, "fromMaster">>, IdMsg(Index, numPlayers))
  /\ backlog' = [backlog EXCEPT ![Master] = Tail(@)]
  /\ mpc' = "recvPort"
  /\ UNCHANGED <<args, playerPorts, playerId, leftFd, rightFd, potato, pc>>

\* The player's answer, and on to the next player or to the second loop.
recvPort ==
  /\ mpc = "recvPort"
  /\ LET c == <<playerFds[Index], "toMaster">>
     IN  /\ chan[c] # <<>>
         /\ playerPorts' = Append(playerPorts, Head(chan[c]).port)
         /\ chan' = Received(chan, c)
  /\ mpc' = IF Index < numPlayers THEN "accept" ELSE "sendNeighbors"
  /\ UNCHANGED <<args, playerFds, playerId, leftFd, rightFd, backlog, potato, pc>>

\* Deviation: playerPorts is read before the loop has filled it for this player
\* (every player gets the port of the player accepted before it, the first one
\* its own).
sendNeighborsOffByOne ==
  /\ mpc = "sendNeighbors"
  /\ chan' = [c \in Channel |->
                IF c[1] \in Players /\ c[2] = "fromMaster"
                THEN LET i == CHOOSE j \in 1 .. numPlayers : playerFds[j] = c[1]
                     IN  Append(chan[c], PortMsg(playerPorts[IF i = 1 THEN 1 ELSE i - 1]))
                ELSE chan[c]]
  /\ mpc' = "playGame"
  /\ UNCHANGED <<args, ringVars, potato, pc>>

\* Second loop: every player gets the port of its left neighbour.
sendNeighbors ==
  /\ mpc = "sendNeighbors"
  /\ chan' = [c \in Channel |->
                IF c[1] \in Players /\ c[2] = "fromMaster"
                THEN LET i    == CHOOSE j \in Ids : playerFds[j + 1] = c[1]
                         left == (i - 1 + numPlayers) % numPlayers
                     IN  Append(chan[c], PortMsg(playerPorts[left + 1]))
                ELSE chan[c]]
  /\ mpc' = "playGame"
  /\ UNCHANGED <<args, ringVars, potato, pc>>

\* Deviation: the potato goes to every player of the loop over playerFds.
throwPotatoToAll ==
  /\ mpc = "playGame"
  /\ chan' = SendAll(chan, Players \X {"fromMaster"}, PotatoMsg(potato))
  /\ mpc' = "catch"
  /\ UNCHANGED <<args, ringVars, potato, pc>>

\* playGameWithPotato, up to its select.
throwPotato ==
  /\ mpc = "playGame"
  /\ \/ /\ numHops = 0
        /\ mpc' = "close"
        /\ UNCHANGED chan
     \/ /\ numHops # 0
        /\ \E i \in 1 .. numPlayers :
             chan' = Send(chan, <<playerFds[i], "fromMaster">>, PotatoMsg(potato))
        /\ mpc' = "catch"
  /\ UNCHANGED <<args, ringVars, potato, pc>>

\* Select and the loop behind it: the first ready player is read, and what it
\* sent is taken for the last potato.
catchPotato ==
  /\ mpc = "catch"
  /\ LET fds == [i \in 1 .. numPlayers |-> <<playerFds[i], "toMaster">>]
     IN  \E i \in FirstReady(fds) :
           LET m == Head(chan[fds[i]])
           IN  \/ /\ m = EOF                       \* "broken potato"
                  /\ UNCHANGED <<potato, chan>>
               \/ /\ m # EOF
                  /\ potato' = m.potato
                  /\ chan' = SendAll(Received(chan, fds[i]),
                                     Players \X {"fromMaster"}, m)
  /\ mpc' = "close"
  /\ UNCHANGED <<args, ringVars, pc>>

\* ~Ringmaster: every player's connection is closed.
closeRingmaster ==
  /\ mpc = "close"
  /\ chan' = SendAll(chan, Players \X {"fromMaster"}, EOF)
  /\ mpc' = "done"
  /\ UNCHANGED <<args, ringVars, potato, pc>>

-----------------------------------------------------------------------------
(***************************************************************************)
(* A player                                                                *)
(***************************************************************************)

\* The player is started, and connects to the ringmaster's listening socket.
buildMasterConnect(p) ==
  /\ pc[p] = "start"
  /\ backlog' = [backlog EXCEPT ![Master] = Append(@, p)]
  /\ pc' = [pc EXCEPT ![p] = "recvId"]
  /\ UNCHANGED <<args, playerFds, playerPorts, playerId, leftFd, rightFd,
                 mpc, potato, chan>>

\* The id arrives; the player listens on a port of its own and says which.
joinGame(p) ==
  /\ pc[p] = "recvId"
  /\ LET c == <<p, "fromMaster">>
     IN  /\ chan[c] # <<>>
         /\ playerId' = [playerId EXCEPT ![p] = Head(chan[c]).id]
         /\ chan' = Send(Received(chan, c), <<p, "toMaster">>, PortMsg(p))
  /\ pc' = [pc EXCEPT ![p] = "recvLeft"]
  /\ UNCHANGED <<args, playerFds, playerPorts, leftFd, rightFd, backlog, mpc, potato>>

\* The left neighbour's port arrives; connect to it.  The connect succeeds as
\* soon as the neighbour listens, whether or not it has called accept.
buildNeighborConnect(p) ==
  /\ pc[p] = "recvLeft"
  /\ LET c == <<p, "fromMaster">>
     IN  /\ chan[c] # <<>>
         /\ leftFd' = [leftFd EXCEPT ![p] = Head(chan[c]).port]
         /\ backlog' = [backlog EXCEPT ![Head(chan[c]).port] = Append(@, p)]
         /\ chan' = Received(chan, c)
  /\ pc' = [pc EXCEPT ![p] = "accept"]
  /\ UNCHANGED <<args, playerFds, playerPorts, playerId, rightFd, mpc, potato>>

\* Deviation: a player whose right neighbour is not there yet gives up.
acceptRightOrLeave(p) ==
  /\ pc[p] = "accept"
  /\ rightFd' = [rightFd EXCEPT ![p] = IF backlog[p] = <<>> THEN None ELSE Head(backlog[p])]
  /\ backlog' = [backlog EXCEPT ![p] = IF @ = <<>> THEN @ ELSE Tail(@)]
  /\ pc' = [pc EXCEPT ![p] = IF backlog[p] = <<>> THEN "close" ELSE "listen"]
  /\ UNCHANGED <<args, playerFds, playerPorts, playerId, leftFd, mpc, potato, chan>>

\* accept of the right neighbour's connection.
acceptRight(p) ==
  /\ pc[p] = "accept"
  /\ backlog[p] # <<>>
  /\ rightFd' = [rightFd EXCEPT ![p] = Head(backlog[p])]
  /\ backlog' = [backlog EXCEPT ![p] = Tail(@)]
  /\ pc' = [pc EXCEPT ![p] = "listen"]
  /\ UNCHANGED <<args, playerFds, playerPorts, playerId, leftFd, mpc, potato, chan>>

\* listenFds: the connections to the left, to the right and to the ringmaster,
\* as what the player reads from and what it writes to.
listenFds(p) == << <<p, "fromLeft">>, <<rightFd[p], "toLeft">>, <<p, "fromMaster">> >>
outFds(p)    == << <<p, "toLeft">>, <<rightFd[p], "fromLeft">>, <<p, "toMaster">> >>

\* Deviation: a player that has passed the potato on leaves the game.
listenAndForwardPotatoOnce(p) ==
  /\ pc[p] = "listen"
  /\ \E i \in FirstReady(listenFds(p)) :
       LET m == Head(chan[listenFds(p)[i]])
           rest == Received(chan, listenFds(p)[i])
       IN  \/ /\ m = EOF \/ (m # EOF /\ m.potato.ttl = 0)
              /\ chan' = rest
           \/ /\ m # EOF /\ m.potato.ttl > 0
              /\ \E out \in IF m.potato.ttl = 1 THEN {3} ELSE {1, 2} :
                   chan' = Send(rest, outFds(p)[out],
                                PotatoMsg(RecordHop(m.potato, playerId[p])))
  /\ pc' = [pc EXCEPT ![p] = "close"]
  /\ UNCHANGED <<args, ringVars, mpc, potato>>

\* One iteration of listenAndForwardPotato.
listenAndForwardPotato(p) ==
  /\ pc[p] = "listen"
  /\ \E i \in FirstReady(listenFds(p)) :
       LET m == Head(chan[listenFds(p)[i]])
           rest == Received(chan, listenFds(p)[i])
       IN  \/ /\ m = EOF \/ (m # EOF /\ m.potato.ttl = 0)
              /\ chan' = rest
              /\ pc' = [pc EXCEPT ![p] = "close"]
           \/ /\ m # EOF /\ m.potato.ttl = 1                    \* "I'm it"
              /\ chan' = Send(rest, outFds(p)[3],
                              PotatoMsg(RecordHop(m.potato, playerId[p])))
              /\ pc' = [pc EXCEPT ![p] = "close"]
           \/ /\ m # EOF /\ m.potato.ttl > 1
              /\ \E picked \in {1, 2} :
                   chan' = Send(rest, outFds(p)[picked],
                                PotatoMsg(RecordHop(m.potato, playerId[p])))
              /\ UNCHANGED pc
  /\ UNCHANGED <<args, ringVars, mpc, potato>>

\* ~Player: its three connections are closed.
closePlayer(p) ==
  /\ pc[p] = "close"
  /\ chan' = SendAll(chan, Range(outFds(p)), EOF)
  /\ pc' = [pc EXCEPT ![p] = "done"]
  /\ UNCHANGED <<args, ringVars, mpc, potato>>

\* External: a player is killed during the game, and the kernel closes its
\* connections.
die(p) ==
  /\ pc[p] = "listen"
  /\ Cardinality(died) < MaxDeaths
  /\ died' = died \cup {p}
  /\ chan' = SendAll(chan, Range(outFds(p)), EOF)
  /\ pc' = [pc EXCEPT ![p] = "done"]
  /\ UNCHANGED <<args, ringVars, mpc, potato>>

-----------------------------------------------------------------------------
Init ==
  /\ numPlayers \in PlayerCounts
  /\ numHops \in HopCounts
  /\ mpc = "accept"
  /\ playerFds = <<>>
  /\ playerPorts = <<>>
  /\ potato = Potato(numHops)
  /\ pc = [p \in AllPlayers |-> "start"]
  /\ playerId = [p \in AllPlayers |-> 0]
  /\ leftFd = [p \in AllPlayers |-> None]
  /\ rightFd = [p \in AllPlayers |-> None]
  /\ backlog = [p \in AllPlayers \cup {Master} |-> <<>>]
  /\ chan = [c \in Channel |-> <<>>]
  /\ died = {}

Ringmaster ==
  /\ \/ acceptPlayer \/ recvPort \/ sendNeighbors
     \/ throwPotato \/ catchPotato \/ closeRingmaster
  /\ UNCHANGED died

Player(p) ==
  /\ \/ buildMasterConnect(p) \/ joinGame(p) \/ buildNeighborConnect(p)
     \/ acceptRight(p) \/ listenAndForwardPotato(p) \/ closePlayer(p)
  /\ UNCHANGED died

\* All processes have exited.
Finished == /\ mpc = "done"
            /\ \A p \in Players : pc[p] = "done"
            /\ UNCHANGED vars

Next == Ringmaster \/ (\E p \in Players : Player(p) \/ die(p)) \/ Finished

\* Every process is started and runs, until it is killed: it takes the step it can
\* take.
Spec == /\ Init /\ [][Next]_vars
        /\ WF_vars(Ringmaster)
        /\ \A p \in AllPlayers : WF_vars(p \in Players /\ Player(p))

-----------------------------------------------------------------------------
(***************************************************************************)
(* Properties                                                              *)
(***************************************************************************)

PotatoType == [ttl   : 0 .. numHops,
               path  : [0 .. MaxNumHops - 1 -> Ids],
               count : Nat]

Messages ==      {EOF}
            \cup [kind : {"potato"}, potato : PotatoType]
            \cup [kind : {"id"}, id : Ids, num : {numPlayers}]
            \cup [kind : {"port"}, port : Players]

\* Every variable has its type.
TypeOK ==
  /\ numPlayers \in PlayerCounts
  /\ numHops \in HopCounts
  /\ mpc \in {"accept", "recvPort", "sendNeighbors", "playGame", "catch", "close", "done"}
  /\ playerFds \in Seq(Players)
  /\ playerPorts \in Seq(Players)
  /\ potato \in PotatoType
  /\ pc \in [AllPlayers -> {"start", "recvId", "recvLeft", "accept", "listen", "close", "done"}]
  /\ playerId \in [AllPlayers -> Ids]
  /\ leftFd \in [AllPlayers -> Players \cup {None}]
  /\ rightFd \in [AllPlayers -> Players \cup {None}]
  /\ backlog \in [AllPlayers \cup {Master} -> Seq(Players)]
  /\ died \in SUBSET Players
  /\ chan \in [Channel -> Seq(Messages)]

\* A player that has left the setup sits in the ring where its id says: it is
\* connected to the player with the id before its own, and the connection it
\* accepted is that of the player with the id after its own.  (Ids follow the
\* order of the ringmaster's accepts, ports travel with them, connections are
\* made and accepted in any order.)
RingWired ==
  \A p \in Players : pc[p] \in {"listen", "close", "done"} =>
    /\ playerId[leftFd[p]] = (playerId[p] + numPlayers - 1) % numPlayers
    /\ playerId[rightFd[p]] = (playerId[p] + 1) % numPlayers
    /\ leftFd[rightFd[p]] = p
    /\ \A q \in Players : playerId[p] = playerId[q] => p = q

\* A player connects to its left neighbour while that one listens: the neighbour
\* has opened its socket, and whatever happened since (the game may be over for
\* some players) it has not left.  No connect of the setup is refused.
ConnectsToListener ==
  [][\A p \in Players : leftFd'[p] # leftFd[p] =>
       pc[leftFd'[p]] \notin {"start", "recvId", "close", "done"}]_vars

\* The potatoes under way, at their channels and positions.
InTransit ==
  {ci \in UNION {{c} \X DOMAIN chan[c] : c \in Channel} :
     chan[ci[1]][ci[2]].kind = "potato"}

At(ci) == chan[ci[1]][ci[2]].potato

Hot == {ci \in InTransit : At(ci).ttl > 0}

\* Who reads the channel.
ReaderOf(c) == IF c[2] = "toMaster" THEN Master
               ELSE IF c[2] = "toLeft" THEN leftFd[c[1]] ELSE c[1]

\* There is one potato: at most one with hops left is under way, and none once
\* the last player has sent it back.  (When a player has died the ringmaster may
\* have ended the game, and the potato is left where nobody reads it.)
OnePotato ==
  /\ Cardinality(Hot) <= 1
  /\ Hot # {} => /\ died = {} => mpc = "catch"
                 /\ \A ci \in InTransit : ci[1][2] # "toMaster"

\* potato.hpp: ttl is the "remaining hops" and count the "Number of hops made by
\* the potato", so that they add up to num_hops for every potato there is.
HopsCounted ==
  \A p \in {At(ci) : ci \in InTransit} \cup {potato} : p.ttl + p.count = numHops

\* Unless a player died, no potato with hops left is sent to one that has left or
\* is leaving: the exits that the last hop sets off, each player taking its
\* neighbour's EOF for the end of the game, cannot start before the last hop.  And
\* even then a connection whose reader is gone gets one potato at most: the second
\* send would raise SIGPIPE, and no process ignores that.
NeverToTheDeparted ==
  /\ \A ci \in Hot : /\ ReaderOf(ci[1]) \in Players
                     /\ died = {} => pc[ReaderOf(ci[1])] \notin {"close", "done"}
  /\ \A ci, cj \in InTransit :
       ci[1] = cj[1] /\ ReaderOf(ci[1]) \in Players /\ pc[ReaderOf(ci[1])] = "done"
       => ci = cj

\* Every process exits: the ring gets built, the potato gets round, and the end
\* of the game reaches everybody.  The death of a player ends the game for all.
EveryoneExits == <>(mpc = "done" /\ \A p \in Players : pc[p] = "done")

\* The potato as the game sees it: the one with hops left; once there is none,
\* the one on its way back to the ringmaster, or the ringmaster's own.
ThePotato ==
  IF Hot # {} THEN At(CHOOSE ci \in Hot : TRUE)
  ELSE IF \E ci \in InTransit : ci[1][2] = "toMaster"
  THEN At(CHOOSE ci \in InTransit : ci[1][2] = "toMaster")
  ELSE potato

ThePlace == IF Hot # {}
            THEN playerId[ReaderOf((CHOOSE ci \in Hot : TRUE)[1])]
            ELSE -1

Game == INSTANCE PotatoGame
          WITH place <- ThePlace, ttl <- ThePotato.ttl, trace <- TraceOf(ThePotato)

\* The sockets carry the game: the potato that travels makes the hops the game
\* allows, its trace is the one of those hops, and it comes back unless a player
\* dies.
ImplementsGame == Game!Safety /\ (Game!Fairness \/ <>(died # {}))

-----------------------------------------------------------------------------
(***************************************************************************)
(* What ringmaster.cpp says and the code does not do.                      *)
(***************************************************************************)

\* ringmaster.cpp: "Catch the last potato", "Send potato with remainHops = 0 to
\* all players": a ringmaster that started a game ends it with the last potato.
CatchesLastPotato == mpc = "done" /\ numHops > 0 => potato.ttl = 0
=============================================================================
