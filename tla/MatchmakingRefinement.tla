----------------------- MODULE MatchmakingRefinement -----------------------
(* Matchmaking implements Lobby for every set of clients.                  *)
EXTENDS MatchmakingProofs

Room == [c \in Clients |-> RoomOf(c)]

\* A client is at a table if it is in the popped pair or in a running game.
AtTableExact ==
    \A c : AtTable(c) <=> Popped(c) \/ \E g \in games : Live(g) /\ Plays(g, c)

\* Who sits at a table: the popped players and those of the running games.
LEMMA AtTableMeans == AtTableExact
<1> SUFFICES ASSUME NEW c
             PROVE  AtTable(c) <=> Popped(c) \/ \E g \in games : Live(g) /\ Plays(g, c)
  BY DEF AtTableExact
<1>1. ASSUME NEW g \in games, Live(g), Plays(g, c) PROVE AtTable(c)
  <2>1. <<g.p1, g.p2>> \in Seats
    BY <1>1 DEF Seats
  <2>2. c = <<g.p1, g.p2>>[1] \/ c = <<g.p1, g.p2>>[2]
    BY <1>1 DEF Plays
  <2> QED
    BY <2>1, <2>2 DEF AtTable
<1>2. ASSUME Popped(c) PROVE AtTable(c)
  BY <1>2 DEF Popped, AtTable, Seats
<1>3. ASSUME NEW t \in Seats, c = t[1] \/ c = t[2], ~Popped(c)
      PROVE  \E g \in games : Live(g) /\ Plays(g, c)
  <2>1. PICK g \in games : Live(g) /\ t = <<g.p1, g.p2>>
    BY <1>3 DEF Seats, Popped
  <2>2. Plays(g, c)
    BY <1>3, <2>1 DEF Plays
  <2> QED
    BY <2>1, <2>2
<1> QED
  BY <1>1, <1>2, <1>3 DEF AtTable

\* RoomOf depends on nothing but the queue, the tables and who is in playLoop.
LEMMA Stutters ==
    ASSUME UNCHANGED matchmakingQueue, Seats' = Seats,
           \A c \in Clients : InPlayLoop(c)' <=> InPlayLoop(c)
    PROVE  UNCHANGED L!lobbyVars
<1>1. \A c \in Clients : RoomOf(c)' = RoomOf(c)
  BY DEF RoomOf, Queued, AtTable
<1>2. Room' = Room
  BY <1>1 DEF Room
<1> QED
  BY <1>2 DEF L!lobbyVars, Room

\* At the start everybody is out and no table is open.
LEMMA InitRefines == Init => L!LobbyInit
<1> SUFFICES ASSUME Init PROVE L!LobbyInit
  OBVIOUS
<1>1. Range(matchmakingQueue) = {} /\ Seats = {}
  BY EmptySeq DEF Init, Seats
<1>2. \A c \in Clients : RoomOf(c) = "out"
  BY <1>1 DEF Init, RoomOf, Queued, AtTable, InPlayLoop
<1> QED
  BY <1>1, <1>2 DEF L!LobbyInit

\* The handler of c returns from playLoop.
LEMMA ReturnRefines ==
    ASSUME IInv, NEW c \in Clients, Moves(c, "menu"), InPlayLoop(c), c \notin playingSet,
           ~Queued(c), ~(Popped(c) /\ mmPc = "seat")
    PROVE  L!Return(c)
<1>1. UNCHANGED <<matchmakingQueue, games, pair>> /\ pc' = [pc EXCEPT ![c] = "menu"]
  BY DEF Moves, Goto, mmVars
<1>2. Seats' = Seats
  BY <1>1 DEF Seats
<1>3. ~AtTable(c)
  <2>1. ~(Popped(c) /\ mmPc = "start") /\ \A g \in games : ~(Live(g) /\ Plays(g, c))
    BY DEF IInv, GamesInv, PlayingSetExact
  <2>2. Popped(c) => mmPc \in {"seat", "start"}
    BY DEF IInv, MatchmakerInv, Popped
  <2> QED
    BY <2>1, <2>2, AtTableMeans DEF AtTableExact
<1>4. Room[c] = "leaving" /\ RoomOf(c)' = "out"
  BY <1>1, <1>2, <1>3 DEF Room, RoomOf, Queued, AtTable, InPlayLoop, IInv, TypeOK
<1>5. \A d \in Clients \ {c} : RoomOf(d)' = RoomOf(d)
  BY <1>1, <1>2 DEF RoomOf, Queued, AtTable, InPlayLoop, IInv, TypeOK
<1>6. Room' = [Room EXCEPT ![c] = "out"]
  BY <1>4, <1>5 DEF Room
<1> QED
  BY <1>2, <1>4, <1>6 DEF L!Return, Room

\* The timeout turns away the announced player, and only that one.
LEMMA ExpireRefines == ASSUME IInv, Expire PROVE L!Expire(waitingPlayer)
<1> DEFINE q == matchmakingQueue
<1> PICK w : w = waitingPlayer
  OBVIOUS
<1>1. /\ q \in Seq(Clients) /\ q # <<>> /\ Head(q) = w /\ IsInjective(q) /\ q' = Tail(q)
      /\ UNCHANGED <<games, pair, pc>>
  BY DEF IInv, TypeOK, MatchmakerInv, TimeoutHitsFront, QueueInv, Expire, handlerVars
<1>2. w \in Clients /\ Queued(w) /\ \A c : Queued(c)' <=> Queued(c) /\ c # w
  BY <1>1, RangeTail DEF Queued
<1> HIDE DEF q
<1>3. Seats' = Seats
  BY <1>1 DEF Seats
<1>4. Joined(w) /\ ~Popped(w) /\ w \notin playingSet
  BY <1>2 DEF IInv, QueueInv
<1>5. ~AtTable(w)
  BY <1>2, <1>4, AtTableMeans DEF AtTableExact, IInv, GamesInv, PlayingSetExact
<1>6. Room[w] = "queued" /\ RoomOf(w)' = "leaving"
  BY <1>1, <1>2, <1>3, <1>4, <1>5 DEF Room, RoomOf, AtTable, InPlayLoop, Joined
<1>7. \A c \in Clients \ {w} : RoomOf(c)' = RoomOf(c)
  BY <1>1, <1>2, <1>3 DEF RoomOf, AtTable, InPlayLoop
<1>8. Room' = [Room EXCEPT ![w] = "leaving"]
  BY <1>6, <1>7 DEF Room
<1> QED
  BY <1>3, <1>6, <1>8 DEF L!Expire, Room

\* Joining the matchmaking queue is entering the lobby's.
LEMMA EnqueueRefines == ASSUME IInv, NEW c \in Clients, Enqueue(c) PROVE L!Enter(c)
<1> DEFINE q == matchmakingQueue
<1>1. /\ pc[c] = "join" /\ q' = Append(q, c) /\ UNCHANGED <<games, pair>>
      /\ pc' = [pc EXCEPT ![c] = "arm"] /\ q \in Seq(Clients)
  BY DEF Enqueue, Goto, IInv, TypeOK
<1>2. \A d : Queued(d)' <=> Queued(d) \/ d = c
  BY <1>1, RangeAppend DEF Queued
<1> HIDE DEF q
<1>3. Seats' = Seats
  BY <1>1 DEF Seats
<1>4. ~Queued(c) /\ ~AtTable(c)
  BY <1>1, OutsideIsNowhere, AtTableMeans DEF AtTableExact, InPlayLoop
<1>5. Room[c] = "out" /\ RoomOf(c)' = "queued"
  BY <1>1, <1>2, <1>4 DEF Room, RoomOf, InPlayLoop
<1>6. \A d \in Clients \ {c} : RoomOf(d)' = RoomOf(d)
  BY <1>1, <1>2, <1>3 DEF RoomOf, AtTable, InPlayLoop, IInv, TypeOK
<1>7. Room' = [Room EXCEPT ![c] = "queued"]
  BY <1>5, <1>6 DEF Room
<1> QED
  BY <1>3, <1>5, <1>7 DEF L!Enter, Room

\* The two oldest clients of the queue sit down together.
LEMMA PopPairRefines ==
    ASSUME IInv, PopPair PROVE \E a, b \in Clients : L!Pair(a, b)
<1> DEFINE q == matchmakingQueue
<1> PICK a, b : a = q[1] /\ b = q[2]
  OBVIOUS
<1>1. /\ q \in Seq(Clients) /\ Len(q) >= 2 /\ IsInjective(q) /\ q' = Tail(Tail(q))
      /\ pair = <<>> /\ pair' = <<a, b>> /\ UNCHANGED <<games, pc>>
  BY DEF IInv, TypeOK, MatchmakerInv, QueueInv, PopPair, FirstPlayer, SecondPlayer, handlerVars
<1>2. /\ a \in Clients /\ b \in Clients /\ a # b /\ Queued(a) /\ Queued(b)
      /\ \A c : Queued(c)' <=> Queued(c) /\ c # a /\ c # b
  BY <1>1, RangePop2 DEF Queued
<1> HIDE DEF q
<1>3. Seats' = Seats \cup {<<a, b>>}
  BY <1>1 DEF Seats
<1>4. \A c : AtTable(c)' <=> AtTable(c) \/ c = a \/ c = b
  <2>1. <<a, b>>[1] = a /\ <<a, b>>[2] = b
    OBVIOUS
  <2> QED
    BY <1>3, <2>1 DEF AtTable
<1>5. Room[a] = "queued" /\ Room[b] = "queued" /\ RoomOf(a)' = "playing" /\ RoomOf(b)' = "playing"
  BY <1>2, <1>4 DEF Room, RoomOf
<1>6. \A c \in Clients \ {a, b} : RoomOf(c)' = RoomOf(c)
  BY <1>1, <1>2, <1>4 DEF RoomOf, InPlayLoop
<1>7. Room' = [Room EXCEPT ![a] = "playing", ![b] = "playing"]
  BY <1>2, <1>5, <1>6 DEF Room
<1>8. L!Pair(a, b)
  BY <1>2, <1>3, <1>5, <1>7 DEF L!Pair, Room
<1> QED
  BY <1>2, <1>8

\* Erasing both players closes their table for both at once.
LEMMA EndGameRefines == ASSUME IInv, NEW g \in games, EndGame(g) PROVE L!Close(g.p1, g.p2)
<1> DEFINE h == [g EXCEPT !.pc = "tell", !.lost = FALSE]  a == g.p1  b == g.p2
<1>1. /\ Live(g) /\ games' = (games \ {g}) \cup {h} /\ UNCHANGED <<matchmakingQueue, pair, pc>>
  BY DEF EndGame, Step, mmVars, Live
<1>2. ~Live(h)
  BY DEF IInv, TypeOK, Games, Live
<1>3. a \in Clients /\ b \in Clients /\ Plays(g, a) /\ Plays(g, b)
  BY DEF IInv, TypeOK, Games, Plays
<1>4. ~Queued(a) /\ ~Queued(b) /\ InPlayLoop(a) /\ InPlayLoop(b) /\ ~Popped(a) /\ ~Popped(b)
  <2>1. a \in playingSet /\ b \in playingSet
    BY <1>1, <1>3 DEF IInv, GamesInv, PlayingSetExact
  <2>2. \A c \in Clients : Popped(c) => mmPc \in {"seat", "start"}
    BY DEF IInv, MatchmakerInv, Popped
  <2> QED
    BY <1>1, <1>3, <2>1, <2>2 DEF IInv, GamesInv, QueueInv, PairInv
<1> HIDE DEF h
<1>5. \A f \in games : Live(f) /\ f # g => ~Plays(f, a) /\ ~Plays(f, b)
  BY <1>1, <1>3 DEF IInv, GamesInv
<1>6. Seats' = Seats \ {<<a, b>>}
  <2>1. \A f \in games : Live(f) /\ f # g => <<f.p1, f.p2>> # <<a, b>>
    BY <1>5 DEF Plays
  <2>2. pair # <<>> => pair # <<a, b>>
    BY <1>4 DEF Popped
  <2>3. {f \in games' : Live(f)} = {f \in games : Live(f)} \ {g}
    BY <1>1, <1>2
  <2>4. {<<f.p1, f.p2>> : f \in {f \in games' : Live(f)}}
            = {<<f.p1, f.p2>> : f \in {f \in games : Live(f)}} \ {<<a, b>>}
    BY <2>1, <2>3
  <2>5. CASE pair = <<>>
    BY <1>1, <2>4, <2>5 DEF Seats
  <2>6. CASE pair # <<>>
    BY <1>1, <2>2, <2>4, <2>6 DEF Seats
  <2> QED
    BY <2>5, <2>6
<1>7. <<a, b>> \in Seats
  BY <1>1 DEF Seats
<1>8. AtTable(a) /\ AtTable(b)
  BY <1>1, <1>3, AtTableMeans DEF AtTableExact
<1>9. ~AtTable(a)' /\ ~AtTable(b)'
  <2>1. AtTableExact'
    BY AtTableMeans, PTL
  <2>2. ~Popped(a)' /\ ~Popped(b)'
    BY <1>1, <1>4 DEF Popped
  <2> QED
    BY <1>1, <1>2, <1>5, <2>1, <2>2 DEF AtTableExact
<1>10. \A c \in Clients \ {a, b} : AtTable(c)' <=> AtTable(c)
  BY <1>6 DEF AtTable
<1>11. /\ RoomOf(a)' = "leaving" /\ RoomOf(b)' = "leaving"
  BY <1>1, <1>4, <1>9 DEF RoomOf, Queued, InPlayLoop
<1>12. \A c \in Clients \ {a, b} : RoomOf(c)' = RoomOf(c)
  BY <1>1, <1>10 DEF RoomOf, Queued, InPlayLoop
<1>13. Room' = [Room EXCEPT ![a] = "leaving", ![b] = "leaving"]
  BY <1>3, <1>11, <1>12 DEF Room
<1> QED
  BY <1>6, <1>7, <1>13 DEF L!Close, Room

\* Starting the thread of the popped pair leaves the pair at its table.
LEMMA StartGameStutters == ASSUME IInv, StartGame PROVE UNCHANGED L!lobbyVars
<1> DEFINE new == [p1 |-> pair[1], p2 |-> pair[2], pc |-> "recv1", lost |-> FALSE]
<1>1. /\ pair # <<>> /\ pair = <<pair[1], pair[2]>> /\ pair' = <<>>
      /\ games' = games \cup {new} /\ UNCHANGED <<matchmakingQueue, pc>>
  BY PairTyped DEF IInv, MatchmakerInv, StartGame
<1>2. new.p1 = pair[1] /\ new.p2 = pair[2] /\ Live(new)
  BY DEF Live
<1> HIDE DEF new
<1>3. {g \in games' : Live(g)} = {g \in games : Live(g)} \cup {new}
  BY <1>1, <1>2
<1>4. {<<g.p1, g.p2>> : g \in {g \in games' : Live(g)}}
          = {<<g.p1, g.p2>> : g \in {g \in games : Live(g)}} \cup {pair}
  BY <1>1, <1>2, <1>3
<1>5. Seats' = Seats
  BY <1>1, <1>4 DEF Seats
<1> QED
  BY <1>1, <1>5, Stutters DEF InPlayLoop

\* A round changes neither the players nor whether the game runs.
LEMMA GoesOnStutters ==
    ASSUME IInv, NEW g \in games, NEW h, h.p1 = g.p1, h.p2 = g.p2, Live(g), Live(h), Step(g, h)
    PROVE  UNCHANGED L!lobbyVars
<1>1. games' = (games \ {g}) \cup {h} /\ UNCHANGED <<matchmakingQueue, pair, pc>>
  BY DEF Step, mmVars
<1>2. {<<f.p1, f.p2>> : f \in {f \in games' : Live(f)}}
          = {<<f.p1, f.p2>> : f \in {f \in games : Live(f)}}
  BY <1>1
<1>3. Seats' = Seats
  BY <1>1, <1>2 DEF Seats
<1> QED
  BY <1>1, <1>3, Stutters DEF InPlayLoop

\* Nothing else a game thread does shows in the lobby.
LEMMA GameRefines ==
    ASSUME IInv, NEW g \in games, Game(g) PROVE [L!LobbyNext]_L!lobbyVars
<1>1. g \in Games /\ g.p1 \in Clients /\ g.p2 \in Clients
  BY DEF IInv, TypeOK, Games
<1>2. CASE Recv1(g)
  BY <1>1, <1>2, GoesOnStutters DEF Recv1, Live, Games
<1>3. CASE Recv2(g)
  BY <1>1, <1>3, GoesOnStutters DEF Recv2, Live, Games
<1>4. CASE NextRound(g)
  BY <1>1, <1>4, GoesOnStutters DEF NextRound, Live, Games
<1>5. CASE EndGame(g)
  BY <1>1, <1>5, EndGameRefines DEF L!LobbyNext
<1>6. CASE Tell(g)
  <2>1. games' = games \ {g} /\ ~Live(g) /\ UNCHANGED <<matchmakingQueue, pair, pc>>
    BY <1>6 DEF Tell, mmVars, Live
  <2>2. {f \in games' : Live(f)} = {f \in games : Live(f)}
    BY <2>1
  <2>3. Seats' = Seats
    BY <2>1, <2>2 DEF Seats
  <2> QED
    BY <2>1, <2>3, Stutters DEF InPlayLoop
<1> QED
  BY <1>2, <1>3, <1>4, <1>5, <1>6 DEF Game

\* A handler enters the lobby, leaves it, or does something that does not show.
LEMMA HandlerRefines ==
    ASSUME IInv, NEW c \in Clients, Handler(c) PROVE [L!LobbyNext]_L!lobbyVars
<1>1. pc \in [Clients -> HandlerPcs]
  BY DEF IInv, TypeOK
<1>2. CASE Enqueue(c)
  BY <1>2, EnqueueRefines DEF L!LobbyNext
<1>3. CASE GiveUp(c)
  <2>1. ~Queued(c)
    <3>1. CASE Ahead(c)
      BY <1>3, <3>1, TimeoutsAssumption DEF IInv, TimeInv, Ahead, GiveUp, TypeOK
    <3>2. CASE ~Ahead(c)
      BY <1>3, <3>2, TimeoutsAssumption DEF IInv, TimeInv, GiveUp
    <3> QED
      BY <3>1, <3>2
  <2>2. ~(Popped(c) /\ mmPc = "seat")
    BY <1>3 DEF IInv, PairInv, GiveUp
  <2> QED
    BY <1>3, <2>1, <2>2, ReturnRefines DEF GiveUp, InPlayLoop, L!LobbyNext
<1>4. CASE GameOver(c)
  <2>1. ~Queued(c) /\ ~(Popped(c) /\ mmPc = "seat")
    BY <1>4 DEF IInv, QueueInv, PairInv, Joined, GameOver
  <2> QED
    BY <1>4, <2>1, ReturnRefines DEF GameOver, InPlayLoop, L!LobbyNext
<1>5. CASE Play(c) \/ Exit(c) \/ Arm(c) \/ Seated(c) \/ BlockAgain(c)
  <2>1. UNCHANGED <<matchmakingQueue, games, pair>>
    BY <1>5 DEF Play, Exit, Arm, Seated, BlockAgain, Moves, mmVars
  <2>2. \A d \in Clients : InPlayLoop(d)' <=> InPlayLoop(d)
    BY <1>1, <1>5 DEF Play, Exit, Arm, Seated, BlockAgain, Moves, Goto, InPlayLoop
  <2>3. Seats' = Seats
    BY <2>1 DEF Seats
  <2> QED
    BY <2>1, <2>2, <2>3, Stutters
<1> QED
  BY <1>2, <1>3, <1>4, <1>5 DEF Handler, Wake

\* Every step of the server is a step of the lobby, or stutters.
LEMMA StepRefines == IInv /\ [Next]_vars => [L!LobbyNext]_L!lobbyVars
<1> SUFFICES ASSUME IInv, [Next]_vars PROVE [L!LobbyNext]_L!lobbyVars
  OBVIOUS
<1>1. pc \in [Clients -> HandlerPcs]
  BY DEF IInv, TypeOK
<1>2. CASE Expire
  <2>1. waitingPlayer \in Clients
    BY <1>2, RangeTail DEF IInv, TypeOK, MatchmakerInv, TimeoutHitsFront, Expire
  <2> QED
    BY <1>2, <2>1, ExpireRefines DEF L!LobbyNext
<1>3. CASE PopPair
  BY <1>3, PopPairRefines DEF L!LobbyNext
<1>4. CASE StartGame
  BY <1>4, StartGameStutters
<1>5. CASE Idle \/ Announce \/ EndSleep \/ Seat \/ Tick \/ UNCHANGED vars
  <2>1. UNCHANGED <<matchmakingQueue, games, pair, pc>>
    BY <1>5 DEF Idle, Announce, EndSleep, Seat, Tick, vars, mmVars, handlerVars
  <2>2. Seats' = Seats
    BY <2>1 DEF Seats
  <2> QED
    BY <2>1, <2>2, Stutters DEF InPlayLoop
<1>6. ASSUME NEW c \in Clients, Connect(c) \/ Disconnect(c) PROVE UNCHANGED L!lobbyVars
  <2>1. UNCHANGED <<matchmakingQueue, games, pair>>
    BY <1>6 DEF Connect, Disconnect, mmVars
  <2>2. \A d \in Clients : InPlayLoop(d)' <=> InPlayLoop(d)
    BY <1>1, <1>6 DEF Connect, Disconnect, Goto, InPlayLoop, handlerVars
  <2>3. Seats' = Seats
    BY <2>1 DEF Seats
  <2> QED
    BY <2>1, <2>2, <2>3, Stutters
<1> QED
  BY <1>2, <1>3, <1>4, <1>5, <1>6, HandlerRefines, GameRefines DEF Next, Matchmaker

\* Whatever the threads and clients do, the server behaves as a Lobby.
THEOREM MatchmakingImplementsLobby == Spec => LobbySpec
<1> QED
  BY Invariance, InitRefines, StepRefines, PTL DEF Spec, LobbySpec, L!LobbySpec
=============================================================================
