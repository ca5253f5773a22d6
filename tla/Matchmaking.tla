---------------------------- MODULE Matchmaking ----------------------------
(***************************************************************************)
(* The threads of the WordExchange server that pair players and run their  *)
(* games (src/src/Server.cpp): the matchmaker (startMatchmaking), one      *)
(* handler per connection (the main menu and playLoop) and one thread per  *)
(* game (startGameSession).  They share matchmakingQueue, guarded by       *)
(* matchmakingMutex, and playingSet, guarded by playingMutex, and wake one *)
(* another through matchmakingCV and playingCV.                            *)
(*                                                                         *)
(* A client stands for a SOCKET value and the name logged in on it; a      *)
(* closed value may be reused by a later connection.  Time is counted in   *)
(* ticks.  Handlers and game threads may be arbitrarily slow; only the     *)
(* matchmaker is assumed to run within the tick in which it is ready.      *)
(***************************************************************************)
EXTENDS Integers, Sequences, Functions

CONSTANTS
    Clients,       \* SOCKET values
    Pause,         \* how long the matchmaker sleeps holding the mutex (1 s)
    MatchTimeout,  \* how long it then waits for a second player (30 s)
    PlayTimeout    \* how long a handler waits for its game to start (35 s)

ASSUME TimeoutsAssumption ==
    /\ Pause \in Nat \ {0} /\ MatchTimeout \in Nat \ {0} /\ PlayTimeout \in Nat
    /\ PlayTimeout > Pause + MatchTimeout

VARIABLES
    matchmakingQueue,  \* clients waiting for a partner
    playingSet,        \* clients whose handler must wait for their game to end
    games,             \* the running game threads
    mmPc,              \* where the matchmaker is
    mmLeft,            \* what is left of its sleep or timed wait
    mmNotified,        \* notify_one reached it while it was blocked
    waitingPlayer,     \* its copy of the queue's front; <<>> when out of scope
    pair,              \* its player1 and player2 until their thread runs; else <<>>
    pc,                \* where each handler is
    left,              \* what is left of the handler's timed wait
    notified,          \* handlers playingCV has woken and that have not looked yet
    up                 \* does recv on its socket still deliver?

mmVars == <<mmPc, mmLeft, mmNotified, waitingPlayer, pair>>
handlerVars == <<pc, left, notified>>
vars == <<matchmakingQueue, playingSet, games, mmVars, handlerVars, up>>

GamePcs == {"recv1", "recv2", "judge", "tell"}
Games == [p1 : Clients, p2 : Clients, pc : GamePcs, lost : BOOLEAN]
MmPcs == {"top", "idle", "sleep", "timed", "seat", "start"}
HandlerPcs == {"closed", "menu", "join", "arm", "wait1", "wait2"}

Init ==
    /\ matchmakingQueue = <<>> /\ playingSet = {} /\ games = {}
    /\ mmPc = "top" /\ mmLeft = 0 /\ mmNotified = FALSE
    /\ waitingPlayer = <<>> /\ pair = <<>>
    /\ pc = [c \in Clients |-> "closed"]
    /\ left = [c \in Clients |-> PlayTimeout]
    /\ notified = {}
    /\ up = [c \in Clients |-> FALSE]
-----------------------------------------------------------------------------
(* The matchmaker.  "top" is the head of the loop, "idle" the wait for a   *)
(* first player, "sleep" the pause that keeps matchmakingMutex, "timed"    *)
(* the wait for a second player, which releases it.                        *)

\* Nobody queued: block in matchmakingCV.wait.
Idle ==
    /\ mmPc = "top" /\ matchmakingQueue = <<>>
    /\ mmPc' = "idle" /\ mmNotified' = FALSE
    /\ UNCHANGED <<matchmakingQueue, playingSet, games, mmLeft, waitingPlayer, pair, handlerVars, up>>

\* The wait for a first player is over.
FirstPlayer == mmPc = "top" \/ (mmPc = "idle" /\ mmNotified)

\* One player: tell it to wait and sleep, still holding the mutex.
Announce ==
    /\ FirstPlayer /\ Len(matchmakingQueue) = 1
    /\ mmPc' = "sleep" /\ mmLeft' = Pause /\ mmNotified' = FALSE
    /\ waitingPlayer' = Head(matchmakingQueue)
    /\ UNCHANGED <<matchmakingQueue, playingSet, games, pair, handlerVars, up>>

\* Mutant of EndSleep: the second wait is as long as playLoop's.
EndSleepLong ==
    /\ mmPc = "sleep" /\ mmLeft = 0
    /\ mmPc' = "timed" /\ mmLeft' = PlayTimeout
    /\ UNCHANGED <<matchmakingQueue, playingSet, games, mmNotified, waitingPlayer, pair, handlerVars, up>>

\* The sleep is over: wait_for a second player, releasing the mutex.  The queue
\* cannot have grown during the sleep, so the predicate is still false here.
EndSleep ==
    /\ mmPc = "sleep" /\ mmLeft = 0
    /\ mmPc' = "timed" /\ mmLeft' = MatchTimeout
    /\ UNCHANGED <<matchmakingQueue, playingSet, games, mmNotified, waitingPlayer, pair, handlerVars, up>>

\* Nobody came: drop the front of the queue and send waitingPlayer away.
Expire ==
    /\ mmPc = "timed" /\ mmLeft = 0 /\ Len(matchmakingQueue) < 2
    /\ matchmakingQueue' = Tail(matchmakingQueue)
    /\ mmPc' = "top" /\ mmNotified' = FALSE /\ waitingPlayer' = <<>>
    /\ UNCHANGED <<playingSet, games, mmLeft, pair, handlerVars, up>>

\* The timed wait is over, by notification or by timeout.
SecondPlayer == mmPc = "timed" /\ (mmNotified \/ mmLeft = 0)

\* Mutant of PopPair: the second pop is forgotten.
PopPairKeepsSecond ==
    /\ FirstPlayer \/ SecondPlayer
    /\ Len(matchmakingQueue) >= 2
    /\ pair' = <<matchmakingQueue[1], matchmakingQueue[2]>>
    /\ matchmakingQueue' = Tail(matchmakingQueue)
    /\ mmPc' = "seat" /\ mmLeft' = 0 /\ mmNotified' = FALSE /\ waitingPlayer' = <<>>
    /\ UNCHANGED <<playingSet, games, handlerVars, up>>

\* Mutant of PopPair: wait_for without its predicate, so that whatever wakes the
\* matchmaker is taken for a second player; front() of an empty queue is nobody.
PopPairUnchecked ==
    /\ (FirstPlayer /\ Len(matchmakingQueue) >= 2) \/ SecondPlayer
    /\ pair' = <<matchmakingQueue[1], IF Len(matchmakingQueue) = 1 THEN <<>> ELSE matchmakingQueue[2]>>
    /\ matchmakingQueue' = SubSeq(matchmakingQueue, 3, Len(matchmakingQueue))
    /\ mmPc' = "seat" /\ mmLeft' = 0 /\ mmNotified' = FALSE /\ waitingPlayer' = <<>>
    /\ UNCHANGED <<playingSet, games, handlerVars, up>>

\* Two players: pop them and release the mutex.
PopPair ==
    /\ FirstPlayer \/ SecondPlayer
    /\ Len(matchmakingQueue) >= 2
    /\ pair' = <<matchmakingQueue[1], matchmakingQueue[2]>>
    /\ matchmakingQueue' = Tail(Tail(matchmakingQueue))
    /\ mmPc' = "seat" /\ mmLeft' = 0 /\ mmNotified' = FALSE /\ waitingPlayer' = <<>>
    /\ UNCHANGED <<playingSet, games, handlerVars, up>>

\* Insert both in playingSet under playingMutex.
Seat ==
    /\ mmPc = "seat"
    /\ playingSet' = playingSet \cup {pair[1], pair[2]}
    /\ mmPc' = "start"
    /\ UNCHANGED <<matchmakingQueue, games, mmLeft, mmNotified, waitingPlayer, pair, handlerVars, up>>

\* The handlers blocked on playingCV, all woken by notify_all.
Waiting == {c \in Clients : pc[c] \in {"wait1", "wait2"}}

\* Mutant of StartGame: playingCV.notify_all is forgotten.
StartGameSilent ==
    /\ mmPc = "start"
    /\ games' = games \cup {[p1 |-> pair[1], p2 |-> pair[2], pc |-> "recv1", lost |-> FALSE]}
    /\ mmPc' = "top" /\ pair' = <<>>
    /\ UNCHANGED <<matchmakingQueue, playingSet, mmLeft, mmNotified, waitingPlayer, handlerVars, up>>

\* Wake the handlers and start the game thread.
StartGame ==
    /\ mmPc = "start"
    /\ notified' = Waiting
    /\ games' = games \cup {[p1 |-> pair[1], p2 |-> pair[2], pc |-> "recv1", lost |-> FALSE]}
    /\ mmPc' = "top" /\ pair' = <<>>
    /\ UNCHANGED <<matchmakingQueue, playingSet, mmLeft, mmNotified, waitingPlayer, pc, left, up>>

Matchmaker ==
    Idle \/ Announce \/ EndSleep \/ Expire \/ PopPair \/ Seat \/ StartGame

\* The matchmaker can take a step without waiting for time or for a player.
MatchmakerReady ==
    \/ mmPc \in {"top", "seat", "start"}
    \/ mmPc = "idle" /\ mmNotified
    \/ mmPc = "sleep" /\ mmLeft = 0
    \/ SecondPlayer
-----------------------------------------------------------------------------
(* The handler of a connection: the main menu and playLoop.                *)

Goto(c, to) == pc' = [pc EXCEPT ![c] = to]

\* "play" at the main menu.
Play(c) ==
    /\ pc[c] = "menu" /\ up[c]
    /\ Goto(c, "join")
    /\ UNCHANGED <<matchmakingQueue, playingSet, games, mmVars, left, notified, up>>

\* "exit", any other text, or a lost connection at the main menu.
Exit(c) ==
    /\ pc[c] = "menu"
    /\ Goto(c, "closed")
    /\ up' = [up EXCEPT ![c] = FALSE]
    /\ UNCHANGED <<matchmakingQueue, playingSet, games, mmVars, left, notified>>

\* Mutant of Enqueue: matchmakingCV.notify_one is forgotten.
EnqueueSilent(c) ==
    /\ pc[c] = "join" /\ mmPc # "sleep"
    /\ matchmakingQueue' = Append(matchmakingQueue, c)
    /\ Goto(c, "arm")
    /\ UNCHANGED <<playingSet, games, mmVars, left, notified, up>>

\* matchmakingMutex is free: the matchmaker keeps it only while it sleeps.
Enqueue(c) ==
    /\ pc[c] = "join" /\ mmPc # "sleep"
    /\ matchmakingQueue' = Append(matchmakingQueue, c)
    /\ mmNotified' = (mmNotified \/ mmPc \in {"idle", "timed"})
    /\ Goto(c, "arm")
    /\ UNCHANGED <<playingSet, games, mmPc, mmLeft, waitingPlayer, pair, left, notified, up>>

\* Enter wait_for on playingCV: the predicate is looked at before blocking.
Arm(c) ==
    /\ pc[c] = "arm"
    /\ Goto(c, IF c \in playingSet THEN "wait2" ELSE "wait1")
    /\ UNCHANGED <<matchmakingQueue, playingSet, games, mmVars, left, notified, up>>

Moves(c, to) ==
    /\ Goto(c, to)
    /\ left' = [left EXCEPT ![c] = PlayTimeout]
    /\ notified' = notified \ {c}
    /\ UNCHANGED <<matchmakingQueue, playingSet, games, mmVars, up>>

\* The game has started: wait for its end.  (Also after a spurious wake-up.)
Seated(c) == pc[c] = "wait1" /\ c \in playingSet /\ Moves(c, "wait2")

\* Mutant of GiveUp: the handler, too, pops the queue.
GiveUpPops(c) ==
    /\ pc[c] = "wait1" /\ left[c] = 0 /\ c \notin playingSet
    /\ Goto(c, "menu")
    /\ left' = [left EXCEPT ![c] = PlayTimeout]
    /\ matchmakingQueue' = IF matchmakingQueue = <<>> THEN <<>> ELSE Tail(matchmakingQueue)
    /\ UNCHANGED <<playingSet, games, mmVars, notified, up>>

\* Mutant of GiveUp: wait for wait_for.
GiveUpNever(c) == FALSE

\* The timed wait ran out and no game has started: back to the menu.
GiveUp(c) == pc[c] = "wait1" /\ left[c] = 0 /\ c \notin playingSet /\ Moves(c, "menu")

\* The game is over: back to the menu.
GameOver(c) == pc[c] = "wait2" /\ c \notin playingSet /\ Moves(c, "menu")

\* Woken for another player's sake: block again.
BlockAgain(c) ==
    /\ c \in notified
    /\ \/ pc[c] = "wait1" /\ c \notin playingSet
       \/ pc[c] = "wait2" /\ c \in playingSet
    /\ notified' = notified \ {c}
    /\ UNCHANGED <<matchmakingQueue, playingSet, games, mmVars, pc, left, up>>

Wake(c) == Seated(c) \/ GiveUp(c) \/ GameOver(c) \/ BlockAgain(c)

Handler(c) == Play(c) \/ Exit(c) \/ Enqueue(c) \/ Arm(c) \/ Wake(c)
-----------------------------------------------------------------------------
(* A game thread.  What the players type is reduced to whether recv        *)
(* delivered it and, in NextRound or EndGame, whether the words differ.     *)

Step(g, h) ==
    /\ games' = (games \ {g}) \cup {h}
    /\ UNCHANGED <<matchmakingQueue, mmVars, pc, left, up>>

\* recv on the first player's socket: its word, or the loss of its connection.
Recv1(g) ==
    /\ g.pc = "recv1"
    /\ Step(g, [g EXCEPT !.pc = "recv2", !.lost = ~up[g.p1]])
    /\ UNCHANGED <<playingSet, notified>>

\* recv on the second player's socket, whatever came from the first.
Recv2(g) ==
    /\ g.pc = "recv2"
    /\ Step(g, [g EXCEPT !.pc = "judge", !.lost = @ \/ ~up[g.p2]])
    /\ UNCHANGED <<playingSet, notified>>

\* Both words arrived and differ.
NextRound(g) ==
    /\ g.pc = "judge" /\ ~g.lost
    /\ Step(g, [g EXCEPT !.pc = "recv1"])
    /\ UNCHANGED <<playingSet, notified>>

\* Mutant of EndGame: only the first player is erased.
EndGameErasesOne(g) ==
    /\ g.pc = "judge"
    /\ playingSet' = playingSet \ {g.p1}
    /\ Step(g, [g EXCEPT !.pc = "tell", !.lost = FALSE])
    /\ UNCHANGED notified

\* A player is lost, or the words match and the session has been recorded.
EndGame(g) ==
    /\ g.pc = "judge"
    /\ playingSet' = playingSet \ {g.p1, g.p2}
    /\ Step(g, [g EXCEPT !.pc = "tell", !.lost = FALSE])
    /\ UNCHANGED notified

\* playingCV.notify_all, outside playingMutex; the thread ends.
Tell(g) ==
    /\ g.pc = "tell"
    /\ games' = games \ {g}
    /\ notified' = Waiting
    /\ UNCHANGED <<matchmakingQueue, playingSet, mmVars, pc, left, up>>

Game(g) == Recv1(g) \/ Recv2(g) \/ NextRound(g) \/ EndGame(g) \/ Tell(g)
-----------------------------------------------------------------------------
(* The environment: connections (logged in elsewhere) and time.            *)

Connect(c) ==
    /\ pc[c] = "closed"
    /\ Goto(c, "menu")
    /\ up' = [up EXCEPT ![c] = TRUE]
    /\ UNCHANGED <<matchmakingQueue, playingSet, games, mmVars, left, notified>>

\* The peer is gone, and nothing it has sent is left to be read.
Disconnect(c) ==
    /\ up[c]
    /\ up' = [up EXCEPT ![c] = FALSE]
    /\ UNCHANGED <<matchmakingQueue, playingSet, games, mmVars, handlerVars>>

Less(n) == IF n = 0 THEN 0 ELSE n - 1

\* The clients whose timed wait is running.
Timing == {c \in Clients : pc[c] = "wait1" /\ left[c] > 0}

Tick ==
    /\ ~MatchmakerReady
    /\ mmPc # "idle" \/ Timing # {}
    /\ mmLeft' = Less(mmLeft)
    /\ left' = [c \in Clients |-> IF c \in Timing THEN left[c] - 1 ELSE left[c]]
    /\ UNCHANGED <<matchmakingQueue, playingSet, games, mmPc, mmNotified, waitingPlayer, pair, pc, notified, up>>

Next ==
    \/ Matchmaker
    \/ \E c \in Clients : Handler(c)
    \/ \E g \in games : Game(g)
    \/ \E c \in Clients : Connect(c) \/ Disconnect(c)
    \/ Tick

Spec == Init /\ [][Next]_vars
=============================================================================
