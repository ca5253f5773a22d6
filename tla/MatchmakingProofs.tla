------------------------- MODULE MatchmakingProofs -------------------------
(***************************************************************************)
(* Proofs about Matchmaking for every set of clients and every choice of   *)
(* timeouts in which playLoop waits longer than the matchmaker.            *)
(***************************************************************************)
EXTENDS MatchmakingProps, QueueLemmas

\* Nobody is connected, queued or playing at the start.
LEMMA InitIInv == Init => IInv
<1> SUFFICES ASSUME Init PROVE IInv
  OBVIOUS
<1> USE TimeoutsAssumption DEF Init
<1>1. TypeOK
  <2>1. matchmakingQueue \in Seq(Clients)
    BY EmptySeq
  <2>2. waitingPlayer \in Clients \cup {<<>>} /\ pair \in (Clients \X Clients) \cup {<<>>}
    OBVIOUS
  <2>3. /\ pc \in [Clients -> HandlerPcs] /\ up \in [Clients -> BOOLEAN]
        /\ left \in [Clients -> 0..PlayTimeout]
    BY DEF HandlerPcs
  <2>4. /\ playingSet \subseteq Clients /\ games \subseteq Games /\ notified \subseteq Clients
        /\ mmPc \in MmPcs /\ mmLeft \in Nat /\ mmNotified \in BOOLEAN
    BY DEF MmPcs
  <2> QED
    BY <2>1, <2>2, <2>3, <2>4 DEF TypeOK
<1>2. Range(matchmakingQueue) = {} /\ IsInjective(matchmakingQueue)
  BY EmptySeq
<1>3. MatchmakerInv
  BY DEF MatchmakerInv, TimeoutHitsFront
<1>4. QueueInv
  BY <1>2 DEF QueueInv, Queued
<1>5. PairInv
  BY DEF PairInv, Popped
<1>6. GamesInv
  BY DEF GamesInv, PlayingSetExact
<1>7. TimeInv
  BY <1>2 DEF TimeInv, Queued
<1>8. WakeInv
  BY DEF WakeInv
<1> QED
  BY <1>1, <1>3, <1>4, <1>5, <1>6, <1>7, <1>8 DEF IInv
-----------------------------------------------------------------------------
(* The matchmaker.                                                         *)

\* pair, once set, is a pair of clients.
LEMMA PairTyped ==
    ASSUME TypeOK, pair # <<>>
    PROVE  pair[1] \in Clients /\ pair[2] \in Clients /\ pair = <<pair[1], pair[2]>>
BY DEF TypeOK

\* The matchmaker blocks with nothing in the queue that it could have missed.
LEMMA StepIdle == ASSUME IInv, Idle PROVE IInv'
<1> USE TimeoutsAssumption DEF IInv
<1>1. TypeOK'
  BY DEF TypeOK, Idle, MmPcs, handlerVars
<1>2. MatchmakerInv'
  BY DEF MatchmakerInv, TimeoutHitsFront, Idle
<1>3. QueueInv'
  BY DEF QueueInv, Queued, Joined, Popped, Idle, handlerVars
<1>4. PairInv' 
  BY DEF PairInv, MatchmakerInv, Popped, Idle, handlerVars
<1>5. GamesInv'
  BY DEF GamesInv, PlayingSetExact, MatchmakerInv, InPlayLoop, Popped, Live, Plays, Idle, handlerVars
<1>6. TimeInv'
  BY DEF TimeInv, Ahead, Queued, Idle, handlerVars
<1>7. WakeInv'
  BY DEF WakeInv, Live, Idle, handlerVars
<1> QED
  BY <1>1, <1>2, <1>3, <1>4, <1>5, <1>6, <1>7

\* The player announced has its 35 s before it: more than the sleep and the wait.
LEMMA StepAnnounce == ASSUME IInv, Announce PROVE IInv'
<1> USE TimeoutsAssumption DEF IInv
<1>1. matchmakingQueue # <<>> /\ Head(matchmakingQueue) \in Clients
  <2>1. matchmakingQueue \in Seq(Clients) /\ Len(matchmakingQueue) = 1
    BY DEF TypeOK, Announce
  <2>2. matchmakingQueue # <<>>
    BY <2>1, NonEmptySeq
  <2> QED
    BY <2>1, <2>2, RangeTail
<1>2. Queued(Head(matchmakingQueue)) /\ mmPc \in {"top", "idle"}
  BY <1>1, RangeTail DEF TypeOK, Announce, FirstPlayer, Queued
<1>3. TypeOK'
  BY <1>1 DEF TypeOK, Announce, MmPcs, handlerVars
<1>4. MatchmakerInv'
  BY <1>1, <1>2 DEF MatchmakerInv, TimeoutHitsFront, Announce
<1>5. QueueInv'
  BY DEF QueueInv, Queued, Joined, Popped, Announce, handlerVars
<1>6. PairInv'
  BY <1>2 DEF PairInv, MatchmakerInv, Popped, Announce, handlerVars
<1>7. GamesInv'
  BY <1>2 DEF GamesInv, PlayingSetExact, MatchmakerInv, InPlayLoop, Popped, Live, Plays,
    Announce, handlerVars
<1>8. TimeInv'
  <2>1. left[Head(matchmakingQueue)] = PlayTimeout
    BY <1>1, <1>2 DEF TimeInv, Ahead
  <2> QED
    BY <1>2, <2>1 DEF TimeInv, Ahead, Queued, Announce, handlerVars
<1>9. WakeInv'
  BY <1>2 DEF WakeInv, Live, Announce, handlerVars
<1> QED
  BY <1>3, <1>4, <1>5, <1>6, <1>7, <1>8, <1>9

\* Nobody joined while the matchmaker slept with the mutex.
LEMMA StepEndSleep == ASSUME IInv, EndSleep PROVE IInv'
<1> USE TimeoutsAssumption DEF IInv
<1>1. TypeOK'
  BY DEF TypeOK, EndSleep, MmPcs, handlerVars
<1>2. MatchmakerInv'
  <2>1. Len(matchmakingQueue) = 1 /\ matchmakingQueue' = matchmakingQueue
    BY DEF MatchmakerInv, EndSleep
  <2>2. ~(Len(matchmakingQueue') >= 2)
    BY <2>1
  <2> QED
    BY <2>2 DEF MatchmakerInv, TimeoutHitsFront, EndSleep
<1>3. QueueInv'
  BY DEF QueueInv, Queued, Joined, Popped, EndSleep, handlerVars
<1>4. PairInv'
  BY DEF PairInv, MatchmakerInv, Popped, EndSleep, handlerVars
<1>5. GamesInv'
  BY DEF GamesInv, PlayingSetExact, MatchmakerInv, InPlayLoop, Popped, Live, Plays,
    EndSleep, handlerVars
<1>6. TimeInv'
  BY DEF TimeInv, Ahead, Queued, EndSleep, handlerVars
<1>7. WakeInv'
  BY DEF WakeInv, Live, EndSleep, handlerVars
<1> QED
  BY <1>1, <1>2, <1>3, <1>4, <1>5, <1>6, <1>7

\* The entry removed is the one that was announced, and its handler gives up later.
LEMMA StepExpire == ASSUME IInv, Expire PROVE IInv'
<1> USE TimeoutsAssumption DEF IInv
<1> DEFINE q == matchmakingQueue
<1>1. /\ q \in Seq(Clients) /\ q # <<>> /\ Head(q) = waitingPlayer /\ IsInjective(q)
      /\ mmPc = "timed" /\ pair = <<>> /\ Len(q) < 2
  BY DEF TypeOK, MatchmakerInv, TimeoutHitsFront, QueueInv, Expire
<1>2. /\ q' \in Seq(Clients) /\ Len(q') = Len(q) - 1
      /\ IsInjective(q') /\ Range(q') = Range(q) \ {waitingPlayer}
  BY <1>1, RangeTail DEF Expire
<1>3. q' = <<>> /\ Range(q') = {}
  BY <1>1, <1>2, NonEmptySeq
<1> HIDE DEF q
<1>4. TypeOK'
  BY <1>2 DEF TypeOK, Expire, MmPcs, handlerVars, q
<1>5. MatchmakerInv'
  BY <1>1, <1>3 DEF MatchmakerInv, TimeoutHitsFront, Expire, q
<1>6. QueueInv'
  BY <1>2, <1>3 DEF QueueInv, Queued, q
<1>7. PairInv'
  BY <1>1 DEF PairInv, Popped, Expire
<1>8. GamesInv'
  BY <1>1 DEF GamesInv, PlayingSetExact, InPlayLoop, Popped, Live, Plays, Expire, handlerVars
<1>9. TimeInv'
  BY <1>3 DEF TimeInv, Ahead, Queued, Expire, handlerVars, q
<1>10. WakeInv'
  BY <1>1 DEF WakeInv, Live, Expire, handlerVars
<1> QED
  BY <1>4, <1>5, <1>6, <1>7, <1>8, <1>9, <1>10

\* Both popped players have time left: the second has just joined, the first
\* waited no longer than Pause + MatchTimeout.
LEMMA StepPopPair == ASSUME IInv, PopPair PROVE IInv'
<1> USE TimeoutsAssumption DEF IInv
<1> DEFINE q == matchmakingQueue
<1>1. /\ q \in Seq(Clients) /\ Len(q) >= 2 /\ IsInjective(q)
      /\ mmPc \in {"top", "idle", "timed"} /\ mmPc' = "seat" /\ pair = <<>>
      /\ pair' = <<q[1], q[2]>>
  BY DEF TypeOK, MatchmakerInv, QueueInv, PopPair, FirstPlayer, SecondPlayer
<1>2. /\ q' \in Seq(Clients) /\ q # <<>> /\ q[1] \in Clients /\ q[2] \in Clients
      /\ {q[1], q[2]} \subseteq Range(q) /\ q[1] # q[2] /\ IsInjective(q')
      /\ Range(q') = Range(q) \ {q[1], q[2]}
  <2>1. q' = Tail(Tail(q))
    BY DEF PopPair
  <2> QED
    BY <1>1, <2>1, RangePop2
<1>3. Head(q) = q[1]
  BY <1>1, <1>2, RangeTail
<1> HIDE DEF q
<1>4. TypeOK'
  <2>1. pair' \in Clients \X Clients
    BY <1>1, <1>2
  <2>2. waitingPlayer' = <<>> /\ mmLeft' \in Nat /\ mmNotified' \in BOOLEAN /\ mmPc' \in MmPcs
    BY DEF PopPair, MmPcs
  <2>3. UNCHANGED <<playingSet, games, pc, left, notified, up>>
    BY DEF PopPair, handlerVars
  <2> QED
    BY <1>2, <2>1, <2>2, <2>3 DEF TypeOK, q
<1>5. MatchmakerInv'
  BY <1>1 DEF MatchmakerInv, TimeoutHitsFront, PopPair, q
<1>6. \A c \in Clients : Popped(c)' <=> c = q[1] \/ c = q[2]
  BY <1>1 DEF Popped
<1>7. QueueInv'
  <2>1. \A c \in Clients : Queued(c)' => Queued(c) /\ ~Popped(c)'
    BY <1>2, <1>6 DEF Queued, q
  <2> QED
    BY <1>2, <2>1 DEF QueueInv, Joined, PopPair, handlerVars, q
<1>8. PairInv'
  <2>1. Queued(q[1]) /\ Queued(q[2])
    BY <1>2 DEF Queued, q
  <2>2. Joined(q[1]) /\ Joined(q[2]) /\ q[1] \notin playingSet /\ q[2] \notin playingSet
    BY <1>2, <2>1 DEF QueueInv
  <2>3. left[q[1]] > 0 /\ left[q[2]] > 0
    <3>1. CASE mmPc = "timed"
      <4>1. q[1] = waitingPlayer /\ left[q[1]] > mmLeft /\ mmLeft \in Nat
        BY <1>3, <3>1 DEF MatchmakerInv, TimeoutHitsFront, TimeInv, TypeOK, q
      <4>2. left[q[2]] = PlayTimeout
        BY <1>2, <2>1, <4>1 DEF TimeInv, Ahead
      <4>3. left[q[1]] \in Nat
        BY <1>2 DEF TypeOK
      <4> QED
        BY <4>1, <4>2, <4>3
    <3>2. CASE mmPc # "timed"
      BY <1>1, <1>2, <2>1, <3>2 DEF TimeInv, Ahead
    <3> QED
      BY <3>1, <3>2
  <2>4. UNCHANGED <<playingSet, games, pc, left, notified, up>>
    BY DEF PopPair, handlerVars
  <2>5. \A c \in Clients : Popped(c)' =>
            Joined(c)' /\ c \notin playingSet' /\ left'[c] > 0
    BY <1>6, <2>2, <2>3, <2>4 DEF Joined
  <2>6. pair'[1] # pair'[2]
    BY <1>1, <1>2
  <2> QED
    BY <1>1, <2>5, <2>6 DEF PairInv
<1>9. GamesInv'
  BY <1>1 DEF GamesInv, PlayingSetExact, InPlayLoop, Popped, Live, Plays, PopPair, handlerVars
<1>10. TimeInv'
  <2>1. \A c \in Clients : Queued(c)' => Queued(c) /\ c # q[1]
    BY <1>2 DEF Queued, q
  <2>2. mmPc = "timed" => waitingPlayer = q[1]
    BY <1>3 DEF MatchmakerInv, TimeoutHitsFront, q
  <2>3. \A c \in Clients : Queued(c)' => left[c] = PlayTimeout
    BY <1>1, <2>1, <2>2 DEF TimeInv, Ahead
  <2> QED
    BY <1>1, <2>3 DEF TimeInv, PopPair, handlerVars
<1>11. WakeInv'
  BY <1>1 DEF WakeInv, Live, PopPair, handlerVars
<1> QED
  BY <1>4, <1>5, <1>7, <1>8, <1>9, <1>10, <1>11

\* The popped players are still in playLoop, with time left, when they are seated.
LEMMA StepSeat == ASSUME IInv, Seat PROVE IInv'
<1> USE TimeoutsAssumption DEF IInv
<1>1. /\ mmPc = "seat" /\ mmPc' = "start" /\ pair' = pair /\ pair # <<>>
      /\ pair[1] \in Clients /\ pair[2] \in Clients
  BY PairTyped DEF Seat, MatchmakerInv
<1>2. playingSet' = playingSet \cup {pair[1], pair[2]}
  BY DEF Seat
<1>3. TypeOK'
  BY <1>1, <1>2 DEF TypeOK, Seat, MmPcs, handlerVars
<1>4. MatchmakerInv'
  BY <1>1 DEF MatchmakerInv, TimeoutHitsFront, Seat
<1>5. QueueInv'
  BY <1>1, <1>2 DEF QueueInv, Queued, Joined, Popped, Seat, handlerVars
<1>6. PairInv'
  BY <1>1, <1>2 DEF PairInv, GamesInv, PlayingSetExact, Popped, Live, Plays, Joined, Seat, handlerVars
<1>7. GamesInv'
  <2>1. InPlayLoop(pair[1])' /\ InPlayLoop(pair[2])'
    BY <1>1 DEF PairInv, Popped, Joined, InPlayLoop, Seat, handlerVars
  <2>2. \A c \in playingSet : InPlayLoop(c)'
    BY DEF GamesInv, InPlayLoop, Seat, handlerVars
  <2>3. PlayingSetExact'
    BY <1>1, <1>2 DEF GamesInv, PlayingSetExact, Popped, Live, Plays, Seat
  <2> QED
    BY <1>2, <2>1, <2>2, <2>3 DEF GamesInv, Live, Plays, Seat
<1>8. TimeInv'
  BY <1>1 DEF TimeInv, Ahead, Queued, Seat, handlerVars
<1>9. WakeInv'
  BY <1>1, <1>2 DEF WakeInv, Live, Seat, handlerVars
<1> QED
  BY <1>3, <1>4, <1>5, <1>6, <1>7, <1>8, <1>9

\* The players of a new game are in no other, and their handlers are woken.
LEMMA StepStartGame == ASSUME IInv, StartGame PROVE IInv'
<1> USE TimeoutsAssumption DEF IInv
<1> DEFINE new == [p1 |-> pair[1], p2 |-> pair[2], pc |-> "recv1", lost |-> FALSE]
<1>1. /\ mmPc = "start" /\ mmPc' = "top" /\ pair' = <<>> /\ pair # <<>>
      /\ pair[1] \in Clients /\ pair[2] \in Clients /\ pair[1] # pair[2]
  BY PairTyped DEF StartGame, MatchmakerInv, PairInv
<1>2. games' = games \cup {new} /\ notified' = Waiting
  BY DEF StartGame
<1>3. UNCHANGED <<matchmakingQueue, playingSet, mmLeft, mmNotified, waitingPlayer, pc, left, up>>
  BY DEF StartGame
<1>4. new \in Games /\ new.p1 = pair[1] /\ new.p2 = pair[2] /\ Live(new)
  BY <1>1 DEF Games, GamePcs, Live
<1>5. \A g \in games, c \in Clients : ~(Live(g) /\ Plays(g, c) /\ Plays(new, c))
  BY <1>1, <1>4 DEF PairInv, Popped, Plays
<1>6. \A c \in Clients : Popped(c) <=> Plays(new, c)
  BY <1>1, <1>4 DEF Popped, Plays
<1> HIDE DEF new
<1>7. TypeOK'
  <2>1. notified' \subseteq Clients
    BY <1>2 DEF Waiting
  <2> QED
    BY <1>1, <1>2, <1>3, <1>4, <2>1 DEF TypeOK, MmPcs
<1>8. MatchmakerInv'
  BY <1>1 DEF MatchmakerInv, TimeoutHitsFront
<1>9. QueueInv'
  BY <1>1, <1>3 DEF QueueInv, Queued, Joined, Popped
<1>10. PairInv'
  BY <1>1 DEF PairInv, Popped
<1>11. GamesInv'
  <2>1. PlayingSetExact'
    <3>1. \A c \in Clients : c \in playingSet <=>
              Plays(new, c) \/ \E g \in games : Live(g) /\ Plays(g, c)
      BY <1>1, <1>6 DEF GamesInv, PlayingSetExact
    <3> QED
      BY <1>1, <1>2, <1>3, <1>4, <3>1 DEF PlayingSetExact, Live, Plays
  <2>2. \A c \in playingSet' : InPlayLoop(c)'
    BY <1>3 DEF GamesInv, InPlayLoop
  <2>3. \A g \in games' : Live(g) => g.p1 # g.p2
    BY <1>1, <1>2, <1>4 DEF GamesInv
  <2>4. \A g, h \in games' : \A c \in Clients :
            Live(g) /\ Live(h) /\ Plays(g, c) /\ Plays(h, c) => g = h
    BY <1>2, <1>5 DEF GamesInv
  <2> QED
    BY <2>1, <2>2, <2>3, <2>4 DEF GamesInv, Live, Plays
<1>12. TimeInv'
  BY <1>1, <1>3 DEF TimeInv, Ahead, Queued
<1>13. WakeInv'
  BY <1>2, <1>3 DEF WakeInv, Waiting
<1> QED
  BY <1>7, <1>8, <1>9, <1>10, <1>11, <1>12, <1>13
-----------------------------------------------------------------------------
(* The handlers and the clients.                                           *)

\* A client whose handler is outside playLoop stands nowhere.
LEMMA OutsideIsNowhere ==
    ASSUME IInv, NEW c \in Clients, ~InPlayLoop(c)
    PROVE  /\ ~Queued(c) /\ ~Popped(c) /\ c \notin playingSet
           /\ \A g \in games : Live(g) => ~Plays(g, c)
<1>1. c \notin playingSet
  BY DEF IInv, GamesInv
<1>2. \A g \in games : Live(g) => ~Plays(g, c)
  BY <1>1 DEF IInv, GamesInv, PlayingSetExact
<1>3. ~Queued(c)
  BY DEF IInv, QueueInv, Joined, InPlayLoop
<1>4. ASSUME Popped(c) PROVE FALSE
  <2>1. CASE mmPc = "seat"
    BY <1>4, <2>1 DEF IInv, PairInv, Joined, InPlayLoop
  <2>2. CASE mmPc = "start"
    BY <1>1, <1>4, <2>2 DEF IInv, GamesInv, PlayingSetExact
  <2> QED
    BY <1>4, <2>1, <2>2 DEF IInv, MatchmakerInv, Popped
<1> QED
  BY <1>1, <1>2, <1>3, <1>4

\* So may its program counter change, as long as the change keeps it outside.
LEMMA StepOutside ==
    ASSUME IInv, NEW c \in Clients, ~InPlayLoop(c), NEW to \in {"closed", "menu", "join"},
           Goto(c, to), up' \in [Clients -> BOOLEAN],
           UNCHANGED <<matchmakingQueue, playingSet, games, mmVars, left, notified>>
    PROVE  IInv'
<1> USE DEF IInv
<1>1. UNCHANGED <<mmPc, mmLeft, mmNotified, waitingPlayer, pair>>
  BY DEF mmVars
<1>2. /\ ~Queued(c) /\ ~Popped(c) /\ c \notin playingSet
      /\ \A g \in games : Live(g) => ~Plays(g, c)
  BY OutsideIsNowhere
<1>3. pc' \in [Clients -> HandlerPcs] /\ pc'[c] = to /\ \A d \in Clients \ {c} : pc'[d] = pc[d]
  BY DEF TypeOK, Goto, HandlerPcs
<1>4. TypeOK'
  BY <1>1, <1>3 DEF TypeOK
<1>5. MatchmakerInv'
  BY <1>1 DEF MatchmakerInv, TimeoutHitsFront
<1>6. QueueInv'
  BY <1>1, <1>2, <1>3 DEF QueueInv, Queued, Joined, Popped
<1>7. PairInv'
  BY <1>1, <1>2, <1>3 DEF PairInv, Joined, Popped, Live, Plays
<1>8. GamesInv'
  <2>1. \A d \in playingSet' : InPlayLoop(d)'
    BY <1>2, <1>3 DEF GamesInv, InPlayLoop, TypeOK
  <2>2. PlayingSetExact'
    BY <1>1 DEF GamesInv, PlayingSetExact, Popped, Live, Plays
  <2> QED
    BY <2>1, <2>2 DEF GamesInv, Live, Plays
<1>9. TimeInv'
  BY <1>1, <1>2, <1>3 DEF TimeInv, Ahead, Queued, InPlayLoop
<1>10. WakeInv'
  BY <1>1, <1>3 DEF WakeInv, Live
<1> QED
  BY <1>4, <1>5, <1>6, <1>7, <1>8, <1>9, <1>10

\* A client joins the queue once, with its full 35 s, and wakes the matchmaker.
LEMMA StepEnqueue == ASSUME IInv, NEW c \in Clients, Enqueue(c) PROVE IInv'
<1> USE TimeoutsAssumption DEF IInv
<1> DEFINE q == matchmakingQueue
<1>1. /\ pc[c] = "join" /\ mmPc # "sleep" /\ q' = Append(q, c)
      /\ mmNotified' = (mmNotified \/ mmPc \in {"idle", "timed"})
      /\ pc' = [pc EXCEPT ![c] = "arm"]
      /\ UNCHANGED <<playingSet, games, mmPc, mmLeft, waitingPlayer, pair, left, notified, up>>
  BY DEF Enqueue, Goto
<1>2. ~Queued(c) /\ ~Popped(c) /\ c \notin playingSet
  BY <1>1, OutsideIsNowhere DEF InPlayLoop
<1>3. pc' \in [Clients -> HandlerPcs] /\ pc'[c] = "arm" /\ \A d \in Clients \ {c} : pc'[d] = pc[d]
  BY <1>1 DEF TypeOK, HandlerPcs
<1>4. /\ q \in Seq(Clients) /\ q' \in Seq(Clients) /\ IsInjective(q')
      /\ Range(q') = Range(q) \cup {c}
  BY <1>1, <1>2, RangeAppend DEF TypeOK, QueueInv, Queued
<1>5. q # <<>> => Head(q') = Head(q)
  <2>1. q # <<>> => Len(q) > 0
    BY <1>4, NonEmptySeq
  <2> QED
    BY <1>1, <1>4, <2>1
<1>6. q' # <<>>
  BY <1>4, NonEmptySeq
<1> HIDE DEF q
<1>7. TypeOK'
  BY <1>1, <1>3, <1>4 DEF TypeOK, q
<1>8. MatchmakerInv'
  BY <1>1, <1>5, <1>6 DEF MatchmakerInv, TimeoutHitsFront, TypeOK, q
<1>9. QueueInv'
  <2>1. \A d \in Clients : Queued(d)' <=> Queued(d) \/ d = c
    BY <1>4 DEF Queued, q
  <2> QED
    BY <1>1, <1>2, <1>3, <1>4, <2>1 DEF QueueInv, Joined, Popped, q
<1>10. PairInv'
  BY <1>1, <1>3 DEF PairInv, Joined, Popped, Live, Plays
<1>11. GamesInv'
  <2>1. \A d \in playingSet' : InPlayLoop(d)'
    BY <1>1, <1>2, <1>3 DEF GamesInv, InPlayLoop, TypeOK
  <2>2. PlayingSetExact'
    BY <1>1 DEF GamesInv, PlayingSetExact, Popped, Live, Plays
  <2> QED
    BY <1>1, <2>1, <2>2 DEF GamesInv, Live, Plays
<1>12. TimeInv'
  <2>1. \A d \in Clients : Queued(d)' <=> Queued(d) \/ d = c
    BY <1>4 DEF Queued, q
  <2>2. left[c] = PlayTimeout
    BY <1>1 DEF TimeInv
  <2> QED
    BY <1>1, <1>3, <2>1, <2>2 DEF TimeInv, Ahead
<1>13. WakeInv'
  BY <1>1, <1>3 DEF WakeInv, Live
<1> QED
  BY <1>7, <1>8, <1>9, <1>10, <1>11, <1>12, <1>13

\* The predicate is looked at before the handler blocks: no wake-up falls in between.
LEMMA StepArm == ASSUME IInv, NEW c \in Clients, Arm(c) PROVE IInv'
<1> USE TimeoutsAssumption DEF IInv
<1>1. /\ pc[c] = "arm" /\ pc' = [pc EXCEPT ![c] = IF c \in playingSet THEN "wait2" ELSE "wait1"]
      /\ UNCHANGED <<matchmakingQueue, playingSet, games, mmPc, mmLeft, mmNotified,
                      waitingPlayer, pair, left, notified, up>>
  BY DEF Arm, Goto, mmVars
<1>2. /\ pc' \in [Clients -> HandlerPcs]
      /\ c \in playingSet => pc'[c] = "wait2"
      /\ c \notin playingSet => pc'[c] = "wait1"
      /\ \A d \in Clients \ {c} : pc'[d] = pc[d]
  BY <1>1 DEF TypeOK, HandlerPcs
<1>3. TypeOK'
  BY <1>1, <1>2 DEF TypeOK
<1>4. MatchmakerInv'
  BY <1>1 DEF MatchmakerInv, TimeoutHitsFront
<1>5. QueueInv'
  BY <1>1, <1>2 DEF QueueInv, Queued, Joined, Popped
<1>6. PairInv'
  BY <1>1, <1>2 DEF PairInv, Joined, Popped, Live, Plays
<1>7. GamesInv'
  <2>1. \A d \in playingSet' : InPlayLoop(d)'
    BY <1>1, <1>2 DEF GamesInv, InPlayLoop, TypeOK
  <2>2. PlayingSetExact'
    BY <1>1 DEF GamesInv, PlayingSetExact, Popped, Live, Plays
  <2> QED
    BY <1>1, <2>1, <2>2 DEF GamesInv, Live, Plays
<1>8. TimeInv'
  BY <1>1, <1>2 DEF TimeInv, Ahead, Queued
<1>9. WakeInv'
  BY <1>1, <1>2 DEF WakeInv, Live
<1> QED
  BY <1>3, <1>4, <1>5, <1>6, <1>7, <1>8, <1>9

\* A handler that leaves the first wait for the second, or playLoop altogether,
\* because its game has started, has ended, or will never be.
LEMMA StepMoves ==
    ASSUME IInv, NEW c \in Clients, NEW to \in {"wait2", "menu"}, Moves(c, to),
           pc[c] \in {"wait1", "wait2"},
           to = "wait2" => c \in playingSet,
           to = "menu" => c \notin playingSet /\ ~Queued(c) /\ ~(Popped(c) /\ mmPc = "seat"),
           to = "wait2" => ~Queued(c)
    PROVE  IInv'
<1> USE TimeoutsAssumption DEF IInv
<1>1. /\ pc' = [pc EXCEPT ![c] = to] /\ left' = [left EXCEPT ![c] = PlayTimeout]
      /\ notified' = notified \ {c}
      /\ UNCHANGED <<matchmakingQueue, playingSet, games, mmPc, mmLeft, mmNotified,
                      waitingPlayer, pair, up>>
  BY DEF Moves, Goto, mmVars
<1>2. /\ pc' \in [Clients -> HandlerPcs] /\ pc'[c] = to
      /\ \A d \in Clients \ {c} : pc'[d] = pc[d]
      /\ left' \in [Clients -> 0..PlayTimeout] /\ left'[c] = PlayTimeout
      /\ \A d \in Clients \ {c} : left'[d] = left[d]
  BY <1>1 DEF TypeOK, HandlerPcs
<1>3. TypeOK'
  BY <1>1, <1>2 DEF TypeOK
<1>4. MatchmakerInv'
  BY <1>1 DEF MatchmakerInv, TimeoutHitsFront
<1>5. QueueInv'
  BY <1>1, <1>2 DEF QueueInv, Queued, Joined, Popped
<1>6. PairInv'
  <2>1. ~(Popped(c) /\ mmPc = "seat")
    BY DEF PairInv
  <2> QED
    BY <1>1, <1>2, <2>1 DEF PairInv, Joined, Popped, Live, Plays
<1>7. GamesInv'
  <2>1. \A d \in playingSet' : InPlayLoop(d)'
    BY <1>1, <1>2 DEF GamesInv, InPlayLoop, TypeOK
  <2>2. PlayingSetExact'
    BY <1>1 DEF GamesInv, PlayingSetExact, Popped, Live, Plays
  <2> QED
    BY <1>1, <2>1, <2>2 DEF GamesInv, Live, Plays
<1>8. TimeInv'
  <2>1. mmPc \in {"sleep", "timed"} => waitingPlayer \in Clients /\ waitingPlayer # c
    <3>1. mmPc \in {"sleep", "timed"} => Queued(waitingPlayer) /\ waitingPlayer \in Clients
      BY RangeTail DEF MatchmakerInv, TimeoutHitsFront, TypeOK, Queued
    <3> QED
      BY <3>1
  <2> QED
    BY <1>1, <1>2, <2>1 DEF TimeInv, Ahead, Queued
<1>9. WakeInv'
  <2>1. \A d \in (Clients \ notified') \ {c} : d \in Clients \ notified /\ pc'[d] = pc[d]
    BY <1>1, <1>2
  <2>2. ~(pc'[c] = "wait1") /\ ~(pc'[c] = "wait2" /\ c \notin playingSet')
    BY <1>1, <1>2
  <2> QED
    BY <1>1, <2>1, <2>2 DEF WakeInv, Live
<1> QED
  BY <1>3, <1>4, <1>5, <1>6, <1>7, <1>8, <1>9

\* A handler moves on only when its game has started or ended, or never will.
LEMMA StepWake == ASSUME IInv, NEW c \in Clients, Wake(c) PROVE IInv'
<1>1. CASE Seated(c)
  <2>1. ~Queued(c)
    BY <1>1 DEF IInv, QueueInv, Seated
  <2> QED
    BY <1>1, <2>1, StepMoves DEF Seated
<1>2. CASE GiveUp(c)
  <2>1. ASSUME Queued(c) PROVE FALSE
    <3>1. CASE Ahead(c)
      BY <1>2, <3>1, TimeoutsAssumption DEF IInv, TimeInv, Ahead, GiveUp, TypeOK
    <3>2. CASE ~Ahead(c)
      BY <1>2, <2>1, <3>2, TimeoutsAssumption DEF IInv, TimeInv, GiveUp
    <3> QED
      BY <3>1, <3>2
  <2>2. ~(Popped(c) /\ mmPc = "seat")
    BY <1>2 DEF IInv, PairInv, GiveUp
  <2> QED
    BY <1>2, <2>1, <2>2, StepMoves DEF GiveUp
<1>3. CASE GameOver(c)
  <2>1. ~Queued(c) /\ ~(Popped(c) /\ mmPc = "seat")
    BY <1>3 DEF IInv, QueueInv, PairInv, Joined, GameOver
  <2> QED
    BY <1>3, <2>1, StepMoves DEF GameOver
<1>4. CASE BlockAgain(c)
  <2> USE DEF IInv
  <2>1. /\ notified' = notified \ {c}
        /\ UNCHANGED <<matchmakingQueue, playingSet, games, mmPc, mmLeft, mmNotified,
                        waitingPlayer, pair, pc, left, up>>
    BY <1>4 DEF BlockAgain, mmVars
  <2>2. TypeOK'
    BY <2>1 DEF TypeOK
  <2>3. MatchmakerInv' /\ QueueInv' /\ PairInv'
    BY <2>1 DEF MatchmakerInv, TimeoutHitsFront, QueueInv, PairInv, Queued, Joined, Popped, Live, Plays
  <2>4. GamesInv' /\ TimeInv'
    BY <2>1 DEF GamesInv, PlayingSetExact, InPlayLoop, TimeInv, Ahead, Queued, Popped, Live, Plays
  <2>5. WakeInv'
    BY <1>4, <2>1 DEF WakeInv, BlockAgain, Live
  <2> QED
    BY <2>2, <2>3, <2>4, <2>5
<1> QED
  BY <1>1, <1>2, <1>3, <1>4 DEF Wake

\* Every step of a handler, by cases.
LEMMA StepHandler == ASSUME IInv, NEW c \in Clients, Handler(c) PROVE IInv'
<1>1. CASE Play(c)
  BY <1>1, StepOutside DEF Play, InPlayLoop, IInv, TypeOK
<1>2. CASE Exit(c)
  BY <1>2, StepOutside DEF Exit, InPlayLoop, IInv, TypeOK
<1> QED
  BY <1>1, <1>2, StepEnqueue, StepArm, StepWake DEF Handler

\* A peer may come and go: nothing of the server's changes, except for a new handler.
LEMMA StepClient == ASSUME IInv, NEW c \in Clients, Connect(c) \/ Disconnect(c) PROVE IInv'
<1>1. CASE Connect(c)
  BY <1>1, StepOutside DEF Connect, InPlayLoop, IInv, TypeOK
<1>2. CASE Disconnect(c)
  <2> USE DEF IInv
  <2>1. /\ up' \in [Clients -> BOOLEAN]
        /\ UNCHANGED <<matchmakingQueue, playingSet, games, mmPc, mmLeft, mmNotified,
                        waitingPlayer, pair, pc, left, notified>>
    BY <1>2 DEF Disconnect, mmVars, handlerVars, TypeOK
  <2>2. TypeOK'
    BY <2>1 DEF TypeOK
  <2>3. MatchmakerInv' /\ QueueInv' /\ PairInv'
    BY <2>1 DEF MatchmakerInv, TimeoutHitsFront, QueueInv, PairInv, Queued, Joined, Popped, Live, Plays
  <2>4. GamesInv' /\ TimeInv' /\ WakeInv'
    BY <2>1 DEF GamesInv, PlayingSetExact, InPlayLoop, TimeInv, Ahead, Queued, Popped, Live, Plays, WakeInv
  <2> QED
    BY <2>2, <2>3, <2>4
<1> QED
  BY <1>1, <1>2
-----------------------------------------------------------------------------
(* The game threads.                                                       *)

\* A game that goes on holds the same players.
LEMMA StepGoesOn ==
    ASSUME IInv, NEW g \in games, NEW h \in Games, h.p1 = g.p1, h.p2 = g.p2,
           Live(g), Live(h), Step(g, h), UNCHANGED <<playingSet, notified>>
    PROVE  IInv'
<1> USE DEF IInv
<1>1. games' = (games \ {g}) \cup {h}
  BY DEF Step
<1>2. UNCHANGED <<matchmakingQueue, playingSet, mmPc, mmLeft, mmNotified,
                  waitingPlayer, pair, pc, left, notified, up>>
  BY DEF Step, mmVars
<1>3. \A c : Plays(h, c) <=> Plays(g, c)
  BY DEF Plays
<1>4. TypeOK'
  BY <1>1, <1>2 DEF TypeOK
<1>5. MatchmakerInv' /\ QueueInv' /\ TimeInv'
  BY <1>2 DEF MatchmakerInv, TimeoutHitsFront, QueueInv, Queued, Joined, Popped, TimeInv, Ahead
<1>6. PairInv'
  BY <1>1, <1>2, <1>3 DEF PairInv, Joined, Popped
<1>7. GamesInv'
  <2>1. PlayingSetExact'
    BY <1>1, <1>2, <1>3 DEF GamesInv, PlayingSetExact, Popped
  <2>2. \A f \in games' : Live(f) => f.p1 # f.p2
    BY <1>1 DEF GamesInv
  <2>3. \A e, f \in games' : \A c \in Clients :
            Live(e) /\ Live(f) /\ Plays(e, c) /\ Plays(f, c) => e = f
    BY <1>1, <1>3 DEF GamesInv
  <2> QED
    BY <1>2, <2>1, <2>2, <2>3 DEF GamesInv, InPlayLoop
<1>8. WakeInv'
  BY <1>1, <1>2 DEF WakeInv
<1> QED
  BY <1>4, <1>5, <1>6, <1>7, <1>8

\* Both players leave playingSet at once and are about to be told.
LEMMA StepEndGame == ASSUME IInv, NEW g \in games, EndGame(g) PROVE IInv'
<1> USE DEF IInv
<1> DEFINE h == [g EXCEPT !.pc = "tell", !.lost = FALSE]
<1>1. /\ games' = (games \ {g}) \cup {h} /\ g.pc = "judge" /\ Live(g)
      /\ playingSet' = playingSet \ {g.p1, g.p2}
      /\ UNCHANGED <<matchmakingQueue, mmPc, mmLeft, mmNotified, waitingPlayer, pair, pc,
                      left, notified, up>>
  BY DEF EndGame, Step, mmVars, Live
<1>2. h \in Games /\ ~Live(h)
  BY DEF TypeOK, Games, GamePcs, Live
<1>3. g.p1 \in Clients /\ g.p2 \in Clients
  BY DEF TypeOK, Games
<1> HIDE DEF h
<1>4. \A c \in Clients : Plays(g, c) => c \in playingSet /\ ~(Popped(c) /\ mmPc = "start")
  BY <1>1 DEF GamesInv, PlayingSetExact, PairInv
<1>5. \A c \in Clients : c \in playingSet' <=> c \in playingSet /\ ~Plays(g, c)
  BY <1>1 DEF Plays
<1>6. TypeOK'
  BY <1>1, <1>2 DEF TypeOK
<1>7. MatchmakerInv' /\ TimeInv'
  BY <1>1 DEF MatchmakerInv, TimeoutHitsFront, Queued, TimeInv, Ahead
<1>8. QueueInv'
  BY <1>1 DEF QueueInv, Queued, Joined, Popped
<1>9. PairInv'
  BY <1>1, <1>2 DEF PairInv, Joined, Popped
<1>10. GamesInv'
  <2>1. PlayingSetExact'
    <3> SUFFICES ASSUME NEW c \in Clients
                 PROVE  c \in playingSet' <=> \/ mmPc = "start" /\ Popped(c)
                                             \/ \E f \in games' : Live(f) /\ Plays(f, c)
      BY <1>1 DEF PlayingSetExact, Popped
    <3>1. CASE Plays(g, c)
      <4>1. \A f \in games' : Live(f) => f \in games /\ f # g
        BY <1>1, <1>2
      <4>2. \A f \in games' : ~(Live(f) /\ Plays(f, c))
        BY <1>1, <3>1, <4>1 DEF GamesInv
      <4> QED
        BY <1>4, <1>5, <3>1, <4>2
    <3>2. CASE ~Plays(g, c)
      <4>1. (\E f \in games' : Live(f) /\ Plays(f, c)) <=> (\E f \in games : Live(f) /\ Plays(f, c))
        BY <1>1, <1>2, <3>2
      <4> QED
        BY <1>5, <3>2, <4>1 DEF GamesInv, PlayingSetExact
    <3> QED
      BY <3>1, <3>2
  <2>2. \A c \in playingSet' : InPlayLoop(c)'
    BY <1>1 DEF GamesInv, InPlayLoop
  <2>3. \A f \in games' : Live(f) => f.p1 # f.p2
    BY <1>1, <1>2 DEF GamesInv
  <2>4. \A e, f \in games' : \A c \in Clients :
            Live(e) /\ Live(f) /\ Plays(e, c) /\ Plays(f, c) => e = f
    BY <1>1, <1>2 DEF GamesInv
  <2> QED
    BY <2>1, <2>2, <2>3, <2>4 DEF GamesInv
<1>11. WakeInv'
  <2>1. h \in games'
    BY <1>1
  <2> QED
    BY <1>1, <1>2, <2>1 DEF WakeInv
<1> QED
  BY <1>6, <1>7, <1>8, <1>9, <1>10, <1>11

\* When a game thread ends, every handler it has released is woken.
LEMMA StepTell == ASSUME IInv, NEW g \in games, Tell(g) PROVE IInv'
<1> USE DEF IInv
<1>1. /\ games' = games \ {g} /\ ~Live(g) /\ notified' = Waiting
      /\ UNCHANGED <<matchmakingQueue, playingSet, mmPc, mmLeft, mmNotified, waitingPlayer,
                      pair, pc, left, up>>
  BY DEF Tell, mmVars, Live
<1>2. TypeOK'
  BY <1>1 DEF TypeOK, Waiting
<1>3. MatchmakerInv' /\ QueueInv' /\ TimeInv'
  BY <1>1 DEF MatchmakerInv, TimeoutHitsFront, QueueInv, Queued, Joined, Popped, TimeInv, Ahead
<1>4. PairInv'
  BY <1>1 DEF PairInv, Joined, Popped
<1>5. GamesInv'
  <2>1. PlayingSetExact'
    BY <1>1 DEF GamesInv, PlayingSetExact, Popped
  <2> QED
    BY <1>1, <2>1 DEF GamesInv, InPlayLoop
<1>6. WakeInv'
  BY <1>1 DEF WakeInv, Waiting
<1> QED
  BY <1>2, <1>3, <1>4, <1>5, <1>6

\* Every step of a game thread, by cases.
LEMMA StepGame == ASSUME IInv, NEW g \in games, Game(g) PROVE IInv'
<1>1. g \in Games /\ up \in [Clients -> BOOLEAN]
  BY DEF IInv, TypeOK
<1>2. CASE Recv1(g)
  <2> DEFINE h == [g EXCEPT !.pc = "recv2", !.lost = ~up[g.p1]]
  <2>1. h \in Games /\ h.p1 = g.p1 /\ h.p2 = g.p2 /\ Live(h) /\ Live(g)
    BY <1>1, <1>2 DEF Games, GamePcs, Live, Recv1
  <2>2. Step(g, h) /\ UNCHANGED <<playingSet, notified>>
    BY <1>2 DEF Recv1
  <2> QED
    BY <2>1, <2>2, StepGoesOn
<1>3. CASE Recv2(g)
  <2> DEFINE h == [g EXCEPT !.pc = "judge", !.lost = @ \/ ~up[g.p2]]
  <2>1. h \in Games /\ h.p1 = g.p1 /\ h.p2 = g.p2 /\ Live(h) /\ Live(g)
    BY <1>1, <1>3 DEF Games, GamePcs, Live, Recv2
  <2>2. Step(g, h) /\ UNCHANGED <<playingSet, notified>>
    BY <1>3 DEF Recv2
  <2> QED
    BY <2>1, <2>2, StepGoesOn
<1>4. CASE NextRound(g)
  <2> DEFINE h == [g EXCEPT !.pc = "recv1"]
  <2>1. h \in Games /\ h.p1 = g.p1 /\ h.p2 = g.p2 /\ Live(h) /\ Live(g)
    BY <1>1, <1>4 DEF Games, GamePcs, Live, NextRound
  <2>2. Step(g, h) /\ UNCHANGED <<playingSet, notified>>
    BY <1>4 DEF NextRound
  <2> QED
    BY <2>1, <2>2, StepGoesOn
<1> QED
  BY <1>2, <1>3, <1>4, StepEndGame, StepTell DEF Game
-----------------------------------------------------------------------------
(* Time, and the theorems.                                                 *)

\* Time passes only while the matchmaker is blocked.
LEMMA TickIsQuiet ==
    ASSUME IInv, Tick
    PROVE  /\ mmPc \in {"idle", "sleep", "timed"}
           /\ mmPc = "idle" => matchmakingQueue = <<>>
           /\ mmPc \in {"sleep", "timed"} => mmLeft > 0 /\ Len(matchmakingQueue) = 1
<1>1. /\ mmPc \in {"idle", "sleep", "timed"}
      /\ mmPc = "idle" => ~mmNotified
      /\ mmPc = "sleep" => mmLeft # 0
      /\ mmPc = "timed" => ~mmNotified /\ mmLeft # 0
  BY DEF Tick, MatchmakerReady, SecondPlayer, IInv, TypeOK, MmPcs
<1>2. matchmakingQueue \in Seq(Clients) /\ mmLeft \in Nat
  BY DEF IInv, TypeOK
<1>3. mmPc = "timed" => matchmakingQueue # <<>> /\ ~(Len(matchmakingQueue) >= 2)
  BY <1>1 DEF IInv, MatchmakerInv, TimeoutHitsFront
<1>4. mmPc = "timed" => Len(matchmakingQueue) = 1
  <2>1. mmPc = "timed" => Len(matchmakingQueue) \in Nat /\ Len(matchmakingQueue) > 0
    BY <1>2, <1>3, NonEmptySeq
  <2> QED
    BY <1>3, <2>1
<1> QED
  BY <1>1, <1>2, <1>4 DEF IInv, MatchmakerInv

\* Time passes for the matchmaker and for the player it waits with alike.
LEMMA StepTick == ASSUME IInv, Tick PROVE IInv'
<1> USE TimeoutsAssumption DEF IInv
<1>1. /\ mmLeft' = Less(mmLeft)
      /\ left' = [c \in Clients |-> IF c \in Timing THEN left[c] - 1 ELSE left[c]]
      /\ UNCHANGED <<matchmakingQueue, playingSet, games, mmPc, mmNotified, waitingPlayer,
                      pair, pc, notified, up>>
  BY DEF Tick
<1>2. \A c \in Clients :
          /\ left[c] \in 0..PlayTimeout /\ left'[c] \in 0..PlayTimeout
          /\ left'[c] <= left[c] /\ left'[c] >= left[c] - 1
          /\ pc[c] # "wait1" => left'[c] = left[c]
  BY <1>1 DEF TypeOK, Timing
<1>3. mmLeft \in Nat /\ mmLeft' \in Nat /\ (mmLeft > 0 => mmLeft' = mmLeft - 1)
  BY <1>1 DEF TypeOK, Less
<1>4. /\ mmPc \in {"idle", "sleep", "timed"} /\ pair = <<>>
      /\ mmPc = "idle" => matchmakingQueue = <<>>
      /\ mmPc \in {"sleep", "timed"} => mmLeft > 0 /\ Len(matchmakingQueue) = 1
  BY TickIsQuiet DEF MatchmakerInv
<1>5. TypeOK'
  <2>1. left' \in [Clients -> 0..PlayTimeout]
    BY <1>1, <1>2
  <2> QED
    BY <1>1, <1>3, <2>1 DEF TypeOK
<1>6. MatchmakerInv' /\ QueueInv' /\ WakeInv'
  BY <1>1 DEF MatchmakerInv, TimeoutHitsFront, QueueInv, Queued, Joined, Popped, WakeInv
<1>7. PairInv'
  BY <1>1, <1>4 DEF PairInv, Popped
<1>8. GamesInv'
  BY <1>1 DEF GamesInv, PlayingSetExact, InPlayLoop, Popped
<1>9. TimeInv'
  <2>1. \A c \in Clients : Queued(c) => Ahead(c)
    <3>1. CASE mmPc = "idle"
      BY <1>4, <3>1, EmptySeq DEF Queued
    <3>2. CASE mmPc \in {"sleep", "timed"}
      <4>1. matchmakingQueue \in Seq(Clients) /\ waitingPlayer = matchmakingQueue[1]
        BY <3>2, RangeTail DEF TypeOK, MatchmakerInv, TimeoutHitsFront
      <4>2. Range(matchmakingQueue) = {waitingPlayer}
        BY <1>4, <3>2, <4>1 DEF Range
      <4> QED
        BY <3>2, <4>2 DEF Queued, Ahead
    <3> QED
      BY <1>4, <3>1, <3>2
  <2>2. mmPc \in {"sleep", "timed"} => waitingPlayer \in Clients
    BY RangeTail DEF TypeOK, MatchmakerInv, TimeoutHitsFront
  <2>3. \A c \in Clients : pc'[c] # "wait1" => left'[c] = PlayTimeout
    BY <1>1, <1>2 DEF TimeInv
  <2>4. \A c \in Clients : (Queued(c) => Ahead(c))'
    BY <1>1, <2>1 DEF Queued, Ahead
  <2>5. mmPc = "sleep" => left'[waitingPlayer] > mmLeft' + MatchTimeout
    BY <1>2, <1>3, <1>4, <2>2 DEF TimeInv
  <2>6. mmPc = "timed" => left'[waitingPlayer] > mmLeft'
    BY <1>2, <1>3, <1>4, <2>2 DEF TimeInv
  <2> QED
    BY <1>1, <2>3, <2>4, <2>5, <2>6 DEF TimeInv
<1> QED
  BY <1>5, <1>6, <1>7, <1>8, <1>9

\* The invariant is inductive.
LEMMA StepIInv == IInv /\ [Next]_vars => IInv'
<1> SUFFICES ASSUME IInv, [Next]_vars PROVE IInv'
  OBVIOUS
<1>1. CASE Matchmaker
  BY <1>1, StepIdle, StepAnnounce, StepEndSleep, StepExpire, StepPopPair, StepSeat,
     StepStartGame DEF Matchmaker
<1>2. CASE UNCHANGED vars
  <2> USE <1>2 DEF IInv, vars, mmVars, handlerVars
  <2>1. TypeOK'
    BY DEF TypeOK
  <2>2. MatchmakerInv' /\ QueueInv' /\ PairInv'
    BY DEF MatchmakerInv, TimeoutHitsFront, QueueInv, PairInv, Queued, Joined, Popped
  <2>3. GamesInv' /\ TimeInv' /\ WakeInv'
    BY DEF GamesInv, PlayingSetExact, InPlayLoop, TimeInv, Ahead, Queued, Popped, WakeInv
  <2> QED
    BY <2>1, <2>2, <2>3
<1> QED
  BY <1>1, <1>2, StepHandler, StepGame, StepClient, StepTick DEF Next

\* The inductive invariant of matchmaking holds in every reachable state.
THEOREM Invariance == Spec => []IInv
<1> QED
  BY InitIInv, StepIInv, PTL DEF Spec

\* Every variable keeps its type.
THEOREM TypeCorrect == Spec => []TypeOK
<1>1. IInv => TypeOK
  BY DEF IInv
<1> QED
  BY <1>1, Invariance, PTL

\* A client whose handler is not waiting in playLoop stands in no queue, pair or game,
\* so that its SOCKET value can be closed and used again.
THEOREM NoStaleEntries == Spec => []NoStaleEntry
<1>1. IInv => NoStaleEntry
  BY OutsideIsNowhere DEF NoStaleEntry, InPlayLoop
<1> QED
  BY <1>1, Invariance, PTL

\* Nobody is in two places at once or its own partner.
THEOREM OnePlaces == Spec => []OnePlace
<1>1. IInv => OnePlace
  <2> SUFFICES ASSUME IInv PROVE OnePlace
    OBVIOUS
  <2> USE DEF IInv
  <2>1. \A c \in Clients : Popped(c) => ~Queued(c)
    BY DEF QueueInv
  <2>2. ASSUME NEW g \in games, Live(g), NEW c \in Clients, Plays(g, c)
        PROVE  ~Queued(c) /\ ~Popped(c)
    <3>1. c \in playingSet
      BY <2>2 DEF GamesInv, PlayingSetExact
    <3>2. Popped(c) => mmPc \in {"seat", "start"}
      BY DEF MatchmakerInv, Popped
    <3> QED
      BY <2>2, <3>1, <3>2 DEF QueueInv, PairInv
  <2>3. \A g, h \in games : \A c \in Clients :
            Live(g) /\ Live(h) /\ Plays(g, c) /\ Plays(h, c) => g = h
    BY DEF GamesInv
  <2> QED
    BY <2>1, <2>2, <2>3 DEF OnePlace, QueueInv, PairInv, GamesInv
<1> QED
  BY <1>1, Invariance, PTL

\* No two threads wait in recv on the socket of one client.
THEOREM ExclusiveSockets == Spec => []ExclusiveSocket
<1>1. IInv => ExclusiveSocket
  <2> SUFFICES ASSUME IInv, NEW c \in Clients, NEW g \in games, Reads(g, c)
               PROVE  pc[c] # "menu" /\ \A h \in games : Reads(h, c) => h = g
    BY DEF ExclusiveSocket
  <2>1. \A h \in games : Reads(h, c) => Live(h) /\ Plays(h, c)
    BY DEF Reads, Live, Plays
  <2>2. InPlayLoop(c)
    BY <2>1, OutsideIsNowhere
  <2> QED
    BY <2>1, <2>2 DEF IInv, GamesInv, InPlayLoop
<1> QED
  BY <1>1, Invariance, PTL

\* The player told that nobody came is the one taken off the queue.
THEOREM TimeoutsHitFront == Spec => []TimeoutHitsFront
<1>1. IInv => TimeoutHitsFront
  BY DEF IInv, MatchmakerInv
<1> QED
  BY <1>1, Invariance, PTL

\* playingSet is what the game threads and the matchmaker make it mean.
THEOREM PlayingSetExactness == Spec => []PlayingSetExact
<1>1. IInv => PlayingSetExact
  BY DEF IInv, GamesInv
<1> QED
  BY <1>1, Invariance, PTL

\* No handler and no matchmaker sleeps through the wake-up meant for it.
THEOREM NoLostWakeups == Spec => []NoLostWakeup
<1>1. IInv => NoLostWakeup
  BY DEF IInv, WakeInv, MatchmakerInv, NoLostWakeup
<1> QED
  BY <1>1, Invariance, PTL
=============================================================================
