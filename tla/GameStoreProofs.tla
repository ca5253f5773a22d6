-------------------------- MODULE GameStoreProofs --------------------------
(***************************************************************************)
(* Proofs about GameStore for any number of game threads and handlers.     *)
(***************************************************************************)
EXTENDS GameStoreProps, NumberLemmas, SequenceTheorems

\* What MutexExact rests on: where a thread can be, and one holder at a time.
LockInv ==
    /\ gPc \in [Games -> GamePcs]
    /\ rPc \in [Readers -> ReaderPcs]
    /\ MutexExact

\* At the start nobody holds the mutex.
LEMMA InitLock == Init => LockInv
BY ThreadsAssumption DEF Init, LockInv, MutexExact, GamePcs, ReaderPcs

\* The steps of a game thread take the mutex when it is free and let it go at the end.
LEMMA StepGame == ASSUME LockInv, NEW g \in Games, Game(g) PROVE LockInv'
<1> USE ThreadsAssumption DEF LockInv, MutexExact, GamePcs, ReaderPcs
<1>1. CASE Match(g)
  BY <1>1 DEF Match, GameAt, readerVars
<1>2. CASE AddSessionFails(g)
  BY <1>2 DEF AddSessionFails, GameAt, readerVars
<1>3. CASE InsertSession(g)
  BY <1>3 DEF InsertSession, GameAt, readerVars
<1>4. CASE TakeRowid(g)
  BY <1>4 DEF TakeRowid, GameAt, readerVars
<1>5. CASE InsertWords(g)
  <2>1. CASE gameDaoMutex' = NoOne /\ GameAt(g, "recorded")
    BY <1>5, <2>1 DEF InsertWords, GameAt, readerVars
  <2>2. CASE UNCHANGED <<gameDaoMutex, gPc>>
    BY <1>5, <2>2 DEF InsertWords, readerVars
  <2> QED
    BY <1>5, <2>1, <2>2 DEF InsertWords, AfterWord
<1>6. CASE Release(g)
  BY <1>6 DEF Release, GameAt, readerVars
<1> QED
  BY <1>1, <1>2, <1>3, <1>4, <1>5, <1>6 DEF Game

\* A statement of fetchLeaderboard moves its reader on and keeps the mutex, unless it
\* is the last.
LEMMA StepReads ==
    ASSUME LockInv, NEW r \in Readers, NEW from, NEW to, NEW result, Reads(r, from, to, result),
           from \in ReaderPcs \ {"menu", "shown", "flowShown"},
           to \in ReaderPcs \ {"menu", "flowShown"}
    PROVE  LockInv'
<1> USE ThreadsAssumption DEF LockInv, MutexExact, GamePcs, ReaderPcs
<1>1. /\ gameDaoMutex = r /\ rPc' = [rPc EXCEPT ![r] = to] /\ gPc' = gPc
      /\ gameDaoMutex' = IF to = "shown" THEN NoOne ELSE r
  BY DEF Reads, gameVars
<1>2. CASE to = "shown"
  BY <1>1, <1>2
<1>3. CASE to # "shown"
  BY <1>1, <1>3
<1> QED
  BY <1>2, <1>3

\* So do the other steps of a handler.
LEMMA StepReader == ASSUME LockInv, NEW r \in Readers, Reader(r) PROVE LockInv'
<1>1. CASE AskBoard(r)
  BY <1>1, ThreadsAssumption DEF AskBoard, gameVars, LockInv, MutexExact, GamePcs, ReaderPcs
<1>2. CASE BestMin(r) \/ BestRows(r) \/ Mine(r) \/ TopMin(r) \/ TopRows(r) \/ UserAv(r) \/ Av(r)
  <2>1. PICK from \in ReaderPcs \ {"menu", "shown", "flowShown"},
             to \in ReaderPcs \ {"menu", "flowShown"} : \E result : Reads(r, from, to, result)
    <3>1. CASE BestMin(r)
      BY <3>1 DEF BestMin, ReaderPcs
    <3>2. CASE BestRows(r)
      BY <3>2 DEF BestRows, ReaderPcs
    <3>3. CASE Mine(r)
      BY <3>3 DEF Mine, ReaderPcs
    <3>4. CASE TopMin(r) \/ TopRows(r)
      BY <3>4 DEF TopMin, TopRows, ReaderPcs
    <3>5. CASE UserAv(r) \/ Av(r)
      BY <3>5 DEF UserAv, Av, ReaderPcs
    <3> QED
      BY <1>2, <3>1, <3>2, <3>3, <3>4, <3>5
  <2> QED
    BY <2>1, StepReads
<1>3. CASE ReadFails(r)
  <2>1. /\ rPc[r] \in ReaderPcs \ {"menu", "shown", "flowShown"}
        /\ AfterFailure[rPc[r]] \in ReaderPcs \ {"menu", "flowShown"}
    BY <1>3 DEF ReadFails, AfterFailure, ReaderPcs
  <2> QED
    BY <1>3, <2>1, StepReads DEF ReadFails
<1>4. CASE AskFlow(r)
  BY <1>4, ThreadsAssumption DEF AskFlow, gameVars, LockInv, MutexExact, GamePcs, ReaderPcs
<1>5. CASE FlowPair(r)
  BY <1>5, ThreadsAssumption DEF FlowPair, gameVars, LockInv, MutexExact, GamePcs, ReaderPcs
<1>6. CASE FlowRounds(r)
  BY <1>6, ThreadsAssumption DEF FlowRounds, gameVars, LockInv, MutexExact, GamePcs, ReaderPcs
<1>7. CASE ToMenu(r)
  BY <1>7, ThreadsAssumption DEF ToMenu, gameVars, LockInv, MutexExact, GamePcs, ReaderPcs
<1> QED
  BY <1>1, <1>2, <1>3, <1>4, <1>5, <1>6, <1>7 DEF Reader

\* After a restart nobody holds the mutex, and nobody thinks it does.
LEMMA StepRestart == ASSUME LockInv, Restart PROVE LockInv'
BY ThreadsAssumption DEF Restart, LockInv, MutexExact, GamePcs, ReaderPcs

\* The mutex is held exactly inside the critical sections of GameDAO's callers, so that
\* no two threads are between their first and their last statement at once.
THEOREM MutexCorrect == Spec => []MutexExact
<1>1. LockInv /\ [Next]_vars => LockInv'
  <2> SUFFICES ASSUME LockInv, [Next]_vars PROVE LockInv'
    OBVIOUS
  <2>1. CASE UNCHANGED vars
    BY <2>1 DEF vars, gameVars, readerVars, LockInv, MutexExact
  <2>2. CASE AddUser
    BY <2>2 DEF AddUser, gameVars, readerVars, LockInv, MutexExact
  <2>3. CASE Crash \/ \E r \in Readers : BadId(r)
    BY <2>3, StepRestart DEF Crash, BadId
  <2> QED
    BY <2>1, <2>2, <2>3, StepGame, StepReader DEF Next
<1>2. LockInv => MutexExact
  BY DEF LockInv
<1> QED
  BY <1>1, <1>2, InitLock, PTL DEF Spec
-----------------------------------------------------------------------------
(* What the tables hold.                                                   *)

HasRow(g) == \E i \in DOMAIN sessions : sessions[i].game = g

\* How far the recording of a game has come.
GameInv ==
    \A g \in Games :
        /\ gPc[g] # "playing" => play[g] \in Plays /\ done[g] <= play[g].rounds
        /\ gPc[g] \in {"playing", "session", "rowid"} => done[g] = 0
        /\ gPc[g] = "words" => done[g] < play[g].rounds
        /\ gPc[g] \in {"recorded", "over"} /\ g \notin failed => done[g] = play[g].rounds /\ HasRow(g)
        /\ gPc[g] \in {"rowid", "words"} => sessions # <<>> /\ sessions[Len(sessions)].game = g
        /\ g \in failed => gPc[g] \in {"recorded", "over"}

\* A game has one row, with what it ended with.
RowInv ==
    /\ \A i \in DOMAIN sessions :
        LET g == sessions[i].game IN
        /\ sessions[i].play = play[g] /\ play[g].p1 # play[g].p2
        /\ gPc[g] \notin {"playing", "session"}
    /\ \A i, j \in DOMAIN sessions : sessions[i].game = sessions[j].game => i = j

\* The rounds of a game come in order, all under its gameId.
WordInv ==
    /\ \A i \in DOMAIN words : words[i].game_id = gameId[words[i].game]
    /\ \A g \in Games : AreRounds(RowsOfGame(g), g, done[g])

\* A reader has a board or a flow where it works on one.
ReaderInv ==
    \A r \in Readers :
        /\ rPc[r] \in {"bestMin", "bestRows", "mine", "topMin", "topRows", "userAv", "av", "shown"} =>
            board[r] \in Boards
        /\ rPc[r] \in {"flowPair", "flowRounds", "flowShown"} => flow[r] \in Flows

TablesInv == TypeOK /\ LockInv /\ GameInv /\ RowInv /\ WordInv /\ ReaderInv

LEMMA InitTables == Init => TablesInv
<1> SUFFICES ASSUME Init PROVE TablesInv
  OBVIOUS
<1>1. TypeOK
  <2>1. sessions \in Seq([game : Games, play : Plays]) /\ words \in Seq(Word)
    BY DEF Init
  <2>2. /\ numUsers \in 0..MaxUsers /\ lastRowid \in Nat /\ crashes \in 0..MaxCrashes
        /\ done \in [Games -> 0..MaxRounds]
    BY BoundsAssumption DEF Init
  <2> QED
    BY <2>1, <2>2 DEF Init, TypeOK, GamePcs, ReaderPcs, Idle
<1>2. GameInv /\ RowInv /\ ReaderInv
  BY DEF Init, GameInv, RowInv, ReaderInv
<1>3. WordInv
  BY DEF Init, WordInv, RowsOfGame, AreRounds
<1> QED
  BY <1>1, <1>2, <1>3, InitLock DEF TablesInv

\* A new row leaves the other rows as they are.
LEMMA AddedRow ==
    ASSUME NEW S, NEW q \in Seq(S), NEW e \in S
    PROVE  /\ Append(q, e) \in Seq(S)
           /\ DOMAIN Append(q, e) = DOMAIN q \cup {Len(q) + 1}
           /\ Len(q) + 1 \notin DOMAIN q
           /\ \A i \in DOMAIN q : i \in Nat /\ i < Len(q) + 1 /\ Append(q, e)[i] = q[i]
           /\ Append(q, e)[Len(q) + 1] = e
           /\ Append(q, e) # <<>> /\ Len(Append(q, e)) = Len(q) + 1
OBVIOUS

LEMMA RowIn == ASSUME NEW S, NEW q \in Seq(S) PROVE \A i \in DOMAIN q : q[i] \in S /\ i \in Nat
OBVIOUS

\* The types of single rows.
LEMMA RowTypes ==
    ASSUME TablesInv
    PROVE  /\ \A i \in DOMAIN sessions :
                i \in Nat /\ sessions[i].game \in Games /\ sessions[i].play \in Plays
           /\ \A i \in DOMAIN words :
                /\ i \in Nat /\ words[i].game_id \in Nat
                /\ words[i].game \in Games /\ words[i].round \in 1..MaxRounds
<1>1. /\ \A i \in DOMAIN sessions : sessions[i] \in [game : Games, play : Plays] /\ i \in Nat
      /\ \A i \in DOMAIN words : words[i] \in Word /\ i \in Nat
  BY RowIn DEF TablesInv, TypeOK
<1> QED
  BY <1>1 DEF Word

\* The types of the boards do not depend on rows to come.
LEMMA ReadersFrame ==
    ASSUME TablesInv, UNCHANGED readerVars,
           DOMAIN sessions \subseteq (DOMAIN sessions)', DOMAIN words \subseteq (DOMAIN words)'
    PROVE  /\ ReaderInv'
           /\ board' \in [Readers -> Boards' \cup {<<>>}] /\ flow' \in [Readers -> Flows' \cup {<<>>}]
<1>1. Boards \subseteq Boards'
  BY DEF Boards, RowIds
<1>2. Flows \subseteq Flows'
  BY DEF Flows
<1> QED
  BY <1>1, <1>2 DEF TablesInv, TypeOK, ReaderInv, readerVars

\* The end of a game: it has no rows yet.
LEMMA TablesMatch == ASSUME TablesInv, NEW g \in Games, Match(g) PROVE TablesInv'
<1> USE DEF Match, GameAt, tables
<1>1. LockInv'
  BY StepGame DEF TablesInv, Game
<1>2. ReaderInv' /\ board' \in [Readers -> Boards' \cup {<<>>}] /\ flow' \in [Readers -> Flows' \cup {<<>>}]
  BY ReadersFrame
<1>3. PICK p \in Plays : play' = [play EXCEPT ![g] = p]
  OBVIOUS
<1>4. play' \in [Games -> Plays \cup {<<>>}] /\ p.rounds \in 1..MaxRounds
  BY <1>3 DEF TablesInv, TypeOK, Plays
<1>5. TypeOK'
  BY <1>1, <1>2, <1>4 DEF TablesInv, TypeOK, LockInv, readerVars
<1>6. GameInv'
  BY <1>3, <1>4 DEF TablesInv, TypeOK, GameInv, HasRow, GamePcs
<1>7. RowInv'
  <2>1. \A i \in DOMAIN sessions : sessions[i].game \in Games \ {g}
    BY RowTypes DEF TablesInv, RowInv
  <2> QED
    BY <1>3, <2>1 DEF TablesInv, TypeOK, RowInv
<1>8. WordInv'
  BY DEF TablesInv, WordInv, RowsOfGame, AreRounds
<1> QED
  BY <1>1, <1>2, <1>5, <1>6, <1>7, <1>8 DEF TablesInv

\* What breaks off has failed; what was inserted stays.
LEMMA TablesAddSessionFails ==
    ASSUME TablesInv, NEW g \in Games, AddSessionFails(g) PROVE TablesInv'
<1> USE DEF AddSessionFails, GameAt, tables
<1>1. LockInv'
  BY StepGame DEF TablesInv, Game
<1>2. ReaderInv' /\ board' \in [Readers -> Boards' \cup {<<>>}] /\ flow' \in [Readers -> Flows' \cup {<<>>}]
  BY ReadersFrame
<1>3. TypeOK'
  BY <1>1, <1>2 DEF TablesInv, TypeOK, LockInv, readerVars
<1>4. GameInv'
  BY DEF TablesInv, TypeOK, GameInv, HasRow, GamePcs
<1>5. RowInv'
  BY DEF TablesInv, TypeOK, RowInv
<1>6. WordInv'
  BY DEF TablesInv, WordInv, RowsOfGame, AreRounds
<1> QED
  BY <1>1, <1>2, <1>3, <1>4, <1>5, <1>6 DEF TablesInv

\* A game enters its row once.
LEMMA TablesInsertSession ==
    ASSUME TablesInv, NEW g \in Games, InsertSession(g) PROVE TablesInv'
<1> USE DEF InsertSession, GameAt
<1> DEFINE row == [game |-> g, play |-> play[g]]
<1>1. LockInv'
  BY StepGame DEF TablesInv, Game
<1>2. play[g] \in Plays /\ row \in [game : Games, play : Plays]
  BY DEF TablesInv, GameInv
<1>3. /\ sessions' \in Seq([game : Games, play : Plays])
      /\ DOMAIN sessions' = DOMAIN sessions \cup {Len(sessions) + 1}
      /\ Len(sessions) + 1 \notin DOMAIN sessions /\ Len(sessions) \in Nat
      /\ \A i \in DOMAIN sessions : sessions'[i] = sessions[i]
      /\ sessions'[Len(sessions) + 1] = row
      /\ sessions' # <<>> /\ Len(sessions') = Len(sessions) + 1
  BY <1>2, AddedRow DEF TablesInv, TypeOK
<1>4. ReaderInv' /\ board' \in [Readers -> Boards' \cup {<<>>}] /\ flow' \in [Readers -> Flows' \cup {<<>>}]
  BY <1>3, ReadersFrame
<1>5. TypeOK'
  BY <1>1, <1>3, <1>4 DEF TablesInv, TypeOK, LockInv, readerVars
<1>6. GameInv'
  <2>1. \A h \in Games \ {g} : gPc[h] \notin {"rowid", "words"}
    BY DEF TablesInv, LockInv, MutexExact
  <2>2. \A h \in Games : HasRow(h) => HasRow(h)'
    BY <1>3 DEF HasRow
  <2> QED
    <3>1. /\ \A h \in Games \ {g} : gPc'[h] = gPc[h]
          /\ gPc[g] = "session" /\ gPc'[g] = "rowid" /\ play' = play /\ done' = done /\ failed' = failed
      BY DEF TablesInv, TypeOK
    <3>2. sessions'[Len(sessions')].game = g
      BY <1>3
    <3>3. ASSUME NEW h \in Games \ {g}
          PROVE  /\ gPc'[h] # "playing" => play'[h] \in Plays /\ done'[h] <= play'[h].rounds
                 /\ gPc'[h] \in {"playing", "session", "rowid"} => done'[h] = 0
                 /\ gPc'[h] = "words" => done'[h] < play'[h].rounds
                 /\ gPc'[h] \in {"recorded", "over"} /\ h \notin failed' =>
                        done'[h] = play'[h].rounds /\ HasRow(h)'
                 /\ gPc'[h] \notin {"rowid", "words"}
                 /\ h \in failed' => gPc'[h] \in {"recorded", "over"}
      BY <2>1, <2>2, <3>1 DEF TablesInv, GameInv
    <3> QED
      BY <1>3, <3>1, <3>2, <3>3 DEF TablesInv, GameInv
<1>7. RowInv'
  <2>1. \A i \in DOMAIN sessions : sessions[i].game \in Games \ {g}
    BY RowTypes DEF TablesInv, RowInv
  <2>2. \A i \in DOMAIN sessions' : \/ i \in DOMAIN sessions /\ sessions'[i] = sessions[i]
                                    \/ i = Len(sessions) + 1 /\ sessions'[i] = row
    BY <1>3
  <2>3. \A i \in DOMAIN sessions' :
            LET h == sessions'[i].game IN
            sessions'[i].play = play'[h] /\ play'[h].p1 # play'[h].p2 /\ gPc'[h] \notin {"playing", "session"}
    <3>1. /\ \A h \in Games \ {g} : gPc'[h] = gPc[h]
          /\ gPc'[g] = "rowid" /\ play' = play /\ play[g].p1 # play[g].p2
      BY DEF TablesInv, TypeOK
    <3> QED
      BY <2>1, <2>2, <3>1 DEF TablesInv, RowInv
  <2>4. \A i, j \in DOMAIN sessions' : sessions'[i].game = sessions'[j].game => i = j
    BY <2>1, <2>2 DEF TablesInv, RowInv
  <2> QED
    BY <2>3, <2>4 DEF RowInv
<1>8. WordInv'
  BY DEF TablesInv, WordInv, RowsOfGame, AreRounds
<1> QED
  BY <1>1, <1>4, <1>5, <1>6, <1>7, <1>8 DEF TablesInv

\* Before the look at its number a game has no rounds that could be misfiled.
LEMMA TablesTakeRowid == ASSUME TablesInv, NEW g \in Games, TakeRowid(g) PROVE TablesInv'
<1> USE DEF TakeRowid, GameAt, tables
<1>1. LockInv'
  BY StepGame DEF TablesInv, Game
<1>2. ReaderInv' /\ board' \in [Readers -> Boards' \cup {<<>>}] /\ flow' \in [Readers -> Flows' \cup {<<>>}]
  BY ReadersFrame
<1>3. TypeOK'
  BY <1>1, <1>2 DEF TablesInv, TypeOK, LockInv, readerVars
<1>4. GameInv'
  BY DEF TablesInv, TypeOK, GameInv, HasRow, GamePcs, Plays
<1>5. RowInv'
  BY DEF TablesInv, TypeOK, RowInv
<1>6. WordInv'
  <2>1. \A i \in DOMAIN words : words[i].game \in Games \ {g}
    <3>1. AreRounds(RowsOfGame(g), g, 0)
      BY DEF TablesInv, WordInv, GameInv
    <3>2. RowsOfGame(g) = {}
      BY <3>1 DEF AreRounds
    <3> QED
      BY <3>2, RowTypes DEF RowsOfGame
  <2> QED
    BY <2>1 DEF TablesInv, TypeOK, WordInv, RowsOfGame, AreRounds
<1> QED
  BY <1>1, <1>2, <1>3, <1>4, <1>5, <1>6 DEF TablesInv

\* The next round of a game follows its earlier ones.
LEMMA TablesInsertWords == ASSUME TablesInv, NEW g \in Games, InsertWords(g) PROVE TablesInv'
<1> USE DEF InsertWords, AddWord
<1> DEFINE k == done[g] + 1
           row == [game_id |-> gameId[g], game |-> g, round |-> k]
           n == Len(words) + 1
<1>1. LockInv'
  BY StepGame DEF TablesInv, Game
<1>2. play[g] \in Plays /\ play[g].rounds \in 1..MaxRounds /\ k <= play[g].rounds /\ k \in 1..MaxRounds
  <2>1. play[g] \in Plays /\ done[g] < play[g].rounds /\ done[g] \in 0..MaxRounds
    BY DEF TablesInv, GameInv, TypeOK
  <2> QED
    BY <2>1, BoundsAssumption DEF Plays
<1>3. row \in Word
  BY <1>2 DEF Word, TablesInv, TypeOK
<1>4. /\ words' \in Seq(Word)
      /\ DOMAIN words' = DOMAIN words \cup {n} /\ n \notin DOMAIN words /\ n \in Nat
      /\ \A i \in DOMAIN words : i \in Nat /\ i < n /\ words'[i] = words[i]
      /\ words'[n] = row
  <2> HIDE DEF row
  <2> QED
    BY <1>3, AddedRow DEF TablesInv, TypeOK, row
<1>5. ReaderInv' /\ board' \in [Readers -> Boards' \cup {<<>>}] /\ flow' \in [Readers -> Flows' \cup {<<>>}]
  BY <1>4, ReadersFrame
<1>6. done' = [done EXCEPT ![g] = k]
  OBVIOUS
<1> HIDE DEF k, row, n
<1>7. TypeOK'
  <2>1. lastRowid' \in Nat
    BY <1>4 DEF n
  <2>2. done' \in [Games -> 0..MaxRounds]
    BY <1>2, <1>6 DEF TablesInv, TypeOK
  <2>3. gameDaoMutex' \in Games \cup Readers \cup {NoOne}
    BY DEF AfterWord, TablesInv, TypeOK
  <2> QED
    BY <1>1, <1>4, <1>5, <2>1, <2>2, <2>3 DEF TablesInv, TypeOK, LockInv, readerVars
<1>8. GameInv'
  <2>1. sessions # <<>> /\ sessions[Len(sessions)].game = g /\ HasRow(g) /\ g \notin failed
    <3>1. sessions # <<>> /\ sessions[Len(sessions)].game = g /\ g \notin failed
      BY DEF TablesInv, GameInv
    <3>2. Len(sessions) \in DOMAIN sessions
      BY <3>1 DEF TablesInv, TypeOK
    <3> QED
      BY <3>1, <3>2 DEF HasRow
  <2>2. CASE k = play[g].rounds
    <3>1. gPc' = [gPc EXCEPT ![g] = "recorded"]
      BY <2>2 DEF AfterWord, GameAt, k
    <3> QED
      <4>1. /\ \A h \in Games \ {g} : gPc'[h] = gPc[h] /\ done'[h] = done[h]
            /\ gPc'[g] = "recorded" /\ done'[g] = play[g].rounds
            /\ play' = play /\ failed' = failed /\ sessions' = sessions
        BY <1>6, <2>2, <3>1 DEF TablesInv, TypeOK
      <4> QED
        BY <1>2, <2>1, <2>2, <4>1 DEF TablesInv, GameInv, HasRow
  <2>3. CASE k # play[g].rounds
    <3>1. gPc' = gPc
      BY <2>3 DEF AfterWord, k
    <3>2. k < play[g].rounds
      BY <1>2, <2>3
    <3>3. /\ \A h \in Games \ {g} : done'[h] = done[h]
          /\ done'[g] = k /\ play' = play /\ failed' = failed /\ sessions' = sessions
      BY <1>6 DEF TablesInv, TypeOK
    <3>4. gPc[g] = "words" /\ k \in Nat
      BY <1>2
    <3> QED
      BY <1>2, <2>1, <3>1, <3>2, <3>3, <3>4 DEF TablesInv, GameInv, HasRow
  <2> QED
    BY <2>2, <2>3
<1>9. RowInv'
  <2>1. gPc' = gPc \/ gPc' = [gPc EXCEPT ![g] = "recorded"]
    BY DEF AfterWord, GameAt
  <2> QED
    <3>1. \A h \in Games : gPc[h] \notin {"playing", "session"} => gPc'[h] \notin {"playing", "session"}
      BY <2>1 DEF TablesInv, TypeOK
    <3> QED
      BY <3>1, RowTypes DEF TablesInv, RowInv
<1>10. WordInv'
  <2>1. \A i \in DOMAIN words' : words'[i].game_id = gameId'[words'[i].game]
    BY <1>4 DEF row, TablesInv, WordInv
  <2>2. \A h \in Games \ {g} : AreRounds(RowsOfGame(h), h, done[h])'
    <3> SUFFICES ASSUME NEW h \in Games \ {g} PROVE AreRounds(RowsOfGame(h), h, done[h])'
      OBVIOUS
    <3>1. RowsOfGame(h)' = RowsOfGame(h) /\ done'[h] = done[h] /\ RowsOfGame(h) \subseteq DOMAIN words
      BY <1>4, <1>6 DEF row, RowsOfGame, TablesInv, TypeOK
    <3> QED
      BY <1>4, <3>1 DEF TablesInv, WordInv, AreRounds
  <2>3. AreRounds(RowsOfGame(g), g, done[g])'
    <3>1. RowsOfGame(g)' = RowsOfGame(g) \cup {n} /\ RowsOfGame(g) \subseteq DOMAIN words
      BY <1>4 DEF row, RowsOfGame
    <3>2. done'[g] = k /\ done[g] \in Nat /\ k = done[g] + 1
      BY <1>6 DEF TablesInv, TypeOK, k
    <3>3. AreRounds(RowsOfGame(g), g, done[g])
      BY DEF TablesInv, WordInv
    <3>4. \A i \in RowsOfGame(g) : words'[i] = words[i] /\ words[i].round \in 1..done[g] /\ i < n /\ i \in Nat
      BY <1>4, <3>1, <3>3 DEF AreRounds
    <3>5. words'[n].round = k /\ words'[n].game = g
      BY <1>4 DEF row
    <3>6. {words'[i].round : i \in RowsOfGame(g) \cup {n}} = 1..k
      <4>1. {words'[i].round : i \in RowsOfGame(g) \cup {n}} = {words[i].round : i \in RowsOfGame(g)} \cup {k}
        BY <3>4, <3>5
      <4>2. {words[i].round : i \in RowsOfGame(g)} = 1..done[g]
        BY <3>3 DEF AreRounds
      <4>3. 1..done[g] \cup {k} = 1..k
        BY <3>2
      <4> QED
        BY <4>1, <4>2, <4>3
    <3>7. \A i, j \in RowsOfGame(g) \cup {n} : i < j => words'[i].round < words'[j].round
      <4>1. \A i, j \in RowsOfGame(g) : i < j => words'[i].round < words'[j].round
        BY <3>3, <3>4 DEF AreRounds
      <4>2. \A i \in RowsOfGame(g) : i < n /\ words'[i].round < words'[n].round /\ ~(n < i)
        <5>1. SUFFICES ASSUME NEW i \in RowsOfGame(g)
                       PROVE  i < n /\ words'[i].round < words'[n].round /\ ~(n < i)
          OBVIOUS
        <5>2. words'[i].round \in 1..done[g] /\ i < n /\ i \in Nat
          BY <3>4
        <5>3. words'[i].round < words'[n].round
          <6>1. \A x \in 1..done[g] : x < k
            BY <3>2
          <6> QED
            BY <3>5, <5>2, <6>1
        <5>4. ~(n < i)
          BY <1>4, <5>2
        <5> QED
          BY <5>2, <5>3, <5>4
      <4>3. ~(n < n)
        BY <1>4
      <4> QED
        BY <4>1, <4>2, <4>3
    <3>8. \A i \in RowsOfGame(g) \cup {n} : words'[i].game = g
      BY <3>3, <3>4, <3>5 DEF AreRounds
    <3> QED
      BY <3>1, <3>2, <3>6, <3>7, <3>8 DEF AreRounds
  <2> QED
    BY <2>1, <2>2, <2>3 DEF WordInv
<1> QED
  BY <1>1, <1>5, <1>7, <1>8, <1>9, <1>10 DEF TablesInv

LEMMA TablesRelease == ASSUME TablesInv, NEW g \in Games, Release(g) PROVE TablesInv'
<1> USE DEF Release, GameAt, tables
<1>1. LockInv'
  BY StepGame DEF TablesInv, Game
<1>2. ReaderInv' /\ board' \in [Readers -> Boards' \cup {<<>>}] /\ flow' \in [Readers -> Flows' \cup {<<>>}]
  BY ReadersFrame
<1>3. TypeOK'
  BY <1>1, <1>2 DEF TablesInv, TypeOK, LockInv, readerVars
<1>4. GameInv'
  <2>1. /\ \A h \in Games \ {g} : gPc'[h] = gPc[h]
        /\ gPc[g] = "recorded" /\ gPc'[g] = "over"
        /\ UNCHANGED <<sessions, play, done, failed>>
    BY DEF TablesInv, TypeOK
  <2> QED
    BY <2>1 DEF TablesInv, GameInv, HasRow
<1>5. RowInv'
  BY DEF TablesInv, TypeOK, RowInv
<1>6. WordInv'
  BY DEF TablesInv, WordInv, RowsOfGame, AreRounds
<1> QED
  BY <1>1, <1>2, <1>3, <1>4, <1>5, <1>6 DEF TablesInv

\* The minimum is 0 without rows, and otherwise that of a row.
LEMMA MinRoundsIs ==
    ASSUME NEW T, NEW I, \A i \in I : Rounds(T, i) \in 1..MaxRounds
    PROVE  /\ I = {} => MinRounds(T, I) = 0
           /\ I # {} => /\ \E i \in I : MinRounds(T, I) = Rounds(T, i)
                        /\ \A i \in I : MinRounds(T, I) <= Rounds(T, i)
           /\ MinRounds(T, I) \in 0..MaxRounds
<1> USE BoundsAssumption
<1>1. CASE I = {}
  BY <1>1 DEF MinRounds
<1>2. CASE I # {}
  <2> DEFINE R == {Rounds(T, i) : i \in I}
  <2>1. R \in SUBSET Nat /\ R # {}
    BY <1>2
  <2>2. PICK n \in R : \A m \in R : n <= m
    BY <2>1, LeastNumber
  <2>3. MinRounds(T, I) \in R /\ \A i \in I : MinRounds(T, I) <= Rounds(T, i)
    BY <1>2, <2>2 DEF MinRounds
  <2> QED
    BY <1>2, <2>3
<1> QED
  BY <1>1, <1>2

\* What a reader has does not concern the tables.
LEMMA ReaderFrame ==
    ASSUME TablesInv, UNCHANGED <<tables, gameVars, crashes>>
    PROVE  /\ (GameInv /\ RowInv /\ WordInv)'
           /\ Boards' = Boards /\ Flows' = Flows
           /\ LockInv' /\ board' \in [Readers -> Boards \cup {<<>>}] /\ flow' \in [Readers -> Flows \cup {<<>>}]
              /\ gameDaoMutex' \in Games \cup Readers \cup {NoOne} => TypeOK'
<1> USE DEF tables, gameVars
<1>1. (GameInv /\ RowInv /\ WordInv)'
  BY DEF TablesInv, GameInv, RowInv, WordInv, HasRow, RowsOfGame, AreRounds
<1>2. Boards' = Boards /\ Flows' = Flows
  BY DEF Boards, Flows, RowIds
<1> QED
  BY <1>1, <1>2 DEF TablesInv, TypeOK, LockInv

\* A statement of fetchLeaderboard keeps a board a board.
LEMMA TablesReads ==
    ASSUME TablesInv, NEW r \in Readers, NEW from, NEW to, NEW result, Reads(r, from, to, result),
           from \in {"bestMin", "bestRows", "mine", "topMin", "topRows", "userAv", "av"},
           to \in {"bestRows", "mine", "topMin", "topRows", "userAv", "av", "shown"},
           board[r] \in Boards => result \in Boards
    PROVE  TablesInv'
<1>1. LockInv'
  BY StepReads DEF TablesInv, ReaderPcs
<1>2. board[r] \in Boards /\ result \in Boards
  BY DEF Reads, TablesInv, ReaderInv
<1>3. /\ (GameInv /\ RowInv /\ WordInv)'
      /\ Boards' = Boards /\ Flows' = Flows
  BY ReaderFrame DEF Reads
<1>4. \A q \in Readers : board'[q] = board[q] \/ (q = r /\ board'[q] \in Boards)
  BY <1>2 DEF Reads, TablesInv, TypeOK
<1>5. board' \in [Readers -> Boards \cup {<<>>}] /\ flow' = flow
  BY <1>2 DEF Reads, TablesInv, TypeOK
<1>6. gameDaoMutex' \in Games \cup Readers \cup {NoOne}
  BY DEF Reads, TablesInv, TypeOK
<1>7. TypeOK'
  BY <1>1, <1>5, <1>6, ReaderFrame DEF Reads, TablesInv, TypeOK
<1>8. ReaderInv'
  <2>1. rPc' = [rPc EXCEPT ![r] = to] /\ rPc[r] = from
    BY DEF Reads
  <2>2. board'[r] \in Boards
    BY <1>2 DEF Reads, TablesInv, TypeOK
  <2> QED
    BY <1>3, <1>4, <1>5, <2>1, <2>2 DEF TablesInv, TypeOK, ReaderInv
<1> QED
  BY <1>1, <1>3, <1>7, <1>8 DEF TablesInv

\* The rounds of the rows of the sessions table.
LEMMA RoundsTypes ==
    ASSUME TablesInv
    PROVE  \A i \in DOMAIN sessions :
                /\ Rounds(sessions, i) \in 1..MaxRounds
                /\ \A p \in Players : Partner(sessions, p, i) \in Players
BY RowTypes DEF Rounds, Partner, Plays

\* Each statement of fetchLeaderboard, answered or failed.
LEMMA TablesBoard ==
    ASSUME TablesInv, NEW r \in Readers,
           \/ BestMin(r) \/ BestRows(r) \/ Mine(r) \/ TopMin(r) \/ TopRows(r)
           \/ UserAv(r) \/ Av(r) \/ ReadFails(r)
    PROVE  TablesInv'
<1> DEFINE b == board[r]
           rows == RowsOf(sessions, b.who)
<1>1. rows \subseteq DOMAIN sessions
  BY DEF RowsOf
<1>2. CASE BestMin(r)
  <2>1. MinRounds(sessions, rows) \in 0..MaxRounds
    BY <1>1, MinRoundsIs, RoundsTypes
  <2>2. b \in Boards => [b EXCEPT !.min = MinRounds(sessions, rows)] \in Boards
    BY <2>1 DEF Boards
  <2> QED
    BY <1>2, <2>2, TablesReads DEF BestMin
<1>3. CASE BestRows(r)
  <2> DEFINE best == Partners(sessions, b.who, RowsWith(sessions, rows, b.min))
  <2>1. b \in Boards => best \in SUBSET (Players \X (1..MaxRounds))
    BY <1>1, RoundsTypes DEF Partners, RowsWith, Boards
  <2>2. b \in Boards => [b EXCEPT !.best = best] \in Boards
    BY <2>1 DEF Boards
  <2> QED
    BY <1>3, <2>2, TablesReads DEF BestRows
<1>4. CASE Mine(r)
  <2>1. PICK J \in Ranking(sessions, rows) : Reads(r, "mine", "topMin", [b EXCEPT !.mine = J])
    BY <1>4 DEF Mine
  <2>2. J \in RowIds
    BY <1>1 DEF Ranking, RowIds
  <2>3. b \in Boards => [b EXCEPT !.mine = J] \in Boards
    BY <2>2 DEF Boards
  <2> QED
    BY <2>1, <2>3, TablesReads
<1>5. CASE TopMin(r)
  <2>1. MinRounds(sessions, DOMAIN sessions) \in 0..MaxRounds
    BY MinRoundsIs, RoundsTypes
  <2>2. b \in Boards => [b EXCEPT !.topMin = MinRounds(sessions, DOMAIN sessions)] \in Boards
    BY <2>1 DEF Boards
  <2> QED
    BY <1>5, <2>2, TablesReads DEF TopMin
<1>6. CASE TopRows(r)
  <2> DEFINE top == RowsWith(sessions, DOMAIN sessions, b.topMin)
  <2>1. top \in RowIds
    BY DEF RowsWith, RowIds
  <2>2. b \in Boards => [b EXCEPT !.top = top] \in Boards
    BY <2>1 DEF Boards
  <2> QED
    BY <1>6, <2>2, TablesReads DEF TopRows
<1>7. CASE UserAv(r)
  <2>1. b \in Boards => [b EXCEPT !.userAv = rows] \in Boards
    BY <1>1 DEF Boards, RowIds
  <2> QED
    BY <1>7, <2>1, TablesReads DEF UserAv
<1>8. CASE Av(r)
  <2>1. b \in Boards => [b EXCEPT !.av = DOMAIN sessions] \in Boards
    BY DEF Boards, RowIds
  <2> QED
    BY <1>8, <2>1, TablesReads DEF Av
<1>9. CASE ReadFails(r)
  <2> DEFINE result == [NewBoard(b.who, {}) EXCEPT !.failed = TRUE]
  <2>1. b \in Boards => result \in Boards
    <3> DEFINE new == NewBoard(b.who, {})
    <3>1. b \in Boards => new \in Boards
      BY BoundsAssumption DEF Boards, NewBoard, RowIds
    <3> HIDE DEF new
    <3>2. new \in Boards => [new EXCEPT !.failed = TRUE] \in Boards
      BY DEF Boards
    <3> QED
      BY <3>1, <3>2 DEF new
  <2>2. rPc[r] \in DOMAIN AfterFailure /\ Reads(r, rPc[r], AfterFailure[rPc[r]], result)
    BY <1>9 DEF ReadFails
  <2>3. /\ rPc[r] \in {"bestMin", "bestRows", "mine", "topMin", "topRows", "userAv", "av"}
        /\ AfterFailure[rPc[r]] \in {"bestRows", "mine", "topMin", "topRows", "userAv", "av", "shown"}
    BY <2>2 DEF AfterFailure
  <2> HIDE DEF result
  <2> QED
    BY <2>1, <2>2, <2>3, TablesReads
<1> QED
  BY <1>2, <1>3, <1>4, <1>5, <1>6, <1>7, <1>8, <1>9

\* A leaderboard is asked for.
LEMMA TablesAskBoard == ASSUME TablesInv, NEW r \in Readers, AskBoard(r) PROVE TablesInv'
<1> USE DEF AskBoard
<1>1. LockInv'
  BY StepReader DEF TablesInv, Reader
<1>2. (GameInv /\ RowInv /\ WordInv)' /\ Boards' = Boards /\ Flows' = Flows
  BY ReaderFrame
<1>3. PICK p \in Players : board' = [board EXCEPT ![r] = NewBoard(p, Finished(p))]
  OBVIOUS
<1>4. NewBoard(p, Finished(p)) \in Boards
  BY BoundsAssumption DEF NewBoard, Finished, Boards, RowIds
<1>5. TypeOK'
  BY <1>1, <1>3, <1>4, ReaderFrame DEF TablesInv, TypeOK
<1>6. ReaderInv'
  BY <1>2, <1>3, <1>4 DEF TablesInv, TypeOK, ReaderInv
<1> QED
  BY <1>1, <1>2, <1>5, <1>6 DEF TablesInv

\* A game flow is asked for.
LEMMA TablesAskFlow == ASSUME TablesInv, NEW r \in Readers, AskFlow(r) PROVE TablesInv'
<1> USE DEF AskFlow
<1>1. LockInv'
  BY StepReader DEF TablesInv, Reader
<1>2. (GameInv /\ RowInv /\ WordInv)' /\ Boards' = Boards /\ Flows' = Flows
  BY ReaderFrame
<1>3. PICK id \in 1..(Len(sessions) + 1) : flow' = [flow EXCEPT ![r] = NewFlow(id)]
  OBVIOUS
<1>4. NewFlow(id) \in Flows
  BY DEF NewFlow, Flows, TablesInv, TypeOK
<1>5. board' \in [Readers -> Boards \cup {<<>>}] /\ flow' \in [Readers -> Flows \cup {<<>>}]
  BY <1>3, <1>4 DEF TablesInv, TypeOK
<1>6. TypeOK'
  BY <1>1, <1>5, ReaderFrame
<1>7. ReaderInv'
  BY <1>2, <1>3, <1>4 DEF TablesInv, TypeOK, ReaderInv
<1> QED
  BY <1>1, <1>2, <1>6, <1>7 DEF TablesInv

\* The two statements of getGameRounds.
LEMMA TablesFlow ==
    ASSUME TablesInv, NEW r \in Readers, FlowPair(r) \/ FlowRounds(r) PROVE TablesInv'
<1>1. LockInv'
  BY StepReader DEF TablesInv, Reader
<1>2. (GameInv /\ RowInv /\ WordInv)' /\ Boards' = Boards /\ Flows' = Flows
  BY ReaderFrame DEF FlowPair, FlowRounds
<1>3. flow[r] \in Flows
  BY DEF FlowPair, FlowRounds, TablesInv, ReaderInv
<1>4. PairOf(sessions, flow[r].id) \in (Players \X Players) \cup {<<>>}
  BY RowTypes DEF PairOf, Plays
<1>5. /\ [flow[r] EXCEPT !.pair = PairOf(sessions, flow[r].id)] \in Flows
      /\ [flow[r] EXCEPT !.rounds = WordsOf(flow[r].id)] \in Flows
      /\ [flow[r] EXCEPT !.failed = TRUE] \in Flows
  BY <1>3, <1>4 DEF Flows, WordsOf
<1>6. PICK f \in Flows : flow' = [flow EXCEPT ![r] = f]
  BY <1>5 DEF FlowPair, FlowRounds
<1>7. board' \in [Readers -> Boards \cup {<<>>}] /\ flow' \in [Readers -> Flows \cup {<<>>}]
  BY <1>6 DEF FlowPair, FlowRounds, TablesInv, TypeOK
<1>8. gameDaoMutex' \in Games \cup Readers \cup {NoOne}
  BY DEF FlowPair, FlowRounds, TablesInv, TypeOK
<1>9. TypeOK'
  BY <1>1, <1>7, <1>8, ReaderFrame DEF FlowPair, FlowRounds
<1>10. ReaderInv'
  BY <1>2, <1>6 DEF FlowPair, FlowRounds, TablesInv, TypeOK, ReaderInv
<1> QED
  BY <1>1, <1>2, <1>9, <1>10 DEF TablesInv

LEMMA TablesToMenu == ASSUME TablesInv, NEW r \in Readers, ToMenu(r) PROVE TablesInv'
<1> USE DEF ToMenu
<1>1. LockInv'
  BY StepReader DEF TablesInv, Reader
<1>2. (GameInv /\ RowInv /\ WordInv)' /\ Boards' = Boards /\ Flows' = Flows
  BY ReaderFrame
<1>3. TypeOK'
  BY <1>1, ReaderFrame DEF TablesInv, TypeOK
<1>4. ReaderInv'
  BY <1>2 DEF TablesInv, TypeOK, ReaderInv
<1> QED
  BY <1>1, <1>2, <1>3, <1>4 DEF TablesInv

LEMMA TablesAddUser == ASSUME TablesInv, AddUser PROVE TablesInv'
<1> USE DEF AddUser, gameVars, readerVars
<1>1. LockInv'
  BY DEF TablesInv, LockInv, MutexExact
<1>2. Boards' = Boards /\ Flows' = Flows
  BY DEF Boards, Flows, RowIds
<1>3. numUsers' \in 0..MaxUsers /\ lastRowid' \in Nat
  BY BoundsAssumption DEF TablesInv, TypeOK
<1>4. TypeOK'
  BY <1>2, <1>3 DEF TablesInv, TypeOK
<1>5. (GameInv /\ RowInv /\ WordInv /\ ReaderInv)'
  BY <1>2 DEF TablesInv, GameInv, RowInv, WordInv, ReaderInv, HasRow, RowsOfGame, AreRounds
<1> QED
  BY <1>1, <1>4, <1>5 DEF TablesInv

\* The tables outlive the program; what was inserted half-way stays half-way.
LEMMA TablesRestart ==
    ASSUME TablesInv, Restart, crashes' \in 0..MaxCrashes PROVE TablesInv'
<1> USE DEF Restart
<1>1. LockInv'
  BY StepRestart DEF TablesInv
<1>2. \A g \in Games :
        /\ gPc[g] \in {"session", "rowid", "words"} => gPc'[g] = "dead"
        /\ gPc[g] = "recorded" => gPc'[g] = "over"
        /\ gPc[g] \in {"playing", "over", "dead"} => gPc'[g] = gPc[g]
        /\ gPc[g] \in GamePcs
  BY DEF TablesInv, LockInv, GamePcs
<1>3. TypeOK'
  BY <1>1 DEF TablesInv, TypeOK, LockInv, Idle, Boards, Flows
<1>4. GameInv'
  BY <1>2 DEF TablesInv, GameInv, HasRow, GamePcs
<1>5. RowInv'
  BY <1>2, RowTypes DEF TablesInv, RowInv, GamePcs
<1>6. WordInv'
  BY DEF TablesInv, WordInv, RowsOfGame, AreRounds
<1>7. ReaderInv'
  BY DEF ReaderInv
<1> QED
  BY <1>1, <1>3, <1>4, <1>5, <1>6, <1>7 DEF TablesInv

LEMMA TablesUnchanged == ASSUME TablesInv, UNCHANGED vars PROVE TablesInv'
<1> USE DEF vars, tables, gameVars, readerVars
<1>1. LockInv' /\ Boards' = Boards /\ Flows' = Flows
  BY DEF TablesInv, LockInv, MutexExact, Boards, Flows, RowIds
<1> QED
  BY <1>1
  DEF TablesInv, TypeOK, GameInv, RowInv, WordInv, ReaderInv, HasRow, RowsOfGame, AreRounds

\* Every step keeps what the tables hold.
LEMMA StepTables == TablesInv /\ [Next]_vars => TablesInv'
<1> SUFFICES ASSUME TablesInv, [Next]_vars PROVE TablesInv'
  OBVIOUS
<1>1. ASSUME NEW g \in Games, Game(g) PROVE TablesInv'
  BY <1>1, TablesMatch, TablesAddSessionFails, TablesInsertSession, TablesTakeRowid,
     TablesInsertWords, TablesRelease DEF Game
<1>2. ASSUME NEW r \in Readers, Reader(r) PROVE TablesInv'
  BY <1>2, TablesAskBoard, TablesBoard, TablesAskFlow, TablesFlow, TablesToMenu DEF Reader
<1>3. CASE Crash \/ \E r \in Readers : BadId(r)
  <2>1. crashes' \in 0..MaxCrashes
    BY <1>3, BoundsAssumption DEF Crash, BadId, TablesInv, TypeOK
  <2> QED
    BY <1>3, <2>1, TablesRestart DEF Crash, BadId
<1> QED
  BY <1>1, <1>2, <1>3, TablesAddUser, TablesUnchanged DEF Next

\* The database, the threads and what readers have been shown are always well-formed.
THEOREM TypesCorrect == Spec => []TypeOK
<1>1. TablesInv => TypeOK
  BY DEF TablesInv
<1> QED
  BY <1>1, InitTables, StepTables, PTL DEF Spec

\* Where every round is filed under its own game, the rows of a game's number are its own.
LEMMA OwnWords ==
    ASSUME TablesInv, IdsRight, NEW id \in DOMAIN sessions
    PROVE  WordsOf(id) = RowsOfGame(sessions[id].game)
BY RowTypes DEF IdsRight, WordsOf, RowsOfGame, TablesInv, RowInv, WordInv
-----------------------------------------------------------------------------
(* The number the rounds of a game are filed under.                        *)

\* n is the number of game g or of a user.
MayFile(g, n) == n \in 1..numUsers \/ (n \in DOMAIN sessions /\ sessions[n].game = g)

\* Between the row of a game and the look at its number only a registration writes; a
\* game with words has a row.
NumberInv ==
    /\ \A g \in Games : gPc[g] = "rowid" => lastRowid = Len(sessions) \/ lastRowid \in 1..numUsers
    /\ \A g \in Games : gPc[g] = "words" => MayFile(g, gameId[g])
    /\ \A i \in DOMAIN words : MayFile(words[i].game, words[i].game_id) /\ HasRow(words[i].game)

\* What a number may file does not depend on rows and users to come.
LEMMA MayFileStays ==
    ASSUME TablesInv, NEW g, NEW n, MayFile(g, n), numUsers' \in Nat, numUsers <= numUsers',
           DOMAIN sessions \subseteq DOMAIN sessions',
           \A i \in DOMAIN sessions : sessions'[i] = sessions[i]
    PROVE  MayFile(g, n)'
<1>1. numUsers \in Nat
  BY BoundsAssumption DEF TablesInv, TypeOK
<1>2. 1..numUsers \subseteq 1..numUsers'
  BY <1>1
<1> QED
  BY <1>2 DEF MayFile

LEMMA StepNumber == ASSUME TablesInv, NumberInv, [Next]_vars PROVE NumberInv'
<1>0. numUsers \in Nat
  BY BoundsAssumption DEF TablesInv, TypeOK
<1>1. ASSUME NEW g \in Games, InsertSession(g) PROVE NumberInv'
  <2>1. [game |-> g, play |-> play[g]] \in [game : Games, play : Plays]
    BY <1>1 DEF InsertSession, TablesInv, GameInv
  <2>2. /\ DOMAIN sessions' = DOMAIN sessions \cup {Len(sessions) + 1}
        /\ \A i \in DOMAIN sessions : sessions'[i] = sessions[i]
        /\ Len(sessions') = Len(sessions) + 1
    BY <1>1, <2>1, AddedRow DEF InsertSession, TablesInv, TypeOK
  <2>3. /\ \A h \in Games \ {g} : gPc'[h] = gPc[h] /\ gPc[h] \notin {"rowid", "words"}
        /\ gPc'[g] = "rowid" /\ lastRowid' = Len(sessions')
    BY <1>1, <2>2 DEF InsertSession, GameAt, TablesInv, TypeOK, LockInv, MutexExact
  <2>4. \A i \in DOMAIN words : MayFile(words[i].game, words[i].game_id)'
    BY <1>0, <1>1, <2>2, MayFileStays DEF InsertSession, NumberInv
  <2>5. words' = words
    BY <1>1 DEF InsertSession
  <2>6. \A i \in DOMAIN words : HasRow(words[i].game)'
    BY <2>2, <2>5 DEF NumberInv, HasRow
  <2> QED
    BY <2>3, <2>4, <2>5, <2>6 DEF NumberInv
<1>2. ASSUME NEW g \in Games, TakeRowid(g) PROVE NumberInv'
  <2>1. sessions # <<>> /\ sessions[Len(sessions)].game = g
    BY <1>2 DEF TakeRowid, TablesInv, GameInv
  <2>2. Len(sessions) \in DOMAIN sessions
    BY <2>1 DEF TablesInv, TypeOK
  <2>3. MayFile(g, lastRowid)
    BY <1>2, <2>1, <2>2 DEF TakeRowid, NumberInv, MayFile
  <2> QED
    BY <1>2, <2>3 DEF TakeRowid, GameAt, tables, TablesInv, TypeOK, NumberInv, MayFile, HasRow
<1>3. ASSUME NEW g \in Games, InsertWords(g) PROVE NumberInv'
  <2>1. [game_id |-> gameId[g], game |-> g, round |-> done[g] + 1] \in Word
    <3>1. play[g] \in Plays /\ done[g] < play[g].rounds /\ done[g] \in 0..MaxRounds
      BY <1>3 DEF InsertWords, TablesInv, GameInv, TypeOK
    <3>2. done[g] + 1 \in 1..MaxRounds
      BY <3>1, BoundsAssumption DEF Plays
    <3> QED
      BY <3>2 DEF Word, TablesInv, TypeOK
  <2>2. /\ DOMAIN words' = DOMAIN words \cup {Len(words) + 1}
        /\ \A i \in DOMAIN words : words'[i] = words[i]
        /\ words'[Len(words) + 1].game_id = gameId[g] /\ words'[Len(words) + 1].game = g
    BY <1>3, <2>1, AddedRow DEF InsertWords, AddWord, TablesInv, TypeOK
  <2>3. UNCHANGED <<sessions, gameId, numUsers>>
    BY <1>3 DEF InsertWords
  <2>4. MayFile(g, gameId[g])
    BY <1>3 DEF InsertWords, NumberInv
  <2>5. \A h \in Games : (gPc'[h] = "words" => gPc[h] = "words") /\ gPc'[h] # "rowid"
    BY <1>3 DEF InsertWords, AfterWord, GameAt, TablesInv, TypeOK, LockInv, MutexExact
  <2>6. HasRow(g)
    <3>1. sessions # <<>> /\ sessions[Len(sessions)].game = g
      BY <1>3 DEF InsertWords, TablesInv, GameInv
    <3>2. Len(sessions) \in DOMAIN sessions
      BY <3>1 DEF TablesInv, TypeOK
    <3> QED
      BY <3>1, <3>2 DEF HasRow
  <2> QED
    BY <2>2, <2>3, <2>4, <2>5, <2>6 DEF NumberInv, MayFile, HasRow
<1>4. ASSUME NEW g \in Games, Match(g) \/ AddSessionFails(g) \/ Release(g) PROVE NumberInv'
  <2>1. UNCHANGED <<tables, gameId>>
    BY <1>4 DEF Match, AddSessionFails, Release
  <2>2. \A h \in Games : gPc'[h] \in {"rowid", "words"} => gPc'[h] = gPc[h]
    BY <1>4 DEF Match, AddSessionFails, Release, GameAt, TablesInv, TypeOK
  <2> QED
    BY <2>1, <2>2 DEF tables, NumberInv, MayFile, HasRow
<1>5. ASSUME NEW r \in Readers, Reader(r) PROVE NumberInv'
  <2>1. UNCHANGED <<tables, gameVars>>
    BY <1>5 DEF Reader, AskBoard, BestMin, BestRows, Mine, TopMin, TopRows, UserAv, Av, ReadFails,
                Reads, AskFlow, FlowPair, FlowRounds, ToMenu
  <2> QED
    BY <2>1 DEF tables, gameVars, NumberInv, MayFile, HasRow
<1>6. CASE AddUser
  <2>1. lastRowid' \in 1..numUsers' /\ numUsers' \in Nat /\ numUsers <= numUsers'
    BY <1>0, <1>6 DEF AddUser
  <2>2. UNCHANGED <<sessions, words, gPc, gameId>>
    BY <1>6 DEF AddUser, gameVars
  <2>3. ASSUME NEW g, NEW n, MayFile(g, n) PROVE MayFile(g, n)'
    BY <2>1, <2>2, <2>3, MayFileStays
  <2> QED
    BY <2>1, <2>2, <2>3 DEF NumberInv, HasRow
<1>7. CASE Crash \/ \E r \in Readers : BadId(r)
  <2>1. Restart
    BY <1>7 DEF Crash, BadId
  <2>2. \A g \in Games : gPc'[g] \notin {"rowid", "words"}
    BY <2>1 DEF Restart, TablesInv, TypeOK, GamePcs
  <2> QED
    BY <2>1, <2>2 DEF Restart, NumberInv, MayFile, HasRow
<1>8. CASE UNCHANGED vars
  BY <1>8 DEF vars, tables, gameVars, NumberInv, MayFile, HasRow
<1> QED
  BY <1>1, <1>2, <1>3, <1>4, <1>5, <1>6, <1>7, <1>8 DEF Next, Game

LEMMA InitNumber == Init => NumberInv
BY DEF Init, NumberInv

\* What is stored of a game is its first rounds, in order, under its own number or a
\* user's.
LEMMA FiledRounds ==
    ASSUME TablesInv, NumberInv, NEW id \in DOMAIN sessions, NEW g \in Games, sessions[id].game = g
    PROVE  Filed(g, id, done[g])
<1>1. AreRounds(RowsOfGame(g), g, done[g])
  BY DEF TablesInv, WordInv
<1>2. \A i \in RowsOfGame(g) : words[i].game_id = gameId[g] /\ MayFile(g, words[i].game_id)
  BY DEF RowsOfGame, TablesInv, WordInv, NumberInv
<1>3. \A n \in DOMAIN sessions : sessions[n].game = g => n = id
  BY DEF TablesInv, RowInv
<1>4. \E m \in {id} \cup 1..numUsers : \A i \in RowsOfGame(g) : words[i].game_id = m
  <2>1. CASE RowsOfGame(g) = {}
    BY <2>1
  <2>2. CASE RowsOfGame(g) # {}
    <3>1. MayFile(g, gameId[g])
      BY <1>2, <2>2
    <3> QED
      BY <1>2, <1>3, <3>1 DEF MayFile
  <2> QED
    BY <2>1, <2>2
<1> QED
  BY <1>1, <1>4 DEF Filed

\* For any games, users, failures and stops: half-way recordings are cut off at the end
\* only, and words go under the number of their own game or of a user.
THEOREM PrefixCorrect == Spec => []WordsArePrefix
<1>1. ASSUME TablesInv, NumberInv PROVE WordsArePrefix
  <2> SUFFICES ASSUME NEW g \in Games, RowsOfGame(g) # {}
               PROVE  \E id \in DOMAIN sessions :
                        sessions[id].game = g /\ \E n \in 1..Rounds(sessions, id) : Filed(g, id, n)
    BY DEF WordsArePrefix
  <2>1. PICK id \in DOMAIN sessions : sessions[id].game = g
    BY <1>1 DEF NumberInv, HasRow, RowsOfGame
  <2>2. Rounds(sessions, id) = play[g].rounds /\ Rounds(sessions, id) \in Nat
    BY <1>1, <2>1, RoundsTypes DEF Rounds, TablesInv, RowInv
  <2>3. done[g] \in Nat /\ done[g] <= play[g].rounds
    BY <1>1, <2>1 DEF TablesInv, TypeOK, GameInv, RowInv
  <2>4. done[g] # 0
    <3>1. AreRounds(RowsOfGame(g), g, done[g])
      BY <1>1 DEF TablesInv, WordInv
    <3>2. 1..done[g] # {}
      BY <3>1 DEF AreRounds
    <3> QED
      BY <3>2
  <2>5. done[g] \in 1..Rounds(sessions, id)
    BY <2>2, <2>3, <2>4
  <2> QED
    BY <1>1, <2>1, <2>5, FiledRounds
<1> QED
  BY <1>1, InitNumber, InitTables, StepTables, StepNumber, PTL DEF Spec

\* For any games, users, failures and stops: a game recorded without a failure keeps its
\* row and all its rounds, in order and under one number, its own or a user's.
THEOREM NothingLostCorrect == Spec => []NothingLost
<1>1. ASSUME TablesInv, NumberInv PROVE NothingLost
  <2> SUFFICES ASSUME NEW g \in Games, gPc[g] \in {"recorded", "over"}, g \notin failed
               PROVE  \E id \in DOMAIN sessions :
                        sessions[id].game = g /\ Filed(g, id, Rounds(sessions, id))
    BY DEF NothingLost
  <2>1. PICK id \in DOMAIN sessions : sessions[id].game = g /\ done[g] = play[g].rounds
    BY <1>1 DEF TablesInv, GameInv, HasRow
  <2>2. Rounds(sessions, id) = done[g]
    BY <1>1, <2>1 DEF Rounds, TablesInv, RowInv
  <2> QED
    BY <1>1, <2>1, <2>2, FiledRounds
<1> QED
  BY <1>1, InitNumber, InitTables, StepTables, StepNumber, PTL DEF Spec
-----------------------------------------------------------------------------
(* What readers collect.  A reader's statements see one state of the       *)
(* sessions table, for it has the mutex: at each of them, what it has      *)
(* read is what the table holds.                                           *)

Stages == {"bestMin", "bestRows", "mine", "topMin", "topRows", "userAv", "av"}
Ended == {"recorded", "over", "dead"}

BestOf(T, p) == Partners(T, p, RowsWith(T, RowsOf(T, p), MinRounds(T, RowsOf(T, p))))
TopOf(T) == RowsWith(T, DOMAIN T, MinRounds(T, DOMAIN T))

\* What BoardConsistent says of one board.
Agree(T, b) ==
    /\ \A x \in b.best :
        /\ \E i \in b.mine : Rounds(T, i) = x[2]
        /\ \A i \in b.mine \cup b.userAv : Rounds(T, i) >= x[2]
        /\ \E t \in b.top : Rounds(T, t) <= x[2]
    /\ \A t \in b.top : \A i \in b.av : Rounds(T, t) <= Rounds(T, i)
    /\ (b.best = {}) = (b.mine = {}) /\ (b.top = {}) = (b.av = {})
    /\ b.mine \subseteq b.userAv /\ b.userAv \subseteq b.av /\ b.top \subseteq b.av

\* Board b of a reader at pc.
BoardGood(pc, b) ==
    pc \in Stages \cup {"shown"} /\ ~b.failed =>
        LET rows == RowsOf(sessions, b.who) IN
        /\ pc = "bestMin" => b.best = {}
        /\ pc = "bestRows" => b.min = MinRounds(sessions, rows)
        /\ pc \in {"mine", "topMin", "topRows", "userAv", "av"} => b.best = BestOf(sessions, b.who)
        /\ pc \in {"topMin", "topRows", "userAv", "av"} => b.mine \in Ranking(sessions, rows)
        /\ pc = "topRows" => b.topMin = MinRounds(sessions, DOMAIN sessions)
        /\ pc \in {"userAv", "av"} => b.top = TopOf(sessions)
        /\ pc = "av" => b.userAv = rows
        /\ pc = "shown" => Agree(sessions, b)
        /\ \A g \in b.due : \E i \in rows : sessions[i].game = g
        /\ pc \in {"av", "shown"} => \A g \in b.due : \E i \in b.userAv : sessions[i].game = g

\* Flow f of a reader at pc.
FlowGood(pc, f) ==
    /\ pc \in {"flowPair", "flowRounds"} => ~f.failed
    /\ pc = "flowPair" => f.pair = <<>> /\ f.rounds = {}
    /\ pc = "flowRounds" => f.pair = PairOf(sessions, f.id) /\ f.rounds = {}
    /\ pc = "flowShown" /\ ~f.failed /\ f.pair # <<>> =>
        /\ f.id \in DOMAIN sessions
        /\ gPc[sessions[f.id].game] \in Ended
        /\ IdsRight => AreRounds(f.rounds, sessions[f.id].game, done[sessions[f.id].game])

ReadInv == \A r \in Readers : BoardGood(rPc[r], board[r]) /\ FlowGood(rPc[r], flow[r])

\* The database goes on without disturbing readers.
Grows ==
    /\ \A i \in DOMAIN sessions : i \in DOMAIN sessions' /\ sessions'[i] = sessions[i]
    /\ \A i \in DOMAIN words : i \in DOMAIN words' /\ words'[i] = words[i]
    /\ \A g \in Games : gPc[g] \in Ended => gPc'[g] \in Ended /\ done'[g] = done[g]
    /\ sessions' = sessions \/ gameDaoMutex \notin Readers
    /\ IdsRight' => IdsRight

LEMMA StepGrows ==
    ASSUME TablesInv, (\E g \in Games : Game(g)) \/ AddUser PROVE Grows /\ UNCHANGED readerVars
<1>1. CASE AddUser
  BY <1>1 DEF AddUser, Grows, gameVars, IdsRight
<1>2. ASSUME NEW g \in Games, Match(g) PROVE Grows /\ UNCHANGED readerVars
  BY <1>2 DEF Match, GameAt, tables, Grows, IdsRight, Ended, TablesInv, TypeOK
<1>3. ASSUME NEW g \in Games, AddSessionFails(g) PROVE Grows /\ UNCHANGED readerVars
  BY <1>3 DEF AddSessionFails, GameAt, tables, Grows, IdsRight, Ended, TablesInv, TypeOK
<1>4. ASSUME NEW g \in Games, InsertSession(g) PROVE Grows /\ UNCHANGED readerVars
  <2> DEFINE row == [game |-> g, play |-> play[g]]
  <2>1. row \in [game : Games, play : Plays]
    BY <1>4 DEF InsertSession, TablesInv, GameInv
  <2>2. /\ DOMAIN sessions' = DOMAIN sessions \cup {Len(sessions) + 1}
        /\ \A i \in DOMAIN sessions : sessions'[i] = sessions[i]
        /\ sessions'[Len(sessions) + 1] = row
    BY <1>4, <2>1, AddedRow DEF InsertSession, TablesInv, TypeOK
  <2>3. gameDaoMutex \notin Readers
    BY <1>4, ThreadsAssumption DEF InsertSession, TablesInv, LockInv, MutexExact
  <2>4. \A i \in DOMAIN words : words[i].game # g
    <3>1. AreRounds(RowsOfGame(g), g, 0)
      BY <1>4 DEF InsertSession, TablesInv, WordInv, GameInv
    <3> QED
      BY <3>1 DEF AreRounds, RowsOfGame
  <2>5. IdsRight' => IdsRight
    BY <1>4, <2>2, <2>4 DEF InsertSession, IdsRight
  <2> QED
    BY <1>4, <2>2, <2>3, <2>5 DEF InsertSession, GameAt, Grows, Ended, TablesInv, TypeOK
<1>5. ASSUME NEW g \in Games, TakeRowid(g) PROVE Grows /\ UNCHANGED readerVars
  BY <1>5 DEF TakeRowid, GameAt, tables, Grows, IdsRight, Ended, TablesInv, TypeOK
<1>6. ASSUME NEW g \in Games, InsertWords(g) PROVE Grows /\ UNCHANGED readerVars
  <2>1. [game_id |-> gameId[g], game |-> g, round |-> done[g] + 1] \in Word
    <3>1. play[g] \in Plays /\ done[g] < play[g].rounds /\ done[g] \in 0..MaxRounds
      BY <1>6 DEF InsertWords, TablesInv, GameInv, TypeOK
    <3>2. done[g] + 1 \in 1..MaxRounds
      BY <3>1, BoundsAssumption DEF Plays
    <3> QED
      BY <3>2 DEF Word, TablesInv, TypeOK
  <2>2. \A i \in DOMAIN words : i \in DOMAIN words' /\ words'[i] = words[i]
    BY <1>6, <2>1, AddedRow DEF InsertWords, AddWord, TablesInv, TypeOK
  <2>3. sessions' = sessions /\ UNCHANGED readerVars
    BY <1>6 DEF InsertWords
  <2>4. IdsRight' => IdsRight
    BY <2>2, <2>3 DEF IdsRight
  <2>5. \A h \in Games : gPc[h] \in Ended => gPc'[h] \in Ended /\ done'[h] = done[h]
    BY <1>6 DEF InsertWords, AddWord, AfterWord, GameAt, Ended, TablesInv, TypeOK
  <2> QED
    BY <2>2, <2>3, <2>4, <2>5 DEF Grows
<1>7. ASSUME NEW g \in Games, Release(g) PROVE Grows /\ UNCHANGED readerVars
  BY <1>7 DEF Release, GameAt, tables, Grows, IdsRight, Ended, TablesInv, TypeOK
<1> QED
  BY <1>1, <1>2, <1>3, <1>4, <1>5, <1>6, <1>7 DEF Game

\* What Agree says does not depend on rows to come.
LEMMA AgreeStays ==
    ASSUME TablesInv, Grows, NEW b \in Boards, Agree(sessions, b) PROVE Agree(sessions, b)'
<1>1. \A i \in DOMAIN sessions : Rounds(sessions', i) = Rounds(sessions, i)
  BY DEF Grows, Rounds
<1>2. /\ b.mine \subseteq DOMAIN sessions /\ b.userAv \subseteq DOMAIN sessions
      /\ b.top \subseteq DOMAIN sessions /\ b.av \subseteq DOMAIN sessions
  BY DEF Boards, RowIds
<1> QED
  BY <1>1, <1>2 DEF Agree

LEMMA ReadGrows == ASSUME TablesInv, ReadInv, Grows, UNCHANGED readerVars PROVE ReadInv'
<1> SUFFICES ASSUME NEW r \in Readers
             PROVE  BoardGood(rPc[r], board[r])' /\ FlowGood(rPc[r], flow[r])'
  BY DEF ReadInv
<1> USE DEF readerVars
<1>1. BoardGood(rPc[r], board[r]) /\ FlowGood(rPc[r], flow[r])
  BY DEF ReadInv
<1>2. rPc[r] \in Stages \cup {"flowPair", "flowRounds"} => sessions' = sessions
  BY DEF Stages, TablesInv, LockInv, MutexExact, Grows
<1>3. BoardGood(rPc[r], board[r])'
  <2>1. CASE rPc[r] \in Stages
    BY <1>1, <1>2, <2>1 DEF BoardGood, Stages
  <2>2. CASE rPc[r] = "shown" /\ ~board[r].failed
    <3>1. board[r] \in Boards /\ Agree(sessions, board[r])
      BY <1>1, <2>2 DEF TablesInv, ReaderInv, BoardGood
    <3>2. Agree(sessions, board[r])'
      BY <3>1, AgreeStays
    <3>3. \A g \in board[r].due :
            /\ \E i \in RowsOf(sessions', board[r].who) : sessions'[i].game = g
            /\ \E i \in board[r].userAv : sessions'[i].game = g
      <4>1. \A i \in RowsOf(sessions, board[r].who) :
                i \in RowsOf(sessions', board[r].who) /\ sessions'[i] = sessions[i]
        BY DEF Grows, RowsOf
      <4>2. \A i \in board[r].userAv : sessions'[i] = sessions[i]
        BY <3>1 DEF Boards, RowIds, Grows
      <4> QED
        BY <1>1, <2>2, <4>1, <4>2 DEF BoardGood
    <3> QED
      BY <2>2, <3>2, <3>3 DEF BoardGood, Stages
  <2> QED
    BY <2>1, <2>2 DEF BoardGood
<1>4. FlowGood(rPc[r], flow[r])'
  <2>1. CASE rPc[r] \in {"flowPair", "flowRounds"}
    BY <1>1, <1>2, <2>1 DEF FlowGood
  <2>2. CASE rPc[r] = "flowShown" /\ ~flow[r].failed /\ flow[r].pair # <<>>
    <3> DEFINE f == flow[r]
               g == sessions[f.id].game
    <3>1. f.id \in DOMAIN sessions /\ g \in Games /\ gPc[g] \in Ended /\ f.rounds \subseteq DOMAIN words
      BY <1>1, <2>2, RowTypes DEF FlowGood, TablesInv, ReaderInv, Flows
    <3>2. IdsRight' => AreRounds(f.rounds, g, done[g])
      BY <1>1, <2>2 DEF FlowGood, Grows
    <3>3. \A i \in f.rounds : words'[i] = words[i]
      BY <3>1 DEF Grows
    <3>4. AreRounds(f.rounds, g, done[g]) => AreRounds(f.rounds, g, done[g])'
      BY <3>1, <3>3 DEF AreRounds, Grows
    <3> QED
      BY <2>2, <3>1, <3>2, <3>4 DEF FlowGood, Grows
  <2> QED
    BY <2>1, <2>2 DEF FlowGood
<1> QED
  BY <1>3, <1>4

\* A ranking leaves out no row better than one it has, and it has a row if there is one.
LEMMA RankingHas ==
    ASSUME TablesInv, NEW I \in SUBSET DOMAIN sessions, NEW J \in Ranking(sessions, I)
    PROVE  J \subseteq I /\ (I # {} => J # {})
<1>1. J \subseteq I
  BY DEF Ranking
<1>2. ASSUME I # {} PROVE J # {}
  <2>1. IsFiniteSet(I)
    <3>1. DOMAIN sessions = 1..Len(sessions) /\ Len(sessions) \in Nat
      BY DEF TablesInv, TypeOK
    <3>2. IsFiniteSet(1..Len(sessions))
      BY <3>1, FS_Interval
    <3> QED
      BY <3>1, <3>2, FS_Subset
  <2>2. Cardinality(I) # 0 /\ Cardinality(I) \in Nat
    BY <1>2, <2>1, FS_EmptySet, FS_CardinalityType
  <2>3. Cardinality(J) # 0
    BY <2>2, LimitAssumption DEF Ranking
  <2> QED
    BY <2>3, FS_EmptySet
<1> QED
  BY <1>1, <1>2

\* Answers taken from one state of the table agree with one another.
LEMMA AnswersAgree ==
    ASSUME TablesInv, NEW p, NEW b,
           b.best = BestOf(sessions, p), b.mine \in Ranking(sessions, RowsOf(sessions, p)),
           b.top = TopOf(sessions), b.userAv = RowsOf(sessions, p), b.av = DOMAIN sessions
    PROVE  Agree(sessions, b)
<1> DEFINE T == sessions
           rows == RowsOf(T, p)
           all == DOMAIN T
           m == MinRounds(T, rows)
           t == MinRounds(T, all)
<1>1. rows \subseteq all /\ b.mine \subseteq rows /\ (rows # {} => b.mine # {})
  BY RankingHas DEF RowsOf
<1>2. \A i \in all : Rounds(T, i) \in 1..MaxRounds
  BY RoundsTypes
<1>3. /\ rows # {} => (\E i \in rows : m = Rounds(T, i)) /\ \A i \in rows : m <= Rounds(T, i)
      /\ m \in Int
  BY <1>1, <1>2, MinRoundsIs
<1>4. /\ all # {} => (\E i \in all : t = Rounds(T, i)) /\ \A i \in all : t <= Rounds(T, i)
      /\ t \in Int
  BY <1>2, MinRoundsIs
<1>5. /\ \A x \in b.best : x[2] = m /\ rows # {}
      /\ rows # {} => b.best # {}
  <2>1. b.best = {<<Partner(T, p, i), Rounds(T, i)>> : i \in {j \in rows : Rounds(T, j) = m}}
    BY DEF BestOf, Partners, RowsWith
  <2> HIDE DEF rows, m
  <2>2. \A x \in b.best : \E i \in rows : Rounds(T, i) = m /\ x = <<Partner(T, p, i), Rounds(T, i)>>
    BY <2>1
  <2>3. \A x \in b.best : x[2] = m /\ rows # {}
    BY <2>2
  <2> QED
    BY <1>3, <2>1, <2>3
<1>6. /\ b.top \subseteq all /\ \A i \in b.top : Rounds(T, i) = t
      /\ all # {} => b.top # {}
  BY <1>4 DEF TopOf, RowsWith
<1> HIDE DEF rows, all, m, t
<1>7. b.userAv = rows /\ b.av = all /\ \A i \in all : Rounds(T, i) \in Int
  BY <1>2, BoundsAssumption DEF rows, all
<1>8. ASSUME rows # {} PROVE \E i \in b.mine : Rounds(T, i) = m
  <2>1. PICK i \in rows : Rounds(T, i) = m
    BY <1>3, <1>8
  <2>2. PICK j \in b.mine : TRUE
    BY <1>1, <1>8
  <2>3. CASE i \in b.mine
    BY <2>1, <2>3
  <2>4. CASE i \notin b.mine
    <3>1. Rounds(T, j) <= Rounds(T, i)
      BY <2>1, <2>2, <2>4 DEF Ranking, rows
    <3>2. m <= Rounds(T, j) /\ Rounds(T, j) \in Int
      BY <1>1, <1>3, <1>7, <1>8, <2>2
    <3> QED
      BY <1>3, <2>1, <2>2, <3>1, <3>2
  <2> QED
    BY <2>3, <2>4
<1>9. \A x \in b.best :
        /\ \E i \in b.mine : Rounds(T, i) = x[2]
        /\ \A i \in b.mine \cup b.userAv : Rounds(T, i) >= x[2]
        /\ \E i \in b.top : Rounds(T, i) <= x[2]
  <2> SUFFICES ASSUME NEW x \in b.best
               PROVE  /\ \E i \in b.mine : Rounds(T, i) = m
                      /\ \A i \in rows : Rounds(T, i) >= m
                      /\ \E i \in b.top : Rounds(T, i) <= m
    BY <1>1, <1>5, <1>7
  <2>1. rows # {}
    BY <1>5
  <2>2. \A i \in rows : Rounds(T, i) >= m
    BY <1>1, <1>3, <1>7, <2>1
  <2>3. \E i \in b.top : Rounds(T, i) <= m
    <3>1. PICK i \in rows : Rounds(T, i) = m
      BY <1>3, <2>1
    <3>2. t <= Rounds(T, i)
      BY <1>1, <1>4, <3>1
    <3> QED
      BY <1>1, <1>4, <1>6, <3>1, <3>2
  <2> QED
    BY <1>8, <2>1, <2>2, <2>3
<1>10. \A i \in b.top : \A j \in b.av : Rounds(T, i) <= Rounds(T, j)
  BY <1>4, <1>6, <1>7
<1>11. (b.best = {}) = (b.mine = {}) /\ (b.top = {}) = (b.av = {})
  BY <1>1, <1>5, <1>6, <1>7
<1> QED
  BY <1>1, <1>6, <1>7, <1>9, <1>10, <1>11 DEF Agree

\* Where nothing is added, the other readers are as they were.
LEMMA OthersStay ==
    ASSUME TablesInv, ReadInv, UNCHANGED <<tables, gameVars>>, NEW r \in Readers,
           \A q \in Readers \ {r} : rPc'[q] = rPc[q] /\ board'[q] = board[q] /\ flow'[q] = flow[q],
           BoardGood(rPc'[r], board'[r]), FlowGood(rPc'[r], flow'[r])
    PROVE  ReadInv'
<1>1. \A q \in Readers : BoardGood(rPc'[q], board'[q]) /\ FlowGood(rPc'[q], flow'[q])
  BY DEF ReadInv
<1>2. sessions' = sessions /\ words' = words /\ gPc' = gPc /\ done' = done
  BY DEF tables, gameVars
<1>3. IdsRight' <=> IdsRight
  BY <1>2 DEF IdsRight
<1>4. ASSUME NEW q \in Readers PROVE BoardGood(rPc[q], board[q])'
  BY <1>1, <1>2 DEF BoardGood, Agree
<1>5. ASSUME NEW q \in Readers PROVE FlowGood(rPc[q], flow[q])'
  BY <1>1, <1>2, <1>3 DEF FlowGood, AreRounds
<1> QED
  BY <1>4, <1>5 DEF ReadInv

\* A statement of fetchLeaderboard, if its answer is right.
LEMMA ReadReads ==
    ASSUME TablesInv, ReadInv, NEW r \in Readers, NEW from, NEW to, NEW result,
           Reads(r, from, to, result), from \in Stages, to \in Stages \cup {"shown"},
           board[r] \in Boards /\ ~board[r].failed /\ BoardGood(from, board[r]) =>
                result.failed \/ BoardGood(to, result)
    PROVE  ReadInv'
<1>1. /\ rPc[r] = from /\ rPc' = [rPc EXCEPT ![r] = to]
      /\ board' = [board EXCEPT ![r] = IF @.failed THEN @ ELSE result]
      /\ UNCHANGED <<tables, gameVars>> /\ flow' = flow
  BY DEF Reads
<1>2. board[r] \in Boards /\ BoardGood(from, board[r])
  BY <1>1 DEF Stages, TablesInv, ReaderInv, ReadInv
<1>3. rPc'[r] = to /\ board'[r] = IF board[r].failed THEN board[r] ELSE result
  BY <1>1 DEF TablesInv, TypeOK
<1>4. BoardGood(rPc'[r], board'[r])
  BY <1>2, <1>3 DEF BoardGood
<1>5. FlowGood(rPc'[r], flow'[r])
  BY <1>1, <1>3 DEF FlowGood, Stages
<1>6. \A q \in Readers \ {r} : rPc'[q] = rPc[q] /\ board'[q] = board[q] /\ flow'[q] = flow[q]
  BY <1>1 DEF TablesInv, TypeOK
<1> QED
  BY <1>1, <1>4, <1>5, <1>6, OthersStay

LEMMA ReadBoard ==
    ASSUME TablesInv, ReadInv, NEW r \in Readers,
           \/ BestMin(r) \/ BestRows(r) \/ Mine(r) \/ TopMin(r) \/ TopRows(r)
           \/ UserAv(r) \/ Av(r) \/ ReadFails(r)
    PROVE  ReadInv'
<1> DEFINE b == board[r]
           rows == RowsOf(sessions, b.who)
           m == MinRounds(sessions, rows)
<1>1. rows \subseteq DOMAIN sessions
  BY DEF RowsOf
<1>2. CASE BestMin(r)
  <2>1. m = 0 => rows = {}
    <3>1. rows # {} => m \in {Rounds(sessions, i) : i \in rows}
      BY <1>1, RoundsTypes, MinRoundsIs
    <3>2. \A i \in rows : Rounds(sessions, i) # 0
      BY <1>1, RoundsTypes, BoundsAssumption
    <3> QED
      BY <3>1, <3>2
  <2>2. rows = {} => BestOf(sessions, b.who) = {}
    BY DEF BestOf, Partners, RowsWith
  <2> DEFINE new == [b EXCEPT !.min = m]
             to == IF m = 0 THEN "mine" ELSE "bestRows"
  <2>3. ASSUME b \in Boards, ~b.failed, BoardGood("bestMin", b) PROVE BoardGood(to, new)
    <3>1. new.who = b.who /\ new.best = {} /\ new.due = b.due /\ new.min = m
      BY <2>3 DEF Boards, BoardGood, Stages
    <3> HIDE DEF new, rows, m
    <3>2. CASE m = 0
      BY <2>1, <2>2, <2>3, <3>1, <3>2 DEF BoardGood, Stages, rows
    <3>3. CASE m # 0
      BY <2>3, <3>1, <3>3 DEF BoardGood, Stages, rows, m
    <3> QED
      BY <3>2, <3>3
  <2>4. Reads(r, "bestMin", to, new)
    BY <1>2 DEF BestMin
  <2> HIDE DEF new
  <2> QED
    BY <2>3, <2>4, ReadReads DEF Stages
<1>3. CASE BestRows(r)
  <2> DEFINE new == [b EXCEPT !.best = Partners(sessions, b.who, RowsWith(sessions, rows, b.min))]
  <2>1. ASSUME b \in Boards, ~b.failed, BoardGood("bestRows", b) PROVE BoardGood("mine", new)
    <3>1. new.who = b.who /\ new.due = b.due /\ new.best = BestOf(sessions, b.who)
      BY <2>1 DEF Boards, BoardGood, Stages, BestOf
    <3> HIDE DEF new
    <3> QED
      BY <2>1, <3>1 DEF BoardGood, Stages
  <2>2. Reads(r, "bestRows", "mine", new)
    BY <1>3 DEF BestRows
  <2> HIDE DEF new
  <2> QED
    BY <2>1, <2>2, ReadReads DEF Stages
<1>4. CASE Mine(r)
  <2>1. PICK J \in Ranking(sessions, rows) : Reads(r, "mine", "topMin", [b EXCEPT !.mine = J])
    BY <1>4 DEF Mine
  <2> DEFINE new == [b EXCEPT !.mine = J]
  <2>2. ASSUME b \in Boards, ~b.failed, BoardGood("mine", b) PROVE BoardGood("topMin", new)
    <3>1. new.who = b.who /\ new.due = b.due /\ new.best = b.best /\ new.mine = J
      BY <2>2 DEF Boards
    <3> HIDE DEF new
    <3> QED
      BY <2>1, <2>2, <3>1 DEF BoardGood, Stages
  <2> QED
    BY <2>1, <2>2, ReadReads DEF Stages
<1>5. CASE TopMin(r)
  <2> DEFINE new == [b EXCEPT !.topMin = MinRounds(sessions, DOMAIN sessions)]
  <2>1. ASSUME b \in Boards, ~b.failed, BoardGood("topMin", b) PROVE BoardGood("topRows", new)
    <3>1. /\ new.who = b.who /\ new.due = b.due /\ new.best = b.best /\ new.mine = b.mine
          /\ new.topMin = MinRounds(sessions, DOMAIN sessions)
      BY <2>1 DEF Boards
    <3> HIDE DEF new
    <3> QED
      BY <2>1, <3>1 DEF BoardGood, Stages
  <2>2. Reads(r, "topMin", "topRows", new)
    BY <1>5 DEF TopMin
  <2> HIDE DEF new
  <2> QED
    BY <2>1, <2>2, ReadReads DEF Stages
<1>6. CASE TopRows(r)
  <2> DEFINE new == [b EXCEPT !.top = RowsWith(sessions, DOMAIN sessions, b.topMin)]
  <2>1. ASSUME b \in Boards, ~b.failed, BoardGood("topRows", b) PROVE BoardGood("userAv", new)
    <3>1. /\ new.who = b.who /\ new.due = b.due /\ new.best = b.best /\ new.mine = b.mine
          /\ new.top = TopOf(sessions)
      BY <2>1 DEF Boards, BoardGood, Stages, TopOf
    <3> HIDE DEF new
    <3> QED
      BY <2>1, <3>1 DEF BoardGood, Stages
  <2>2. Reads(r, "topRows", "userAv", new)
    BY <1>6 DEF TopRows
  <2> HIDE DEF new
  <2> QED
    BY <2>1, <2>2, ReadReads DEF Stages
<1>7. CASE UserAv(r)
  <2> DEFINE new == [b EXCEPT !.userAv = rows]
  <2>1. ASSUME b \in Boards, ~b.failed, BoardGood("userAv", b) PROVE BoardGood("av", new)
    <3>1. /\ new.who = b.who /\ new.due = b.due /\ new.best = b.best /\ new.mine = b.mine
          /\ new.top = b.top /\ new.userAv = rows
      BY <2>1 DEF Boards
    <3> HIDE DEF new
    <3> QED
      BY <2>1, <3>1 DEF BoardGood, Stages
  <2>2. Reads(r, "userAv", "av", new)
    BY <1>7 DEF UserAv
  <2> HIDE DEF new
  <2> QED
    BY <2>1, <2>2, ReadReads DEF Stages
<1>8. CASE Av(r)
  <2> DEFINE new == [b EXCEPT !.av = DOMAIN sessions]
  <2>1. ASSUME b \in Boards, ~b.failed, BoardGood("av", b) PROVE BoardGood("shown", new)
    <3>1. /\ new.who = b.who /\ new.due = b.due /\ new.best = b.best /\ new.mine = b.mine
          /\ new.top = b.top /\ new.userAv = b.userAv /\ new.av = DOMAIN sessions
      BY <2>1 DEF Boards
    <3> HIDE DEF new
    <3>2. /\ new.best = BestOf(sessions, b.who) /\ new.mine \in Ranking(sessions, rows)
          /\ new.top = TopOf(sessions) /\ new.userAv = rows
          /\ \A g \in new.due : \E i \in rows : sessions[i].game = g
      BY <2>1, <3>1 DEF BoardGood, Stages
    <3>3. Agree(sessions, new)
      BY <3>1, <3>2, AnswersAgree
    <3> QED
      BY <3>1, <3>2, <3>3 DEF BoardGood
  <2>2. Reads(r, "av", "shown", new)
    BY <1>8 DEF Av
  <2> HIDE DEF new
  <2> QED
    BY <2>1, <2>2, ReadReads DEF Stages
<1>9. CASE ReadFails(r)
  <2> DEFINE new == NewBoard(b.who, {})
             result == [new EXCEPT !.failed = TRUE]
  <2>1. result.failed
    BY DEF NewBoard
  <2>2. rPc[r] \in DOMAIN AfterFailure /\ Reads(r, rPc[r], AfterFailure[rPc[r]], result)
    BY <1>9 DEF ReadFails
  <2>3. rPc[r] \in Stages /\ AfterFailure[rPc[r]] \in Stages \cup {"shown"}
    BY <2>2 DEF AfterFailure, Stages
  <2> HIDE DEF result
  <2> QED
    BY <2>1, <2>2, <2>3, ReadReads
<1> QED
  BY <1>2, <1>3, <1>4, <1>5, <1>6, <1>7, <1>8, <1>9

\* Whoever asks for a leaderboard finds its games that are over in the table.
LEMMA ReadAskBoard == ASSUME TablesInv, ReadInv, NEW r \in Readers, AskBoard(r) PROVE ReadInv'
<1> USE DEF AskBoard
<1>1. PICK p \in Players : board' = [board EXCEPT ![r] = NewBoard(p, Finished(p))]
  OBVIOUS
<1> DEFINE new == NewBoard(p, Finished(p))
<1>2. new.who = p /\ new.due = Finished(p) /\ new.best = {}
  BY DEF NewBoard
<1>3. \A g \in Finished(p) : \E i \in RowsOf(sessions, p) : sessions[i].game = g
  <2> SUFFICES ASSUME NEW g \in Finished(p) PROVE \E i \in RowsOf(sessions, p) : sessions[i].game = g
    OBVIOUS
  <2>1. PICK i \in DOMAIN sessions : sessions[i].game = g
    BY DEF Finished, TablesInv, GameInv, HasRow
  <2> QED
    BY <2>1 DEF Finished, TablesInv, RowInv, RowsOf
<1>4. rPc'[r] = "bestMin" /\ board'[r] = new /\ flow' = flow
  BY <1>1 DEF TablesInv, TypeOK
<1> HIDE DEF new
<1>5. BoardGood(rPc'[r], board'[r]) /\ FlowGood(rPc'[r], flow'[r])
  BY <1>2, <1>3, <1>4 DEF BoardGood, Stages, FlowGood
<1>6. \A q \in Readers \ {r} : rPc'[q] = rPc[q] /\ board'[q] = board[q] /\ flow'[q] = flow[q]
  BY <1>1 DEF TablesInv, TypeOK
<1> QED
  BY <1>5, <1>6, OthersStay

\* A game flow is read of a game that has ended: while one is being recorded, its thread
\* has the mutex.
LEMMA ReadFlow ==
    ASSUME TablesInv, ReadInv, NEW r \in Readers, AskFlow(r) \/ FlowPair(r) \/ FlowRounds(r)
    PROVE  ReadInv'
<1> DEFINE f == flow[r]
<1>1. FlowGood(rPc[r], f)
  BY DEF ReadInv
<1>2. CASE AskFlow(r)
  <2>1. PICK id \in 1..(Len(sessions) + 1) : flow' = [flow EXCEPT ![r] = NewFlow(id)]
    BY <1>2 DEF AskFlow
  <2>2. rPc'[r] = "flowPair" /\ flow'[r] = NewFlow(id)
    BY <1>2, <2>1 DEF AskFlow, TablesInv, TypeOK
  <2>3. BoardGood(rPc'[r], board'[r]) /\ FlowGood(rPc'[r], flow'[r])
    BY <2>2 DEF BoardGood, Stages, FlowGood, NewFlow
  <2>4. \A q \in Readers \ {r} : rPc'[q] = rPc[q] /\ board'[q] = board[q] /\ flow'[q] = flow[q]
    BY <1>2, <2>1 DEF AskFlow, TablesInv, TypeOK
  <2> QED
    BY <1>2, <2>3, <2>4, OthersStay DEF AskFlow
<1>3. CASE FlowPair(r)
  <2>1. f \in Flows /\ f.rounds = {} /\ ~f.failed
    BY <1>1, <1>3 DEF FlowPair, TablesInv, ReaderInv, FlowGood
  <2>2. \/ rPc'[r] = "flowRounds" /\ flow'[r] = [f EXCEPT !.pair = PairOf(sessions, f.id)]
        \/ rPc'[r] = "flowShown" /\ flow'[r] = [f EXCEPT !.failed = TRUE]
    BY <1>3 DEF FlowPair, TablesInv, TypeOK
  <2>3. BoardGood(rPc'[r], board'[r]) /\ FlowGood(rPc'[r], flow'[r])
    BY <2>1, <2>2 DEF BoardGood, Stages, FlowGood, Flows
  <2>4. \A q \in Readers \ {r} : rPc'[q] = rPc[q] /\ board'[q] = board[q] /\ flow'[q] = flow[q]
    BY <1>3 DEF FlowPair, TablesInv, TypeOK
  <2> QED
    BY <1>3, <2>3, <2>4, OthersStay DEF FlowPair
<1>4. CASE FlowRounds(r)
  <2>1. f \in Flows /\ f.pair = PairOf(sessions, f.id)
    BY <1>1, <1>4 DEF FlowRounds, TablesInv, ReaderInv, FlowGood
  <2>2. rPc'[r] = "flowShown"
    BY <1>4 DEF FlowRounds, TablesInv, TypeOK
  <2>3. CASE flow' = [flow EXCEPT ![r].failed = TRUE]
    <3>1. flow'[r].failed
      BY <2>1, <2>3 DEF TablesInv, TypeOK, Flows
    <3>2. BoardGood(rPc'[r], board'[r]) /\ FlowGood(rPc'[r], flow'[r])
      BY <2>2, <3>1 DEF BoardGood, Stages, FlowGood
    <3>3. \A q \in Readers \ {r} : rPc'[q] = rPc[q] /\ board'[q] = board[q] /\ flow'[q] = flow[q]
      BY <1>4, <2>3 DEF FlowRounds, TablesInv, TypeOK
    <3> QED
      BY <1>4, <3>2, <3>3, OthersStay DEF FlowRounds
  <2>4. CASE flow' = [flow EXCEPT ![r].rounds = WordsOf(f.id)]
    <3>1. /\ flow'[r].id = f.id /\ flow'[r].pair = PairOf(sessions, f.id)
          /\ flow'[r].rounds = WordsOf(f.id)
      BY <2>1, <2>4 DEF TablesInv, TypeOK, Flows
    <3>2. ASSUME f.id \in DOMAIN sessions
          PROVE  /\ gPc[sessions[f.id].game] \in Ended
                 /\ IdsRight => AreRounds(WordsOf(f.id), sessions[f.id].game, done[sessions[f.id].game])
      <4> DEFINE g == sessions[f.id].game
      <4>1. g \in Games /\ gPc[g] \notin {"playing", "session"}
        BY <3>2, RowTypes DEF TablesInv, RowInv
      <4>2. gPc[g] \notin {"session", "rowid", "words"}
        BY <1>4, <4>1, ThreadsAssumption DEF FlowRounds, TablesInv, LockInv, MutexExact
      <4>3. gPc[g] \in Ended
        BY <4>1, <4>2 DEF TablesInv, TypeOK, GamePcs, Ended
      <4> QED
        BY <3>2, <4>1, <4>3, OwnWords DEF TablesInv, WordInv
    <3>3. f.id \notin DOMAIN sessions => PairOf(sessions, f.id) = <<>>
      BY DEF PairOf
    <3>4. BoardGood(rPc'[r], board'[r]) /\ FlowGood(rPc'[r], flow'[r])
      BY <2>2, <3>1, <3>2, <3>3 DEF BoardGood, Stages, FlowGood
    <3>5. \A q \in Readers \ {r} : rPc'[q] = rPc[q] /\ board'[q] = board[q] /\ flow'[q] = flow[q]
      BY <1>4, <2>4 DEF FlowRounds, TablesInv, TypeOK
    <3> QED
      BY <1>4, <3>4, <3>5, OthersStay DEF FlowRounds
  <2> QED
    BY <1>4, <2>3, <2>4 DEF FlowRounds
<1> QED
  BY <1>2, <1>3, <1>4

LEMMA ReadToMenu == ASSUME TablesInv, ReadInv, NEW r \in Readers, ToMenu(r) PROVE ReadInv'
<1>1. rPc'[r] = "menu"
  BY DEF ToMenu, TablesInv, TypeOK
<1>2. BoardGood(rPc'[r], board'[r]) /\ FlowGood(rPc'[r], flow'[r])
  BY <1>1 DEF BoardGood, Stages, FlowGood
<1>3. \A q \in Readers \ {r} : rPc'[q] = rPc[q] /\ board'[q] = board[q] /\ flow'[q] = flow[q]
  BY DEF ToMenu, TablesInv, TypeOK
<1> QED
  BY <1>2, <1>3, OthersStay DEF ToMenu

\* Every step keeps what readers collect.
LEMMA StepRead == ASSUME TablesInv, ReadInv, [Next]_vars PROVE ReadInv'
<1>1. ASSUME NEW r \in Readers, Reader(r) PROVE ReadInv'
  BY <1>1, ReadAskBoard, ReadBoard, ReadFlow, ReadToMenu DEF Reader
<1>2. CASE (\E g \in Games : Game(g)) \/ AddUser
  BY <1>2, StepGrows, ReadGrows
<1>3. CASE Crash \/ \E r \in Readers : BadId(r)
  <2>1. rPc' = [r \in Readers |-> "menu"]
    BY <1>3 DEF Crash, BadId, Restart
  <2> QED
    BY <2>1 DEF ReadInv, BoardGood, Stages, FlowGood
<1>4. CASE UNCHANGED vars
  <2>1. Grows /\ UNCHANGED readerVars
    BY <1>4 DEF vars, tables, gameVars, readerVars, Grows, IdsRight
  <2> QED
    BY <2>1, ReadGrows
<1> QED
  BY <1>1, <1>2, <1>3, <1>4 DEF Next

StoreInv == TablesInv /\ ReadInv

LEMMA StoreInductive == (Init => StoreInv) /\ (StoreInv /\ [Next]_vars => StoreInv')
<1>1. Init => ReadInv
  BY DEF Init, ReadInv, BoardGood, Stages, FlowGood
<1> QED
  BY <1>1, InitTables, StepTables, StepRead DEF StoreInv

\* What a client reads of a game is whole, for every number of games and handlers.
THEOREM FlowCorrect == Spec => []FlowWhole
<1>1. ASSUME StoreInv PROVE FlowWhole
  <2> SUFFICES ASSUME NEW r \in Readers, rPc[r] = "flowShown", ~flow[r].failed,
                      flow[r].pair # <<>>, IdsRight
               PROVE  LET id == flow[r].id
                          g == sessions[id].game
                      IN  \/ AreRounds(flow[r].rounds, g, Rounds(sessions, id))
                          \/ g \in failed \/ gPc[g] = "dead"
    BY DEF FlowWhole
  <2> DEFINE id == flow[r].id
             g == sessions[id].game
  <2>1. id \in DOMAIN sessions /\ gPc[g] \in Ended /\ AreRounds(flow[r].rounds, g, done[g])
    BY <1>1 DEF StoreInv, ReadInv, FlowGood
  <2>2. g \in Games /\ Rounds(sessions, id) = play[g].rounds
    BY <1>1, <2>1, RowTypes DEF StoreInv, TablesInv, RowInv, Rounds
  <2>3. gPc[g] \in {"recorded", "over"} /\ g \notin failed => done[g] = play[g].rounds
    BY <1>1, <2>2 DEF StoreInv, TablesInv, GameInv
  <2> QED
    BY <2>1, <2>2, <2>3 DEF Ended
<1> QED
  BY <1>1, StoreInductive, PTL DEF Spec

\* A leaderboard tells of one moment.
THEOREM ConsistentCorrect == Spec => []BoardConsistent
<1>1. StoreInv => BoardConsistent
  BY DEF StoreInv, ReadInv, BoardGood, Agree, BoardConsistent
<1> QED
  BY <1>1, StoreInductive, PTL DEF Spec

\* A leaderboard has the games the player was told were won.
THEOREM FreshCorrect == Spec => []BoardFresh
<1>1. StoreInv => BoardFresh
  BY DEF StoreInv, ReadInv, BoardGood, BoardFresh
<1> QED
  BY <1>1, StoreInductive, PTL DEF Spec
=============================================================================
