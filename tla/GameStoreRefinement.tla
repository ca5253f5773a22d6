------------------------ MODULE GameStoreRefinement -------------------------
(***************************************************************************)
(* Proof that GameStore, where no registration comes between the row of a  *)
(* game and the look at its number, implements Ledger: for any number of   *)
(* game threads, handlers, players and rounds.                             *)
(***************************************************************************)
EXTENDS GameStoreProofs

\* Every round is under the number of its game, for the number of the game being
\* recorded is that of the last row.
FiledInv ==
    /\ IdsRight
    /\ \A g \in Games : gPc[g] = "rowid" => lastRowid = Len(sessions)
    /\ \A g \in Games : gPc[g] = "words" => gameId[g] = Len(sessions)
    /\ \A r \in Readers : rPc[r] \in {"flowPair", "flowRounds"} => flow[r].id \in 1..(Len(sessions) + 1)

LEMMA StepFiled == ASSUME StoreInv, FiledInv, [Next /\ Undisturbed]_vars PROVE FiledInv'
<1> USE DEF StoreInv
<1>1. ASSUME NEW g \in Games, InsertSession(g) PROVE FiledInv'
  <2>1. [game |-> g, play |-> play[g]] \in [game : Games, play : Plays]
    BY <1>1 DEF InsertSession, TablesInv, GameInv
  <2>2. /\ DOMAIN sessions' = DOMAIN sessions \cup {Len(sessions) + 1}
        /\ \A i \in DOMAIN sessions : sessions'[i] = sessions[i]
        /\ Len(sessions') = Len(sessions) + 1
    BY <1>1, <2>1, AddedRow DEF InsertSession, TablesInv, TypeOK
  <2>3. /\ \A h \in Games \ {g} : gPc'[h] = gPc[h] /\ gPc[h] \notin {"rowid", "words"}
        /\ gPc'[g] = "rowid" /\ lastRowid' = Len(sessions')
    BY <1>1, <2>2 DEF InsertSession, GameAt, TablesInv, TypeOK, LockInv, MutexExact
  <2>4. \A r \in Readers : rPc'[r] \notin {"flowPair", "flowRounds"}
    BY <1>1, ThreadsAssumption DEF InsertSession, readerVars, TablesInv, LockInv, MutexExact
  <2>5. IdsRight'
    BY <1>1, <2>2 DEF InsertSession, FiledInv, IdsRight
  <2> QED
    BY <2>3, <2>4, <2>5 DEF FiledInv
<1>2. ASSUME NEW g \in Games, TakeRowid(g) PROVE FiledInv'
  BY <1>2 DEF TakeRowid, GameAt, tables, readerVars, TablesInv, TypeOK, FiledInv, IdsRight
<1>3. ASSUME NEW g \in Games, InsertWords(g) PROVE FiledInv'
  <2>1. [game_id |-> gameId[g], game |-> g, round |-> done[g] + 1] \in Word
    <3>1. play[g] \in Plays /\ done[g] < play[g].rounds /\ done[g] \in 0..MaxRounds
      BY <1>3 DEF InsertWords, TablesInv, GameInv, TypeOK
    <3>2. done[g] + 1 \in 1..MaxRounds
      BY <3>1, BoundsAssumption DEF Plays
    <3> QED
      BY <3>2 DEF Word, TablesInv, TypeOK
  <2>2. /\ DOMAIN words' = DOMAIN words \cup {Len(words) + 1}
        /\ \A i \in DOMAIN words : words'[i] = words[i]
        /\ words'[Len(words) + 1].game_id = gameId[g] /\ words'[Len(words) + 1].game = g
    BY <1>3, <2>1, AddedRow DEF InsertWords, AddWord, TablesInv, TypeOK
  <2>3. sessions' = sessions /\ gameId' = gameId /\ UNCHANGED readerVars
    BY <1>3 DEF InsertWords
  <2>4. gameId[g] \in DOMAIN sessions /\ sessions[gameId[g]].game = g
    BY <1>3 DEF InsertWords, FiledInv, TablesInv, GameInv, TypeOK
  <2>5. IdsRight'
    BY <2>2, <2>3, <2>4 DEF FiledInv, IdsRight
  <2>6. \A h \in Games : /\ gPc'[h] = "words" => gPc[h] = "words"
                         /\ gPc'[h] # "rowid"
    BY <1>3 DEF InsertWords, AfterWord, GameAt, TablesInv, TypeOK, LockInv, MutexExact
  <2> QED
    BY <2>3, <2>5, <2>6 DEF FiledInv, readerVars
<1>4. ASSUME NEW g \in Games, Match(g) \/ AddSessionFails(g) \/ Release(g) PROVE FiledInv'
  <2>1. UNCHANGED <<tables, gameId, readerVars>>
    BY <1>4 DEF Match, AddSessionFails, Release
  <2>2. \A h \in Games : gPc'[h] \in {"rowid", "words"} => gPc'[h] = gPc[h]
    BY <1>4 DEF Match, AddSessionFails, Release, GameAt, TablesInv, TypeOK
  <2> QED
    BY <2>1, <2>2 DEF tables, readerVars, FiledInv, IdsRight
<1>5. ASSUME NEW r \in Readers, Reader(r) PROVE FiledInv'
  <2>1. UNCHANGED <<tables, gameVars>>
    BY <1>5 DEF Reader, AskBoard, BestMin, BestRows, Mine, TopMin, TopRows, UserAv, Av, ReadFails,
                Reads, AskFlow, FlowPair, FlowRounds, ToMenu
  <2>2. \A q \in Readers \ {r} : rPc'[q] = rPc[q] /\ flow'[q] = flow[q]
    BY <1>5 DEF Reader, AskBoard, BestMin, BestRows, Mine, TopMin, TopRows, UserAv, Av, ReadFails,
                Reads, AskFlow, FlowPair, FlowRounds, ToMenu, TablesInv, TypeOK
  <2>3. rPc'[r] \in {"flowPair", "flowRounds"} => flow'[r].id \in 1..(Len(sessions) + 1)
    <3>1. CASE AskFlow(r)
      BY <3>1 DEF AskFlow, NewFlow, TablesInv, TypeOK
    <3>2. CASE FlowPair(r)
      <4>1. flow[r] \in Flows /\ flow[r].id \in 1..(Len(sessions) + 1)
        BY <3>2 DEF FlowPair, FiledInv, TablesInv, ReaderInv
      <4> QED
        BY <3>2, <4>1 DEF FlowPair, TablesInv, TypeOK, Flows
    <3>3. CASE AskBoard(r) \/ FlowRounds(r) \/ ToMenu(r)
      BY <3>3 DEF AskBoard, FlowRounds, ToMenu, TablesInv, TypeOK
    <3>4. CASE BestMin(r) \/ BestRows(r) \/ Mine(r) \/ TopMin(r) \/ TopRows(r) \/ UserAv(r) \/ Av(r)
      BY <3>4 DEF BestMin, BestRows, Mine, TopMin, TopRows, UserAv, Av, Reads, TablesInv, TypeOK
    <3>5. CASE ReadFails(r)
      <4>1. PICK result : rPc[r] \in DOMAIN AfterFailure /\ Reads(r, rPc[r], AfterFailure[rPc[r]], result)
        BY <3>5 DEF ReadFails
      <4> QED
        BY <4>1 DEF Reads, AfterFailure, TablesInv, TypeOK
    <3> QED
      BY <1>5, <3>1, <3>2, <3>3, <3>4, <3>5 DEF Reader
  <2> QED
    BY <2>1, <2>2, <2>3 DEF tables, gameVars, FiledInv, IdsRight
<1>6. CASE AddUser /\ Undisturbed
  <2>1. numUsers' # numUsers
    BY <1>6 DEF AddUser, TablesInv, TypeOK
  <2>2. \A g \in Games : gPc[g] # "rowid"
    BY <1>6, <2>1 DEF Undisturbed
  <2> QED
    BY <1>6, <2>2 DEF AddUser, gameVars, readerVars, FiledInv, IdsRight
<1>7. CASE Crash \/ \E r \in Readers : BadId(r)
  <2>1. Restart
    BY <1>7 DEF Crash, BadId
  <2>2. \A g \in Games : gPc'[g] \notin {"rowid", "words"}
    BY <2>1 DEF Restart, TablesInv, TypeOK, GamePcs
  <2> QED
    BY <2>1, <2>2 DEF Restart, FiledInv, IdsRight
<1>8. CASE UNCHANGED vars
  BY <1>8 DEF vars, tables, gameVars, readerVars, FiledInv, IdsRight
<1> QED
  BY <1>1, <1>2, <1>3, <1>4, <1>5, <1>6, <1>7, <1>8 DEF Next, Game
-----------------------------------------------------------------------------
(* The mapped state.                                                       *)

\* The entry of a game with a row.
Entry(g) == [game |-> g, play |-> play[g], rounds |-> {<<g, k>> : k \in 1..done[g]}]

\* How many entries there are: the last row is still to come while it is recorded.
NumEntries == IF Recording = {} THEN Len(sessions) ELSE Len(sessions) - 1

EntriesAre ==
    /\ NumEntries \in Nat
    /\ EntriesOf = [i \in 1..NumEntries |-> Entry(sessions[i].game)]
    /\ \A g \in Recording :
        /\ Recording = {g} /\ NumEntries = Len(sessions) - 1 /\ sessions[Len(sessions)].game = g
        /\ Len(sessions) \in DOMAIN sessions
    /\ \A i \in 1..NumEntries :
        /\ i \in DOMAIN sessions /\ sessions[i].game \in Games \ Recording
        /\ gPc[sessions[i].game] \in Ended
    /\ Recording = {} => 1..NumEntries = DOMAIN sessions

\* The entries in closed form.
LEMMA EntriesForm == StoreInv /\ FiledInv => EntriesAre
<1> SUFFICES ASSUME StoreInv, FiledInv PROVE EntriesAre
  OBVIOUS
<1> USE DEF StoreInv
<1>1. DOMAIN sessions = 1..Len(sessions) /\ Len(sessions) \in Nat
  BY DEF TablesInv, TypeOK
<1>2. \A g, h \in Recording : g = h
  BY DEF Recording, TablesInv, LockInv, MutexExact
<1>3. \A g \in Recording : sessions # <<>> /\ sessions[Len(sessions)].game = g
  BY DEF Recording, TablesInv, GameInv
<1>4. \A g \in Recording : Len(sessions) \in DOMAIN sessions
  BY <1>1, <1>3 DEF TablesInv, TypeOK
<1>5. NumEntries \in Nat
  <2>1. CASE Recording = {}
    BY <1>1, <2>1 DEF NumEntries
  <2>2. CASE Recording # {}
    BY <1>1, <1>4, <2>2 DEF NumEntries
  <2> QED
    BY <2>1, <2>2
<1>6. {j \in DOMAIN sessions : sessions[j].game \notin Recording} = 1..NumEntries
  <2>1. CASE Recording = {}
    BY <1>1, <2>1 DEF NumEntries
  <2>2. CASE Recording # {}
    <3>1. PICK g \in Recording : Recording = {g}
      BY <1>2, <2>2
    <3>2. \A j \in DOMAIN sessions : sessions[j].game = g <=> j = Len(sessions)
      BY <1>3, <1>4 DEF TablesInv, RowInv
    <3> QED
      BY <1>1, <2>2, <3>1, <3>2 DEF NumEntries
  <2> QED
    BY <2>1, <2>2
<1>7. \A i \in 1..NumEntries :
        /\ i \in DOMAIN sessions /\ sessions[i].game \in Games \ Recording
        /\ gPc[sessions[i].game] \in Ended
  <2> SUFFICES ASSUME NEW i \in DOMAIN sessions, sessions[i].game \notin Recording
               PROVE  sessions[i].game \in Games /\ gPc[sessions[i].game] \in Ended
    BY <1>6
  <2>1. sessions[i].game \in Games /\ gPc[sessions[i].game] \notin {"playing", "session"}
    BY RowTypes DEF TablesInv, RowInv
  <2> QED
    BY <2>1 DEF Recording, Ended, GamePcs, TablesInv, TypeOK
<1>8. \A i \in 1..NumEntries :
        [game |-> sessions[i].game, play |-> sessions[i].play, rounds |-> RoundsIn(WordsOf(i))]
            = Entry(sessions[i].game)
  <2> SUFFICES ASSUME NEW i \in 1..NumEntries
               PROVE  /\ sessions[i].play = play[sessions[i].game]
                      /\ RoundsIn(WordsOf(i)) = {<<sessions[i].game, k>> : k \in 1..done[sessions[i].game]}
    BY DEF Entry
  <2> DEFINE g == sessions[i].game
  <2>1. i \in DOMAIN sessions /\ g \in Games
    BY <1>7
  <2>2. AreRounds(WordsOf(i), g, done[g])
    BY <2>1, OwnWords DEF FiledInv, TablesInv, WordInv
  <2>3. RoundsIn(WordsOf(i)) = {<<g, words[j].round>> : j \in WordsOf(i)}
    BY <2>2 DEF AreRounds, RoundsIn
  <2>4. {<<g, words[j].round>> : j \in WordsOf(i)} = {<<g, k>> : k \in {words[j].round : j \in WordsOf(i)}}
    OBVIOUS
  <2> QED
    BY <2>1, <2>2, <2>3, <2>4 DEF AreRounds, TablesInv, RowInv
<1>9. EntriesOf = [i \in 1..NumEntries |-> Entry(sessions[i].game)]
  BY <1>6, <1>8 DEF EntriesOf
<1>10. Recording = {} => 1..NumEntries = DOMAIN sessions
  BY <1>6
<1>11. \A g \in Recording : Recording = {g} /\ NumEntries = Len(sessions) - 1
  BY <1>2 DEF NumEntries
<1> QED
  BY <1>3, <1>4, <1>5, <1>7, <1>9, <1>10, <1>11 DEF EntriesAre

LEMMA EntriesFormNext == (StoreInv /\ FiledInv => EntriesAre)'
BY EntriesForm, PTL

\* What reader r is shown.
Seen(r) ==
    IF rPc[r] = "shown" /\ ~board[r].failed
    THEN [best |-> board[r].best, ranking |-> board[r].mine, average |-> board[r].userAv,
          globalAverage |-> board[r].av, top |-> board[r].top]
    ELSE IF rPc[r] = "flowShown" /\ ~flow[r].failed
    THEN [pair |-> flow[r].pair, rounds |-> RoundsIn(flow[r].rounds)]
    ELSE IF rPc[r] \in {"shown", "flowShown"} THEN <<"failed">> ELSE <<>>

LEMMA ViewForm == ViewOf = [r \in Readers |-> Seen(r)]
BY DEF ViewOf, Seen

LEMMA ViewFormNext == ViewOf' = [r \in Readers |-> Seen(r)']
BY DEF ViewOf, Seen

\* Rounds that have been shown stay as they are.
LEMMA SeenStays ==
    ASSUME TablesInv, NEW r \in Readers,
           rPc'[r] = rPc[r], board'[r] = board[r], flow'[r] = flow[r],
           \A i \in DOMAIN words : words'[i] = words[i]
    PROVE  Seen(r)' = Seen(r)
<1>1. CASE rPc[r] = "flowShown"
  <2>1. flow[r].rounds \subseteq DOMAIN words
    BY <1>1 DEF TablesInv, ReaderInv, Flows
  <2>2. RoundsIn(flow[r].rounds)' = RoundsIn(flow[r].rounds)
    BY <2>1 DEF RoundsIn
  <2> QED
    BY <1>1, <2>2 DEF Seen
<1>2. CASE rPc[r] # "flowShown"
  BY <1>2 DEF Seen
<1> QED
  BY <1>1, <1>2

LEMMA OneView ==
    ASSUME TablesInv, NEW r \in Readers,
           \A q \in Readers \ {r} : rPc'[q] = rPc[q] /\ board'[q] = board[q] /\ flow'[q] = flow[q],
           \A i \in DOMAIN words : words'[i] = words[i]
    PROVE  ViewOf' = [ViewOf EXCEPT ![r] = Seen(r)'] /\ ViewOf[r] = Seen(r)
<1>1. \A q \in Readers \ {r} : Seen(q)' = Seen(q)
  BY SeenStays
<1> QED
  BY <1>1, ViewForm, ViewFormNext

LEMMA SameView ==
    ASSUME TablesInv, UNCHANGED readerVars, \A i \in DOMAIN words : words'[i] = words[i]
    PROVE  ViewOf' = ViewOf
<1>1. \A q \in Readers : Seen(q)' = Seen(q)
  BY SeenStays DEF readerVars
<1> QED
  BY <1>1, ViewForm, ViewFormNext
-----------------------------------------------------------------------------
(* Steps of the database.                                                  *)

LEMMA AppendForm ==
    ASSUME NEW n \in Nat, NEW q, q = [i \in 1..n |-> q[i]], NEW e
    PROVE  /\ Append(q, e) = [i \in 1..n + 1 |-> IF i = n + 1 THEN e ELSE q[i]]
           /\ Len(q) = n /\ DOMAIN q = 1..n
<1> DEFINE S == {q[i] : i \in 1..n} \cup {e}
<1>1. q \in [1..n -> S]
  OBVIOUS
<1>2. q \in Seq(S) /\ Len(q) = n
  BY <1>1
<1>3. e \in S
  OBVIOUS
<1> HIDE DEF S
<1> QED
  BY <1>2, <1>3

\* Where the games that have an entry stay as they are, so do the entries.
LEMMA SameEntries ==
    ASSUME EntriesAre, EntriesAre', NumEntries' = NumEntries,
           \A i \in 1..NumEntries : sessions'[i] = sessions[i],
           \A g \in Games : gPc[g] \in Ended => play'[g] = play[g] /\ done'[g] = done[g]
    PROVE  EntriesOf' = EntriesOf
<1>1. \A i \in 1..NumEntries : Entry(sessions[i].game)' = Entry(sessions[i].game)
  BY DEF EntriesAre, Entry
<1>2. EntriesOf' = [i \in 1..NumEntries |-> Entry(sessions[i].game)']
  BY DEF EntriesAre
<1> QED
  BY <1>1, <1>2 DEF EntriesAre

\* The recording of g ends, after done'[g] rounds.
LEMMA OneMore ==
    ASSUME StoreInv, EntriesAre, EntriesAre', NEW g \in Recording, Recording' = {},
           sessions' = sessions, play' = play,
           \A h \in Games \ {g} : done'[h] = done[h]
    PROVE  L!Enter(g, play[g], done'[g])
<1> USE DEF StoreInv
<1> DEFINE n == NumEntries
           e == [game |-> g, play |-> play[g], rounds |-> {<<g, k>> : k \in 1..done'[g]}]
<1>1. /\ n \in Nat /\ n + 1 = Len(sessions) /\ sessions[n + 1].game = g /\ n + 1 \in DOMAIN sessions
      /\ g \in Games
  <2>1. n \in Nat /\ n = Len(sessions) - 1 /\ sessions[Len(sessions)].game = g /\ Len(sessions) \in DOMAIN sessions
    BY DEF EntriesAre
  <2>2. Len(sessions) \in Nat
    BY DEF TablesInv, TypeOK
  <2> HIDE DEF n
  <2>3. n + 1 = Len(sessions)
    BY <2>1, <2>2
  <2> QED
    BY <2>1, <2>3 DEF Recording
<1>2. NumEntries' = n + 1
  BY <1>1 DEF NumEntries
<1>3. \A i \in 1..n : sessions[i].game \in Games \ {g} /\ i \in DOMAIN sessions
  BY DEF EntriesAre
<1>4. \A i \in 1..n : Entry(sessions[i].game)' = Entry(sessions[i].game)
  BY <1>3 DEF Entry
<1>5. \A i \in 1..n + 1 : sessions[i].game = g => Entry(sessions[i].game)' = e
  BY DEF Entry
<1>6. EntriesOf = [i \in 1..n |-> Entry(sessions[i].game)]
  BY DEF EntriesAre
<1>7. EntriesOf' = [i \in 1..n + 1 |-> Entry(sessions[i].game)']
  BY <1>2 DEF EntriesAre
<1> HIDE DEF n, e
<1>8. EntriesOf' = [i \in 1..n + 1 |-> IF i = n + 1 THEN e ELSE EntriesOf[i]]
  <2>1. \A i \in 1..n + 1 : Entry(sessions[i].game)' = IF i = n + 1 THEN e ELSE EntriesOf[i]
    BY <1>1, <1>4, <1>5, <1>6
  <2> QED
    BY <1>7, <2>1
<1>9. EntriesOf' = Append(EntriesOf, e) /\ DOMAIN EntriesOf = 1..n
  <2>1. EntriesOf = [i \in 1..n |-> EntriesOf[i]]
    BY <1>6
  <2> QED
    BY <1>1, <1>8, <2>1, AppendForm
<1>10. \A i \in DOMAIN EntriesOf : EntriesOf[i].game # g
  BY <1>3, <1>6, <1>9 DEF Entry
<1>11. play[g].p1 # play[g].p2
  BY <1>1 DEF TablesInv, RowInv
<1> QED
  BY <1>9, <1>10, <1>11 DEF L!Enter, e

\* The play of a game whose recording has begun, as the ledger has it.
LEMMA PlayOf ==
    ASSUME StoreInv, NEW g \in Games, gPc[g] # "playing"
    PROVE  /\ play[g] \in L!Plays /\ play[g].rounds \in Nat
           /\ done[g] \in 0..play[g].rounds
BY BoundsAssumption DEF StoreInv, TablesInv, TypeOK, GameInv, Plays, L!Plays

\* A statement of the end of a game is nothing to the ledger, but for those that end
\* the recording.
LEMMA StepOfGame ==
    ASSUME StoreInv, FiledInv, StoreInv', FiledInv', NEW g \in Games, Game(g)
    PROVE  L!LedgerNext \/ UNCHANGED <<EntriesOf, BrokenOf, ViewOf>>
<1>1. EntriesAre /\ EntriesAre'
  BY EntriesForm, EntriesFormNext
<1>2. ViewOf' = ViewOf
  BY StepGrows, SameView DEF StoreInv, Grows
<1>3. gPc \in [Games -> GamePcs] /\ play \in [Games -> Plays \cup {<<>>}] /\ done \in [Games -> 0..MaxRounds]
  BY DEF StoreInv, TablesInv, TypeOK
<1>4. g \in Recording => Recording = {g}
  BY <1>1 DEF EntriesAre
<1>5. ASSUME L!Fail(g) \/ L!Record(g) PROVE L!LedgerNext
  BY <1>5 DEF L!LedgerNext
<1>6. CASE Match(g) \/ TakeRowid(g) \/ Release(g)
  <2>1. Recording' = Recording /\ BrokenOf' = BrokenOf
    BY <1>3, <1>6 DEF Match, TakeRowid, Release, GameAt, Recording, BrokenOf
  <2>2. /\ sessions' = sessions /\ done' = done
        /\ \A h \in Games : gPc[h] \in Ended => play'[h] = play[h]
    BY <1>3, <1>6 DEF Match, TakeRowid, Release, tables, Ended
  <2>3. NumEntries' = NumEntries
    BY <2>1, <2>2 DEF NumEntries
  <2> QED
    BY <1>1, <1>2, <2>1, <2>2, <2>3, SameEntries
<1>7. CASE AddSessionFails(g)
  <2>1. /\ sessions' = sessions /\ play' = play /\ done' = done
        /\ gPc' = [gPc EXCEPT ![g] = "recorded"] /\ failed' = failed \cup {g}
    BY <1>7 DEF AddSessionFails, GameAt, tables
  <2>2. BrokenOf' = BrokenOf \cup {g}
    BY <1>3, <1>7, <2>1 DEF AddSessionFails, BrokenOf
  <2>3. CASE gPc[g] = "session"
    <3>1. Recording' = Recording
      BY <1>3, <2>1, <2>3 DEF Recording
    <3>2. EntriesOf' = EntriesOf
      BY <1>1, <2>1, <3>1, SameEntries DEF NumEntries
    <3> QED
      BY <1>2, <1>5, <2>2, <3>2 DEF L!Fail, L!BreakOff
  <2>4. CASE gPc[g] = "words"
    <3>1. g \in Recording
      BY <2>4 DEF Recording
    <3>2. Recording' = {}
      BY <1>3, <1>4, <2>1, <3>1 DEF Recording
    <3>3. L!Enter(g, play[g], done[g])
      BY <1>1, <2>1, <3>1, <3>2, OneMore
    <3>4. L!BreakOff(g)
      BY <2>2, <2>4, <3>3, PlayOf DEF L!BreakOff
    <3> QED
      BY <1>2, <1>5, <3>4 DEF L!Fail
  <2> QED
    BY <1>7, <2>3, <2>4 DEF AddSessionFails
<1>8. CASE InsertSession(g)
  <2>1. play' = play /\ done' = done /\ failed' = failed /\ gPc' = [gPc EXCEPT ![g] = "rowid"] /\ gPc[g] = "session"
    BY <1>8 DEF InsertSession, GameAt
  <2>2. Recording = {}
    BY <1>8 DEF InsertSession, StoreInv, TablesInv, LockInv, MutexExact, Recording
  <2>3. Recording' = {g} /\ BrokenOf' = BrokenOf
    BY <1>3, <2>1, <2>2 DEF Recording, BrokenOf
  <2>4. [game |-> g, play |-> play[g]] \in [game : Games, play : Plays]
    BY <1>8 DEF InsertSession, StoreInv, TablesInv, GameInv
  <2>5. Len(sessions') = Len(sessions) + 1 /\ \A i \in DOMAIN sessions : sessions'[i] = sessions[i]
    BY <1>8, <2>4, AddedRow DEF InsertSession, StoreInv, TablesInv, TypeOK
  <2>6. NumEntries' = NumEntries
    <3>1. Len(sessions) \in Nat
      BY DEF StoreInv, TablesInv, TypeOK
    <3> QED
      BY <2>2, <2>3, <2>5, <3>1 DEF NumEntries
  <2>7. \A i \in 1..NumEntries : sessions'[i] = sessions[i]
    BY <1>1, <2>5 DEF EntriesAre
  <2> QED
    BY <1>1, <1>2, <2>1, <2>3, <2>6, <2>7, SameEntries
<1>9. CASE InsertWords(g)
  <2>1. /\ sessions' = sessions /\ play' = play /\ failed' = failed /\ gPc[g] = "words"
        /\ done' = [done EXCEPT ![g] = @ + 1]
    BY <1>9 DEF InsertWords, AddWord
  <2>2. g \in Recording
    BY <2>1 DEF Recording
  <2>3. CASE done[g] + 1 = play[g].rounds
    <3>1. gPc' = [gPc EXCEPT ![g] = "recorded"]
      BY <1>9, <2>3 DEF InsertWords, AfterWord, GameAt
    <3>2. Recording' = {} /\ BrokenOf' = BrokenOf
      BY <1>3, <1>4, <2>1, <2>2, <3>1 DEF Recording, BrokenOf
    <3>3. done'[g] = play[g].rounds /\ \A h \in Games \ {g} : done'[h] = done[h]
      BY <1>3, <2>1, <2>3
    <3>4. L!Enter(g, play[g], play[g].rounds)
      BY <1>1, <2>1, <2>2, <3>2, <3>3, OneMore
    <3>5. g \notin BrokenOf
      BY <2>1 DEF BrokenOf, StoreInv, TablesInv, GameInv
    <3> QED
      BY <1>2, <1>5, <2>1, <3>2, <3>4, <3>5, PlayOf DEF L!Record
  <2>4. CASE done[g] + 1 # play[g].rounds
    <3>1. gPc' = gPc
      BY <1>9, <2>4 DEF InsertWords, AfterWord
    <3>2. Recording' = Recording /\ BrokenOf' = BrokenOf
      BY <2>1, <3>1 DEF Recording, BrokenOf
    <3>3. \A h \in Games : gPc[h] \in Ended => done'[h] = done[h]
      BY <1>3, <2>1 DEF Ended
    <3>4. EntriesOf' = EntriesOf
      BY <1>1, <2>1, <3>2, <3>3, SameEntries DEF NumEntries
    <3> QED
      BY <1>2, <3>2, <3>4
  <2> QED
    BY <2>3, <2>4
<1> QED
  BY <1>6, <1>7, <1>8, <1>9 DEF Game

\* The program stops: the game being recorded is entered as far as it came.
LEMMA StepOfRestart ==
    ASSUME StoreInv, FiledInv, StoreInv', FiledInv', Restart PROVE L!LedgerNext
<1> USE DEF StoreInv
<1>1. EntriesAre /\ EntriesAre'
  BY EntriesForm, EntriesFormNext
<1>2. ViewOf' = L!Nothing
  <2>1. \A r \in Readers : Seen(r)' = <<>>
    BY DEF Restart, Seen
  <2> QED
    BY <2>1, ViewFormNext DEF L!Nothing
<1>3. sessions' = sessions /\ play' = play /\ done' = done /\ failed' = failed
  BY DEF Restart
<1>4. \A g \in Games :
        /\ gPc[g] \in {"session", "rowid", "words"} => gPc'[g] = "dead"
        /\ gPc[g] = "recorded" => gPc'[g] = "over"
        /\ gPc[g] \in {"playing", "over", "dead"} => gPc'[g] = gPc[g]
        /\ gPc[g] \in GamePcs
  BY DEF Restart, TablesInv, LockInv, GamePcs
<1>5. Recording' = {}
  BY <1>4 DEF Recording, GamePcs
<1>6. CASE \A g \in Games : gPc[g] \notin {"session", "rowid", "words"}
  <2>1. Recording = {} /\ BrokenOf' = BrokenOf
    BY <1>3, <1>4, <1>6 DEF Recording, BrokenOf, GamePcs
  <2>2. EntriesOf' = EntriesOf
    BY <1>1, <1>3, <1>5, <2>1, SameEntries DEF NumEntries
  <2> QED
    BY <1>2, <2>1, <2>2 DEF L!LedgerNext, L!Restart
<1>7. ASSUME NEW g \in Games, gPc[g] \in {"session", "rowid", "words"} PROVE L!LedgerNext
  <2>1. \A h \in Games \ {g} : gPc[h] \notin {"session", "rowid", "words"}
    BY <1>7 DEF TablesInv, LockInv, MutexExact
  <2>2. BrokenOf' = BrokenOf \cup {g}
    BY <1>3, <1>4, <1>7, <2>1 DEF BrokenOf, GamePcs
  <2>3. CASE gPc[g] = "session"
    <3>1. Recording = {}
      BY <2>1, <2>3 DEF Recording
    <3>2. EntriesOf' = EntriesOf
      BY <1>1, <1>3, <1>5, <3>1, SameEntries DEF NumEntries
    <3> QED
      BY <1>2, <2>2, <3>2 DEF L!LedgerNext, L!Restart, L!BreakOff
  <2>4. CASE gPc[g] \in {"rowid", "words"}
    <3>1. g \in Recording
      BY <2>4 DEF Recording
    <3>2. L!Enter(g, play[g], done[g])
      BY <1>1, <1>3, <1>5, <3>1, OneMore
    <3>3. L!BreakOff(g)
      BY <2>2, <2>4, <3>2, PlayOf DEF L!BreakOff
    <3> QED
      BY <1>2, <3>3 DEF L!LedgerNext, L!Restart
  <2> QED
    BY <1>7, <2>3, <2>4
<1> QED
  BY <1>6, <1>7
-----------------------------------------------------------------------------
(* Steps of readers.                                                       *)

\* The queries of the store, asked of the ledger: they look at the plays only.
LEMMA SameAnswers ==
    ASSUME TablesInv, NEW E, DOMAIN E = DOMAIN sessions,
           \A i \in DOMAIN sessions : E[i].play = sessions[i].play
    PROVE  /\ \A p : L!RowsOf(E, p) = RowsOf(sessions, p)
           /\ \A p : L!Partners(E, p, L!RowsWith(E, L!RowsOf(E, p), L!MinRounds(E, L!RowsOf(E, p))))
                        = BestOf(sessions, p)
           /\ L!RowsWith(E, DOMAIN E, L!MinRounds(E, DOMAIN E)) = TopOf(sessions)
           /\ \A p : L!Ranking(E, L!RowsOf(E, p)) = Ranking(sessions, RowsOf(sessions, p))
           /\ \A id : L!PairOf(E, id) = PairOf(sessions, id)
<1> DEFINE T == sessions
<1>1. \A p : L!RowsOf(E, p) = RowsOf(T, p) /\ RowsOf(T, p) \subseteq DOMAIN T
  BY DEF RowsOf, L!RowsOf
<1>2. \A i \in DOMAIN T : L!Rounds(E, i) = Rounds(T, i) /\ Rounds(T, i) \in 1..MaxRounds
  BY RoundsTypes DEF Rounds, L!Rounds
<1>3. \A p : \A i \in DOMAIN T : L!Partner(E, p, i) = Partner(T, p, i)
  BY DEF Partner, L!Partner
<1>4. ASSUME NEW I \in SUBSET DOMAIN T PROVE L!MinRounds(E, I) = MinRounds(T, I)
  <2>1. CASE I = {}
    BY <2>1 DEF MinRounds, L!MinRounds
  <2>2. CASE I # {}
    <3> DEFINE R == {Rounds(T, i) : i \in I}
    <3>1. R = {L!Rounds(E, i) : i \in I} /\ R \in SUBSET Nat /\ R # {}
      BY <1>2, <2>2, BoundsAssumption
    <3>2. PICK n \in R : \A m \in R : n <= m
      BY <3>1, LeastNumber
    <3>3. MinRounds(T, I) \in R /\ \A m \in R : MinRounds(T, I) <= m
      BY <2>2, <3>2 DEF MinRounds
    <3>4. L!MinRounds(E, I) \in R /\ \A m \in R : L!MinRounds(E, I) <= m
      <4>1. L!MinRounds(E, I) = CHOOSE k \in {L!Rounds(E, i) : i \in I} : \A i \in I : k <= L!Rounds(E, i)
        BY <2>2 DEF L!MinRounds
      <4>2. \E k \in {L!Rounds(E, i) : i \in I} : \A i \in I : k <= L!Rounds(E, i)
        BY <3>1, <3>2, <1>2
      <4>3. /\ L!MinRounds(E, I) \in {L!Rounds(E, i) : i \in I}
            /\ \A i \in I : L!MinRounds(E, I) <= L!Rounds(E, i)
        BY <4>1, <4>2
      <4> QED
        BY <1>2, <3>1, <4>3
    <3> HIDE DEF R
    <3>5. \A k, h \in R : k <= h /\ h <= k => k = h
      BY <3>1
    <3> QED
      BY <3>3, <3>4, <3>5
  <2> QED
    BY <2>1, <2>2
<1>5. ASSUME NEW I \in SUBSET DOMAIN T, NEW m PROVE L!RowsWith(E, I, m) = RowsWith(T, I, m)
  BY <1>2 DEF RowsWith, L!RowsWith
<1>6. ASSUME NEW p
      PROVE  L!Partners(E, p, L!RowsWith(E, L!RowsOf(E, p), L!MinRounds(E, L!RowsOf(E, p)))) = BestOf(T, p)
  <2> DEFINE I == RowsWith(T, RowsOf(T, p), MinRounds(T, RowsOf(T, p)))
  <2>1. L!RowsWith(E, L!RowsOf(E, p), L!MinRounds(E, L!RowsOf(E, p))) = I
    BY <1>1, <1>4, <1>5
  <2>2. I \subseteq DOMAIN T
    BY <1>1 DEF RowsWith
  <2> HIDE DEF I
  <2>3. L!Partners(E, p, I) = Partners(T, p, I)
    BY <1>2, <1>3, <2>2 DEF Partners, L!Partners
  <2> QED
    BY <2>1, <2>3 DEF BestOf, I
<1>7. L!RowsWith(E, DOMAIN E, L!MinRounds(E, DOMAIN E)) = TopOf(T)
  BY <1>4, <1>5 DEF TopOf
<1>8. ASSUME NEW p PROVE L!Ranking(E, L!RowsOf(E, p)) = Ranking(T, RowsOf(T, p))
  <2> DEFINE I == RowsOf(T, p)
  <2>1. L!RowsOf(E, p) = I /\ I \subseteq DOMAIN T
    BY <1>1
  <2> HIDE DEF I
  <2>2. \A J : L!Cardinality(J) = Cardinality(J)
    BY DEF Cardinality, L!Cardinality
  <2>3. ASSUME NEW J \in SUBSET I
        PROVE  (\A i \in J, j \in I \ J : L!Rounds(E, i) <= L!Rounds(E, j)) <=>
               (\A i \in J, j \in I \ J : Rounds(T, i) <= Rounds(T, j))
    BY <1>2, <2>1
  <2> QED
    BY <2>1, <2>2, <2>3 DEF Ranking, L!Ranking, I
<1>9. \A id : L!PairOf(E, id) = PairOf(T, id)
  BY DEF PairOf, L!PairOf
<1> QED
  BY <1>1, <1>6, <1>7, <1>8, <1>9

\* While a reader has the mutex every row is an entry.
LEMMA AllEntered ==
    ASSUME StoreInv, FiledInv, NEW r \in Readers,
           rPc[r] \in Stages \cup {"flowPair", "flowRounds"}
    PROVE  /\ DOMAIN EntriesOf = DOMAIN sessions /\ Len(EntriesOf) = Len(sessions)
           /\ \A i \in DOMAIN sessions :
                EntriesOf[i].play = sessions[i].play /\ EntriesOf[i].rounds = RoundsIn(WordsOf(i))
<1>1. Recording = {}
  BY ThreadsAssumption DEF StoreInv, TablesInv, LockInv, MutexExact, Recording, Stages
<1>2. EntriesOf = [i \in DOMAIN sessions |->
        [game |-> sessions[i].game, play |-> sessions[i].play, rounds |-> RoundsIn(WordsOf(i))]]
  BY <1>1 DEF EntriesOf
<1>3. DOMAIN sessions = 1..Len(sessions) /\ Len(sessions) \in Nat
  BY DEF StoreInv, TablesInv, TypeOK
<1>4. Len(EntriesOf) = Len(sessions)
  <2>1. EntriesOf = [i \in 1..Len(sessions) |-> EntriesOf[i]]
    BY <1>2, <1>3
  <2> QED
    BY <1>3, <2>1, AppendForm
<1> QED
  BY <1>2, <1>4

\* What one reader's step does to the mapped state.
LEMMA ReaderView ==
    ASSUME StoreInv, NEW r \in Readers, Reader(r)
    PROVE  /\ EntriesOf' = EntriesOf /\ BrokenOf' = BrokenOf
           /\ ViewOf' = [ViewOf EXCEPT ![r] = Seen(r)'] /\ ViewOf[r] = Seen(r)
           /\ Seen(r)' = Seen(r) => ViewOf' = ViewOf
<1>1. /\ UNCHANGED <<tables, gameVars>>
      /\ \A q \in Readers \ {r} : rPc'[q] = rPc[q] /\ board'[q] = board[q] /\ flow'[q] = flow[q]
  <2>1. UNCHANGED <<tables, gameVars>>
    BY DEF Reader, AskBoard, BestMin, BestRows, Mine, TopMin, TopRows, UserAv, Av, ReadFails,
           Reads, AskFlow, FlowPair, FlowRounds, ToMenu
  <2>2. CASE BestMin(r) \/ BestRows(r) \/ Mine(r) \/ TopMin(r) \/ TopRows(r) \/ UserAv(r) \/ Av(r)
             \/ ReadFails(r)
    <3>1. PICK from, to, result : Reads(r, from, to, result)
      BY <2>2 DEF BestMin, BestRows, Mine, TopMin, TopRows, UserAv, Av, ReadFails
    <3> QED
      BY <2>1, <3>1 DEF Reads, StoreInv, TablesInv, TypeOK
  <2>3. CASE AskBoard(r) \/ AskFlow(r) \/ FlowPair(r) \/ FlowRounds(r) \/ ToMenu(r)
    BY <2>1, <2>3 DEF AskBoard, AskFlow, FlowPair, FlowRounds, ToMenu, StoreInv, TablesInv, TypeOK
  <2> QED
    BY <2>2, <2>3 DEF Reader
<1>2. EntriesOf' = EntriesOf /\ BrokenOf' = BrokenOf
  BY <1>1 DEF tables, gameVars, EntriesOf, BrokenOf, Recording, RoundsIn, WordsOf
<1>3. ViewOf' = [ViewOf EXCEPT ![r] = Seen(r)'] /\ ViewOf[r] = Seen(r)
  BY <1>1, OneView DEF tables, StoreInv
<1>4. Seen(r)' = Seen(r) => ViewOf' = ViewOf
  <2>1. ViewOf = [q \in Readers |-> ViewOf[q]]
    BY ViewForm
  <2> QED
    BY <1>3, <2>1
<1> QED
  BY <1>2, <1>3, <1>4

\* A leaderboard is a view of the ledger at its last statement.
LEMMA StepOfBoard ==
    ASSUME StoreInv, FiledInv, NEW r \in Readers,
           NEW from \in Stages, NEW to \in Stages \cup {"shown"}, NEW result,
           Reads(r, from, to, result), Reader(r),
           to = "shown" => result.failed \/ Av(r)
    PROVE  L!LedgerNext \/ UNCHANGED <<EntriesOf, BrokenOf, ViewOf>>
<1> USE DEF StoreInv
<1> DEFINE b == board[r]
<1>1. /\ rPc[r] = from /\ rPc'[r] = to /\ b \in Boards
      /\ board'[r] = IF b.failed THEN b ELSE result
  BY DEF Reads, TablesInv, TypeOK, ReaderInv, Stages
<1>2. Seen(r) = <<>> /\ ViewOf[r] = <<>>
  BY <1>1, ReaderView DEF Seen, Stages
<1>3. CASE to # "shown"
  <2>1. Seen(r)' = <<>>
    BY <1>1, <1>3 DEF Seen, Stages
  <2> QED
    BY <1>2, <2>1, ReaderView
<1>4. CASE to = "shown" /\ (b.failed \/ result.failed)
  <2>1. Seen(r)' = <<"failed">>
    BY <1>1, <1>4 DEF Seen
  <2>2. L!ShowFailure(r)
    BY <1>2, <2>1, ReaderView DEF L!ShowFailure, L!Shows
  <2> QED
    BY <2>2 DEF L!LedgerNext
<1>5. CASE to = "shown" /\ ~b.failed /\ ~result.failed
  <2>1. Av(r) /\ from = "av"
    BY <1>1, <1>5 DEF Av, Reads
  <2> DEFINE new == [b EXCEPT !.av = DOMAIN sessions]
  <2>2. board'[r] = new
    BY <1>5, <2>1 DEF Av, Reads, TablesInv, TypeOK
  <2>3. /\ b.best = BestOf(sessions, b.who) /\ b.mine \in Ranking(sessions, RowsOf(sessions, b.who))
        /\ b.top = TopOf(sessions) /\ b.userAv = RowsOf(sessions, b.who) /\ b.who \in Players
    BY <1>1, <1>5, <2>1 DEF ReadInv, BoardGood, Stages, Boards
  <2>4. /\ new.best = b.best /\ new.mine = b.mine /\ new.top = b.top /\ new.userAv = b.userAv
        /\ new.av = DOMAIN sessions /\ ~new.failed
    BY <1>1, <1>5 DEF Boards
  <2> HIDE DEF new
  <2>5. Seen(r)' = [best |-> b.best, ranking |-> b.mine, average |-> b.userAv,
                    globalAverage |-> DOMAIN sessions, top |-> b.top]
    BY <1>1, <1>5, <2>2, <2>4 DEF Seen
  <2>6. /\ DOMAIN EntriesOf = DOMAIN sessions
        /\ \A i \in DOMAIN sessions : EntriesOf[i].play = sessions[i].play
    BY <1>1, AllEntered
  <2>7. /\ L!RowsOf(EntriesOf, b.who) = RowsOf(sessions, b.who)
        /\ L!Partners(EntriesOf, b.who, L!RowsWith(EntriesOf, L!RowsOf(EntriesOf, b.who),
                          L!MinRounds(EntriesOf, L!RowsOf(EntriesOf, b.who)))) = BestOf(sessions, b.who)
        /\ L!RowsWith(EntriesOf, DOMAIN EntriesOf, L!MinRounds(EntriesOf, DOMAIN EntriesOf)) = TopOf(sessions)
        /\ L!Ranking(EntriesOf, L!RowsOf(EntriesOf, b.who)) = Ranking(sessions, RowsOf(sessions, b.who))
    BY <2>6, SameAnswers
  <2>8. L!Board(b.who, b.mine) = Seen(r)'
    BY <2>3, <2>5, <2>6, <2>7 DEF L!Board
  <2>9. L!Shows(r, L!Board(b.who, b.mine))
    BY <1>2, <2>8, ReaderView DEF L!Shows
  <2>10. L!ShowBoard(r)
    BY <2>3, <2>7, <2>9 DEF L!ShowBoard
  <2> QED
    BY <2>10 DEF L!LedgerNext
<1> QED
  BY <1>3, <1>4, <1>5

\* A game flow is a view of the ledger at its second statement.
LEMMA StepOfFlow ==
    ASSUME StoreInv, FiledInv, NEW r \in Readers, FlowPair(r) \/ FlowRounds(r)
    PROVE  L!LedgerNext \/ UNCHANGED <<EntriesOf, BrokenOf, ViewOf>>
<1> USE DEF StoreInv
<1> DEFINE f == flow[r]
<1>1. Reader(r)
  BY DEF Reader
<1>2. f \in Flows /\ FlowGood(rPc[r], f) /\ rPc[r] \in {"flowPair", "flowRounds"}
  BY DEF FlowPair, FlowRounds, TablesInv, ReaderInv, ReadInv
<1>3. Seen(r) = <<>> /\ ViewOf[r] = <<>>
  BY <1>1, <1>2, ReaderView DEF Seen
<1>4. CASE rPc'[r] = "flowRounds"
  <2>1. Seen(r)' = <<>>
    BY <1>4 DEF Seen
  <2> QED
    BY <1>1, <1>3, <2>1, ReaderView
<1>5. CASE rPc'[r] = "flowShown" /\ flow' = [flow EXCEPT ![r].failed = TRUE]
  <2>1. flow'[r].failed
    BY <1>2, <1>5 DEF TablesInv, TypeOK, Flows
  <2>2. Seen(r)' = <<"failed">>
    BY <1>5, <2>1 DEF Seen
  <2>3. L!ShowFailure(r)
    BY <1>1, <1>3, <2>2, ReaderView DEF L!ShowFailure, L!Shows
  <2> QED
    BY <2>3 DEF L!LedgerNext
<1>6. CASE FlowRounds(r) /\ flow' = [flow EXCEPT ![r].rounds = WordsOf(f.id)]
  <2>1. rPc'[r] = "flowShown" /\ f.pair = PairOf(sessions, f.id) /\ ~f.failed
        /\ words' = words
    BY <1>2, <1>6 DEF FlowRounds, FlowGood, TablesInv, TypeOK, tables
  <2>2. flow'[r].pair = f.pair /\ flow'[r].rounds = WordsOf(f.id) /\ ~flow'[r].failed
    BY <1>2, <1>6, <2>1 DEF TablesInv, TypeOK, Flows
  <2>3. Seen(r)' = [pair |-> PairOf(sessions, f.id), rounds |-> RoundsIn(WordsOf(f.id))]
    BY <2>1, <2>2 DEF Seen, RoundsIn
  <2>4. f.id \in 1..(Len(EntriesOf) + 1)
    BY <1>2, AllEntered DEF FiledInv
  <2>5. L!PairOf(EntriesOf, f.id) = PairOf(sessions, f.id)
    BY <1>2, AllEntered, SameAnswers
  <2>6. (IF f.id \in DOMAIN EntriesOf THEN EntriesOf[f.id].rounds ELSE {}) = RoundsIn(WordsOf(f.id))
    <3>1. CASE f.id \in DOMAIN sessions
      BY <1>2, <3>1, AllEntered
    <3>2. CASE f.id \notin DOMAIN sessions
      <4>1. RoundsIn(WordsOf(f.id)) = {}
        BY <3>2 DEF FiledInv, IdsRight, WordsOf, RoundsIn
      <4> QED
        BY <1>2, <3>2, <4>1, AllEntered
    <3> QED
      BY <3>1, <3>2
  <2>7. L!ShowFlow(r)
    BY <1>1, <1>3, <2>3, <2>4, <2>5, <2>6, ReaderView DEF L!ShowFlow, L!Shows
  <2> QED
    BY <2>7 DEF L!LedgerNext
<1>7. rPc'[r] = "flowRounds" \/ rPc'[r] = "flowShown"
  BY DEF FlowPair, FlowRounds, TablesInv, TypeOK
<1> QED
  BY <1>4, <1>5, <1>6, <1>7 DEF FlowPair, FlowRounds, TablesInv, TypeOK

\* A reader's step shows it something, takes it away, or is nothing to the ledger.
LEMMA StepOfReader ==
    ASSUME StoreInv, FiledInv, NEW r \in Readers, Reader(r)
    PROVE  L!LedgerNext \/ UNCHANGED <<EntriesOf, BrokenOf, ViewOf>>
<1> USE DEF StoreInv
<1>1. CASE AskBoard(r)
  <2>1. Seen(r) = <<>> /\ Seen(r)' = <<>>
    BY <1>1 DEF AskBoard, Seen, TablesInv, TypeOK
  <2> QED
    BY <2>1, ReaderView
<1>2. CASE AskFlow(r) \/ ToMenu(r)
  <2>1. Seen(r)' = <<>>
    BY <1>2 DEF AskFlow, ToMenu, Seen, TablesInv, TypeOK
  <2>2. L!Leave(r)
    BY <2>1, ReaderView DEF L!Leave
  <2> QED
    BY <2>2 DEF L!LedgerNext
<1>3. CASE BestMin(r) \/ BestRows(r) \/ Mine(r) \/ TopMin(r) \/ TopRows(r) \/ UserAv(r)
  <2>1. \E from, to \in Stages : \E result : Reads(r, from, to, result)
    BY <1>3 DEF BestMin, BestRows, Mine, TopMin, TopRows, UserAv, Stages
  <2> QED
    BY <2>1, StepOfBoard DEF Stages
<1>4. CASE Av(r)
  BY <1>4, StepOfBoard DEF Av, Stages
<1>5. CASE ReadFails(r)
  <2> DEFINE new == NewBoard(board[r].who, {})
             result == [new EXCEPT !.failed = TRUE]
  <2>1. result.failed
    BY DEF NewBoard
  <2>2. rPc[r] \in DOMAIN AfterFailure /\ Reads(r, rPc[r], AfterFailure[rPc[r]], result)
    BY <1>5 DEF ReadFails
  <2>3. rPc[r] \in Stages /\ AfterFailure[rPc[r]] \in Stages \cup {"shown"}
    BY <2>2 DEF AfterFailure, Stages
  <2> HIDE DEF result
  <2> QED
    BY <2>1, <2>2, <2>3, StepOfBoard
<1> QED
  BY <1>1, <1>2, <1>3, <1>4, <1>5, StepOfFlow DEF Reader

\* At the start nothing is entered, broken or shown.
LEMMA InitLedger == Init => L!LedgerInit /\ FiledInv
<1> SUFFICES ASSUME Init PROVE L!LedgerInit /\ FiledInv
  OBVIOUS
<1>1. FiledInv
  BY DEF Init, FiledInv, IdsRight
<1>2. EntriesOf = <<>> /\ BrokenOf = {}
  BY DEF Init, EntriesOf, BrokenOf
<1>3. ViewOf = L!Nothing
  BY DEF Init, ViewOf, L!Nothing
<1> QED
  BY <1>1, <1>2, <1>3 DEF L!LedgerInit

\* Where no registration comes between the row of a game and the look at its number, the
\* critical sections of gameDaoMutex make the store a ledger, for every number of games
\* and handlers: games are entered whole or are known to be broken, and every leaderboard
\* and game flow is a view of the ledger at one moment.
THEOREM StoreImplementsLedger == UndisturbedSpec => LedgerSpec
<1> DEFINE Inv == StoreInv /\ FiledInv
<1>1. Init => Inv
  BY StoreInductive, InitLedger
<1>2. Inv /\ [Next /\ Undisturbed]_vars => Inv'
  BY StoreInductive, StepFiled
<1>3. Inv /\ Inv' /\ [Next /\ Undisturbed]_vars => [L!LedgerNext]_(L!ledgerVars)
  <2> SUFFICES ASSUME Inv, Inv', [Next]_vars PROVE L!LedgerNext \/ UNCHANGED <<EntriesOf, BrokenOf, ViewOf>>
    BY DEF L!ledgerVars
  <2>1. ASSUME NEW g \in Games, Game(g)
        PROVE  L!LedgerNext \/ UNCHANGED <<EntriesOf, BrokenOf, ViewOf>>
    BY <2>1, StepOfGame
  <2>2. ASSUME NEW r \in Readers, Reader(r)
        PROVE  L!LedgerNext \/ UNCHANGED <<EntriesOf, BrokenOf, ViewOf>>
    BY <2>2, StepOfReader
  <2>3. CASE Crash \/ \E r \in Readers : BadId(r)
    BY <2>3, StepOfRestart DEF Crash, BadId
  <2>4. CASE AddUser
    <3>1. UNCHANGED <<sessions, words, gameVars, readerVars>>
      BY <2>4 DEF AddUser
    <3> QED
      BY <3>1 DEF gameVars, readerVars, EntriesOf, BrokenOf, ViewOf, Recording, RoundsIn, WordsOf
  <2>5. CASE UNCHANGED vars
    BY <2>5 DEF vars, tables, gameVars, readerVars, EntriesOf, BrokenOf, ViewOf, Recording,
                RoundsIn, WordsOf
  <2> QED
    BY <2>1, <2>2, <2>3, <2>4, <2>5 DEF Next
<1>4. Init => L!LedgerInit
  BY InitLedger
<1> HIDE DEF Inv
<1> QED
  BY <1>1, <1>2, <1>3, <1>4, PTL DEF UndisturbedSpec, LedgerSpec, L!LedgerSpec

\* A registration inside a recording is the only way a game recorded without a failure
\* can miss its rounds: where none intervenes, its row owns them all, also after a stop
\* of the program.
THEOREM UndisturbedStoresWhole == UndisturbedSpec => []StoredWhole
<1> DEFINE Inv == StoreInv /\ FiledInv
<1>1. Init => Inv
  BY StoreInductive, InitLedger
<1>2. Inv /\ [Next /\ Undisturbed]_vars => Inv'
  BY StoreInductive, StepFiled
<1>3. Inv => StoredWhole
  <2> SUFFICES ASSUME Inv, NEW g \in Games, gPc[g] \in {"recorded", "over"}, g \notin failed
               PROVE  \E id \in DOMAIN sessions :
                        sessions[id].game = g /\ AreRounds(WordsOf(id), g, Rounds(sessions, id))
    BY DEF StoredWhole
  <2>1. PICK id \in DOMAIN sessions : sessions[id].game = g /\ done[g] = play[g].rounds
    BY DEF StoreInv, TablesInv, GameInv, HasRow
  <2>2. Rounds(sessions, id) = done[g] /\ WordsOf(id) = RowsOfGame(g)
    BY <2>1, OwnWords DEF Rounds, StoreInv, TablesInv, RowInv, FiledInv
  <2>3. AreRounds(RowsOfGame(g), g, done[g])
    BY DEF StoreInv, TablesInv, WordInv
  <2> QED
    BY <2>1, <2>2, <2>3
<1> HIDE DEF Inv
<1> QED
  BY <1>1, <1>2, <1>3, PTL DEF UndisturbedSpec
=============================================================================
