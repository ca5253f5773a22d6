-------------------------- MODULE GameStoreProps ---------------------------
(* The properties of GameStore.                                            *)
EXTENDS GameStore

Word == [game_id : Nat, game : Games, round : 1..MaxRounds]
RowIds == SUBSET DOMAIN sessions

Boards ==
    [who : Players, due : SUBSET Games, min : 0..MaxRounds,
     best : SUBSET (Players \X (1..MaxRounds)), mine : RowIds,
     topMin : 0..MaxRounds, top : RowIds, userAv : RowIds, av : RowIds, failed : BOOLEAN]

Flows ==
    [id : Nat, pair : (Players \X Players) \cup {<<>>}, rounds : SUBSET DOMAIN words, failed : BOOLEAN]

\* Every variable has its type.
TypeOK ==
    /\ sessions \in Seq([game : Games, play : Plays])
    /\ words \in Seq(Word)
    /\ numUsers \in 0..MaxUsers
    /\ lastRowid \in Nat
    /\ gameDaoMutex \in Games \cup Readers \cup {NoOne}
    /\ gPc \in [Games -> GamePcs]
    /\ play \in [Games -> Plays \cup {<<>>}]
    /\ gameId \in [Games -> Nat]
    /\ done \in [Games -> 0..MaxRounds]
    /\ failed \subseteq Games
    /\ rPc \in [Readers -> ReaderPcs]
    /\ board \in [Readers -> Boards \cup {<<>>}]
    /\ flow \in [Readers -> Flows \cup {<<>>}]
    /\ crashes \in 0..MaxCrashes

\* Rows W of words are rounds 1 to n of game g, in this order.
AreRounds(W, g, n) ==
    /\ \A i \in W : words[i].game = g
    /\ {words[i].round : i \in W} = 1..n
    /\ \A i, j \in W : i < j => words[i].round < words[j].round

\* Every round is filed under its own game: no registration came between the row of a
\* game and the look at its number.
IdsRight ==
    \A i \in DOMAIN words :
        LET id == words[i].game_id IN
        id \in DOMAIN sessions /\ sessions[id].game = words[i].game

\* The rows of words that were written for game g, whatever number they are under.
RowsOfGame(g) == {i \in DOMAIN words : words[i].game = g}

\* The first n rounds of game g are stored, in order, and nothing else of it; all are
\* under one number: id or, where a registration upset the gameId, a user's.
Filed(g, id, n) ==
    /\ AreRounds(RowsOfGame(g), g, n)
    /\ \E m \in {id} \cup 1..numUsers : \A i \in RowsOfGame(g) : words[i].game_id = m

\* Wherever statements fail, the program stops or others register: what is stored of the
\* words of a game is a leading part of its rounds, its row is there, and no word is
\* under the number of another game, also of one that was lost half-way, unless that
\* number is a user's, too.
WordsArePrefix ==
    \A g \in Games : RowsOfGame(g) # {} =>
        \E id \in DOMAIN sessions :
            sessions[id].game = g /\ \E n \in 1..Rounds(sessions, id) : Filed(g, id, n)

\* A game whose recording went through has its row and all its rounds, in order and
\* under one number, whatever registrations did meanwhile.  Misfiled rounds are in the
\* wrong place, but none is lost, doubled or torn apart.
NothingLost ==
    \A g \in Games :
        gPc[g] \in {"recorded", "over"} /\ g \notin failed =>
            \E id \in DOMAIN sessions :
                sessions[id].game = g /\ Filed(g, id, Rounds(sessions, id))

\* A game flow is never that of a game still being recorded: unless addSession failed
\* or the program stopped in it, every round is shown.  (Likewise.)
FlowWhole ==
    \A r \in Readers :
        rPc[r] = "flowShown" /\ ~flow[r].failed /\ flow[r].pair # <<>> /\ IdsRight =>
            LET id == flow[r].id
                g == sessions[id].game
            IN  AreRounds(flow[r].rounds, g, Rounds(sessions, id)) \/ g \in failed \/ gPc[g] = "dead"

\* The five queries behind one leaderboard tell of one moment: the best rounds of the
\* player are those of its ranking, the globally best rounds are no worse, and no
\* average is taken over a row better than the best.
BoardConsistent ==
    \A r \in Readers :
        LET b == board[r]
            took(i) == Rounds(sessions, i)
        IN
        rPc[r] = "shown" /\ ~b.failed =>
            /\ \A x \in b.best :
                /\ \E i \in b.mine : took(i) = x[2]
                /\ \A i \in b.mine \cup b.userAv : took(i) >= x[2]
                /\ \E t \in b.top : took(t) <= x[2]
            /\ \A t \in b.top : \A i \in b.av : took(t) <= took(i)
            /\ (b.best = {}) = (b.mine = {}) /\ (b.top = {}) = (b.av = {})
            /\ b.mine \subseteq b.userAv /\ b.userAv \subseteq b.av /\ b.top \subseteq b.av

\* A player that is back at the main menu and asks for the leaderboard finds the games
\* it was told were won, also after a restart of the program.
BoardFresh ==
    \A r \in Readers :
        rPc[r] = "shown" /\ ~board[r].failed =>
            \A g \in board[r].due : \E i \in board[r].userAv : sessions[i].game = g

\* gameDaoMutex is held by whoever is between its first and its last statement, and by
\* nobody else: every early return of addSession and of the readers lets it go.
MutexExact ==
    /\ \A g \in Games : gameDaoMutex = g <=> gPc[g] \in {"session", "rowid", "words"}
    /\ \A r \in Readers : gameDaoMutex = r <=> rPc[r] \notin {"menu", "shown", "flowShown"}
-----------------------------------------------------------------------------
(* The store as a ledger.                                                  *)

\* No registration comes between the row of a game and the look at its number.
Undisturbed == (\E g \in Games : gPc[g] = "rowid") => numUsers' = numUsers

UndisturbedSpec == Init /\ [][Next /\ Undisturbed]_vars

\* The game whose row is in the table and whose recording has not ended, if any.
Recording == {g \in Games : gPc[g] \in {"rowid", "words"}}

\* The rounds in rows W of words.
RoundsIn(W) == {<<words[i].game, words[i].round>> : i \in W}

\* The last row is not entered before its recording has ended.
EntriesOf ==
    [i \in {j \in DOMAIN sessions : sessions[j].game \notin Recording} |->
        [game |-> sessions[i].game, play |-> sessions[i].play, rounds |-> RoundsIn(WordsOf(i))]]

BrokenOf == failed \cup {g \in Games : gPc[g] = "dead"}

ViewOf ==
    [r \in Readers |->
        IF rPc[r] = "shown" /\ ~board[r].failed
        THEN [best |-> board[r].best, ranking |-> board[r].mine, average |-> board[r].userAv,
              globalAverage |-> board[r].av, top |-> board[r].top]
        ELSE IF rPc[r] = "flowShown" /\ ~flow[r].failed
        THEN [pair |-> flow[r].pair, rounds |-> RoundsIn(flow[r].rounds)]
        ELSE IF rPc[r] \in {"shown", "flowShown"} THEN <<"failed">> ELSE <<>>]

L == INSTANCE Ledger WITH entries <- EntriesOf, broken <- BrokenOf, view <- ViewOf

\* Where no registration intervenes, the statements of a recording and of a reader act
\* as one: games are entered whole or are known to be broken, and a leaderboard or a
\* game flow is a view of the ledger at one moment.
LedgerSpec == L!LedgerSpec
-----------------------------------------------------------------------------
(* What the program claims and does not keep.                              *)

\* "Keep track of ongoing sessions, rounds, and gameplay results": a game whose
\* recording went through has a row, and this row owns its rounds.  (It is kept where
\* no registration intervenes.)
StoredWhole ==
    \A g \in Games :
        gPc[g] \in {"recorded", "over"} /\ g \notin failed =>
            \E id \in DOMAIN sessions :
                sessions[id].game = g /\ AreRounds(WordsOf(id), g, Rounds(sessions, id))

\* "Ensures smooth gameplay even if players disconnect": the recording of a game is not
\* ended by what another client answers, or fails to answer, at a prompt.
InputEndsNobody ==
    [][(\E g \in Games : gPc[g] # "dead" /\ gPc'[g] = "dead") => crashes' # crashes]_vars
=============================================================================
