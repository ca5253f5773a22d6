----------------------------- MODULE GameStore -----------------------------
(***************************************************************************)
(* Recording finished games and reading them back: the end of a game       *)
(* thread and the leaderboard of a handler (src/src/Server.cpp), the       *)
(* MenuService and the GameDAO, over the sessions and words tables.  Each  *)
(* critical section of gameDaoMutex is several statements of the database, *)
(* each of them atomic; addUser writes through the same connection under   *)
(* another mutex: its statement may fall between any two of them.          *)
(*                                                                         *)
(* A statement may fail, and the program may stop at any step and be       *)
(* started again: the tables persist and every thread is gone.             *)
(***************************************************************************)
EXTENDS Standings, Integers

CONSTANTS
    Games,       \* game threads, in all runs of the program
    Readers,     \* handlers whose client looks at the leaderboard
    Players,     \* user names
    NoOne,       \* nobody holds the mutex
    MaxRounds,   \* bound: rounds of a game
    MaxUsers,    \* bound: registrations
    MaxCrashes   \* bound: how often the program stops for a reason of its own

ASSUME BoundsAssumption ==
    MaxRounds \in Nat \ {0} /\ MaxUsers \in Nat /\ MaxCrashes \in Nat
ASSUME ThreadsAssumption == NoOne \notin Games \cup Readers /\ Games \cap Readers = {}

VARIABLES
    sessions,      \* the sessions table; the row number is game_id
    words,         \* the words table, in the order of its rows
    numUsers,      \* rows of the users table
    lastRowid,     \* sqlite3_last_insert_rowid of the shared connection
    gameDaoMutex,  \* who holds it
    gPc,           \* where each game thread is
    play,          \* its players and the number of its rounds; <<>> before its end
    gameId,        \* its gameId in addSession; 0 while it has none
    done,          \* the rounds its loop over the words has inserted
    failed,        \* games of which addSession returned -1
    rPc,           \* where each handler is
    board,         \* the leaderboard it is collecting or has shown
    flow,          \* the game flow it is collecting or has shown
    crashes        \* counts stops of the program up to MaxCrashes

tables == <<sessions, words, numUsers, lastRowid>>
gameVars == <<gPc, play, gameId, done, failed>>
readerVars == <<rPc, board, flow>>
vars == <<tables, gameDaoMutex, gameVars, readerVars, crashes>>

GamePcs == {"playing", "session", "rowid", "words", "recorded", "over", "dead"}
ReaderPcs == {"menu", "bestMin", "bestRows", "mine", "topMin", "topRows", "userAv", "av",
              "shown", "flowPair", "flowRounds", "flowShown"}
Plays == [p1 : Players, p2 : Players, rounds : 1..MaxRounds]

\* A leaderboard before anything is read, asked for by p; due are the games of p that
\* had been recorded and had released their players by then (history).  Rankings and
\* averages are kept as the rows they are made of: a row never changes.
NewBoard(p, due) ==
    [who |-> p, due |-> due, min |-> 0, best |-> {}, mine |-> {}, topMin |-> 0, top |-> {},
     userAv |-> {}, av |-> {}, failed |-> FALSE]

NewFlow(id) == [id |-> id, pair |-> <<>>, rounds |-> {}, failed |-> FALSE]

Idle == [r \in Readers |-> <<>>]

Init ==
    /\ sessions = <<>> /\ words = <<>> /\ numUsers = 0 /\ lastRowid = 0
    /\ gameDaoMutex = NoOne
    /\ gPc = [g \in Games |-> "playing"]
    /\ play = [g \in Games |-> <<>>]
    /\ gameId = [g \in Games |-> 0] /\ done = [g \in Games |-> 0]
    /\ failed = {}
    /\ rPc = [r \in Readers |-> "menu"] /\ board = Idle /\ flow = Idle
    /\ crashes = 0
-----------------------------------------------------------------------------
(* A game thread from the last round on.                                   *)

GameAt(g, to) == gPc' = [gPc EXCEPT ![g] = to]

\* The words match: take the mutex.  One name may be logged in twice and be matched
\* with itself.
Match(g) ==
    /\ gPc[g] = "playing" /\ gameDaoMutex = NoOne
    /\ \E p \in Plays : play' = [play EXCEPT ![g] = p]
    /\ gameDaoMutex' = g
    /\ GameAt(g, "session")
    /\ UNCHANGED <<tables, gameId, done, failed, readerVars, crashes>>

\* Mutant of AddSessionFails: the early return keeps the mutex.
AddSessionFailsLocked(g) ==
    /\ gPc[g] \in {"session", "words"}
    /\ failed' = failed \cup {g}
    /\ GameAt(g, "recorded")
    /\ UNCHANGED <<tables, gameDaoMutex, play, gameId, done, readerVars, crashes>>

\* A statement of addSession fails: it returns -1, which its caller drops.
AddSessionFails(g) ==
    /\ gPc[g] \in {"session", "words"}
    /\ failed' = failed \cup {g}
    /\ gameDaoMutex' = NoOne
    /\ GameAt(g, "recorded")
    /\ UNCHANGED <<tables, play, gameId, done, readerVars, crashes>>

\* The row of the game.  The table refuses player_1 = player_2.
InsertSession(g) ==
    /\ gPc[g] = "session" /\ play[g].p1 # play[g].p2
    /\ sessions' = Append(sessions, [game |-> g, play |-> play[g]])
    /\ lastRowid' = Len(sessions) + 1
    /\ GameAt(g, "rowid")
    /\ UNCHANGED <<words, numUsers, gameDaoMutex, play, gameId, done, failed, readerVars, crashes>>

\* sqlite3_last_insert_rowid: whatever the connection inserted last.
TakeRowid(g) ==
    /\ gPc[g] = "rowid"
    /\ gameId' = [gameId EXCEPT ![g] = lastRowid]
    /\ GameAt(g, "words")
    /\ UNCHANGED <<tables, gameDaoMutex, play, done, failed, readerVars, crashes>>

\* Mutant of AddWord: the number of the game is looked at again for every word.
AddWordLast(g, k) ==
    /\ words' = Append(words, [game_id |-> lastRowid, game |-> g, round |-> k])
    /\ lastRowid' = Len(words) + 1
    /\ done' = [done EXCEPT ![g] = @ + 1]

\* A words row of g.
AddWord(g, k) ==
    /\ words' = Append(words, [game_id |-> gameId[g], game |-> g, round |-> k])
    /\ lastRowid' = Len(words) + 1
    /\ done' = [done EXCEPT ![g] = @ + 1]

\* The loop over the rounds ends, and with it addSession.
AfterWord(g, last) ==
    IF last THEN gameDaoMutex' = NoOne /\ GameAt(g, "recorded") ELSE UNCHANGED <<gameDaoMutex, gPc>>

\* Mutant of InsertWords: one round too many.
InsertWordsTooMany(g) ==
    /\ gPc[g] = "words"
    /\ AddWord(g, done[g] + 1)
    /\ AfterWord(g, done[g] = play[g].rounds)
    /\ UNCHANGED <<sessions, numUsers, play, gameId, failed, readerVars, crashes>>

\* Mutant of InsertWords: the last round first.
InsertWordsReversed(g) ==
    /\ gPc[g] = "words"
    /\ AddWord(g, play[g].rounds - done[g])
    /\ AfterWord(g, done[g] + 1 = play[g].rounds)
    /\ UNCHANGED <<sessions, numUsers, play, gameId, failed, readerVars, crashes>>

\* The next round's row; the last one releases the mutex.
InsertWords(g) ==
    /\ gPc[g] = "words"
    /\ AddWord(g, done[g] + 1)
    /\ AfterWord(g, done[g] + 1 = play[g].rounds)
    /\ UNCHANGED <<sessions, numUsers, play, gameId, failed, readerVars, crashes>>

\* playingSet.erase: the players go back to the main menu.
Release(g) ==
    /\ gPc[g] = "recorded"
    /\ GameAt(g, "over")
    /\ UNCHANGED <<tables, gameDaoMutex, play, gameId, done, failed, readerVars, crashes>>

Game(g) ==
    \/ Match(g) \/ AddSessionFails(g) \/ InsertSession(g) \/ TakeRowid(g)
    \/ InsertWords(g) \/ Release(g)
-----------------------------------------------------------------------------
(* The leaderboard.  Each step is one statement of GameDAO.                *)

\* The games of p that are recorded and have released their players.
Finished(p) ==
    {g \in Games : gPc[g] = "over" /\ g \notin failed /\ p \in {play[g].p1, play[g].p2}}

\* Mutant of AskBoard: fetchLeaderboard without the mutex.
AskBoardUnlocked(r) ==
    /\ rPc[r] = "menu"
    /\ \E p \in Players : board' = [board EXCEPT ![r] = NewBoard(p, Finished(p))]
    /\ rPc' = [rPc EXCEPT ![r] = "bestMin"]
    /\ UNCHANGED <<tables, gameDaoMutex, gameVars, flow, crashes>>

\* fetchLeaderboard takes the mutex.
AskBoard(r) ==
    /\ rPc[r] = "menu" /\ gameDaoMutex = NoOne
    /\ gameDaoMutex' = r
    /\ \E p \in Players : board' = [board EXCEPT ![r] = NewBoard(p, Finished(p))]
    /\ rPc' = [rPc EXCEPT ![r] = "bestMin"]
    /\ UNCHANGED <<tables, gameVars, flow, crashes>>

\* One statement: r goes from one step to another with the board that results.  The
\* rest of a board of which a statement has failed is read, but not kept here.
Reads(r, from, to, result) ==
    /\ rPc[r] = from
    /\ board' = [board EXCEPT ![r] = IF @.failed THEN @ ELSE result]
    /\ rPc' = [rPc EXCEPT ![r] = to]
    /\ gameDaoMutex' = IF to = "shown" THEN NoOne ELSE gameDaoMutex
    /\ UNCHANGED <<tables, gameVars, flow, crashes>>

\* getUserBestPlay: the minimum (none means nobody played), then the rows that have it.
BestMin(r) ==
    LET b == board[r]
        m == MinRounds(sessions, RowsOf(sessions, b.who))
    IN  Reads(r, "bestMin", IF m = 0 THEN "mine" ELSE "bestRows", [b EXCEPT !.min = m])

BestRows(r) ==
    LET b == board[r]
        rows == RowsWith(sessions, RowsOf(sessions, b.who), b.min)
    IN  Reads(r, "bestRows", "mine", [b EXCEPT !.best = Partners(sessions, b.who, rows)])

\* getUserSessions.
Mine(r) ==
    LET b == board[r]
    IN  /\ rPc[r] = "mine"
        /\ \E J \in Ranking(sessions, RowsOf(sessions, b.who)) :
            Reads(r, "mine", "topMin", [b EXCEPT !.mine = J])

\* getTopSession: the minimum, then the rows that have it.
TopMin(r) ==
    Reads(r, "topMin", "topRows", [board[r] EXCEPT !.topMin = MinRounds(sessions, DOMAIN sessions)])

TopRows(r) ==
    LET b == board[r]
    IN  Reads(r, "topRows", "userAv", [b EXCEPT !.top = RowsWith(sessions, DOMAIN sessions, b.topMin)])

\* getUserAverage and getAverage.
UserAv(r) ==
    LET b == board[r]
    IN  Reads(r, "userAv", "av", [b EXCEPT !.userAv = RowsOf(sessions, b.who)])

Av(r) == Reads(r, "av", "shown", [board[r] EXCEPT !.av = DOMAIN sessions])

\* A statement that cannot be prepared: its part of the board stays empty, and the
\* statements that depend on it are skipped.
AfterFailure == [bestMin |-> "mine", bestRows |-> "mine", mine |-> "topMin", topMin |-> "userAv",
                 topRows |-> "userAv", userAv |-> "av", av |-> "shown"]

ReadFails(r) ==
    /\ rPc[r] \in DOMAIN AfterFailure
    /\ Reads(r, rPc[r], AfterFailure[rPc[r]], [NewBoard(board[r].who, {}) EXCEPT !.failed = TRUE])

\* Mutant of AskFlow: fetchGameSession without the mutex.
AskFlowUnlocked(r) ==
    /\ rPc[r] = "shown"
    /\ \E id \in 1..(Len(sessions) + 1) : flow' = [flow EXCEPT ![r] = NewFlow(id)]
    /\ board' = [board EXCEPT ![r] = <<>>]
    /\ rPc' = [rPc EXCEPT ![r] = "flowPair"]
    /\ UNCHANGED <<tables, gameDaoMutex, gameVars, crashes>>

\* "yes" and the number of a game: fetchGameSession takes the mutex.
AskFlow(r) ==
    /\ rPc[r] = "shown" /\ gameDaoMutex = NoOne
    /\ gameDaoMutex' = r
    /\ \E id \in 1..(Len(sessions) + 1) : flow' = [flow EXCEPT ![r] = NewFlow(id)]
    /\ board' = [board EXCEPT ![r] = <<>>]
    /\ rPc' = [rPc EXCEPT ![r] = "flowPair"]
    /\ UNCHANGED <<tables, gameVars, crashes>>

\* getGameRounds: the players of the game.
FlowPair(r) ==
    /\ rPc[r] = "flowPair"
    /\ \/ /\ flow' = [flow EXCEPT ![r].pair = PairOf(sessions, flow[r].id)]
          /\ rPc' = [rPc EXCEPT ![r] = "flowRounds"]
          /\ UNCHANGED gameDaoMutex
       \/ /\ flow' = [flow EXCEPT ![r].failed = TRUE]
          /\ rPc' = [rPc EXCEPT ![r] = "flowShown"]
          /\ gameDaoMutex' = NoOne
    /\ UNCHANGED <<tables, gameVars, board, crashes>>

\* The words rows of a game: their order is that of their numbers.
WordsOf(id) == {i \in DOMAIN words : words[i].game_id = id}

\* getGameRounds: the rounds of the game.
FlowRounds(r) ==
    /\ rPc[r] = "flowRounds"
    /\ \/ flow' = [flow EXCEPT ![r].rounds = WordsOf(flow[r].id)]
       \/ flow' = [flow EXCEPT ![r].failed = TRUE]
    /\ rPc' = [rPc EXCEPT ![r] = "flowShown"]
    /\ gameDaoMutex' = NoOne
    /\ UNCHANGED <<tables, gameVars, board, crashes>>

\* Back to the main menu, with the game flow or without.
ToMenu(r) ==
    /\ rPc[r] \in {"shown", "flowShown"}
    /\ rPc' = [rPc EXCEPT ![r] = "menu"]
    /\ board' = [board EXCEPT ![r] = <<>>] /\ flow' = [flow EXCEPT ![r] = <<>>]
    /\ UNCHANGED <<tables, gameDaoMutex, gameVars, crashes>>

Reader(r) ==
    \/ AskBoard(r) \/ BestMin(r) \/ BestRows(r) \/ Mine(r) \/ TopMin(r) \/ TopRows(r)
    \/ UserAv(r) \/ Av(r) \/ ReadFails(r) \/ AskFlow(r) \/ FlowPair(r) \/ FlowRounds(r)
    \/ ToMenu(r)
-----------------------------------------------------------------------------
(* The rest of the program.                                                *)

\* addUser, under userDaoMutex.
AddUser ==
    /\ numUsers < MaxUsers
    /\ numUsers' = numUsers + 1
    /\ lastRowid' = numUsers + 1
    /\ UNCHANGED <<sessions, words, gameDaoMutex, gameVars, readerVars, crashes>>

\* The program stops and is started again.  A game that was recording is lost half-way;
\* one that was still playing might as well never have come to its end.
Restart ==
    /\ gPc' = [g \in Games |-> CASE gPc[g] \in {"session", "rowid", "words"} -> "dead"
                                [] gPc[g] = "recorded" -> "over"
                                [] OTHER -> gPc[g]]
    /\ gameDaoMutex' = NoOne /\ lastRowid' = 0
    /\ rPc' = [r \in Readers |-> "menu"] /\ board' = Idle /\ flow' = Idle
    /\ UNCHANGED <<sessions, words, numUsers, play, gameId, done, failed>>

Crash == crashes < MaxCrashes /\ crashes' = crashes + 1 /\ Restart

\* "yes", and then a lost connection or a text that is no number: std::stoi throws in
\* the handler's thread, and nobody catches it.
BadId(r) == rPc[r] = "shown" /\ Restart /\ UNCHANGED crashes

Next ==
    \/ \E g \in Games : Game(g)
    \/ \E r \in Readers : Reader(r) \/ BadId(r)
    \/ AddUser
    \/ Crash

Spec == Init /\ [][Next]_vars
=============================================================================
