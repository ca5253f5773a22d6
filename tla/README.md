# WordExchange in TLA+

WordExchange is a server of a word game.  Clients connect over TCP, log in or
register, and from a main menu ask to play or to see the leaderboard.  Players
are paired from a queue; a pair types words until both type the same one; the
finished game is stored in SQLite.  These modules describe the server's
threads, what they share and what they store; TLC checks them on small
instances and TLAPS proves the main results for all.

## 1. The system

| Part | Source (under `src/src/`) | State | Operations |
|---|---|---|---|
| Matchmaker, one thread | `Server.cpp` 67-107 | `matchmakingQueue` (`matchmakingMutex`, `matchmakingCV`), its local `waitingPlayer`, `player1`, `player2` | wait for a player, tell it to wait, wait for a second with a timeout, pop and seat a pair, start its thread |
| Connection handler, one thread per client | `Server.cpp` 109-202 | the name logged in; where it waits | log in or register, main menu, `playLoop`, leaderboard, exit |
| Game session, one thread per game | `Server.cpp` 235-295 | the rounds so far | two blocking `recv` per round, next round, store and end, end because a player is lost |
| Play state | `Server.cpp`, `Server.h` | `playingSet` (`playingMutex`, `playingCV`) | inserted by the matchmaker, erased by the game, waited for by handlers |
| Login and registration | `Services/UserService.cpp`, `Services/Patterns.h` | `loggedInUsers` (`loggedInUserMutex`) | `loginUser`, `registerUser`, each a tree of prompts with recursive retries |
| Users table | `DAOs/UserDAO.cpp`, `Services/PasswordHasher.cpp` | rows (name, hash, salt), guarded by `userDaoMutex` | `userExists`, `addUser`, `getSaltByUsername`, `isValidUser` |
| Games tables | `DAOs/GameDAO.cpp`, `Services/MenuService.cpp` | `sessions`, `words`, guarded by `gameDaoMutex` | `addSession`; the leaderboard's queries; `getGameRounds` |
| Connection to SQLite | `DAOs/DatabaseConnection.cpp` | one connection for all threads, with its last row number | - |
| Vendored | `hash256/`, `sqlite/` | - | - |

How they interact.  A handler puts its client in the queue and waits on
`playingCV`; the matchmaker takes pairs from the queue, puts them in
`playingSet`, wakes the handlers and starts a game thread that talks to both
sockets while their handlers wait; the game thread erases both from
`playingSet` and wakes the handlers again.  Nothing but these sets and wake-ups
tells a handler that somebody else is reading from its socket.  All threads use
one SQLite connection, under two different mutexes for users and for games.

What is hard.  Two condition variables and two mutexes with gaps between them;
timers of 1 s, 30 s and 35 s in different threads that must stay in order; a
copy of the queue's front used after a wait; clients that vanish or fall silent
at any prompt; look-then-act on the logged-in names and on the users table; a
row number that belongs to the connection; operations of several statements
without a transaction; restarts with a new salt; one stream of bytes for all the
prompts of a client, read by its handler and by its game in turn.  `PROJECT.json` lists each of
these as a hazard, at its line, with the properties that cover it.

What makes each part correct.

* Matchmaker and play state: a client is in one place at a time, nothing names a
  client that has left `playLoop`, `playingSet` means what the games make it
  mean, no wake-up is lost, whoever queues is served.
* Game session: one reader per socket; when a player is lost the other returns; a
  line is read by whoever asked for it, in the round it was asked for; the two words
  of a round are judged once.
* Login: only who registered gets in, registrations keep, no account stays locked,
  at most one client per account (which the code keeps but for one interleaving):
  the accounts are a registry.
* Games tables: a stored game owns its rounds, what is shown is whole and of one
  moment, and includes what has been played: the tables are a ledger.

## 2. Modules

| Module | Models | Properties and proofs |
|---|---|---|
| `Matchmaking` | matchmaker, `playLoop` and main menu of every handler, game threads, connections, time | `MatchmakingProps`; `MatchmakingProofs` with `QueueLemmas` |
| `Lobby` | abstract: what matchmaking promises, with no threads, locks or timers | implemented by `Matchmaking`: `LobbySpec` in `MatchmakingProps`, proved in `MatchmakingRefinement` |
| `GameSession` | what handlers and games read from the sockets: the menu and leaderboard prompts, the rounds of a game, over `Lobby` | `GameSessionProps`; `GameSessionProofs` |
| `WordGame` | abstract: what a game promises its two players, with no sockets, buffers or prompts | implemented by `GameSession`: `WordGameSpec` in `GameSessionProps`, proved in `GameSessionProofs` |
| `Accounts` | the login and registration prompts, the users table, `loggedInUsers`, restarts | `AccountsProps`; `AccountsProofs` |
| `Registry` | abstract: what the accounts promise, with no prompts, hashes, salts or retries | implemented by `Accounts`: `RegistrySpec` in `AccountsProps`, proved in `AccountsProofs` |
| `GameStore` | `addSession`, the leaderboard and the game flow statement by statement; registrations as far as they move the connection's row number; restarts | `GameStoreProps`; `GameStoreProofs` with `NumberLemmas` |
| `Standings` | what each query yields of a sessions table, as operators on it | used by `GameStore` and `Ledger` |
| `Ledger` | abstract: what the store promises, with no statements, mutex or row numbers of other tables | implemented by `GameStore`: `LedgerSpec` in `GameStoreProps`, proved in `GameStoreRefinement` |
| `MCMatchmaking`, `MCAccounts`, `MCGameStore` | symmetry and bounds for TLC | - |

### Matchmaking

A client is a SOCKET value with the name logged in on it.  A handler is
`closed`, at the `menu`, about to `join` the queue, joined but not yet looking
at `playingSet` (`arm`), in the timed wait (`wait1`) or in the second one
(`wait2`).  The matchmaker is at the `top` of its loop, `idle` in the first
wait, in the `sleep` that keeps the mutex, in the `timed` wait, or has popped a
pair and is about to `seat` it or to `start` its thread.  A game is before its
first or second recv, has both results to `judge`, or has ended and is about to
`tell` the handlers.

Condition variables are modelled with their waiting and their notified threads:
a blocked thread runs again if it was notified (`notified`, `mmNotified`) or its
time is over, looks at its predicate, and blocks again if it is false.  A handler
may also look without having been notified, which is a spurious wake-up.
Between two steps that hold a mutex anything may happen; `matchmakingMutex` is
only ever kept over a step during `sleep`.

Time is counted in ticks.  Only the order of the timeouts matters to the
properties: `PlayTimeout > Pause + MatchTimeout` (35 > 1 + 30).  Handlers and
game threads may take any time for anything.  The matchmaker is assumed to take
its steps within the tick in which it can (`MatchmakerReady` holds back `Tick`):
the 4 s by which `playLoop` is the more patient cannot make up for a matchmaker
that is itself held up for longer, and the code has no other protection.  This
is the one assumption about speed.

`up` says whether a recv on the socket still delivers: a client that has hung up
while text of its is unread counts as up until that is read.  The prompts a
handler reads at the main menu and in the leaderboard branch are in
`GameSession`, logging in is in `Accounts`, the leaderboard in `GameStore`.

### GameSession

A socket is one sequence of pieces of text and newlines (`stream`), and a recv
takes as much of it as has arrived (`Arrived`): part of a line, several lines, or
what was typed before anybody asked.  Of what it took only the first line counts
(`Text`), as `substr(0, find('\n'))` has it; the rest is dropped with the buffer.
When a connection is lost, what had arrived may still be read; then recv delivers
nothing, and the buffer, which was zeroed, is an empty text.

Clients in `Careful` answer each prompt with one line that arrives whole.  All
others type anything at any time, so that a careful client may be paired with one
that types ahead, sends halves of lines or falls silent.  Each piece of a stream
carries the prompt its sender answered (`to`), and `asked` is the prompt a
client has in front of it: both are history, read by no guard of the program.
`Reading` is the prompt the next recv on a socket stands for.  Rounds are told
apart by whether their number is even: a game is never more than one round away
from what its clients have seen.

Pairing, being turned away and returning are the steps of `Lobby`, which
`Matchmaking` implements; handlers wait for them as in `playLoop`.  The moment
between the end of a game and the handler's return is a state of its own
("leaving"), in which nobody reads the socket.

A text that is no number at the game-id prompt stops the program (`Stop`, from
`GameId`), and everything starts anew.

### WordGame

`WordGame` extends `Lobby` with what has been said at each table.  A player says one
thing a round, or is lost; when both have, the two are judged, the game goes on to
a round of which nothing has been said yet, or ends; a seat is taken with nothing said.
Only a player that has hung up is lost, and a careful one that has hung up says
nothing more.  The mapping (`Said` in `GameSessionProps`): a client at a table has said what the
game has read of it in this round (`got`) or, if it is careful, what lies unread on its
stream.  So a careful client says its word when it types it, and the mapping
leaves no room for the code to change that word, use it twice, keep it for a later round
or give it to another game; a client that types ahead, in pieces or not at all says
what its recv yields.

### Accounts

A handler is at one of the prompts, and each of its steps is an answer or one
critical section.  What a client may answer is a member of `Names` or
`Passwords`, with the empty text among them, because `prompting` ignores what
`recv` returns: a lost connection answers with the empty text.  `up` is, as in `Matchmaking`,
whether recv still delivers.  A statement may
fail wherever the code has a path for it.  A salt is the number of the run of the
program that drew it, so that salts of different runs differ.  `registered` and
`raced` are history variables, read by no guard: who was told that its registration was
successful; and the names that got to the main menu (`AtMenu`) while another handler was
past its look at `loggedInUsers` and not yet there (`Entering`), until the last
handler of that name has left.  `SingleLogin` fails in that race.  `NameLockHolds` says
that it fails in no other way: every other name has at most one handler at the main
menu, and `loggedInUsers` knows it.

### Registry

In `Registry` a name is registered once and for good, with its password; a client is
inside under a registered pair, from its entry until it leaves or the program stops.
The mapping: registered is what `isValidUser` accepts, computed from the hashes and
salts of the table, and not the history `registered`; a client is inside when its handler
is at the main menu, under its local name and password.  So a registration happens
when `addUser` inserts its row, an entry when the name is put into `loggedInUsers`, and
a restart, which draws a new salt, is no more than everybody's leaving.

### GameStore

A critical section of `gameDaoMutex` is one step per SQLite statement; SQLite
runs in serialized mode (`CMakeLists.txt`), so that each statement is atomic.
A game is known here from the moment its words match.  A row of `words` carries,
besides the number it is filed under, the game and round it really comes from.
Registrations are the one action `AddUser`: its insertion moves the connection's
`lastRowid`.  The ranking's order among equals is left open, as SQL leaves it; a
failed statement marks the board as failed, and nothing of such a board is kept:
no property is about it, but the rest of its statements and the unlock still run.
A stop of the program, by itself (`Crash`) or through an uncaught exception
(`BadId`), ends all threads; the tables stay.  The `sessions` table refuses a row
of a player with itself (`CHECK (player_1 != player_2)` in the schema that
`src/database` holds), which two logins under one name can produce; numbers of users and
games are AUTOINCREMENT, and no row is ever deleted.

### Standings and Ledger

`Standings` gives each query as an operator on a table: the rows of a player, their
least number of rounds, the rows that have it, the ranking, the pair of a
game.  `GameStore` applies them to `sessions`, one statement at a time; `Ledger`
applies them to its entries, all at once.

In `Ledger` a game is entered in one step, with all of its rounds; or it is known
to be broken, and is entered with a leading part of them or not at all.  A
leaderboard or a game flow is computed from the entries of one moment.  Nobody but
a restart takes a view away while it is looked at, and entries never change.

The mapping (`EntriesOf`, `BrokenOf`, `ViewOf` in `GameStoreProps`): the entries are the rows of
`sessions` except that of the game being recorded, each with the words filed under
it; broken games are those of which `addSession` failed or in which the program
stopped; a view exists once its reader has released the mutex.  So a game is
entered when its last word is, and a board is read at its last statement.  Where a
registration comes between the row of a game and the look at its number, its
words are filed elsewhere and `Ledger` is not implemented (run `misfiled`).
`UndisturbedSpec` is the specification without that one interleaving; everything
else, failures and stops included, is in it.

## 3. What TLC checks

| Run | Instance | Shows |
|---|---|---|
| `matchmaking` | 3 clients, timeouts 1, 1, 3 | `TypeOK`, the inductive invariant `IInv`, `ExclusiveSocket`, `NoStaleEntry`, `OnePlace`, `PlayingSetExact`, `TimeoutHitsFront`, `NoLostWakeup` |
| `lobby` | 2 clients, fairness | `LobbySpec`: refinement of `Lobby`; `EntryServed`, `JoinAnswered`, `PartnerReleased` |
| `game_session` | 2 clients, one careful; 4 pieces of text of which 1 is a number; at most 2 unread pieces typed ahead; fairness | `TypeOK`, `InStep`, `HungUpLeaves`, `AskedAgain`; `WordGameSpec`: refinement of `WordGame` |
| `accounts` | 2 clients, one name and one password besides the empty ones, 2 runs of the program, fairness | `TypeOK`, `PasswordsHold`, `Authentic`, `NoGhostLogin`, `NameLockHolds`, `LoginEnds`; `RegistrySpec`: refinement of `Registry` |
| `game_store` | 2 games of up to 2 rounds, 1 reader, 2 players, 2 registrations, 1 crash, rankings cut at 1 | `TypeOK`, `WordsArePrefix`, `NothingLost`, `FlowWhole`, `BoardFresh`, `MutexExact` |
| `leaderboard` | the same with 3 players, one registration that does not disturb a recording, no crash but those of `BadId` | `BoardConsistent`, `StoredWhole`; `LedgerSpec`: refinement of `Ledger` |

Bounds.  Three clients are the fewest with which one waits while two play, is announced
while another gives up, or follows another on the same socket.  Timeouts of 1, 1 and 3
keep the order of 1, 30 and 35 with one tick to spare.  `FewGames` leaves out states in
which two ended game threads have both not yet called `notify_all`; the proofs have no
such bound, and with two clients (`lobby`) there is none either.  One ordinary name and
the empty one are enough for two clients to meet on a name and for a name to be taken.
Two runs of the program are enough for a row with an older salt.  Two games are enough
for a row between two statements of a reader and for a ranking cut at one; two
registrations are enough to upset a number so that it is that of another game, or of
none yet.  In `game_session` the other client has every kind of text at hand: each
choice of the menu, a number, and with these, words that match and words that do not.
`MaxUnread` = 2 unread pieces are enough for a line ahead of its prompt, for a half line
followed by its end, and for the end of one line with the beginning of the next in one
recv.  `CHECK_DEADLOCK FALSE` is said for `GameStore` only, where all games may be over
and nobody reads.

Fairness.  `ServerFairness` is weak fairness of every thread that can run and of
time: the operating system schedules all threads.  No mutex needs strong fairness
in it: joining the queue, which competes with the matchmaker for its mutex, is
left without any.  `ClientFairness` is asked for where it is said: players in a
game type or leave.  Without it `PartnerReleased` fails, which is the run
`silent_partner`.  In `Accounts` handlers run where they do not wait for a client
that is still there.  In `GameSession` handlers and games run wherever there is
something to read; `TurnAway` and `BackToMenu` have weak fairness because requests to play
end (`JoinAnswered` in `lobby`); and a client in a game answers its prompt or
hangs up (`Answers`), for the reason `silent_partner` shows.

### Disagreements with the code's own claims

Each of these runs ends in a counterexample.

| Run | Claim | What happens |
|---|---|---|
| `silent_partner` | README: smooth gameplay even if players fail to respond in time | the two `recv` of a round have no timeout: a silent player keeps its partner, and the loss of the first player is noticed only when the second types |
| `double_login` | "User is already logged in" | two handlers pass the look at `loggedInUsers` before either inserts the name |
| `discarded_login` | README: follow the prompts to log in, then join a game | `loginUser` drops the result of `registerUser`: "Login successful!", then disconnected |
| `register_loop` | `Server.cpp:201`: close the socket after disconnect | a connection lost while registering answers every prompt with the empty name, without end and deeper in the stack each time, until that is exhausted and the server stops |
| `misfiled` | README: keeps track of rounds and results | a registration between a game's insertion and the look at its number files the words under the number of a user |
| `stray_id` | README: smooth gameplay even if players disconnect | an answer that is no number, or a lost connection, at the game-id prompt throws from `std::stoi` and stops the server |

The properties of the passing runs are stated so that they hold in spite of these:
`FlowWhole` speaks of states in which no registration
has upset a number (`IdsRight`), `LedgerSpec` and, where it is kept, `StoredWhole` of behaviours
without such a registration; `NothingLost` says what
is left of `StoredWhole` with one: all rounds are there, in order and under one number,
its own or a user's; `WordsArePrefix` says the same of the leading part that a failure
or a stop leaves of a game, so that no word goes to another game's number unless a user
has that number, too.
`NameLockHolds` excepts the names in the race of `double_login`; `InStep` of clients
that answer prompts one by one, `LoginEnds` of connections lost at a login prompt, and
games may be between two handlers of one name.

### Mutants

A definition whose name extends that of an action and whose comment begins with
"Mutant of" is a plausible mistake in it: a forgotten `notify_all`, a missing
second pop, a wait without its predicate, a timer that is too long, an early return that keeps the mutex, an
empty text of a lost connection taken for a word.
`PROJECT.json` pairs each property with a mutant that breaks it.  They are part
of no specification.

## 4. What TLAPS proves

For every set of clients and all timeouts with `PlayTimeout > Pause +
MatchTimeout` (`TimeoutsAssumption`):

* `MatchmakingProofs`: `Spec => []IInv`, and from it `TypeOK`, `NoStaleEntry`,
  `OnePlace`, `ExclusiveSocket`, `TimeoutHitsFront`, `PlayingSetExact` and
  `NoLostWakeup`.
* `MatchmakingRefinement`: `Spec => LobbySpec`.

The properties are not inductive.  That no entry outlives its handler's wait
depends on time, so `IInv` carries the argument of the timers (`TimeInv`): the
waiting player has more time left than the matchmaker's sleep and wait together,
and everybody else in the queue has not seen a tick since it joined, because with
two in the queue the matchmaker is ready and holds back time.  `PairInv` hands
this over while a pair is in no shared variable, `GamesInv` ties `playingSet` to
the running games, `QueueInv` keeps the queue free of duplicates, `MatchmakerInv`
ties the matchmaker's place to its locals and to its notification, `WakeInv` is
the part of `NoLostWakeup` about handlers.  There is one lemma per action, with
one step per part of `IInv`.  `QueueLemmas` says what joining and popping do to the
entries of the queue.  The refinement maps each client to "queued", "playing",
"leaving" or "out"; each action is one step of `Lobby` or none, by `IInv`.

For every set of clients, names and passwords (`EmptyAssumption`: the empty text is
among both) and any number of runs, `AccountsProofs` shows `TypeOK`, `PasswordsHold`,
`Authentic`, `NoGhostLogin` and `NameLockHolds`.  Its `IInv` adds two parts.
`RowsRegistered`: every row was written by one registration.  `NoneEntering`: while a
name outside the race has a handler at the main menu, no other is between its look and
its entry.  It is what makes `NameLockHolds` inductive: the next to look finds the name
in `loggedInUsers`, and so whoever enters beside another has looked before that one
entered, which is the race.

`AccountsProofs` also shows `Spec => RegistrySpec`.  A pair is accepted after a step iff it was
before (`SameAccepted`) but for `RegPassword`, whose new row is the one name's first
(`RegistrationRegisters`); the entry of `Welcome` is under a pair the table accepts, by
`Authentic` and `PasswordsHold` (`WelcomeEnters`).

For any clients and pieces of text (`PiecesAssumption`: the choices of the menu are
among them), `GameSessionProofs` shows `TypeOK` and `InStep`.  `InStep` looks only at
the recv that comes next; the invariant (`IInv`) says what a careful client's stream is
wherever its handler is.  `StepInv`: where somebody waits for the client, it has been
asked exactly that and has sent nothing, or its whole line is there (`Ready`); where
nobody does, in the queue, after its word of the round, or on the way back to the menu,
nothing of it is unread (`Quiet`).  `SeatInv` ties this to the lobby: no client sits at
two tables, so that one game at most awaits it.  The hard step is the end of a game
because the partner is lost: it is judged only after both have been read, so that no
word stays behind for the menu.  What a recv yields is a leading part of what it took
(`LeadingPart` in `NumberLemmas`).

`GameSessionProofs` also shows `Spec => WordGameSpec`.  For this the lines of `InStep`
and `Ready` are pinned down: what is unread of a careful client is one whole line typed
for the very prompt that is read next, or nothing, so that a recv takes all of it
(`RecvWhole`) and what a careful client has said is the same before and after; for the
others, and for a lost connection, the recv is the step in which they say something
(`RecvSays`).  A client that types or hangs up changes what it says itself and nothing
else (`OwnStream`), and a step of a handler is one outside the games or the loss of a
connection (`HandlerGame`).

For any numbers of games, readers, players, rounds and crashes and any cut of the ranking,
`GameStoreProofs` shows `TypeOK`, `MutexExact`, `WordsArePrefix`, `NothingLost`, `FlowWhole`,
`BoardConsistent` and `BoardFresh` (`ThreadsAssumption`: game threads and handlers
are different threads; `BoundsAssumption`, `LimitAssumption`).  Its inductive
invariant `StoreInv` has two halves.  `TablesInv` is about the tables: who holds the mutex
(`LockInv`), what a game has inserted where it is (`GameInv`), that a game has one row,
with its own play (`RowInv`), and that its words are rounds 1 to `done`, all under its
`gameId` (`WordInv`), wherever that points.  `ReadInv` is about readers: what one has
read so far is what the table holds, because nothing but a registration writes while it
holds the mutex (`BoardGood`, `FlowGood`).  When it lets go, the parts agree with one
another (`Agree`), and later rows change none of the rows they are made of.  That
`MIN` yields the number of a row, and the least one, rests on
`LeastNumber`, which `NumberLemmas` derives from the well-foundedness of strict
inclusion on finite sets.

`WordsArePrefix` and `NothingLost` need one more part (`NumberInv`): a game with words
has a row, and between that row and the look at its number, the last row number of the
connection is that of the row or of a user, so that the number the words go under is its
own or a user's (`MayFile`), and stays so whatever is inserted later.

`GameStoreRefinement` shows `UndisturbedSpec => LedgerSpec` and `UndisturbedSpec =>
[]StoredWhole`.  It adds `FiledInv`: every word is under the number of its game, because
the number of a game being recorded is that of the last row.  `EntriesAre` gives the
mapped entries in closed form; `SameAnswers` says that the queries yield the same of
them as of the table when nobody records, which a reader's mutex sees to.  Then each
statement is a stutter but the last of a recording (`Record`), a failure (`Fail`), the
last of a reader (`ShowBoard`, `ShowFlow`, `ShowFailure`), its return to the menu
(`Leave`) and a stop (`Restart`).

Checked by TLC only: everything under fairness, which the prover cannot reason
about (`EntryServed`, `JoinAnswered`, `PartnerReleased`, `LoginEnds`, `HungUpLeaves`,
`AskedAgain`), and what the runs that end in a counterexample show.  Every invariant and
refinement of the passing runs is also a theorem, and every component has an abstract
specification it is proved to implement: `Lobby`, `Registry`, `Ledger`, `WordGame`.
What the model takes from outside is not proved: that SQLite's statements do what
`GameStore` says, that hashes do not collide, and that the matchmaker keeps up with time.
No module with proofs contains a recursive operator.

## 5. Not modelled

* `hash256/` and `sqlite/`: vendored libraries, 269,000 of the repository's 270,500
  lines.  SQLite appears as what the statements of the DAOs do, in its serialized
  mode; the hash is the pair of its inputs, so that different inputs never
  collide.  Of the program's own 1,500 lines all that change state are modelled
  but those below.
* `removeUser` and `getUserByUsername` of `UserDAO`, which nothing calls; the setters
  of `User` and `Session` that nothing calls; the dates of both, which are only shown.
* The lazily made `DatabaseConnection`: every use takes its mutex, and it is never
  replaced.
* The set-up of the socket and the destructor of `Server`: straight-line calls of the
  operating system, made before the first and after the last thread.
* The wording of messages and the layout of tables; `createBoard` and `createSession`
  are modelled by what they show.
* A recv that fills all 2048 bytes of a buffer leaves no terminator, and what is
  read behind it is undefined: lines are taken to be shorter than that.
* `send` is taken not to block.  The matchmaker sends while it holds
  `matchmakingMutex`, so a client that never reads could in principle hold it up.

## 6. Plan

Done: the core (`Matchmaking`, `Lobby`), `Accounts` and `Registry`, `GameStore` and
`Ledger`, `GameSession` and `WordGame`, with the proofs of section 4.

Left:

1. Action properties of what a step may never do, with proofs: that rows and
   words once stored are never changed or taken away, and that a view is left alone
   while it is looked at, follow from `LedgerSpec` and could be stated of `GameStore`
   itself; that a salt is never reused, of `Accounts`.
2. `Server`: `Accounts`, `Matchmaking` and `GameStore` composed, to follow what a
   double login and the stop of the server do across them (names erased while
   still in use, a name paired with itself and its game refused by the table,
   handlers left in `playLoop`).
3. Larger instances for TLC: two readers of the tables, two careful clients in
   `GameSession`; the theorems already cover them.
