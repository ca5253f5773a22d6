------------------------------- MODULE Ledger -------------------------------
(***************************************************************************)
(* What the store of finished games promises, without statements, mutexes  *)
(* and row numbers of other tables.  A game is entered once, with its      *)
(* rounds from the first on, and with all of them unless it is known to be *)
(* broken; entries stay.  Whatever a reader is shown is one moment's view  *)
(* of the entries.                                                         *)
(***************************************************************************)
EXTENDS Standings

CONSTANTS Games, Readers, Players, MaxRounds

VARIABLES
    entries,  \* the games in the order they were entered
    broken,   \* games of which a statement failed or in which the program stopped
    view      \* what each reader is shown; <<>> if nothing

ledgerVars == <<entries, broken, view>>

Plays == [p1 : Players, p2 : Players, rounds : 1..MaxRounds]
Nothing == [r \in Readers |-> <<>>]

LedgerInit == entries = <<>> /\ broken = {} /\ view = Nothing

\* Game g is entered with its rounds from the first to the n-th.
Enter(g, play, n) ==
    /\ play.p1 # play.p2
    /\ \A i \in DOMAIN entries : entries[i].game # g
    /\ entries' = Append(entries, [game |-> g, play |-> play, rounds |-> {<<g, k>> : k \in 1..n}])

Record(g) ==
    /\ g \notin broken
    /\ \E play \in Plays : Enter(g, play, play.rounds)
    /\ UNCHANGED <<broken, view>>

\* The recording of g breaks off, before its entry or within its rounds.
BreakOff(g) ==
    /\ broken' = broken \cup {g}
    /\ entries' = entries \/ \E play \in Plays : \E n \in 0..play.rounds : Enter(g, play, n)

Fail(g) == BreakOff(g) /\ UNCHANGED view

Shows(r, what) ==
    /\ view[r] = <<>>
    /\ view' = [view EXCEPT ![r] = what]
    /\ UNCHANGED <<entries, broken>>

\* The leaderboard of p.
Board(p, ranking) ==
    LET mine == RowsOf(entries, p)
        all == DOMAIN entries
    IN  [best |-> Partners(entries, p, RowsWith(entries, mine, MinRounds(entries, mine))),
         ranking |-> ranking, average |-> mine, globalAverage |-> all,
         top |-> RowsWith(entries, all, MinRounds(entries, all))]

ShowBoard(r) ==
    \E p \in Players : \E J \in Ranking(entries, RowsOf(entries, p)) : Shows(r, Board(p, J))

\* The flow of game id: nothing if there is no such game.
ShowFlow(r) ==
    \E id \in 1..(Len(entries) + 1) :
        Shows(r, [pair |-> PairOf(entries, id),
                  rounds |-> IF id \in DOMAIN entries THEN entries[id].rounds ELSE {}])

\* A statement failed: what is shown is incomplete.
ShowFailure(r) == Shows(r, <<"failed">>)

Leave(r) ==
    /\ view' = [view EXCEPT ![r] = <<>>]
    /\ UNCHANGED <<entries, broken>>

\* The program stops and is started again, perhaps while a game is being recorded.
Restart ==
    /\ view' = Nothing
    /\ UNCHANGED <<entries, broken>> \/ \E g \in Games : BreakOff(g)

LedgerNext ==
    \/ \E g \in Games : Record(g) \/ Fail(g)
    \/ \E r \in Readers : ShowBoard(r) \/ ShowFlow(r) \/ ShowFailure(r) \/ Leave(r)
    \/ Restart

LedgerSpec == LedgerInit /\ [][LedgerNext]_ledgerVars
=============================================================================
