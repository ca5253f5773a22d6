----------------------------- MODULE Standings -----------------------------
(***************************************************************************)
(* What the queries of GameDAO (src/src/DAOs/GameDAO.cpp) yield of a       *)
(* sessions table T: a sequence whose row numbers are the game_ids and     *)
(* whose rows hold the play of a game, its players and its rounds.         *)
(***************************************************************************)
EXTENDS Naturals, Sequences, FiniteSets

CONSTANT Limit   \* rows in a player's ranking (10)

ASSUME LimitAssumption == Limit \in Nat \ {0}

\* Mutant of RowsOf: only as the first player.
RowsOfFirst(T, p) == {i \in DOMAIN T : T[i].play.p1 = p}

RowsOf(T, p) == {i \in DOMAIN T : T[i].play.p1 = p \/ T[i].play.p2 = p}
Rounds(T, i) == T[i].play.rounds

\* SELECT MIN(num_rounds): NULL, read as 0, if there is no row.
MinRounds(T, I) ==
    IF I = {} THEN 0 ELSE CHOOSE n \in {Rounds(T, i) : i \in I} : \A i \in I : n <= Rounds(T, i)

\* The rows of which num_rounds is m.
RowsWith(T, I, m) == {i \in I : Rounds(T, i) = m}

Partner(T, p, i) == IF T[i].play.p1 = p THEN T[i].play.p2 ELSE T[i].play.p1

\* The partners of p in the rows I, each with the rounds it took.
Partners(T, p, I) == {<<Partner(T, p, i), Rounds(T, i)>> : i \in I}

\* ORDER BY num_rounds LIMIT: as many rows as it allows, none of them worse than one
\* left out.
Ranking(T, I) ==
    {J \in SUBSET I :
        /\ Cardinality(J) = IF Cardinality(I) < Limit THEN Cardinality(I) ELSE Limit
        /\ \A i \in J, j \in I \ J : Rounds(T, i) <= Rounds(T, j)}

\* The players of game id, if it has a row.
PairOf(T, id) == IF id \in DOMAIN T THEN <<T[id].play.p1, T[id].play.p2>> ELSE <<>>
=============================================================================
