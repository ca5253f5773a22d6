------------------------------ MODULE WordGame ------------------------------
(***************************************************************************)
(* What a game promises its two players, without sockets, buffers, prompts *)
(* and threads.  In every round each of the two says one thing, or is      *)
(* lost; when both have, the two are judged against each other, once, and  *)
(* the next round starts from nothing said.  A careful client is held to   *)
(* what it typed when it was asked: its word is not changed, repeated,     *)
(* kept for a later round or taken back, unless it hangs up.               *)
(***************************************************************************)
EXTENDS Lobby

CONSTANT Careful  \* clients that answer each prompt with one line

VARIABLES
    said,  \* what each client has said in this round: at most one input
    up     \* is the client still connected?

gameVars == <<lobbyVars, said, up>>

Silent == [c \in Clients |-> {}]

GameInit == LobbyInit /\ said = Silent /\ up = [c \in Clients |-> FALSE]

\* Outside the games.
Connect(c) ==
    /\ room[c] = "out"
    /\ up' = [up EXCEPT ![c] = TRUE]
    /\ UNCHANGED <<lobbyVars, said>>

Move(c) ==
    /\ Enter(c) \/ Expire(c) \/ Return(c)
    /\ UNCHANGED <<said, up>>

\* Nothing said in an earlier game counts in this one.
Seat(a, b) == Pair(a, b) /\ said[a] = {} /\ said[b] = {} /\ UNCHANGED <<said, up>>

\* A player says something; only one that has hung up is lost, and a careful one that
\* has says nothing more.
Say(c) ==
    /\ \E t \in tables : c \in {t[1], t[2]}
    /\ said[c] = {}
    /\ \E v \in said'[c] :
        /\ said' = [said EXCEPT ![c] = {v}]
        /\ IF v.ok THEN c \in Careful => up[c] ELSE ~up[c]
    /\ UNCHANGED <<lobbyVars, up>>

\* What has not been read yet may be lost with the connection.
HangUp(c) ==
    /\ up' = [up EXCEPT ![c] = FALSE]
    /\ said' \in {said, [said EXCEPT ![c] = {}]}
    /\ UNCHANGED lobbyVars

Judged(a, b) == said' = [said EXCEPT ![a] = {}, ![b] = {}] /\ UNCHANGED up

\* Two different words: one more round.
Continue(a, b) ==
    /\ <<a, b>> \in tables
    /\ \E v \in said[a], w \in said[b] : v.ok /\ w.ok /\ v.text # w.text
    /\ Judged(a, b)
    /\ UNCHANGED lobbyVars

\* The words match, or a player is lost.
Finish(a, b) ==
    /\ Close(a, b)
    /\ \E v \in said[a], w \in said[b] : v.ok /\ w.ok => v.text = w.text
    /\ Judged(a, b)

\* The program stops and is started again.
Stop ==
    /\ room' = [c \in Clients |-> "out"] /\ tables' = {}
    /\ said' = Silent /\ up' = [c \in Clients |-> FALSE]

GameNext ==
    \/ \E c \in Clients : Connect(c) \/ Move(c) \/ Say(c) \/ HangUp(c)
    \/ \E a, b \in Clients : Seat(a, b) \/ Continue(a, b) \/ Finish(a, b)
    \/ Stop

WordGameSpec == GameInit /\ [][GameNext]_gameVars
=============================================================================
