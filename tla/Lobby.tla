------------------------------- MODULE Lobby -------------------------------
(***************************************************************************)
(* What matchmaking promises the clients of the server, without threads,  *)
(* locks or timers.  A client that asks to play is queued; from the queue *)
(* it is either seated at a table with exactly one other queued client or *)
(* turned away; its request returns to the main menu only once it has     *)
(* left the queue and its table has been closed.                          *)
(***************************************************************************)
CONSTANT Clients

VARIABLES
    room,    \* where the play request of each client stands
    tables   \* the pairs of clients now playing, a set of <<player1, player2>>

lobbyVars == <<room, tables>>

Rooms == {"out", "queued", "playing", "leaving"}

LobbyInit ==
    /\ room = [c \in Clients |-> "out"]
    /\ tables = {}

\* c asks to play and takes its place in the queue.
Enter(c) ==
    /\ room[c] = "out"
    /\ room' = [room EXCEPT ![c] = "queued"]
    /\ UNCHANGED tables

\* Two different queued clients are seated at one table.
Pair(a, b) ==
    /\ a # b
    /\ room[a] = "queued" /\ room[b] = "queued"
    /\ room' = [room EXCEPT ![a] = "playing", ![b] = "playing"]
    /\ tables' = tables \cup {<<a, b>>}

\* No partner in time: c leaves the queue.
Expire(c) ==
    /\ room[c] = "queued"
    /\ room' = [room EXCEPT ![c] = "leaving"]
    /\ UNCHANGED tables

\* The game of a and b is over for both at the same moment.
Close(a, b) ==
    /\ <<a, b>> \in tables
    /\ room' = [room EXCEPT ![a] = "leaving", ![b] = "leaving"]
    /\ tables' = tables \ {<<a, b>>}

\* The play request of c returns to the main menu.
Return(c) ==
    /\ room[c] = "leaving"
    /\ room' = [room EXCEPT ![c] = "out"]
    /\ UNCHANGED tables

LobbyNext ==
    \/ \E c \in Clients : Enter(c) \/ Expire(c) \/ Return(c)
    \/ \E a, b \in Clients : Pair(a, b) \/ Close(a, b)

LobbySpec == LobbyInit /\ [][LobbyNext]_lobbyVars
=============================================================================
