---------------------------- MODULE GameSession ----------------------------
(***************************************************************************)
(* What the threads read from the sockets: the main menu of a handler and  *)
(* the rounds of a game (handleClient and startGameSession in              *)
(* src/src/Server.cpp).  A socket is one stream of bytes for all prompts,  *)
(* and a recv takes what has arrived: half a line, two lines at once, or a *)
(* word typed before anybody asked for it.  Whatever follows the first     *)
(* line of what it took is dropped.                                        *)
(*                                                                         *)
(* Who is paired with whom, and when a play request is over, is left to    *)
(* Lobby, which Matchmaking implements.                                    *)
(***************************************************************************)
EXTENDS Lobby, Naturals, Sequences

CONSTANTS
    Careful,   \* clients that answer each prompt with one line, which arrives whole
    Pieces,    \* pieces of text a line is made of
    Numbers,   \* pieces that begin with a number
    Newline,   \* the end of a line
    MaxUnread  \* bound: unread pieces of a stream, all of which fit into a buffer

ASSUME CarefulAssumption == Careful \subseteq Clients
ASSUME PiecesAssumption ==
    {"play", "leaderboard", "yes"} \subseteq Pieces /\ Numbers \subseteq Pieces /\ Newline \notin Pieces

VARIABLES
    pc,      \* where each handler is; a game reads in its place during "playLoop"
    game,    \* of each running game: its round and what it has received of it
    stream,  \* the unread input of each socket, with the prompt a careful client answers
    asked,   \* the prompt each client has been sent and has not answered
    up       \* is the peer still connected?

vars == <<lobbyVars, pc, game, stream, asked, up>>

Pcs == {"closed", "menu", "flow", "gameId", "playLoop"}

\* The prompts.  Rounds are told apart by whether their number is even.
Word(k) == <<"word", k>>
NoPrompt == <<"none", 0>>
Prompts == {NoPrompt, <<"menu", 0>>, <<"flow", 0>>, <<"gameId", 0>>, Word(0), Word(1)}

FirstRound == [round |-> 0, got |-> <<>>]

Init ==
    /\ LobbyInit
    /\ pc = [c \in Clients |-> "closed"]
    /\ game = [t \in Clients \X Clients |-> FirstRound]
    /\ stream = [c \in Clients |-> <<>>]
    /\ asked = [c \in Clients |-> NoPrompt]
    /\ up = [c \in Clients |-> FALSE]
-----------------------------------------------------------------------------
(* recv.                                                                   *)

\* The text of a buffer: what stands before its first newline.
Text(buffer) ==
    LET line == {i \in DOMAIN buffer : \A j \in 1..i : buffer[j].piece # Newline}
    IN  [i \in line |-> buffer[i].piece]

\* The lengths of what a recv may take; 0 is the loss of the connection, which is
\* noticed when everything that had arrived has been read.
Arrived(c) ==
    IF stream[c] = <<>>
    THEN {n \in {0} : ~up[c]}
    ELSE {n \in 1..Len(stream[c]) : c \in Careful => stream[c][n].piece = Newline}

\* The result of a recv that takes n pieces.
Input(c, n) ==
    LET buffer == SubSeq(stream[c], 1, n) IN [ok |-> n # 0, text |-> Text(buffer)]

Takes(c, n) == stream' = [stream EXCEPT ![c] = SubSeq(@, n + 1, Len(@))]

\* c's input is still to be read in the round that the game of table t is in.
Awaits(t, c) ==
    \/ t[1] = c /\ game[t].got = <<>>
    \/ t[2] = c /\ Len(game[t].got) < 2

\* The prompt that the next recv on the socket of c stands for.
Reading(c) ==
    CASE pc[c] \in {"menu", "flow", "gameId"} -> <<pc[c], 0>>
      [] pc[c] = "playLoop" /\ \E t \in tables : Awaits(t, c) ->
            Word(game[CHOOSE t \in tables : Awaits(t, c)].round)
      [] OTHER -> NoPrompt
-----------------------------------------------------------------------------
(* The handler of a connection.                                            *)

Goto(c, to) == pc' = [pc EXCEPT ![c] = to]

\* Send c the prompt of the place it goes to.
Prompt(c, to) == Goto(c, to) /\ asked' = [asked EXCEPT ![c] = <<to, 0>>]

\* A lost connection, or any text but these two, ends it.
Leave(c) ==
    /\ Goto(c, "closed")
    /\ stream' = [stream EXCEPT ![c] = <<>>]
    /\ asked' = [asked EXCEPT ![c] = NoPrompt]
    /\ up' = [up EXCEPT ![c] = FALSE]
    /\ UNCHANGED <<lobbyVars, game>>

Menu(c) ==
    /\ pc[c] = "menu"
    /\ \E n \in Arrived(c) :
        LET text == Input(c, n).text IN
        \/ /\ text = <<"play">> /\ Enter(c) /\ Goto(c, "playLoop")
           /\ Takes(c, n) /\ UNCHANGED <<game, asked, up>>
        \/ /\ text = <<"leaderboard">> /\ Prompt(c, "flow")
           /\ Takes(c, n) /\ UNCHANGED <<lobbyVars, game, up>>
        \/ text \notin {<<"play">>, <<"leaderboard">>} /\ Leave(c)

\* "Would you like to see specific game flow?"  A lost connection is a no.
Flow(c) ==
    /\ pc[c] = "flow"
    /\ \E n \in Arrived(c) :
        /\ Takes(c, n)
        /\ Prompt(c, IF Input(c, n).text = <<"yes">> THEN "gameId" ELSE "menu")
    /\ UNCHANGED <<lobbyVars, game, up>>

\* std::stoi throws in the handler's thread: the program stops and is started again.
Stop ==
    /\ room' = [c \in Clients |-> "out"] /\ tables' = {}
    /\ pc' = [c \in Clients |-> "closed"]
    /\ game' = [t \in Clients \X Clients |-> FirstRound]
    /\ stream' = [c \in Clients |-> <<>>]
    /\ asked' = [c \in Clients |-> NoPrompt]
    /\ up' = [c \in Clients |-> FALSE]

\* "Please provide game id"
GameId(c) ==
    /\ pc[c] = "gameId"
    /\ \E n \in Arrived(c) :
        LET text == Input(c, n).text
            number == text # <<>> /\ text[1] \in Numbers
        IN  \/ number /\ Takes(c, n) /\ Prompt(c, "menu") /\ UNCHANGED <<lobbyVars, game, up>>
            \/ ~number /\ Stop

\* Mutant of BackToMenu: the menu is shown once, before the loop.
BackToMenuSilent(c) == Return(c) /\ Goto(c, "menu") /\ UNCHANGED <<game, stream, asked, up>>

\* playLoop returns.
BackToMenu(c) == Return(c) /\ Prompt(c, "menu") /\ UNCHANGED <<game, stream, up>>

\* No partner in time: the wait for one is over, playLoop will return.
TurnAway(c) == Expire(c) /\ UNCHANGED <<pc, game, stream, asked, up>>

Handler(c) == Menu(c) \/ Flow(c) \/ GameId(c) \/ BackToMenu(c)
-----------------------------------------------------------------------------
(* The game of a and b.                                                    *)

\* "Please type the word", to both.
AskWords(a, b, k) == asked' = [asked EXCEPT ![a] = Word(k), ![b] = Word(k)]

Seat(a, b) ==
    /\ Pair(a, b)
    /\ game' = [game EXCEPT ![<<a, b>>] = FirstRound]
    /\ AskWords(a, b, 0)
    /\ UNCHANGED <<pc, stream, up>>

\* A recv on the socket of c, one of the two.
Receive(a, b, c, n) ==
    /\ game' = [game EXCEPT ![<<a, b>>].got = Append(@, Input(c, n))]
    /\ Takes(c, n)
    /\ UNCHANGED <<lobbyVars, pc, asked, up>>

\* Mutant of Recv1: the loss of the first player ends the game at once.
Recv1Ends(a, b) ==
    /\ <<a, b>> \in tables /\ game[<<a, b>>].got = <<>>
    /\ \E n \in Arrived(a) :
        \/ n # 0 /\ Receive(a, b, a, n)
        \/ n = 0 /\ Close(a, b) /\ UNCHANGED <<pc, game, stream, asked, up>>

Recv1(a, b) ==
    /\ <<a, b>> \in tables /\ game[<<a, b>>].got = <<>>
    /\ \E n \in Arrived(a) : Receive(a, b, a, n)

\* Mutant of Recv2: the second player is read again.
Recv2Again(a, b) ==
    /\ <<a, b>> \in tables /\ game[<<a, b>>].got # <<>>
    /\ \E n \in Arrived(b) : Receive(a, b, b, n)

\* Whatever came from the first player.
Recv2(a, b) ==
    /\ <<a, b>> \in tables /\ Len(game[<<a, b>>].got) = 1
    /\ \E n \in Arrived(b) : Receive(a, b, b, n)

\* Both have been read.
Judged(a, b) == <<a, b>> \in tables /\ Len(game[<<a, b>>].got) = 2

Lost(a, b) == \E i \in 1..2 : ~game[<<a, b>>].got[i].ok
Match(a, b) == game[<<a, b>>].got[1].text = game[<<a, b>>].got[2].text

\* Mutant of NextRound: a lost player's empty word counts as a word.
NextRoundLost(a, b) ==
    /\ Judged(a, b) /\ ~Match(a, b)
    /\ LET k == 1 - game[<<a, b>>].round IN
        game' = [game EXCEPT ![<<a, b>>] = [round |-> k, got |-> <<>>]] /\ AskWords(a, b, k)
    /\ UNCHANGED <<lobbyVars, pc, stream, up>>

\* The words differ.
NextRound(a, b) ==
    /\ Judged(a, b) /\ ~Lost(a, b) /\ ~Match(a, b)
    /\ LET k == 1 - game[<<a, b>>].round IN
        game' = [game EXCEPT ![<<a, b>>] = [round |-> k, got |-> <<>>]] /\ AskWords(a, b, k)
    /\ UNCHANGED <<lobbyVars, pc, stream, up>>

\* A player is lost, or the words match.
EndGame(a, b) ==
    /\ Judged(a, b) /\ (Lost(a, b) \/ Match(a, b))
    /\ Close(a, b)
    /\ game' = [game EXCEPT ![<<a, b>>] = FirstRound]
    /\ UNCHANGED <<pc, stream, asked, up>>

Game(a, b) == Recv1(a, b) \/ Recv2(a, b) \/ NextRound(a, b) \/ EndGame(a, b)
-----------------------------------------------------------------------------
(* The clients and the network.                                            *)

\* A client that has logged in.
Connect(c) ==
    /\ pc[c] = "closed"
    /\ Prompt(c, "menu")
    /\ up' = [up EXCEPT ![c] = TRUE]
    /\ UNCHANGED <<lobbyVars, game, stream>>

\* What was sent before may still be read, or is lost with the connection.
Disconnect(c) ==
    /\ up[c]
    /\ up' = [up EXCEPT ![c] = FALSE]
    /\ stream' \in {stream, [stream EXCEPT ![c] = <<>>]}
    /\ UNCHANGED <<lobbyVars, pc, game, asked>>

Sends(c, pieces, to) ==
    /\ up[c]
    /\ stream' = [stream EXCEPT ![c] =
                    @ \o [i \in DOMAIN pieces |-> [piece |-> pieces[i], to |-> to]]]
    /\ asked' = [asked EXCEPT ![c] = NoPrompt]
    /\ UNCHANGED <<lobbyVars, pc, game, up>>

\* A careful client answers the prompt it sees with one line, and the one for a number
\* with a number.
Reply(c) ==
    /\ c \in Careful /\ asked[c] # NoPrompt
    /\ \E p \in IF asked[c] = <<"gameId", 0>> THEN Numbers ELSE Pieces : 
        Sends(c, <<p, Newline>>, asked[c])

\* Any other client types what it likes when it likes.
Type(c) ==
    /\ c \notin Careful /\ Len(stream[c]) < MaxUnread
    /\ \E p \in Pieces \cup {Newline} : Sends(c, <<p>>, NoPrompt)

Client(c) == Connect(c) \/ Disconnect(c) \/ Reply(c) \/ Type(c)

Next ==
    \/ \E c \in Clients : Handler(c) \/ TurnAway(c) \/ Client(c)
    \/ \E a, b \in Clients : Seat(a, b) \/ Game(a, b)

Spec == Init /\ [][Next]_vars
=============================================================================
