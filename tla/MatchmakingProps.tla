------------------------- MODULE MatchmakingProps --------------------------
(***************************************************************************)
(* The properties of Matchmaking, its refinement of Lobby, and the         *)
(* fairness the scheduling of the server's threads justifies.              *)
(***************************************************************************)
EXTENDS Matchmaking

\* Every variable has its type: whoever is popped, seated or told to wait is a client, and
\* the timed waits never run below zero.
TypeOK ==
    /\ matchmakingQueue \in Seq(Clients)
    /\ playingSet \subseteq Clients
    /\ games \subseteq Games
    /\ mmPc \in MmPcs
    /\ mmLeft \in Nat
    /\ mmNotified \in BOOLEAN
    /\ waitingPlayer \in Clients \cup {<<>>}
    /\ pair \in (Clients \X Clients) \cup {<<>>}
    /\ pc \in [Clients -> HandlerPcs]
    /\ left \in [Clients -> 0..PlayTimeout]
    /\ notified \subseteq Clients
    /\ up \in [Clients -> BOOLEAN]
-----------------------------------------------------------------------------
(* Where a client can be.                                                  *)

Queued(c) == c \in Range(matchmakingQueue)
Popped(c) == pair # <<>> /\ (c = pair[1] \/ c = pair[2])
Live(g) == g.pc # "tell"
Plays(g, c) == c = g.p1 \/ c = g.p2

\* A game thread is blocked in recv on the socket of c.
Reads(g, c) == (g.pc = "recv1" /\ g.p1 = c) \/ (g.pc = "recv2" /\ g.p2 = c)

\* Two threads never wait in recv on one socket: neither the main menu and a
\* game (playLoop returned too early), nor two games.
ExclusiveSocket ==
    \A c \in Clients : \A g \in games :
        Reads(g, c) =>
            /\ pc[c] # "menu"
            /\ \A h \in games : Reads(h, c) => h = g

\* While the handler of c is out of playLoop, or c is closed and its SOCKET value
\* may be reused, no queue entry, popped pair, playingSet entry or running game
\* names c: playLoop's 35 s outlast every entry it leaves in the queue.
NoStaleEntry ==
    \A c \in Clients :
        pc[c] \in {"closed", "menu", "join"} =>
            /\ ~Queued(c) /\ ~Popped(c) /\ c \notin playingSet
            /\ \A g \in games : Plays(g, c) => ~Live(g)

\* A client is in the queue once, in a popped pair once or in one running game,
\* and never its own partner.
OnePlace ==
    /\ IsInjective(matchmakingQueue)
    /\ pair # <<>> => pair[1] # pair[2]
    /\ \A c \in Clients : Popped(c) => ~Queued(c)
    /\ \A g \in games : Live(g) =>
            /\ g.p1 # g.p2
            /\ \A c \in Clients : Plays(g, c) =>
                /\ ~Queued(c) /\ ~Popped(c)
                /\ \A h \in games : Live(h) /\ Plays(h, c) => h = g

\* playingSet holds exactly the players of the running games and of the pair whose
\* thread is about to start.
PlayingSetExact ==
    \A c \in Clients :
        c \in playingSet <=> \/ mmPc = "start" /\ Popped(c)
                             \/ \E g \in games : Live(g) /\ Plays(g, c)

\* The copy of the queue's front taken before the matchmaker slept and waited is
\* still the front when it is used: the player told that nobody came is the one
\* removed from the queue.
TimeoutHitsFront ==
    mmPc \in {"sleep", "timed"} =>
        matchmakingQueue # <<>> /\ Head(matchmakingQueue) = waitingPlayer

\* No wake-up is lost.  A handler that sleeps although its predicate has become
\* true is about to be woken: by the matchmaker that seated it, or by a game
\* thread that has cleared playingSet.  A blocked matchmaker that could go on has
\* been notified.
NoLostWakeup ==
    /\ \A c \in Clients \ notified :
        /\ pc[c] = "wait1" /\ c \in playingSet => mmPc = "start"
        /\ pc[c] = "wait2" /\ c \notin playingSet => \E g \in games : ~Live(g)
    /\ mmPc = "idle" /\ matchmakingQueue # <<>> => mmNotified
    /\ mmPc = "timed" /\ Len(matchmakingQueue) >= 2 => mmNotified
-----------------------------------------------------------------------------
(* The inductive invariant behind these properties.                        *)

Joined(c) == pc[c] \in {"arm", "wait1"}

InPlayLoop(c) == pc[c] \in {"arm", "wait1", "wait2"}

MatchmakerInv ==
    /\ mmPc \in {"seat", "start"} <=> pair # <<>>
    /\ TimeoutHitsFront
    /\ mmPc = "sleep" => Len(matchmakingQueue) = 1
    /\ mmPc = "idle" /\ matchmakingQueue # <<>> => mmNotified
    /\ mmPc = "timed" /\ Len(matchmakingQueue) >= 2 => mmNotified

QueueInv ==
    /\ IsInjective(matchmakingQueue)
    /\ \A c \in Clients : Queued(c) => Joined(c) /\ ~Popped(c) /\ c \notin playingSet

PairInv ==
    /\ pair # <<>> => pair[1] # pair[2]
    /\ \A c \in Clients : Popped(c) =>
            /\ mmPc = "seat" => Joined(c) /\ c \notin playingSet /\ left[c] > 0
            /\ mmPc = "start" => \A g \in games : Live(g) => ~Plays(g, c)

GamesInv ==
    /\ PlayingSetExact
    /\ \A c \in playingSet : InPlayLoop(c)
    /\ \A g \in games : Live(g) => g.p1 # g.p2
    /\ \A g, h \in games : \A c \in Clients :
            Live(g) /\ Live(h) /\ Plays(g, c) /\ Plays(h, c) => g = h

\* The waiting player was given up to Pause + MatchTimeout ticks; whoever else is
\* queued has not seen time pass since it joined.
Ahead(c) == mmPc \in {"sleep", "timed"} /\ c = waitingPlayer

TimeInv ==
    /\ \A c \in Clients : pc[c] # "wait1" => left[c] = PlayTimeout
    /\ \A c \in Clients : Queued(c) /\ ~Ahead(c) => left[c] = PlayTimeout
    /\ mmPc = "sleep" => left[waitingPlayer] > mmLeft + MatchTimeout
    /\ mmPc = "timed" => left[waitingPlayer] > mmLeft

WakeInv ==
    \A c \in Clients \ notified :
        /\ pc[c] = "wait1" /\ c \in playingSet => mmPc = "start"
        /\ pc[c] = "wait2" /\ c \notin playingSet => \E g \in games : ~Live(g)

\* TypeOK and everything above hold initially and are kept by every step; the
\* properties of this module follow from them.
IInv == TypeOK /\ MatchmakerInv /\ QueueInv /\ PairInv /\ GamesInv /\ TimeInv /\ WakeInv
-----------------------------------------------------------------------------
(* Matchmaking implements Lobby.                                           *)

Seats == {<<g.p1, g.p2>> : g \in {h \in games : Live(h)}}
            \cup (IF pair = <<>> THEN {} ELSE {pair})

AtTable(c) == \E t \in Seats : c = t[1] \/ c = t[2]

RoomOf(c) ==
    IF Queued(c) THEN "queued"
    ELSE IF AtTable(c) THEN "playing"
    ELSE IF InPlayLoop(c) THEN "leaving" ELSE "out"

L == INSTANCE Lobby WITH room <- [c \in Clients |-> RoomOf(c)], tables <- Seats

\* playLoop keeps what its comment says: it returns when the client has been turned
\* away or its game has finished, never before, and a client is paired with one
\* other queued client at a time.
LobbySpec == L!LobbySpec
-----------------------------------------------------------------------------
(* Fairness.  The operating system runs every thread that can run, and time *)
(* passes.  Nothing makes a client type, exit, or disconnect.               *)

GameOf(a, b) == {g \in games : g.p1 = a /\ g.p2 = b}

\* The steps of a game thread that do not wait for a player to type.
GameRuns(a, b) ==
    \E g \in GameOf(a, b) :
        \/ ~up[a] /\ Recv1(g)
        \/ ~up[b] /\ Recv2(g)
        \/ NextRound(g) \/ EndGame(g)

ServerFairness ==
    /\ WF_vars(Matchmaker)
    /\ WF_vars(Tick)
    /\ \A c \in Clients :
        /\ WF_vars(Arm(c))
        /\ WF_vars((c \in notified \/ left[c] = 0) /\ Wake(c))
    /\ \A a, b \in Clients :
        /\ WF_vars(GameRuns(a, b))
        /\ WF_vars(\E g \in GameOf(a, b) : Tell(g))

\* Clients in a game that answer every prompt, or drop the connection.
ClientFairness ==
    \A a, b \in Clients : WF_vars(\E g \in GameOf(a, b) : Recv1(g) \/ Recv2(g))

ServerFairSpec == Spec /\ ServerFairness
FairSpec == Spec /\ ServerFairness /\ ClientFairness

\* Nobody is forgotten in the queue: an entry is paired or timed out.
EntryServed == \A c \in Clients : Queued(c) ~> ~Queued(c)

\* A handler that joined is answered: it sees its game start or gives up.
JoinAnswered == \A c \in Clients : pc[c] \in {"arm", "wait1"} ~> pc[c] \in {"wait2", "menu"}

\* When a player of a running game is gone, its partner's handler is back at the
\* main menu eventually ("If one of them disconnected, the other is returned to
\* the main menu").
PartnerReleased ==
    \A a, b \in Clients :
        (\E g \in games : Live(g) /\ Plays(g, a) /\ Plays(g, b) /\ a # b /\ ~up[a])
            ~> pc[b] = "menu"
-----------------------------------------------------------------------------
(* What the program claims and does not keep.                              *)

\* "Ensures smooth gameplay even if players disconnect or fail to respond in time": a
\* round that has the first player's word, or has lost it, does not wait for the second
\* player for ever.
RoundEnds ==
    \A a, b \in Clients :
        (\E g \in GameOf(a, b) : g.pc = "recv2") ~> ~(\E g \in GameOf(a, b) : g.pc = "recv2")
=============================================================================
