------------------------- MODULE GameSessionProps --------------------------
(* The properties of GameSession.                                          *)
EXTENDS GameSession

Inputs == [ok : BOOLEAN, text : Seq(Pieces)]

\* Every variable has its type.
TypeOK ==
    /\ room \in [Clients -> Rooms]
    /\ tables \subseteq Clients \X Clients
    /\ pc \in [Clients -> Pcs]
    /\ game \in [Clients \X Clients -> [round : 0..1, got : Seq(Inputs)]]
    /\ \A t \in Clients \X Clients : Len(game[t].got) \in 0..2
    /\ stream \in [Clients -> Seq([piece : Pieces \cup {Newline}, to : Prompts])]
    /\ asked \in [Clients -> Prompts]
    /\ up \in [Clients -> BOOLEAN]

\* One line that answers prompt r.
Line(p, r) == <<[piece |-> p, to |-> r], [piece |-> Newline, to |-> r]>>

\* A client that answers each prompt with one line is never out of step, whatever its
\* partner types, leaves out or does to its connection.  All it has sent and that is
\* still unread is one line typed for the prompt the next recv on its socket stands for:
\* no word of a game that was broken off is taken for a choice at the main menu, and no
\* word for one of a later round.  Nor has it a prompt in front of it for which nobody
\* waits any more.
InStep ==
    \A c \in Careful :
        /\ stream[c] = <<>> \/ \E p \in Pieces : stream[c] = Line(p, Reading(c))
        /\ up[c] => asked[c] \in {NoPrompt, Reading(c)}
-----------------------------------------------------------------------------
(* The game as two players see it.                                         *)

\* What a careful client has typed is said, even before it is read.
Unread(c) ==
    IF c \in Careful /\ stream[c] # <<>> THEN {[ok |-> TRUE, text |-> Text(stream[c])]} ELSE {}

\* What c has said in the round that the game of table t is in.
Heard(t, c) ==
    LET place == IF c = t[1] THEN 1 ELSE 2
    IN  IF Len(game[t].got) < place THEN Unread(c) ELSE {game[t].got[place]}

Said == [c \in Clients |-> UNION {Heard(t, c) : t \in {s \in tables : c \in {s[1], s[2]}}}]

Abstract == INSTANCE WordGame WITH said <- Said

\* The prompts, streams and buffers add up to a game of words: every round judges what
\* each of its two players said in it, once, and nothing else.
WordGameSpec == Abstract!WordGameSpec
-----------------------------------------------------------------------------
(* Liveness.                                                               *)

InGame(c) == \E t \in tables : c \in {t[1], t[2]}

\* c is asked for a word and types something.
Answers(c) == InGame(c) /\ asked[c] # NoPrompt /\ (Reply(c) \/ Type(c))

\* Threads that can run do; a request to play ends, as Lobby's implementation shows;
\* who plays answers or hangs up.
Fairness ==
    /\ \A c \in Clients :
        WF_vars(Handler(c)) /\ WF_vars(TurnAway(c)) /\ WF_vars(Answers(c))
    /\ \A a, b \in Clients : WF_vars(Game(a, b))

FairSpec == Spec /\ Fairness

\* The loss of a connection is noticed: whatever the client typed ahead, and wherever it
\* was, its handler ends.
HungUpLeaves ==
    \A c \in Clients : (pc[c] # "closed" /\ ~up[c]) ~> pc[c] = "closed"

\* Who has answered is asked again, or gone: no answer is swallowed without a further
\* prompt.
AskedAgain ==
    \A c \in Clients : (pc[c] # "closed" /\ asked[c] = NoPrompt) ~> (pc[c] = "closed" \/ asked[c] # NoPrompt)
=============================================================================
