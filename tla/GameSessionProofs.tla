------------------------- MODULE GameSessionProofs -------------------------
(***************************************************************************)
(* Proofs about GameSession for any number of clients, of which any number *)
(* are careful.                                                            *)
(***************************************************************************)
EXTENDS GameSessionProps, NumberLemmas, SequenceTheorems

Tokens == [piece : Pieces \cup {Newline}, to : Prompts]

\* What each recv takes and leaves is a text of pieces and a stream.
LEMMA RecvTypes ==
    ASSUME TypeOK, NEW c \in Clients, NEW n \in Arrived(c)
    PROVE  /\ n \in Nat /\ n <= Len(stream[c])
           /\ Input(c, n) \in Inputs
           /\ Takes(c, n) => stream' \in [Clients -> Seq(Tokens)]
<1>1. stream[c] \in Seq(Tokens) /\ stream \in [Clients -> Seq(Tokens)]
  BY DEF TypeOK, Tokens
<1>2. n \in 0..Len(stream[c])
  <2>1. CASE stream[c] = <<>>
    BY <1>1, <2>1 DEF Arrived
  <2>2. CASE stream[c] # <<>>
    BY <1>1, <2>2 DEF Arrived
  <2> QED
    BY <2>1, <2>2
<1> DEFINE b == SubSeq(stream[c], 1, n)
           ends == {i \in 1..n : b[i].piece = Newline}
<1>3. b \in Seq(Tokens) /\ Len(b) = n /\ DOMAIN b = 1..n /\ \A i \in 1..n : b[i] \in Tokens
  BY <1>1, <1>2
<1> HIDE DEF b
<1>4. PICK k \in 0..n : \A i \in 1..n : i <= k <=> \A j \in 1..i : j \notin ends
  <2>1. n \in Nat
    BY <1>2
  <2> HIDE DEF ends
  <2> QED
    BY <2>1, LeadingPart
<1>5. {i \in DOMAIN b : \A j \in 1..i : b[j].piece # Newline} = 1..k
  <2>1. n \in Nat
    BY <1>2
  <2>2. \A i \in 1..n : (\A j \in 1..i : j \notin ends) <=> \A j \in 1..i : b[j].piece # Newline
    BY <2>1
  <2>3. \A i \in 1..n : i \in 1..k <=> \A j \in 1..i : b[j].piece # Newline
    BY <1>4, <2>1, <2>2
  <2> QED
    BY <1>3, <2>1, <2>3
<1>6. \A i \in 1..k : b[i].piece \in Pieces
  <2> SUFFICES ASSUME NEW i \in 1..k PROVE b[i].piece \in Pieces
    OBVIOUS
  <2>1. i \in 1..n /\ b[i].piece # Newline
    <3>1. i \in Nat /\ i \in 1..i
      BY <1>2
    <3>2. i \in DOMAIN b /\ \A j \in 1..i : b[j].piece # Newline
      BY <1>5
    <3> QED
      BY <3>1, <3>2, <1>3
  <2> QED
    BY <2>1, <1>3 DEF Tokens
<1>7. Text(b) \in Seq(Pieces)
  <2>1. Text(b) = [i \in 1..k |-> b[i].piece]
    BY <1>5 DEF Text
  <2> QED
    BY <2>1, <1>6
<1>8. Input(c, n) \in Inputs
  BY <1>7 DEF Input, Inputs, b
<1>9. Takes(c, n) => stream' \in [Clients -> Seq(Tokens)]
  <2>1. SubSeq(stream[c], n + 1, Len(stream[c])) \in Seq(Tokens)
    BY <1>1, <1>2
  <2> QED
    BY <1>1, <2>1 DEF Takes
<1> QED
  BY <1>2, <1>8, <1>9, <1>1

-----------------------------------------------------------------------------
(* Types.                                                                  *)

\* Emptying a stream leaves a stream.
LEMMA Emptied ==
    ASSUME TypeOK, NEW c \in Clients
    PROVE  /\ stream \in [Clients -> Seq(Tokens)]
           /\ [stream EXCEPT ![c] = <<>>] \in [Clients -> Seq(Tokens)]
<1>1. stream \in [Clients -> Seq(Tokens)]
  BY DEF TypeOK, Tokens
<1>2. <<>> \in Seq(Tokens)
  OBVIOUS
<1> QED
  BY <1>1, <1>2

LEMMA InitType == Init => TypeOK
BY DEF Init, LobbyInit, TypeOK, Rooms, Pcs, Prompts, NoPrompt, FirstRound

\* The places a handler can be sent a prompt from.
LEMMA PromptType ==
    ASSUME TypeOK, NEW c \in Clients, NEW to \in {"menu", "flow", "gameId"}, Prompt(c, to)
    PROVE  pc' \in [Clients -> Pcs] /\ asked' \in [Clients -> Prompts]
BY DEF TypeOK, Prompt, Goto, Pcs, Prompts

\* The steps of a handler keep the types.
LEMMA HandlerType ==
    ASSUME TypeOK, NEW c \in Clients, Handler(c) \/ TurnAway(c)
    PROVE  TypeOK'
<1>1. ASSUME NEW n \in Arrived(c), Takes(c, n)
      PROVE  stream' \in [Clients -> Seq(Tokens)]
  BY <1>1, RecvTypes
<1>2. CASE Menu(c)
  <2>1. PICK n \in Arrived(c) :
          LET text == Input(c, n).text IN
          \/ /\ text = <<"play">> /\ Enter(c) /\ Goto(c, "playLoop")
             /\ Takes(c, n) /\ UNCHANGED <<game, asked, up>>
          \/ /\ text = <<"leaderboard">> /\ Prompt(c, "flow")
             /\ Takes(c, n) /\ UNCHANGED <<lobbyVars, game, up>>
          \/ text \notin {<<"play">>, <<"leaderboard">>} /\ Leave(c)
    BY <1>2 DEF Menu
  <2>2. CASE Enter(c) /\ Goto(c, "playLoop") /\ Takes(c, n) /\ UNCHANGED <<game, asked, up>>
    BY <1>1, <2>2 DEF TypeOK, Enter, Goto, Rooms, Pcs, Tokens
  <2>3. CASE Prompt(c, "flow") /\ Takes(c, n) /\ UNCHANGED <<lobbyVars, game, up>>
    BY <1>1, <2>3, PromptType DEF TypeOK, lobbyVars, Tokens
  <2>4. CASE Leave(c)
    <3>1. stream' \in [Clients -> Seq(Tokens)]
      BY <2>4, Emptied DEF Leave
    <3> QED
      BY <2>4, <3>1 DEF TypeOK, Leave, Goto, Pcs, Prompts, NoPrompt, lobbyVars, Tokens
  <2> QED
    BY <2>1, <2>2, <2>3, <2>4
<1>3. CASE Flow(c)
  <2>1. PICK n \in Arrived(c) :
          Takes(c, n) /\ Prompt(c, IF Input(c, n).text = <<"yes">> THEN "gameId" ELSE "menu")
    BY <1>3 DEF Flow
  <2>2. pc' \in [Clients -> Pcs] /\ asked' \in [Clients -> Prompts]
    BY <2>1, PromptType
  <2> QED
    BY <1>1, <1>3, <2>1, <2>2 DEF Flow, TypeOK, lobbyVars, Tokens
<1>4. CASE GameId(c)
  <2>1. CASE Stop
    BY <2>1 DEF Stop, TypeOK, Rooms, Pcs, Prompts, NoPrompt, FirstRound
  <2>2. CASE ~Stop
    <3>1. PICK n \in Arrived(c) : Takes(c, n) /\ Prompt(c, "menu") /\ UNCHANGED <<lobbyVars, game, up>>
      BY <1>4, <2>2 DEF GameId
    <3> QED
      BY <1>1, <3>1, PromptType DEF TypeOK, lobbyVars, Tokens
  <2> QED
    BY <2>1, <2>2
<1>5. CASE BackToMenu(c)
  BY <1>5, PromptType DEF BackToMenu, Return, TypeOK, Rooms
<1>6. CASE TurnAway(c)
  BY <1>6 DEF TurnAway, Expire, TypeOK, Rooms
<1> QED
  BY <1>2, <1>3, <1>4, <1>5, <1>6 DEF Handler

Rounds == {v \in [round : 0..1, got : Seq(Inputs)] : Len(v.got) \in 0..2}

\* The types of game.
GameOK == game \in [Clients \X Clients -> Rounds]

LEMMA GameTypeOK == TypeOK => GameOK
BY DEF TypeOK, GameOK, Rounds

\* A round without inputs.
LEMMA NewRound == \A k \in 0..1 : [round |-> k, got |-> <<>>] \in Rounds
BY DEF Rounds

\* So do the steps of a game.
LEMMA GameType ==
    ASSUME TypeOK, NEW a \in Clients, NEW b \in Clients, Seat(a, b) \/ Game(a, b)
    PROVE  TypeOK'
<1> DEFINE t == <<a, b>>
<1>0. t \in Clients \X Clients /\ GameOK /\ game[t] \in Rounds
  BY GameTypeOK DEF GameOK
<1>1. ASSUME GameOK', room' \in [Clients -> Rooms], tables' \subseteq Clients \X Clients, pc' = pc,
             stream' \in [Clients -> Seq(Tokens)], asked' \in [Clients -> Prompts], up' = up
      PROVE  TypeOK'
  BY <1>1 DEF GameOK, TypeOK, Rounds, Tokens
<1>2. stream \in [Clients -> Seq(Tokens)]
  BY DEF TypeOK, Tokens
<1>3. ASSUME NEW k \in 0..1, AskWords(a, b, k)
      PROVE  asked' \in [Clients -> Prompts]
  <2>1. asked \in [Clients -> Prompts] /\ Word(k) \in Prompts
    BY DEF TypeOK, Prompts, Word
  <2> QED
    BY <1>3, <2>1 DEF AskWords
<1>4. ASSUME NEW k \in 0..1, game' = [game EXCEPT ![t] = [round |-> k, got |-> <<>>]]
      PROVE  GameOK'
  BY <1>0, <1>4, NewRound DEF GameOK
<1>5. CASE Seat(a, b)
  <2>1. GameOK' /\ asked' \in [Clients -> Prompts]
    BY <1>3, <1>4, <1>5 DEF Seat, FirstRound
  <2>2. room' \in [Clients -> Rooms] /\ tables' \subseteq Clients \X Clients
    BY <1>5 DEF Seat, Pair, TypeOK, Rooms
  <2> QED
    BY <1>1, <1>2, <1>5, <2>1, <2>2 DEF Seat
<1>6. ASSUME NEW c \in Clients, NEW n \in Arrived(c), Receive(a, b, c, n), Len(game[t].got) < 2
      PROVE  TypeOK'
  <2>1. Input(c, n) \in Inputs /\ stream' \in [Clients -> Seq(Tokens)]
    BY <1>6, RecvTypes DEF Receive
  <2> DEFINE h == Append(game[t].got, Input(c, n))
  <2>2. h \in Seq(Inputs) /\ Len(h) \in 0..2
    BY <1>0, <1>6, <2>1 DEF Rounds
  <2> HIDE DEF h
  <2>3. [game[t] EXCEPT !.got = h] \in Rounds
    BY <1>0, <2>2 DEF Rounds
  <2>4. GameOK'
    BY <1>0, <1>6, <2>3 DEF GameOK, Receive, h
  <2> QED
    BY <1>1, <1>6, <2>1, <2>4 DEF Receive, TypeOK, lobbyVars
<1>7. CASE Recv1(a, b)
  BY <1>6, <1>7 DEF Recv1
<1>8. CASE Recv2(a, b)
  BY <1>6, <1>8 DEF Recv2
<1>9. CASE NextRound(a, b)
  <2>1. 1 - game[t].round \in 0..1
    BY <1>0 DEF Rounds
  <2>2. GameOK' /\ asked' \in [Clients -> Prompts]
    BY <1>3, <1>4, <1>9, <2>1 DEF NextRound
  <2> QED
    BY <1>1, <1>2, <1>9, <2>2 DEF NextRound, TypeOK, lobbyVars
<1>10. CASE EndGame(a, b)
  <2>1. GameOK'
    BY <1>4, <1>10 DEF EndGame, FirstRound
  <2>2. room' \in [Clients -> Rooms] /\ tables' \subseteq Clients \X Clients
    BY <1>10 DEF EndGame, Close, TypeOK, Rooms
  <2> QED
    BY <1>1, <1>2, <1>10, <2>1, <2>2 DEF EndGame, TypeOK
<1> QED
  BY <1>5, <1>7, <1>8, <1>9, <1>10 DEF Game

\* So does whatever a client does.
LEMMA ClientType ==
    ASSUME TypeOK, NEW c \in Clients, Client(c)
    PROVE  TypeOK'
<1>1. CASE Connect(c)
  BY <1>1, PromptType DEF Connect, TypeOK, lobbyVars
<1>2. CASE Disconnect(c)
  <2>1. stream' \in [Clients -> Seq(Tokens)]
    BY <1>2, Emptied DEF Disconnect
  <2> QED
    BY <1>2, <2>1 DEF Disconnect, TypeOK, lobbyVars, Tokens
<1>3. ASSUME NEW pieces \in Seq(Pieces \cup {Newline}), NEW to \in Prompts, Sends(c, pieces, to)
      PROVE  TypeOK'
  <2> DEFINE sent == [i \in DOMAIN pieces |-> [piece |-> pieces[i], to |-> to]]
  <2>1. sent \in Seq(Tokens)
    <3>1. DOMAIN pieces = 1..Len(pieces) /\ Len(pieces) \in Nat
      OBVIOUS
    <3>2. sent \in [1..Len(pieces) -> Tokens]
      BY <3>1 DEF Tokens
    <3> QED
      BY <3>1, <3>2, IsASeq
  <2>2. stream' \in [Clients -> Seq(Tokens)]
    <3>1. stream \in [Clients -> Seq(Tokens)]
      BY DEF TypeOK, Tokens
    <3>2. stream[c] \o sent \in Seq(Tokens)
      BY <2>1, <3>1, ConcatProperties
    <3> HIDE DEF sent
    <3>3. stream' = [stream EXCEPT ![c] = stream[c] \o sent]
      BY <1>3 DEF Sends, sent
    <3> QED
      BY <3>1, <3>2, <3>3
  <2> QED
    BY <1>3, <2>2 DEF Sends, TypeOK, lobbyVars, Prompts, NoPrompt, Tokens
<1>4. CASE Reply(c)
  <2>1. PICK p \in Pieces : Sends(c, <<p, Newline>>, asked[c])
    BY <1>4, PiecesAssumption DEF Reply
  <2>2. <<p, Newline>> \in Seq(Pieces \cup {Newline}) /\ asked[c] \in Prompts
    BY DEF TypeOK
  <2> QED
    BY <1>3, <2>1, <2>2
<1>5. CASE Type(c)
  <2>1. PICK p \in Pieces \cup {Newline} : Sends(c, <<p>>, NoPrompt)
    BY <1>5 DEF Type
  <2>2. <<p>> \in Seq(Pieces \cup {Newline}) /\ NoPrompt \in Prompts
    BY DEF Prompts
  <2> QED
    BY <1>3, <2>1, <2>2
<1> QED
  BY <1>1, <1>2, <1>4, <1>5 DEF Client
\* What the initial states and the steps come to.
LEMMA TypeStep == ASSUME TypeOK, [Next]_vars PROVE TypeOK'
<1>1. CASE UNCHANGED vars
  BY <1>1 DEF vars, lobbyVars, TypeOK
<1>2. CASE Next
  BY <1>2, HandlerType, GameType, ClientType DEF Next
<1> QED
  BY <1>1, <1>2

\* Every variable keeps its type: no recv yields anything but pieces, no game collects
\* more than two inputs for a round.
THEOREM TypesCorrect == Spec => []TypeOK
BY InitType, TypeStep, PTL DEF Spec
-----------------------------------------------------------------------------
(* The inductive invariant behind InStep.                                  *)

\* A handler is in playLoop while its request is in the lobby, and plays at one table.
SeatInv ==
    /\ \A c \in Clients : pc[c] = "playLoop" <=> room[c] # "out"
    /\ \A t \in tables : t[1] # t[2] /\ room[t[1]] = "playing" /\ room[t[2]] = "playing"
    /\ \A s, t \in tables : \A c \in Clients : c \in {s[1], s[2]} /\ c \in {t[1], t[2]} => s = t

\* c has been sent prompt r and has answered it with one line or not yet; if it is gone,
\* it may have left without an answer.
Ready(c, r) ==
    \/ stream[c] = <<>> /\ (up[c] => asked[c] = r)
    \/ asked[c] = NoPrompt /\ \E p \in Pieces : stream[c] = Line(p, r)

\* Nothing of c is to be read.
Quiet(c) == stream[c] = <<>> /\ (up[c] => asked[c] = NoPrompt)

\* What a careful client has sent fits the place its socket will be read from.
StepInv(c) ==
    /\ pc[c] \in {"menu", "flow", "gameId"} => Ready(c, <<pc[c], 0>>)
    /\ pc[c] = "playLoop" =>
        /\ \A t \in tables : Awaits(t, c) => Ready(c, Word(game[t].round))
        /\ (\A t \in tables : ~Awaits(t, c)) => Quiet(c)
    /\ pc[c] = "closed" => Quiet(c)

IInv == TypeOK /\ SeatInv /\ \A c \in Careful : StepInv(c)

LEMMA InitInv == Init => IInv
<1> SUFFICES ASSUME Init PROVE IInv
  OBVIOUS
<1>1. SeatInv
  BY DEF Init, LobbyInit, SeatInv
<1>2. \A c \in Careful : StepInv(c)
  BY CarefulAssumption DEF Init, StepInv, Quiet
<1> QED
  BY <1>1, <1>2, InitType DEF IInv

\* A recv on the socket of a careful client takes the whole answer to the prompt.
LEMMA RecvCareful ==
    ASSUME TypeOK, NEW c \in Careful, NEW r, Ready(c, r), NEW n \in Arrived(c), Takes(c, n)
    PROVE  stream'[c] = <<>> /\ (up[c] => asked[c] = NoPrompt)
<1>1. stream'[c] = SubSeq(stream[c], n + 1, Len(stream[c]))
  BY CarefulAssumption DEF Takes, TypeOK
<1>2. CASE stream[c] = <<>>
  <2>1. n = 0 /\ ~up[c]
    BY <1>2 DEF Arrived
  <2>2. SubSeq(<<>>, 0 + 1, Len(<<>>)) = <<>>
    OBVIOUS
  <2> QED
    BY <1>1, <1>2, <2>1, <2>2
<1>3. CASE stream[c] # <<>>
  <2>1. PICK p \in Pieces : stream[c] = Line(p, r) /\ asked[c] = NoPrompt
    BY <1>3 DEF Ready
  <2>2. Len(Line(p, r)) = 2 /\ Line(p, r)[1].piece = p
    BY DEF Line
  <2>3. n \in 1..2 /\ stream[c][n].piece = Newline
    BY <1>3, <2>1, <2>2 DEF Arrived
  <2>4. n = 2
    BY <2>1, <2>2, <2>3, PiecesAssumption
  <2>5. SubSeq(Line(p, r), 3, 2) = <<>>
    BY DEF Line
  <2> QED
    BY <1>1, <2>1, <2>2, <2>4, <2>5
<1> QED
  BY <1>2, <1>3

\* A step that touches neither a client nor its table leaves it in step.
LEMMA Frame ==
    ASSUME NEW d \in Careful, StepInv(d),
           pc'[d] = pc[d], stream'[d] = stream[d], asked'[d] = asked[d], up'[d] = up[d],
           \A t \in tables : d \in {t[1], t[2]} => t \in tables' /\ game'[t] = game[t],
           \A t \in tables' : d \in {t[1], t[2]} => t \in tables
    PROVE  StepInv(d)'
<1>1. \A t \in tables : d \in {t[1], t[2]} => (Awaits(t, d) <=> Awaits(t, d)')
  BY DEF Awaits
<1>2. \A t : d \notin {t[1], t[2]} => ~Awaits(t, d) /\ ~Awaits(t, d)'
  BY DEF Awaits
<1>3. \A r : Ready(d, r) <=> Ready(d, r)'
  BY DEF Ready
<1>4. Quiet(d) <=> Quiet(d)'
  BY DEF Quiet
<1> QED
  BY <1>1, <1>2, <1>3, <1>4 DEF StepInv
-----------------------------------------------------------------------------
(* Every step keeps it.                                                    *)

\* Who is not playing is at no table.
LEMMA NoTable ==
    ASSUME TypeOK, SeatInv, NEW c \in Clients, room[c] # "playing"
    PROVE  \A t \in tables : c \notin {t[1], t[2]}
BY DEF SeatInv, TypeOK

\* A careful client that is sent a prompt after its input has been taken can answer it.
LEMMA PromptReady ==
    ASSUME TypeOK, NEW c \in Careful, NEW to \in {"menu", "flow", "gameId"},
           stream'[c] = <<>>, Prompt(c, to)
    PROVE  StepInv(c)'
<1>1. pc'[c] = to /\ asked'[c] = <<to, 0>>
  BY CarefulAssumption DEF TypeOK, Prompt, Goto
<1> QED
  BY <1>1 DEF StepInv, Ready

\* After the stop of the program everything is as at the start.
LEMMA StopInv == ASSUME Stop PROVE SeatInv' /\ \A d \in Careful : StepInv(d)'
BY CarefulAssumption DEF Stop, SeatInv, StepInv, Quiet

\* A handler's step.
LEMMA HandlerInv ==
    ASSUME IInv, NEW c \in Clients, Handler(c)
    PROVE  SeatInv' /\ \A d \in Careful : StepInv(d)'
<1>0. TypeOK /\ SeatInv /\ \A d \in Careful : StepInv(d)
  BY DEF IInv
<1>1. ASSUME NEW d \in Careful, d # c, UNCHANGED <<tables, game>>, UNCHANGED <<pc[d], stream[d], asked[d], up[d]>>
      PROVE  StepInv(d)'
  BY <1>0, <1>1, Frame
<1>2. CASE Menu(c)
  <2>1. room[c] = "out" /\ pc[c] = "menu" /\ \A t \in tables : c \notin {t[1], t[2]}
    BY <1>0, <1>2, NoTable DEF Menu, SeatInv
  <2>2. PICK n \in Arrived(c) :
          \/ Enter(c) /\ Goto(c, "playLoop") /\ Takes(c, n) /\ UNCHANGED <<game, asked, up>>
          \/ Prompt(c, "flow") /\ Takes(c, n) /\ UNCHANGED <<lobbyVars, game, up>>
          \/ Leave(c)
    BY <1>2 DEF Menu
  <2>3. ASSUME c \in Careful, Takes(c, n)
        PROVE  stream'[c] = <<>> /\ (up[c] => asked[c] = NoPrompt)
    <3>1. Ready(c, <<"menu", 0>>)
      BY <1>0, <2>1, <2>3 DEF StepInv
    <3> QED
      BY <1>0, <2>3, <3>1, RecvCareful
  <2>4. CASE Enter(c) /\ Goto(c, "playLoop") /\ Takes(c, n) /\ UNCHANGED <<game, asked, up>>
    <3>1. SeatInv'
      BY <1>0, <2>1, <2>4 DEF SeatInv, Enter, Goto, TypeOK
    <3>2. ASSUME c \in Careful PROVE StepInv(c)'
      <4>1. Quiet(c)'
        BY <2>3, <2>4, <3>2 DEF Quiet
      <4>2. pc'[c] = "playLoop" /\ tables' = tables /\ \A t \in tables' : ~Awaits(t, c)'
        BY <1>0, <2>1, <2>4 DEF Goto, TypeOK, Enter, Awaits
      <4> QED
        BY <4>1, <4>2 DEF StepInv
    <3>3. ASSUME NEW d \in Careful, d # c PROVE StepInv(d)'
      BY <1>0, <1>1, <2>4, <3>3, CarefulAssumption DEF Enter, Goto, Takes, TypeOK
    <3> QED
      BY <3>1, <3>2, <3>3
  <2>5. CASE Prompt(c, "flow") /\ Takes(c, n) /\ UNCHANGED <<lobbyVars, game, up>>
    <3>1. SeatInv'
      BY <1>0, <2>1, <2>5 DEF SeatInv, Prompt, Goto, TypeOK, lobbyVars
    <3>2. ASSUME c \in Careful PROVE StepInv(c)'
      BY <1>0, <2>3, <2>5, <3>2, PromptReady
    <3>3. ASSUME NEW d \in Careful, d # c PROVE StepInv(d)'
      BY <1>0, <1>1, <2>5, <3>3, CarefulAssumption DEF Prompt, Goto, Takes, TypeOK, lobbyVars
    <3> QED
      BY <3>1, <3>2, <3>3
  <2>6. CASE Leave(c)
    <3>1. SeatInv'
      BY <1>0, <2>1, <2>6 DEF SeatInv, Leave, Goto, TypeOK, lobbyVars
    <3>2. ASSUME c \in Careful PROVE StepInv(c)'
      BY <1>0, <2>6 DEF Leave, Goto, TypeOK, StepInv, Quiet
    <3>3. ASSUME NEW d \in Careful, d # c PROVE StepInv(d)'
      BY <1>0, <1>1, <2>6, <3>3, CarefulAssumption DEF Leave, Goto, TypeOK, lobbyVars
    <3> QED
      BY <3>1, <3>2, <3>3
  <2> QED
    BY <2>2, <2>4, <2>5, <2>6
<1>3. ASSUME NEW n \in Arrived(c), NEW to \in {"menu", "gameId"}, pc[c] \in {"flow", "gameId"},
             Takes(c, n), Prompt(c, to), UNCHANGED <<lobbyVars, game, up>>
      PROVE  SeatInv' /\ \A d \in Careful : StepInv(d)'
  <2>1. SeatInv'
    BY <1>0, <1>3 DEF SeatInv, Prompt, Goto, TypeOK, lobbyVars
  <2>2. ASSUME c \in Careful PROVE StepInv(c)'
    <3>1. Ready(c, <<pc[c], 0>>)
      BY <1>0, <1>3, <2>2 DEF StepInv
    <3> QED
      BY <1>0, <1>3, <2>2, <3>1, RecvCareful, PromptReady
  <2>3. ASSUME NEW d \in Careful, d # c PROVE StepInv(d)'
    BY <1>0, <1>1, <1>3, <2>3, CarefulAssumption DEF Prompt, Goto, Takes, TypeOK, lobbyVars
  <2> QED
    BY <2>1, <2>2, <2>3
<1>4. CASE Flow(c)
  BY <1>3, <1>4 DEF Flow
<1>5. CASE GameId(c)
  BY <1>3, <1>5, StopInv DEF GameId
<1>6. CASE BackToMenu(c)
  <2>1. pc[c] = "playLoop" /\ \A t \in tables : c \notin {t[1], t[2]}
    BY <1>0, <1>6, NoTable DEF BackToMenu, Return, SeatInv
  <2>2. SeatInv'
    BY <1>0, <1>6, <2>1 DEF BackToMenu, Return, SeatInv, Prompt, Goto, TypeOK
  <2>3. ASSUME c \in Careful PROVE StepInv(c)'
    <3>1. stream[c] = <<>>
      BY <1>0, <2>1, <2>3 DEF StepInv, Awaits, Quiet
    <3> QED
      BY <1>0, <1>6, <2>3, <3>1, PromptReady DEF BackToMenu
  <2>4. ASSUME NEW d \in Careful, d # c PROVE StepInv(d)'
    BY <1>0, <1>1, <1>6, <2>4, CarefulAssumption DEF BackToMenu, Return, Prompt, Goto, TypeOK
  <2> QED
    BY <2>2, <2>3, <2>4
<1> QED
  BY <1>2, <1>4, <1>5, <1>6 DEF Handler

\* No partner in time.
LEMMA TurnAwayInv ==
    ASSUME IInv, NEW c \in Clients, TurnAway(c)
    PROVE  SeatInv' /\ \A d \in Careful : StepInv(d)'
<1>0. TypeOK /\ SeatInv /\ \A d \in Careful : StepInv(d)
  BY DEF IInv
<1>1. SeatInv'
  BY <1>0 DEF SeatInv, TurnAway, Expire, TypeOK
<1>2. ASSUME NEW d \in Careful PROVE StepInv(d)'
  BY <1>0, <1>2, Frame DEF TurnAway, Expire
<1> QED
  BY <1>1, <1>2

\* What a client does.
LEMMA ClientInv ==
    ASSUME IInv, NEW c \in Clients, Client(c)
    PROVE  SeatInv' /\ \A d \in Careful : StepInv(d)'
<1>0. TypeOK /\ SeatInv /\ \A d \in Careful : StepInv(d)
  BY DEF IInv
<1>1. ASSUME NEW d \in Careful, d # c, UNCHANGED <<tables, game>>, UNCHANGED <<pc[d], stream[d], asked[d], up[d]>>
      PROVE  StepInv(d)'
  BY <1>0, <1>1, Frame
<1>2. CASE Connect(c)
  <2>1. SeatInv'
    BY <1>0, <1>2 DEF SeatInv, Connect, Prompt, Goto, TypeOK, lobbyVars
  <2>2. ASSUME c \in Careful PROVE StepInv(c)'
    <3>1. stream[c] = <<>>
      BY <1>0, <1>2, <2>2 DEF Connect, StepInv, Quiet
    <3> QED
      BY <1>0, <1>2, <2>2, <3>1, PromptReady DEF Connect
  <2>3. ASSUME NEW d \in Careful, d # c PROVE StepInv(d)'
    BY <1>0, <1>1, <1>2, <2>3, CarefulAssumption DEF Connect, Prompt, Goto, TypeOK, lobbyVars
  <2> QED
    BY <2>1, <2>2, <2>3
<1>3. CASE Disconnect(c)
  <2>1. SeatInv' /\ UNCHANGED <<tables, game, pc, asked>>
    BY <1>0, <1>3 DEF SeatInv, Disconnect, lobbyVars
  <2>2. ASSUME c \in Careful PROVE StepInv(c)'
    <3>1. ~up'[c] /\ (stream'[c] = stream[c] \/ stream'[c] = <<>>)
      BY <1>0, <1>3 DEF Disconnect, TypeOK
    <3>2. \A r : Ready(c, r) => Ready(c, r)'
      BY <2>1, <3>1 DEF Ready
    <3>3. Quiet(c) => Quiet(c)'
      BY <3>1 DEF Quiet
    <3>4. \A t : Awaits(t, c) <=> Awaits(t, c)'
      BY <2>1 DEF Awaits
    <3> QED
      BY <1>0, <2>1, <2>2, <3>2, <3>3, <3>4 DEF StepInv
  <2>3. ASSUME NEW d \in Careful, d # c PROVE StepInv(d)'
    BY <1>0, <1>1, <1>3, <2>1, <2>3, CarefulAssumption DEF Disconnect, TypeOK
  <2> QED
    BY <2>1, <2>2, <2>3
<1>4. ASSUME NEW pieces, NEW to, Sends(c, pieces, to)
      PROVE  SeatInv' /\ \A d \in Careful : d # c => StepInv(d)'
  <2>1. SeatInv'
    BY <1>0, <1>4 DEF SeatInv, Sends, lobbyVars
  <2>2. ASSUME NEW d \in Careful, d # c PROVE StepInv(d)'
    BY <1>0, <1>1, <1>4, <2>2, CarefulAssumption DEF Sends, TypeOK, lobbyVars
  <2> QED
    BY <2>1, <2>2
<1>5. CASE Reply(c)
  <2>1. PICK p \in Pieces : Sends(c, <<p, Newline>>, asked[c])
    BY <1>5, PiecesAssumption DEF Reply
  <2>2. c \in Careful /\ up[c] /\ asked[c] # NoPrompt /\ UNCHANGED <<tables, game, pc>>
    BY <1>5, <2>1 DEF Reply, Sends, lobbyVars
  <2>3. \A r : ~Quiet(c) /\ (Ready(c, r) => stream[c] = <<>> /\ asked[c] = r)
    BY <2>2 DEF Quiet, Ready
  <2>4. ASSUME NEW r, Ready(c, r) PROVE Ready(c, r)'
    <3>0. stream[c] = <<>> /\ asked[c] = r
      BY <2>3, <2>4
    <3>1. asked'[c] = NoPrompt
      BY <1>0, <2>1 DEF Sends, TypeOK
    <3>2. stream'[c] = <<>> \o [i \in DOMAIN <<p, Newline>> |-> [piece |-> <<p, Newline>>[i], to |-> r]]
      BY <1>0, <2>1, <3>0 DEF Sends, TypeOK
    <3>3. <<>> \o [i \in DOMAIN <<p, Newline>> |-> [piece |-> <<p, Newline>>[i], to |-> r]] = Line(p, r)
      BY DEF Line
    <3> QED
      BY <3>1, <3>2, <3>3 DEF Ready
  <2>5. StepInv(c)'
    <3>1. \A t : Awaits(t, c) <=> Awaits(t, c)'
      BY <2>2 DEF Awaits
    <3> QED
      BY <1>0, <2>2, <2>3, <2>4, <3>1 DEF StepInv
  <2> QED
    BY <1>4, <2>1, <2>5
<1>6. CASE Type(c)
  BY <1>4, <1>6 DEF Type
<1> QED
  BY <1>2, <1>3, <1>5, <1>6 DEF Client

\* A step of a game.
LEMMA GameInv ==
    ASSUME IInv, NEW a \in Clients, NEW b \in Clients, Seat(a, b) \/ Game(a, b)
    PROVE  SeatInv' /\ \A d \in Careful : StepInv(d)'
<1> DEFINE t == <<a, b>>
<1>0. TypeOK /\ SeatInv /\ \A d \in Careful : StepInv(d)
  BY DEF IInv
<1>1. t \in Clients \X Clients /\ t[1] = a /\ t[2] = b /\ GameOK /\ game[t] \in Rounds
  BY <1>0, GameTypeOK DEF GameOK
<1>2. ASSUME UNCHANGED <<room, tables, pc>> PROVE SeatInv'
  BY <1>0, <1>2 DEF SeatInv
<1>3. ASSUME t \in tables
      PROVE  /\ a # b /\ pc[a] = "playLoop" /\ pc[b] = "playLoop"
             /\ \A s \in tables : s # t => a \notin {s[1], s[2]} /\ b \notin {s[1], s[2]}
  BY <1>0, <1>1, <1>3 DEF SeatInv
<1>4. ASSUME NEW v, game' = [game EXCEPT ![t] = v]
      PROVE  game'[t] = v /\ \A s \in Clients \X Clients : s # t => game'[s] = game[s]
  BY <1>1, <1>4 DEF GameOK
<1>5. tables \subseteq Clients \X Clients
  BY <1>0 DEF TypeOK
<1>6. ASSUME t \in tables, tables' = tables, pc' = pc, NEW v, game' = [game EXCEPT ![t] = v],
             NEW d \in Careful, d \notin {a, b}, stream'[d] = stream[d], asked'[d] = asked[d], up' = up
      PROVE  StepInv(d)'
  BY <1>0, <1>1, <1>4, <1>5, <1>6, Frame
<1>7. CASE Seat(a, b)
  <2>1. a # b /\ room[a] = "queued" /\ room[b] = "queued" /\ tables' = tables \cup {t}
    BY <1>7 DEF Seat, Pair
  <2>2. \A s \in tables : a \notin {s[1], s[2]} /\ b \notin {s[1], s[2]}
    BY <1>0, <2>1, NoTable
  <2>3. SeatInv'
    <3>1. /\ pc' = pc /\ room'[a] = "playing" /\ room'[b] = "playing"
          /\ \A c \in Clients : c \notin {a, b} => room'[c] = room[c]
      BY <1>0, <1>7 DEF Seat, Pair, TypeOK
    <3>2. \A s \in tables : room'[s[1]] = "playing" /\ room'[s[2]] = "playing"
      BY <1>0, <1>5, <2>2, <3>1 DEF SeatInv
    <3>3. \A s \in tables' : s[1] # s[2] /\ room'[s[1]] = "playing" /\ room'[s[2]] = "playing"
      BY <1>0, <1>1, <2>1, <3>1, <3>2 DEF SeatInv
    <3>4. \A c \in Clients : pc'[c] = "playLoop" <=> room'[c] # "out"
      BY <1>0, <2>1, <3>1 DEF SeatInv
    <3>5. \A s \in tables : \A c : c \in {s[1], s[2]} => c \notin {t[1], t[2]}
      BY <1>1, <2>2
    <3>6. \A r, s \in tables' : \A c \in Clients : c \in {r[1], r[2]} /\ c \in {s[1], s[2]} => r = s
      BY <1>0, <2>1, <3>5 DEF SeatInv
    <3> QED
      BY <3>3, <3>4, <3>6 DEF SeatInv
  <2>4. ASSUME NEW d \in Careful, d \in {a, b} PROVE StepInv(d)'
    <3>1. pc[d] = "playLoop" /\ Quiet(d)
      BY <1>0, <2>1, <2>2, <2>4 DEF SeatInv, StepInv, Awaits
    <3>2. game'[t] = FirstRound /\ asked'[d] = Word(0) /\ pc' = pc /\ stream' = stream
      BY <1>0, <1>4, <1>7, <2>4 DEF Seat, AskWords, TypeOK
    <3>3. Ready(d, Word(0))'
      BY <3>1, <3>2 DEF Quiet, Ready
    <3>4. Awaits(t, d)' /\ \A s \in tables' : Awaits(s, d)' => s = t
      BY <1>1, <2>1, <2>2, <2>4, <3>2 DEF Awaits, FirstRound
    <3> QED
      BY <2>1, <3>1, <3>2, <3>3, <3>4 DEF StepInv, FirstRound
  <2>5. ASSUME NEW d \in Careful, d \notin {a, b} PROVE StepInv(d)'
    <3>1. pc' = pc /\ stream' = stream /\ up' = up /\ asked'[d] = asked[d]
      BY <1>0, <1>7, <2>5, CarefulAssumption DEF Seat, AskWords, TypeOK
    <3>2. t \notin tables
      BY <1>1, <2>2
    <3>3. \A s \in tables : game'[s] = game[s]
      BY <1>4, <1>5, <1>7, <3>2 DEF Seat
    <3> QED
      BY <1>0, <1>1, <2>1, <2>5, <3>1, <3>3, Frame
  <2> QED
    BY <2>3, <2>4, <2>5
<1>8. ASSUME NEW c \in {a, b}, NEW n \in Arrived(c), Receive(a, b, c, n), t \in tables,
             Len(game[t].got) < 2
      PROVE  /\ UNCHANGED <<room, tables, pc, asked, up>>
             /\ game'[t].round = game[t].round
             /\ game'[t].got # <<>> /\ Len(game'[t].got) = Len(game[t].got) + 1
             /\ \A d \in Clients : d # c => stream'[d] = stream[d]
             /\ \A d \in Careful : d \notin {a, b} => StepInv(d)'
             /\ \A d \in {a, b} : \A s \in tables : s # t => ~Awaits(s, d)'
  <2>1. UNCHANGED <<room, tables, pc, asked, up>> /\ Takes(c, n)
    BY <1>8 DEF Receive, lobbyVars
  <2>2. game' = [game EXCEPT ![t] = [game[t] EXCEPT !.got = Append(game[t].got, Input(c, n))]]
    BY <1>8 DEF Receive
  <2>3. \A d \in Clients : d # c => stream'[d] = stream[d]
    BY <1>0, <2>1 DEF Takes, TypeOK
  <2>4. \A d \in Careful : d \notin {a, b} => StepInv(d)'
    BY <1>6, <1>8, <2>1, <2>2, <2>3, CarefulAssumption
  <2>5. game'[t].round = game[t].round /\ game'[t].got = Append(game[t].got, Input(c, n))
    <3> DEFINE h == Append(game[t].got, Input(c, n))
    <3> HIDE DEF h
    <3>1. game'[t] = [game[t] EXCEPT !.got = h]
      BY <1>4, <2>2 DEF h
    <3>2. game'[t].round = game[t].round /\ game'[t].got = h
      BY <1>1, <3>1 DEF Rounds
    <3> QED
      BY <3>2 DEF h
  <2>6. game[t].got \in Seq(Inputs) /\ Input(c, n) \in Inputs
    BY <1>0, <1>1, <1>8, RecvTypes DEF Rounds
  <2>7. game'[t].got # <<>> /\ Len(game'[t].got) = Len(game[t].got) + 1
    BY <2>5, <2>6
  <2>8. \A d \in {a, b} : \A s \in tables : s # t => ~Awaits(s, d)'
    BY <1>3, <1>8 DEF Awaits
  <2> QED
    BY <2>1, <2>3, <2>4, <2>5, <2>7, <2>8
<1>9. CASE Recv1(a, b)
  <2>1. PICK n \in Arrived(a) : Receive(a, b, a, n)
    BY <1>9 DEF Recv1
  <2>2. t \in tables /\ game[t].got = <<>> /\ Len(game[t].got) = 0
    BY <1>9 DEF Recv1
  <2>3. a # b /\ pc[a] = "playLoop" /\ pc[b] = "playLoop"
    BY <1>3, <2>2
  <2>4. Len(game'[t].got) = 1 /\ Takes(a, n)
    <3>1. Len(game'[t].got) = Len(game[t].got) + 1
      BY <1>8, <2>1, <2>2
    <3> QED
      BY <2>1, <2>2, <3>1 DEF Receive
  <2>5. ASSUME a \in Careful PROVE StepInv(a)'
    <3>1. Ready(a, Word(game[t].round))
      BY <1>0, <1>1, <2>2, <2>3, <2>5 DEF StepInv, Awaits
    <3>2. Quiet(a)'
      BY <1>0, <1>8, <2>1, <2>2, <2>4, <2>5, <3>1, RecvCareful DEF Quiet
    <3>3. \A s \in tables : ~Awaits(s, a)'
      BY <1>1, <1>8, <2>1, <2>2, <2>3 DEF Awaits
    <3> QED
      BY <1>8, <2>1, <2>2, <2>3, <3>2, <3>3 DEF StepInv
  <2>6. ASSUME b \in Careful PROVE StepInv(b)'
    <3>0. Awaits(t, b)
      BY <1>1, <2>2 DEF Awaits
    <3>1. Ready(b, Word(game[t].round))
      BY <1>0, <2>2, <2>3, <2>6, <3>0 DEF StepInv
    <3>2. Ready(b, Word(game[t].round))'
      BY <1>8, <2>1, <2>2, <2>3, <3>1 DEF Ready
    <3>3. Awaits(t, b)' /\ \A s \in tables : Awaits(s, b)' => s = t
      BY <1>1, <1>8, <2>1, <2>2, <2>4 DEF Awaits
    <3> QED
      BY <1>8, <2>1, <2>2, <2>3, <3>2, <3>3 DEF StepInv
  <2> QED
    BY <1>2, <1>8, <2>1, <2>2, <2>5, <2>6
<1>10. CASE Recv2(a, b)
  <2>1. PICK n \in Arrived(b) : Receive(a, b, b, n)
    BY <1>10 DEF Recv2
  <2>2. t \in tables /\ game[t].got # <<>> /\ Len(game[t].got) = 1
    <3>1. t \in tables /\ Len(game[t].got) = 1
      BY <1>10 DEF Recv2
    <3>2. \A q : q = <<>> => Len(q) = 0
      OBVIOUS
    <3>3. 0 # 1
      OBVIOUS
    <3> QED
      BY <3>1, <3>2, <3>3
  <2>3. a # b /\ pc[a] = "playLoop" /\ pc[b] = "playLoop"
    BY <1>3, <2>2
  <2>4. Len(game'[t].got) = 2 /\ Takes(b, n)
    <3>1. Len(game'[t].got) = Len(game[t].got) + 1
      BY <1>8, <2>1, <2>2
    <3> QED
      BY <2>1, <2>2, <3>1 DEF Receive
  <2>5. \A d \in {a, b} : \A s \in tables : ~Awaits(s, d)'
    BY <1>1, <1>8, <2>1, <2>2, <2>3, <2>4 DEF Awaits
  <2>6. ASSUME a \in Careful PROVE StepInv(a)'
    <3>1. Quiet(a)
      BY <1>0, <1>1, <1>3, <2>2, <2>3, <2>6 DEF StepInv, Awaits
    <3>2. Quiet(a)'
      BY <1>8, <2>1, <2>2, <2>3, <3>1 DEF Quiet
    <3> QED
      BY <1>8, <2>1, <2>2, <2>3, <2>5, <3>2 DEF StepInv
  <2>7. ASSUME b \in Careful PROVE StepInv(b)'
    <3>0. Awaits(t, b)
      BY <1>1, <2>2 DEF Awaits
    <3>1. Ready(b, Word(game[t].round))
      BY <1>0, <2>2, <2>3, <2>7, <3>0 DEF StepInv
    <3>2. Quiet(b)'
      BY <1>0, <1>8, <2>1, <2>2, <2>4, <2>7, <3>1, RecvCareful DEF Quiet
    <3> QED
      BY <1>8, <2>1, <2>2, <2>3, <2>5, <3>2 DEF StepInv
  <2> QED
    BY <1>2, <1>8, <2>1, <2>2, <2>6, <2>7
<1>11. ASSUME Judged(a, b)
       PROVE  /\ t \in tables /\ a # b /\ pc[a] = "playLoop" /\ pc[b] = "playLoop"
              /\ \A d \in {a, b} : \A s \in tables : ~Awaits(s, d)
              /\ \A d \in {a, b} : d \in Careful => Quiet(d)
  <2>1. t \in tables /\ Len(game[t].got) = 2 /\ game[t].got # <<>>
    BY <1>1, <1>11 DEF Judged, Rounds
  <2>2. \A d \in {a, b} : \A s \in tables : ~Awaits(s, d)
    BY <1>1, <1>3, <2>1 DEF Awaits
  <2> QED
    BY <1>0, <1>3, <2>1, <2>2 DEF StepInv
<1>12. CASE NextRound(a, b)
  <2>0. PICK k : k = 1 - game[t].round
    OBVIOUS
  <2>1. /\ game' = [game EXCEPT ![t] = [round |-> k, got |-> <<>>]] /\ AskWords(a, b, k)
        /\ UNCHANGED <<room, tables, pc, stream, up>> /\ Judged(a, b)
    BY <1>12, <2>0 DEF NextRound, lobbyVars
  <2>2. game'[t] = [round |-> k, got |-> <<>>]
    BY <1>4, <2>1
  <2>3. asked'[a] = Word(k) /\ asked'[b] = Word(k) /\ \A d \in Clients : d \notin {a, b} => asked'[d] = asked[d]
    BY <1>0, <2>1 DEF AskWords, TypeOK
  <2>4. ASSUME NEW d \in Careful, d \in {a, b} PROVE StepInv(d)'
    <3>1. Quiet(d) /\ pc[d] = "playLoop"
      BY <1>11, <2>1, <2>4
    <3>2. Ready(d, Word(k))'
      BY <2>1, <2>3, <2>4, <3>1 DEF Quiet, Ready
    <3>3. Awaits(t, d)' /\ \A s \in tables : Awaits(s, d)' => s = t
      BY <1>1, <1>3, <1>11, <2>1, <2>2, <2>4 DEF Awaits
    <3> QED
      BY <1>11, <2>1, <2>2, <3>1, <3>2, <3>3 DEF StepInv
  <2>5. ASSUME NEW d \in Careful, d \notin {a, b} PROVE StepInv(d)'
    BY <1>6, <1>11, <2>1, <2>3, <2>5, CarefulAssumption
  <2> QED
    BY <1>2, <2>1, <2>4, <2>5
<1>13. CASE EndGame(a, b)
  <2>1. /\ Judged(a, b) /\ tables' = tables \ {t} /\ game' = [game EXCEPT ![t] = FirstRound]
        /\ room' = [room EXCEPT ![a] = "leaving", ![b] = "leaving"] /\ UNCHANGED <<pc, stream, asked, up>>
    BY <1>13 DEF EndGame, Close
  <2>2. \A s \in tables' : s \in tables /\ a \notin {s[1], s[2]} /\ b \notin {s[1], s[2]}
    BY <1>3, <1>11, <2>1
  <2>3. SeatInv'
    BY <1>0, <1>11, <2>1, <2>2 DEF SeatInv, TypeOK
  <2>4. ASSUME NEW d \in Careful, d \in {a, b} PROVE StepInv(d)'
    <3>1. Quiet(d) /\ pc[d] = "playLoop"
      BY <1>11, <2>1, <2>4
    <3>2. Quiet(d)' /\ \A s \in tables' : ~Awaits(s, d)'
      BY <2>1, <2>2, <2>4, <3>1 DEF Quiet, Awaits
    <3> QED
      BY <2>1, <3>1, <3>2 DEF StepInv
  <2>5. ASSUME NEW d \in Careful, d \notin {a, b} PROVE StepInv(d)'
    <3>1. \A s \in tables : d \in {s[1], s[2]} => s # t /\ s \in tables' /\ game'[s] = game[s]
      BY <1>1, <1>4, <1>5, <2>1, <2>5
    <3> QED
      BY <1>0, <2>1, <2>2, <3>1, Frame
  <2> QED
    BY <2>3, <2>4, <2>5
<1> QED
  BY <1>7, <1>9, <1>10, <1>12, <1>13 DEF Game

LEMMA InvStep == ASSUME IInv, [Next]_vars PROVE IInv'
<1>1. TypeOK'
  BY TypeStep DEF IInv
<1>2. SeatInv' /\ \A d \in Careful : StepInv(d)'
  <2>1. CASE UNCHANGED vars
    <3>1. SeatInv'
      BY <2>1 DEF vars, lobbyVars, SeatInv, IInv
    <3>2. ASSUME NEW d \in Careful PROVE StepInv(d)'
      BY <2>1, <3>2, Frame DEF vars, lobbyVars, IInv
    <3> QED
      BY <3>1, <3>2
  <2>2. CASE Next
    BY <2>2, HandlerInv, TurnAwayInv, ClientInv, GameInv DEF Next
  <2> QED
    BY <2>1, <2>2
<1> QED
  BY <1>1, <1>2 DEF IInv

\* Only one table awaits a client's word.
LEMMA OneTable ==
    ASSUME TypeOK, SeatInv, NEW c \in Clients, pc[c] = "playLoop",
           NEW t \in tables, Awaits(t, c)
    PROVE  Reading(c) = Word(game[t].round)
<1>1. \A s \in tables : Awaits(s, c) => s = t
  BY DEF SeatInv, Awaits
<1> QED
  BY <1>1 DEF Reading

\* What IInv says of the streams is what InStep says.
LEMMA InvInStep == IInv => InStep
<1> SUFFICES ASSUME IInv, NEW c \in Careful
             PROVE  /\ stream[c] = <<>> \/ \E p \in Pieces : stream[c] = Line(p, Reading(c))
                    /\ up[c] => asked[c] \in {NoPrompt, Reading(c)}
  BY DEF InStep
<1>0. TypeOK /\ SeatInv /\ StepInv(c) /\ c \in Clients
  BY CarefulAssumption DEF IInv
<1>1. CASE Ready(c, Reading(c))
  BY <1>1 DEF Ready
<1>2. CASE Quiet(c)
  BY <1>2 DEF Quiet
<1>3. CASE pc[c] \in {"menu", "flow", "gameId"}
  BY <1>0, <1>1, <1>3 DEF StepInv, Reading
<1>4. CASE pc[c] = "playLoop"
  <2>1. ASSUME NEW t \in tables, Awaits(t, c) PROVE Ready(c, Reading(c))
    BY <1>0, <1>4, <2>1, OneTable DEF StepInv
  <2> QED
    BY <1>0, <1>1, <1>2, <1>4, <2>1 DEF StepInv
<1>5. CASE pc[c] = "closed"
  BY <1>0, <1>2, <1>5 DEF StepInv
<1> QED
  BY <1>0, <1>3, <1>4, <1>5 DEF TypeOK, Pcs

\* A client that answers each prompt with one line stays in step with the threads that
\* read its socket, the handler and the game in turn, whatever everybody else types.
THEOREM InStepCorrect == Spec => []InStep
BY InitInv, InvStep, InvInStep, PTL DEF Spec
-----------------------------------------------------------------------------
(* The streams and buffers implement the game of words.                    *)

\* What a player at a table has said is what is heard at this table.
SaidAre ==
    /\ \A t \in tables : \A c \in {t[1], t[2]} : Said[c] = Heard(t, c)
    /\ \A c \in Clients : (\A t \in tables : c \notin {t[1], t[2]}) => Said[c] = {}

LEMMA SaidForm == TypeOK /\ SeatInv => SaidAre
<1> SUFFICES ASSUME TypeOK, SeatInv PROVE SaidAre
  OBVIOUS
<1>1. ASSUME NEW t \in tables, NEW c \in {t[1], t[2]} PROVE Said[c] = Heard(t, c)
  <2>1. c \in Clients
    BY <1>1 DEF TypeOK
  <2>2. {s \in tables : c \in {s[1], s[2]}} = {t}
    BY <1>1, <2>1 DEF SeatInv
  <2>3. Said[c] = UNION {Heard(s, c) : s \in {t}}
    BY <2>1, <2>2 DEF Said
  <2> QED
    BY <2>3
<1>2. ASSUME NEW c \in Clients, \A t \in tables : c \notin {t[1], t[2]} PROVE Said[c] = {}
  <2>1. {s \in tables : c \in {s[1], s[2]}} = {}
    BY <1>2
  <2>2. Said[c] = UNION {Heard(s, c) : s \in {}}
    BY <2>1 DEF Said
  <2> QED
    BY <2>2
<1> QED
  BY <1>1, <1>2 DEF SaidAre

LEMMA SaidFormNext == (TypeOK /\ SeatInv => SaidAre)'
BY SaidForm, PTL

\* A step that leaves a client's tables and what is heard at them leaves what it said.
LEMMA SaidStays ==
    ASSUME IInv, IInv', NEW d \in Clients,
           \A t \in tables : d \in {t[1], t[2]} => t \in tables' /\ Heard(t, d)' = Heard(t, d),
           \A t \in tables' : d \in {t[1], t[2]} => t \in tables
    PROVE  Said'[d] = Said[d]
<1>1. SaidAre /\ SaidAre'
  BY SaidForm, SaidFormNext DEF IInv
<1>2. CASE \E t \in tables : d \in {t[1], t[2]}
  BY <1>1, <1>2 DEF SaidAre
<1>3. CASE \A t \in tables : d \notin {t[1], t[2]}
  BY <1>1, <1>3 DEF SaidAre
<1> QED
  BY <1>2, <1>3

\* What is heard of a client depends on its stream and its game.
LEMMA HeardStays ==
    ASSUME NEW d, NEW t, game'[t] = game[t], stream'[d] = stream[d] \/ d \notin Careful
    PROVE  Heard(t, d)' = Heard(t, d)
<1>1. Unread(d)' = Unread(d)
  BY DEF Unread, Text
<1> QED
  BY <1>1 DEF Heard

LEMMA SameSaid == ASSUME \A d \in Clients : Said'[d] = Said[d] PROVE Said' = Said
<1>1. Said = [d \in Clients |-> Said[d]] /\ Said' = [d \in Clients |-> Said'[d]]
  BY DEF Said
<1> QED
  BY <1>1

LEMMA OneSaid ==
    ASSUME NEW c \in Clients, \A d \in Clients \ {c} : Said'[d] = Said[d]
    PROVE  Said' = [Said EXCEPT ![c] = Said'[c]]
<1>1. Said = [d \in Clients |-> Said[d]] /\ Said' = [d \in Clients |-> Said'[d]]
  BY DEF Said
<1> QED
  BY <1>1

\* A step that leaves the games alone and touches one stream changes what its owner says
\* only.
LEMMA OwnStream ==
    ASSUME IInv, IInv', NEW c \in Clients, UNCHANGED <<tables, game>>,
           \A d \in Clients \ {c} : stream'[d] = stream[d]
    PROVE  /\ \A d \in Clients \ {c} : Said'[d] = Said[d]
           /\ c \notin Careful \/ stream'[c] = stream[c] \/ room[c] # "playing" => Said' = Said
<1>1. \A d \in Clients \ {c} : Said'[d] = Said[d]
  BY SaidStays, HeardStays
<1>2. CASE c \notin Careful \/ stream'[c] = stream[c]
  <2>1. Said'[c] = Said[c]
    BY <1>2, SaidStays, HeardStays
  <2> QED
    BY <1>1, <2>1, SameSaid
<1>3. CASE room[c] # "playing"
  <2>1. \A t \in tables : c \notin {t[1], t[2]}
    BY <1>3, NoTable DEF IInv
  <2>2. Said'[c] = Said[c]
    BY <2>1, SaidStays
  <2> QED
    BY <1>1, <2>2, SameSaid
<1> QED
  BY <1>1, <1>2, <1>3

\* The step of a handler is one outside the games, or the loss of a connection.
LEMMA HandlerGame ==
    ASSUME IInv, IInv', NEW c \in Clients, Handler(c) \/ TurnAway(c)
    PROVE  Abstract!GameNext \/ UNCHANGED Abstract!gameVars
<1>0. TypeOK /\ SeatInv
  BY DEF IInv
<1>1. CASE TurnAway(c) \/ BackToMenu(c)
  <2>1. /\ Expire(c) \/ Return(c)
        /\ UNCHANGED <<game, stream, up, tables>>
    BY <1>1 DEF TurnAway, BackToMenu, Expire, Return
  <2>2. Said' = Said
    BY <2>1, OwnStream
  <2>3. Abstract!Move(c)
    BY <2>1, <2>2 DEF Abstract!Move, Abstract!Expire, Abstract!Return, Expire, Return
  <2> QED
    BY <2>3 DEF Abstract!GameNext
<1>2. CASE Stop
  <2>1. tables' = {} /\ room' = [d \in Clients |-> "out"] /\ up' = [d \in Clients |-> FALSE]
    BY <1>2 DEF Stop
  <2>2. \A d \in Clients : Said'[d] = {}
    BY <2>1, SaidFormNext DEF SaidAre, IInv
  <2>3. Said' = [d \in Clients |-> {}]
    BY <2>2 DEF Said
  <2>4. Abstract!Stop
    BY <2>1, <2>3 DEF Abstract!Stop, Abstract!Silent
  <2> QED
    BY <2>4 DEF Abstract!GameNext
<1>3. CASE (Menu(c) \/ Flow(c) \/ GameId(c)) /\ ~Stop
  <2>1. room[c] = "out"
    BY <1>0, <1>3 DEF Menu, Flow, GameId, SeatInv
  <2>2. /\ UNCHANGED <<tables, game>>
        /\ \A d \in Clients \ {c} : stream'[d] = stream[d]
        /\ \/ Enter(c) /\ UNCHANGED up
           \/ UNCHANGED <<lobbyVars, up>>
           \/ UNCHANGED lobbyVars /\ up' = [up EXCEPT ![c] = FALSE]
    BY <1>0, <1>3 DEF Menu, Flow, GameId, Leave, Takes, TypeOK, Enter, lobbyVars
  <2>3. Said' = Said
    BY <2>1, <2>2, OwnStream
  <2>4. CASE Enter(c) /\ UNCHANGED up
    <3>1. Abstract!Move(c)
      BY <2>3, <2>4 DEF Abstract!Move, Abstract!Enter, Enter
    <3> QED
      BY <3>1 DEF Abstract!GameNext
  <2>5. CASE UNCHANGED <<lobbyVars, up>>
    BY <2>3, <2>5 DEF Abstract!gameVars, Abstract!lobbyVars, lobbyVars
  <2>6. CASE UNCHANGED lobbyVars /\ up' = [up EXCEPT ![c] = FALSE]
    <3>1. Abstract!HangUp(c)
      BY <2>3, <2>6 DEF Abstract!HangUp, Abstract!lobbyVars, lobbyVars
    <3> QED
      BY <3>1 DEF Abstract!GameNext
  <2> QED
    BY <2>2, <2>4, <2>5, <2>6
<1> QED
  BY <1>1, <1>2, <1>3 DEF Handler

\* A careful client's answer to the word it is asked for is heard at once; what others
\* type is not.
LEMMA ClientGame ==
    ASSUME IInv, IInv', NEW c \in Clients, Client(c)
    PROVE  Abstract!GameNext \/ UNCHANGED Abstract!gameVars
<1>0. TypeOK /\ SeatInv /\ SaidAre /\ SaidAre' /\ (c \in Careful => StepInv(c))
  BY SaidForm, SaidFormNext DEF IInv
<1>1. UNCHANGED <<lobbyVars, tables, room, game>> /\ \A d \in Clients \ {c} : stream'[d] = stream[d]
  BY <1>0 DEF Client, Connect, Disconnect, Reply, Type, Sends, lobbyVars, TypeOK
<1>2. CASE Connect(c)
  <2>1. room[c] = "out" /\ up' = [up EXCEPT ![c] = TRUE] /\ stream' = stream
    BY <1>0, <1>2 DEF Connect, SeatInv
  <2>2. Said' = Said
    BY <1>1, <2>1, OwnStream
  <2>3. Abstract!Connect(c)
    BY <1>1, <2>1, <2>2 DEF Abstract!Connect, Abstract!lobbyVars
  <2> QED
    BY <2>3 DEF Abstract!GameNext
<1>3. CASE Disconnect(c)
  <2>1. Said'[c] \in {Said[c], {}}
    <3>1. CASE \A t \in tables : c \notin {t[1], t[2]}
      BY <1>0, <1>1, <3>1 DEF SaidAre
    <3>2. ASSUME NEW t \in tables, c \in {t[1], t[2]} PROVE Said'[c] \in {Said[c], {}}
      <4>0. stream'[c] = stream[c] \/ stream'[c] = <<>>
        BY <1>0, <1>3 DEF Disconnect, TypeOK
      <4>1. Unread(c)' \in {Unread(c), {}}
        BY <4>0 DEF Unread, Text
      <4>2. Heard(t, c)' \in {Heard(t, c), {}}
        BY <1>1, <4>1 DEF Heard
      <4> QED
        BY <1>0, <1>1, <3>2, <4>2 DEF SaidAre
    <3> QED
      BY <3>1, <3>2
  <2>2. Said' = [Said EXCEPT ![c] = Said'[c]]
    BY <1>1, OwnStream, OneSaid
  <2>3. Said' \in {Said, [Said EXCEPT ![c] = {}]}
    <3>1. CASE Said'[c] = Said[c]
      <4>1. Said = [d \in Clients |-> Said[d]]
        BY DEF Said
      <4> QED
        BY <2>2, <3>1, <4>1
    <3>2. CASE Said'[c] = {}
      BY <2>2, <3>2
    <3> QED
      BY <2>1, <3>1, <3>2
  <2>4. Abstract!HangUp(c)
    BY <1>1, <1>3, <2>3 DEF Disconnect, Abstract!HangUp, Abstract!lobbyVars
  <2> QED
    BY <2>4 DEF Abstract!GameNext
<1>4. CASE Reply(c) /\ ~\E t \in tables : c \in {t[1], t[2]}
  <2>1. UNCHANGED up
    BY <1>4 DEF Reply, Sends
  <2>2. Said'[c] = Said[c]
    BY <1>0, <1>1, <1>4 DEF SaidAre
  <2>3. Said' = Said
    BY <1>1, <2>2, OwnStream, SameSaid
  <2> QED
    BY <1>1, <2>1, <2>3 DEF Abstract!gameVars, Abstract!lobbyVars
<1>5. ASSUME Reply(c), NEW t \in tables, c \in {t[1], t[2]} PROVE Abstract!Say(c)
  <2>1. PICK p \in Pieces : Sends(c, <<p, Newline>>, asked[c])
    BY <1>5, PiecesAssumption DEF Reply
  <2>2. c \in Careful /\ up[c] /\ up' = up /\ asked[c] # NoPrompt /\ ~Quiet(c)
    BY <1>5, <2>1 DEF Reply, Sends, Quiet
  <2>3. pc[c] = "playLoop"
    BY <1>0, <1>5 DEF SeatInv
  <2>4. Awaits(t, c) /\ stream[c] = <<>>
    <3>1. PICK s \in tables : Awaits(s, c) /\ Ready(c, Word(game[s].round))
      BY <1>0, <2>2, <2>3 DEF StepInv
    <3>2. s = t
      BY <1>0, <1>5, <3>1 DEF SeatInv, Awaits
    <3> QED
      BY <2>2, <3>1, <3>2 DEF Ready
  <2>5. stream'[c] # <<>>
    <3>1. stream'[c] = <<>> \o [i \in DOMAIN <<p, Newline>> |-> [piece |-> <<p, Newline>>[i], to |-> asked[c]]]
      BY <1>0, <2>1, <2>4 DEF Sends, TypeOK
    <3>2. <<>> \o [i \in DOMAIN <<p, Newline>> |-> [piece |-> <<p, Newline>>[i], to |-> asked[c]]] # <<>>
      OBVIOUS
    <3> QED
      BY <3>1, <3>2
  <2>6. Unread(c) = {} /\ \E v : v.ok /\ Unread(c)' = {v}
    <3> DEFINE v == [ok |-> TRUE, text |-> Text(stream'[c])]
    <3>1. v.ok /\ Unread(c)' = {v}
      BY <2>2, <2>5 DEF Unread, Text
    <3> HIDE DEF v
    <3> QED
      BY <2>4, <3>1 DEF Unread
  <2>7. Heard(t, c) = Unread(c) /\ Heard(t, c)' = Unread(c)'
    <3>1. t \in Clients \X Clients /\ GameOK /\ game[t] \in Rounds
      BY <1>0, GameTypeOK DEF GameOK, TypeOK
    <3>2. Len(game[t].got) < (IF c = t[1] THEN 1 ELSE 2) /\ game' = game
      <4>1. CASE c = t[1]
        <5>1. c # t[2] /\ game[t].got = <<>>
          BY <1>0, <2>4, <4>1 DEF Awaits, SeatInv
        <5>2. Len(game[t].got) = 0
          BY <5>1
        <5> QED
          BY <1>1, <4>1, <5>2
      <4>2. CASE c # t[1]
        BY <1>1, <2>4, <4>2 DEF Awaits
      <4> QED
        BY <4>1, <4>2
    <3> QED
      BY <3>2 DEF Heard
  <2>8. Said[c] = {} /\ \E v : v.ok /\ Said'[c] = {v}
    BY <1>0, <1>1, <1>5, <2>6, <2>7 DEF SaidAre
  <2>9. Said' = [Said EXCEPT ![c] = Said'[c]]
    BY <1>1, OwnStream, OneSaid
  <2> QED
    BY <1>1, <1>5, <2>2, <2>8, <2>9 DEF Abstract!Say, Abstract!lobbyVars
<1>6. CASE Type(c)
  <2>1. c \notin Careful /\ UNCHANGED up
    BY <1>6 DEF Type, Sends
  <2>2. Said' = Said
    BY <1>1, <2>1, OwnStream
  <2> QED
    BY <1>1, <2>1, <2>2 DEF Abstract!gameVars, Abstract!lobbyVars
<1> QED
  BY <1>2, <1>3, <1>4, <1>5, <1>6 DEF Client, Abstract!GameNext

\* A recv on the socket of a careful client takes nothing, because it is lost, or all it
\* has sent.
LEMMA RecvWhole ==
    ASSUME TypeOK, NEW c \in Careful, NEW r, Ready(c, r), NEW n \in Arrived(c)
    PROVE  \/ n = 0 /\ stream[c] = <<>>
           \/ n # 0 /\ stream[c] # <<>> /\ SubSeq(stream[c], 1, n) = stream[c]
<1>1. CASE stream[c] = <<>>
  BY <1>1 DEF Arrived
<1>2. CASE stream[c] # <<>>
  <2>1. PICK p \in Pieces : stream[c] = Line(p, r)
    BY <1>2 DEF Ready
  <2>2. Len(Line(p, r)) = 2 /\ Line(p, r)[1].piece = p
    BY DEF Line
  <2>3. n \in 1..2 /\ stream[c][n].piece = Newline
    BY <1>2, <2>1, <2>2 DEF Arrived
  <2>4. n = 2
    BY <2>1, <2>2, <2>3, PiecesAssumption
  <2>5. stream[c] \in Seq(Tokens)
    BY CarefulAssumption DEF TypeOK, Tokens
  <2> QED
    BY <1>2, <2>1, <2>2, <2>4, <2>5, SubSeqFull
<1> QED
  BY <1>1, <1>2

\* What a recv yields is what the player had said, or makes it say something.
LEMMA RecvSays ==
    ASSUME IInv, IInv', NEW a \in Clients, NEW b \in Clients, <<a, b>> \in tables,
           NEW c \in {a, b}, NEW n \in Arrived(c), Receive(a, b, c, n),
           Len(game[<<a, b>>].got) = IF c = a THEN 0 ELSE 1
    PROVE  Abstract!Say(c) \/ UNCHANGED Abstract!gameVars
<1> DEFINE t == <<a, b>>
           got == game[t].got
           v == Input(c, n)
<1>0. TypeOK /\ SeatInv /\ SaidAre /\ SaidAre' /\ c \in Clients
  BY SaidForm, SaidFormNext DEF IInv
<1>1. t \in Clients \X Clients /\ t[1] = a /\ t[2] = b /\ a # b /\ GameOK /\ game[t] \in Rounds
  BY <1>0, GameTypeOK DEF GameOK, SeatInv
<1>2. UNCHANGED <<lobbyVars, tables, room, up>> /\ Takes(c, n)
  BY DEF Receive, lobbyVars
<1>3. v \in Inputs /\ got \in Seq(Inputs)
  BY <1>0, <1>1, RecvTypes DEF Rounds
<1>4. game'[t].got = Append(got, v)
  BY <1>1 DEF Receive, GameOK, Rounds
<1>5. \A s \in tables : s # t => game'[s] = game[s]
  BY <1>0, <1>1 DEF Receive, GameOK, TypeOK
<1>6. \A d \in Clients \ {c} : stream'[d] = stream[d]
  BY <1>0, <1>2 DEF Takes, TypeOK
<1> HIDE DEF v, got
<1>7. /\ \A i \in 1..Len(got) : game'[t].got[i] = got[i]
      /\ Len(game'[t].got) = Len(got) + 1 /\ game'[t].got[Len(got) + 1] = v
      /\ Len(got) = IF c = a THEN 0 ELSE 1
  BY <1>3, <1>4 DEF got
<1>8. Said[c] = Unread(c) /\ Said'[c] = {v}
  <2>1. Heard(t, c) = Unread(c)
    BY <1>1, <1>7 DEF Heard, got
  <2>2. Heard(t, c)' = {v}
    BY <1>1, <1>7 DEF Heard
  <2> QED
    BY <1>0, <1>1, <1>2, <2>1, <2>2 DEF SaidAre
<1>9. ASSUME NEW d \in Clients \ {c} PROVE Said'[d] = Said[d]
  <2>1. ASSUME NEW s \in tables, s # t PROVE Heard(s, d)' = Heard(s, d)
    BY <1>5, <1>6, <2>1, HeardStays
  <2>2. ASSUME d \in {a, b} PROVE Heard(t, d)' = Heard(t, d)
    <3>1. Unread(d)' = Unread(d)
      BY <1>6 DEF Unread, Text
    <3>2. CASE c = a
      BY <1>1, <1>7, <1>9, <2>2, <3>1, <3>2 DEF Heard, got
    <3>3. CASE c = b
      <4>1. d = t[1] /\ Len(got) = 1 /\ 1 \in 1..Len(got)
        BY <1>1, <1>7, <1>9, <2>2, <3>3
      <4>2. Heard(t, d) = {got[1]}
        BY <4>1 DEF Heard, got
      <4>3. Heard(t, d)' = {game'[t].got[1]}
        BY <1>7, <4>1 DEF Heard
      <4> QED
        BY <1>7, <4>1, <4>2, <4>3
    <3> QED
      BY <3>2, <3>3
  <2>3. \A s \in tables : d \in {s[1], s[2]} => s \in tables' /\ Heard(s, d)' = Heard(s, d)
    BY <1>1, <1>2, <2>1, <2>2
  <2>4. \A s \in tables' : d \in {s[1], s[2]} => s \in tables
    BY <1>2
  <2> QED
    BY <2>3, <2>4, SaidStays
<1>10. Said' = [Said EXCEPT ![c] = {v}]
  BY <1>0, <1>8, <1>9, OneSaid
<1>11. v.ok = (n # 0) /\ v.text = Text(SubSeq(stream[c], 1, n))
  BY DEF v, Input
<1>12. n = 0 => ~up[c]
  <2>1. CASE stream[c] = <<>>
    BY <2>1 DEF Arrived
  <2>2. CASE stream[c] # <<>>
    <3>1. 0 \notin 1..Len(stream[c])
      OBVIOUS
    <3> QED
      BY <2>2, <3>1 DEF Arrived
  <2> QED
    BY <2>1, <2>2
<1>13. CASE c \in Careful /\ n # 0
  <2>1. Awaits(t, c)
    <3>1. CASE c = a
      BY <1>1, <1>3, <1>7, <3>1 DEF Awaits, got
    <3>2. CASE c = b
      BY <1>1, <1>7, <3>2 DEF Awaits, got
    <3> QED
      BY <3>1, <3>2
  <2>2. Ready(c, Word(game[t].round))
    BY <1>0, <1>1, <1>13, <2>1 DEF IInv, StepInv, SeatInv
  <2>3. stream[c] # <<>> /\ SubSeq(stream[c], 1, n) = stream[c]
    BY <1>0, <1>13, <2>2, RecvWhole
  <2>4. v = [ok |-> TRUE, text |-> Text(stream[c])]
    BY <1>13, <2>3 DEF v, Input
  <2>5. Said[c] = {v}
    BY <1>8, <1>13, <2>3, <2>4 DEF Unread
  <2>6. Said' = Said
    BY <1>8, <1>9, <2>5, SameSaid
  <2> QED
    BY <1>2, <2>6 DEF Abstract!gameVars, Abstract!lobbyVars
<1>14. CASE c \notin Careful \/ n = 0
  <2>1. Unread(c) = {}
    <3>1. CASE c \notin Careful
      BY <3>1 DEF Unread
    <3>2. CASE n = 0
      <4>1. stream[c] = <<>>
        <5>1. 0 \notin 1..Len(stream[c])
          OBVIOUS
        <5> QED
          BY <3>2, <5>1 DEF Arrived
      <4> QED
        BY <4>1 DEF Unread
    <3> QED
      BY <1>14, <3>1, <3>2
  <2>2. IF v.ok THEN c \in Careful => up[c] ELSE ~up[c]
    BY <1>11, <1>12, <1>14
  <2>3. \E s \in tables : c \in {s[1], s[2]}
    BY <1>1
  <2>4. Said[c] = {} /\ \E w \in Said'[c] :
            /\ Said' = [Said EXCEPT ![c] = {w}]
            /\ IF w.ok THEN c \in Careful => up[c] ELSE ~up[c]
    BY <1>8, <1>10, <2>1, <2>2
  <2>5. Abstract!Say(c)
    BY <1>2, <2>3, <2>4 DEF Abstract!Say, Abstract!lobbyVars
  <2> QED
    BY <2>5
<1> QED
  BY <1>13, <1>14

\* The steps of a game: nothing said before counts in it, every round judges what its
\* two players said.
LEMMA GameGame ==
    ASSUME IInv, IInv', NEW a \in Clients, NEW b \in Clients, Seat(a, b) \/ Game(a, b)
    PROVE  Abstract!GameNext \/ UNCHANGED Abstract!gameVars
<1> DEFINE t == <<a, b>>
<1>0. TypeOK /\ SeatInv /\ SaidAre /\ SaidAre'
  BY SaidForm, SaidFormNext DEF IInv
<1>1. t \in Clients \X Clients /\ t[1] = a /\ t[2] = b /\ GameOK /\ game[t] \in Rounds
  BY <1>0, GameTypeOK DEF GameOK
<1>2. ASSUME NEW d \in Clients, d \in Careful, pc[d] = "playLoop", \A s \in tables : ~Awaits(s, d)
      PROVE  stream[d] = <<>>
  BY <1>2 DEF IInv, StepInv, Quiet
<1>3. ASSUME NEW v, game' = [game EXCEPT ![t] = v]
      PROVE  game'[t] = v /\ \A s \in tables : s # t => game'[s] = game[s]
  BY <1>0, <1>1, <1>3 DEF GameOK, TypeOK
<1>4. CASE Seat(a, b)
  <2>1. /\ a # b /\ room[a] = "queued" /\ room[b] = "queued" /\ tables' = tables \cup {t}
        /\ game' = [game EXCEPT ![t] = FirstRound] /\ UNCHANGED <<stream, up>>
    BY <1>4 DEF Seat, Pair
  <2>2. \A s \in tables : a \notin {s[1], s[2]} /\ b \notin {s[1], s[2]}
    BY <1>0, <2>1, NoTable
  <2>3. game'[t] = FirstRound /\ t \notin tables /\ \A s \in tables : game'[s] = game[s]
    BY <1>1, <1>3, <2>1, <2>2
  <2>4. ASSUME NEW d \in {a, b} PROVE Said[d] = {} /\ Said'[d] = {}
    <3>1. Said[d] = {}
      BY <1>0, <2>2 DEF SaidAre
    <3>2. Unread(d)' = {}
      BY <1>0, <1>2, <2>1, <2>2 DEF SeatInv, Awaits, Unread
    <3>3. Len(game'[t].got) = 0
      BY <2>3 DEF FirstRound
    <3>4. Heard(t, d)' = {}
      BY <3>2, <3>3 DEF Heard
    <3> QED
      BY <1>0, <1>1, <2>1, <3>1, <3>4 DEF SaidAre
  <2>5. ASSUME NEW d \in Clients, d \notin {a, b} PROVE Said'[d] = Said[d]
    <3>1. \A s \in tables : Heard(s, d)' = Heard(s, d)
      BY <2>1, <2>3, HeardStays
    <3> QED
      BY <1>1, <2>1, <2>5, <3>1, SaidStays
  <2>6. Said' = Said
    BY <2>4, <2>5, SameSaid
  <2>7. Abstract!Seat(a, b)
    BY <1>4, <2>1, <2>4, <2>6 DEF Seat, Pair, Abstract!Seat, Abstract!Pair
  <2> QED
    BY <2>7 DEF Abstract!GameNext
<1>5. CASE Recv1(a, b)
  <2>1. PICK n \in Arrived(a) : Receive(a, b, a, n)
    BY <1>5 DEF Recv1
  <2>2. t \in tables /\ game[t].got = <<>>
    BY <1>5 DEF Recv1
  <2>3. Len(game[t].got) = 0
    BY <2>2
  <2>4. Abstract!Say(a) \/ UNCHANGED Abstract!gameVars
    BY <2>1, <2>2, <2>3, RecvSays
  <2> QED
    BY <2>4 DEF Abstract!GameNext
<1>6. CASE Recv2(a, b)
  <2>1. PICK n \in Arrived(b) : Receive(a, b, b, n)
    BY <1>6 DEF Recv2
  <2>2. t \in tables /\ Len(game[t].got) = 1 /\ a # b
    BY <1>0, <1>1, <1>6 DEF Recv2, SeatInv
  <2>3. Abstract!Say(b) \/ UNCHANGED Abstract!gameVars
    BY <2>1, <2>2, RecvSays
  <2> QED
    BY <2>3 DEF Abstract!GameNext
<1>7. CASE NextRound(a, b) \/ EndGame(a, b)
  <2> DEFINE got == game[t].got
  <2>1. /\ t \in tables /\ Len(got) = 2 /\ a # b /\ UNCHANGED <<stream, up>>
        /\ tables' \in {tables, tables \ {t}}
        /\ \E k : game' = [game EXCEPT ![t] = [round |-> k, got |-> <<>>]]
    BY <1>0, <1>1, <1>7 DEF NextRound, EndGame, Judged, SeatInv, lobbyVars, Close, FirstRound
  <2>2. got # <<>>
    <3>1. \A q : q = <<>> => Len(q) = 0
      OBVIOUS
    <3>2. 0 # 2
      OBVIOUS
    <3> QED
      BY <2>1, <3>1, <3>2
  <2>3. Said[a] = {got[1]} /\ Said[b] = {got[2]}
    <3>1. Heard(t, a) = {got[1]} /\ Heard(t, b) = {got[2]}
      BY <1>1, <2>1 DEF Heard
    <3> QED
      BY <1>0, <1>1, <2>1, <3>1 DEF SaidAre
  <2>4. ASSUME NEW d \in {a, b} PROVE Said'[d] = {}
    <3>1. pc[d] = "playLoop" /\ \A s \in tables : s # t => d \notin {s[1], s[2]}
      BY <1>0, <1>1, <2>1 DEF SeatInv
    <3>2. \A s \in tables : ~Awaits(s, d)
      BY <1>1, <2>1, <2>2, <3>1 DEF Awaits
    <3>3. Unread(d)' = {}
      BY <1>2, <2>1, <3>1, <3>2 DEF Unread
    <3>4. CASE t \in tables'
      <4>1. game'[t].got = <<>>
        <5>1. PICK k : game' = [game EXCEPT ![t] = [round |-> k, got |-> <<>>]]
          BY <2>1
        <5>2. game'[t] = [round |-> k, got |-> <<>>]
          BY <1>3, <5>1
        <5> QED
          BY <5>2
      <4>2. Len(game'[t].got) = 0
        BY <4>1
      <4>3. Heard(t, d)' = {}
        BY <3>3, <4>2 DEF Heard
      <4> QED
        BY <1>0, <1>1, <3>4, <4>3 DEF SaidAre
    <3>5. CASE t \notin tables'
      <4>1. \A s \in tables' : d \notin {s[1], s[2]}
        BY <2>1, <3>1, <3>5
      <4> QED
        BY <1>0, <4>1 DEF SaidAre
    <3> QED
      BY <3>4, <3>5
  <2>5. ASSUME NEW d \in Clients, d \notin {a, b} PROVE Said'[d] = Said[d]
    <3>1. \A s \in tables : s # t => Heard(s, d)' = Heard(s, d)
      BY <1>3, <2>1, HeardStays
    <3>2. \A s \in tables : d \in {s[1], s[2]} => s \in tables' /\ Heard(s, d)' = Heard(s, d)
      BY <1>1, <2>1, <2>5, <3>1
    <3>3. \A s \in tables' : d \in {s[1], s[2]} => s \in tables
      BY <2>1
    <3> QED
      BY <3>2, <3>3, SaidStays
  <2>6. Said' = [Said EXCEPT ![a] = {}, ![b] = {}]
    <3>1. Said = [d \in Clients |-> Said[d]] /\ Said' = [d \in Clients |-> Said'[d]]
      BY DEF Said
    <3> QED
      BY <2>1, <2>4, <2>5, <3>1
  <2>7. CASE NextRound(a, b)
    <3>1. got[1].ok /\ got[2].ok /\ got[1].text # got[2].text /\ UNCHANGED lobbyVars
      BY <2>7 DEF NextRound, Lost, Match
    <3>2. Abstract!Continue(a, b)
      BY <2>1, <2>3, <2>6, <3>1 DEF Abstract!Continue, Abstract!Judged, Abstract!lobbyVars, lobbyVars
    <3> QED
      BY <3>2 DEF Abstract!GameNext
  <2>8. CASE EndGame(a, b)
    <3>1. (got[1].ok /\ got[2].ok => got[1].text = got[2].text) /\ Close(a, b)
      BY <2>8 DEF EndGame, Lost, Match
    <3>2. Abstract!Finish(a, b)
      BY <2>1, <2>3, <2>6, <3>1 DEF Abstract!Finish, Abstract!Judged, Abstract!Close, Close
    <3> QED
      BY <3>2 DEF Abstract!GameNext
  <2> QED
    BY <1>7, <2>7, <2>8
<1> QED
  BY <1>4, <1>5, <1>6, <1>7 DEF Game

\* For any number of clients, careful or not: every round of every game judges what its
\* two players said in it, each word of a careful client is judged once, in the round
\* it was typed for, or is lost with its connection.
THEOREM SessionImplementsWordGame == Spec => WordGameSpec
<1>1. Init => Abstract!GameInit
  <2> SUFFICES ASSUME Init PROVE Abstract!GameInit
    OBVIOUS
  <2>1. Said = [c \in Clients |-> {}]
    BY DEF Init, LobbyInit, Said
  <2> QED
    BY <2>1 DEF Init, LobbyInit, Abstract!GameInit, Abstract!LobbyInit, Abstract!Silent
<1>2. IInv /\ IInv' /\ [Next]_vars => [Abstract!GameNext]_(Abstract!gameVars)
  <2> SUFFICES ASSUME IInv, IInv', [Next]_vars
               PROVE  Abstract!GameNext \/ UNCHANGED Abstract!gameVars
    OBVIOUS
  <2>1. CASE UNCHANGED vars
    <3>1. UNCHANGED <<lobbyVars, up>> /\ \A d \in Clients : Said'[d] = Said[d]
      BY <2>1, SaidStays, HeardStays DEF vars, lobbyVars
    <3> QED
      BY <3>1, SameSaid DEF Abstract!gameVars, Abstract!lobbyVars, lobbyVars
  <2> QED
    BY <2>1, HandlerGame, ClientGame, GameGame DEF Next
<1> QED
  BY <1>1, <1>2, InitInv, InvStep, PTL DEF Spec, WordGameSpec, Abstract!WordGameSpec
=============================================================================
