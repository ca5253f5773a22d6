--------------------------- MODULE AccountsProps ----------------------------
(* The properties of Accounts.                                             *)
EXTENDS Accounts

\* Every variable has its type.
TypeOK ==
    /\ DOMAIN users \subseteq Names
    /\ \A n \in DOMAIN users :
        users[n] \in [hash : Passwords \X (1..MaxRuns), salt : 1..MaxRuns]
    /\ salt \in 1..MaxRuns
    /\ loggedInUsers \subseteq Names
    /\ pc \in [Clients -> HandlerPcs]
    /\ uname \in [Clients -> Names]
    /\ pass \in [Clients -> Passwords]
    /\ discarded \in [Clients -> BOOLEAN]
    /\ up \in [Clients -> BOOLEAN]
    /\ registered \subseteq Names \X Passwords
    /\ raced \subseteq Names

\* Whoever was told "Registration successful!" can log in with the password it typed,
\* in this run of the program and in later ones, whatever others register: addUser
\* never replaces a row, and a login hashes with the salt of the row.
PasswordsHold == \A r \in registered : isValidUser(r[1], r[2])

\* A handler past the password prompt knows the name and the password somebody
\* registered together: no retry, restart or failed statement mixes up two attempts.
Authentic ==
    \A c \in Clients :
        pc[c] \in {"welcome", "menu"} => <<uname[c], pass[c]>> \in registered

\* A name in loggedInUsers is that of a handler at the main menu: no account stays
\* locked ("User is already logged in") after its last client has gone.
NoGhostLogin ==
    \A n \in loggedInUsers : \E c \in Clients : pc[c] = "menu" /\ uname[c] = n

\* loggedInUsers keeps a second client out of an account, but for one race: a name has
\* two handlers at the main menu, or one there that loggedInUsers does not know, only
\* if a handler entered while another was between its look and its own entry, and only
\* until all the handlers of that name have left.
NameLockHolds ==
    \A n \in Names \ raced :
        /\ \A c, d \in AtMenu(n) : c = d
        /\ AtMenu(n) # {} => n \in loggedInUsers

\* While a name outside the race has a handler at the main menu, nobody is entering.
NoneEntering == \A n \in Names \ raced : AtMenu(n) = {} \/ Entering(n) = {}

\* Every row of the users table was written by one registration.
RowsRegistered ==
    \A n \in DOMAIN users : \E p \in Passwords :
        <<n, p>> \in registered /\ users[n].hash = hashPassword(p, users[n].salt)

IInv == TypeOK /\ PasswordsHold /\ RowsRegistered /\ Authentic /\ NoGhostLogin
        /\ NameLockHolds /\ NoneEntering

\* The accounts are a registry: what the database accepts is what was registered, and
\* a client is inside under a registered pair or not at all.
Abstract == INSTANCE Registry WITH
    registered <- {r \in Names \X Passwords : isValidUser(r[1], r[2])},
    inside <- [c \in Clients |-> IF pc[c] = "menu" THEN <<uname[c], pass[c]>> ELSE <<>>]

RegistrySpec == Abstract!RegistrySpec
-----------------------------------------------------------------------------
(* What the program claims and does not keep.                              *)

\* "User is already logged in": nobody enters the main menu under a name that is
\* there already.
SingleLogin ==
    \A c, d \in Clients :
        pc[c] = "menu" /\ pc[d] = "menu" /\ uname[c] = uname[d] => c = d

\* "Follow the on-screen prompts to log in or register, and then join a game": a
\* client that is told "Login successful!" and stays gets to the main menu.
LoginLeadsToMenu ==
    [][\A c \in Clients :
        pc[c] = "welcome" /\ pc'[c] = "closed" => ~up[c] \/ uname[c] = Empty \/ salt' # salt]_vars

\* "Close the client socket after disconnect": the handler of a connection that is
\* lost ends.
DisconnectEnds == \A c \in Clients : ~up[c] ~> pc[c] = "closed"
-----------------------------------------------------------------------------
\* The operating system runs every handler; nobody has to type.
Fairness == \A c \in Clients : WF_vars((~up[c] \/ pc[c] \in {"validate", "welcome"}) /\ Handler(c))

FairSpec == Spec /\ Fairness

\* A connection lost while logging in is let go.  (Registering, it may not be.)
LoginEnds == \A c \in Clients : (~up[c] /\ pc[c] \in LoginPcs) ~> pc[c] = "closed"
=============================================================================
