------------------------------ MODULE Accounts ------------------------------
(***************************************************************************)
(* Logging in and registering: the part of a connection's handler that     *)
(* comes before the main menu (handleClient in src/src/Server.cpp,         *)
(* loginUser and registerUser in src/src/Services/UserService.cpp), the    *)
(* users table behind it (src/src/DAOs/UserDAO.cpp) and loggedInUsers.     *)
(* The handlers run concurrently; each step below is at most one critical  *)
(* section of userDaoMutex or loggedInUserMutex.                           *)
(*                                                                         *)
(* prompting ignores the result of recv: a lost connection answers every   *)
(* prompt with the empty text.  A statement of the database may fail, and  *)
(* the program may stop at any step and be started again.                  *)
(***************************************************************************)
EXTENDS Naturals, Functions

CONSTANTS
    Clients,    \* connections
    Names,      \* what a client may type at a prompt for a name
    Passwords,  \* what a client may type at a prompt for a password
    Empty,      \* the empty text
    MaxRuns     \* bound: how often the program is started

ASSUME EmptyAssumption == Empty \in Names /\ Empty \in Passwords
ASSUME RunsAssumption == MaxRuns \in Nat \ {0}

VARIABLES
    users,          \* the users table: name -> stored hash and salt
    salt,           \* the salt of this run of the program, drawn when it starts
    loggedInUsers,  \* names, guarded by loggedInUserMutex
    pc,             \* the prompt each handler is at
    uname,          \* its local username; Empty while it has none
    pass,           \* its local password; Empty while it has none
    discarded,      \* inside the registerUser call whose result loginUser drops
    up,             \* does recv on the socket still deliver?
    registered,     \* history: who was told "Registration successful!"
    raced           \* history: names that got to the main menu while another handler
                    \* had looked at loggedInUsers under the name and not entered yet

locals == <<uname, pass, discarded>>
names == <<loggedInUsers, raced>>
vars == <<users, salt, names, pc, locals, up, registered>>

\* The yes/no prompts and where either answer leads.  Anything but yes is a no.
YesTo == [offerRegister |-> "regName", offerRetry |-> "loginName", alreadyIn |-> "loginName",
          badPassword |-> "loginName", regExists |-> "loginName", regDone |-> "loginName"]
\* Mutant of NoTo: no more than a yes ends the retries.
NoToRetries == [offerRegister |-> "offerRetry", offerRetry |-> "closed", alreadyIn |-> "closed",
                badPassword |-> "loginName", regExists |-> "regName", regDone |-> "closed"]

NoTo == [offerRegister |-> "offerRetry", offerRetry |-> "closed", alreadyIn |-> "closed",
         badPassword |-> "closed", regExists |-> "regName", regDone |-> "closed"]

Questions == DOMAIN YesTo
LoginPcs == {"loginName", "loginPassword", "validate", "welcome",
             "offerRegister", "offerRetry", "alreadyIn", "badPassword"}
RegisterPcs == {"regName", "regPassword", "regExists", "regDone"}
HandlerPcs == LoginPcs \cup RegisterPcs \cup {"closed", "operation", "menu"}

\* Mutant of hashPassword: the salt is left out.
hashPasswordUnsalted(p, s) == p

\* SHA-256 of the password followed by a salt of fixed length.
hashPassword(p, s) == <<p, s>>

Fresh == [c \in Clients |-> Empty]

Init ==
    /\ users = [n \in {} |-> Empty]
    /\ salt = 1
    /\ loggedInUsers = {}
    /\ pc = [c \in Clients |-> "closed"]
    /\ uname = Fresh /\ pass = Fresh
    /\ discarded = [c \in Clients |-> FALSE]
    /\ up = [c \in Clients |-> FALSE]
    /\ registered = {} /\ raced = {}
-----------------------------------------------------------------------------
Goto(c, to) == pc' = [pc EXCEPT ![c] = to]

\* closesocket: the handler ends.
Close(c) ==
    /\ Goto(c, "closed")
    /\ uname' = [uname EXCEPT ![c] = Empty] /\ pass' = [pass EXCEPT ![c] = Empty]
    /\ discarded' = [discarded EXCEPT ![c] = FALSE]
    /\ up' = [up EXCEPT ![c] = FALSE]

\* What prompting can return.
Typed(c, texts) == IF up[c] THEN texts ELSE {Empty}

\* "login", "register", or anything else.
Operation(c) ==
    /\ pc[c] = "operation"
    /\ \/ up[c] /\ \E to \in {"loginName", "regName"} : Goto(c, to) /\ UNCHANGED <<locals, up>>
       \/ Close(c)
    /\ UNCHANGED <<users, salt, names, registered>>

\* userExists: a statement that cannot be prepared finds nobody.
Seen(n, ok) == ok /\ n \in DOMAIN users

LoginName(c) ==
    /\ pc[c] = "loginName"
    /\ \E n \in Typed(c, Names), ok \in BOOLEAN :
        /\ uname' = [uname EXCEPT ![c] = n]
        /\ Goto(c, IF Seen(n, ok) THEN "loginPassword" ELSE "offerRegister")
    /\ UNCHANGED <<users, salt, names, pass, discarded, up, registered>>

\* The answer to a yes/no prompt.  A yes to the offer to register calls registerUser
\* and drops its result; no answer to the others changes more than the prompt.
Answer(c) ==
    /\ pc[c] \in Questions
    /\ \/ /\ up[c] /\ Goto(c, YesTo[pc[c]])
          /\ discarded' = [discarded EXCEPT ![c] = @ \/ pc[c] = "offerRegister"]
          /\ uname' = [uname EXCEPT ![c] = Empty] /\ pass' = [pass EXCEPT ![c] = Empty]
          /\ UNCHANGED up
       \/ /\ NoTo[pc[c]] # "closed" /\ Goto(c, NoTo[pc[c]])
          /\ uname' = [uname EXCEPT ![c] = Empty]
          /\ UNCHANGED <<pass, discarded, up>>
       \/ NoTo[pc[c]] = "closed" /\ Close(c)
    /\ UNCHANGED <<users, salt, names, registered>>

\* Mutant of LoginPassword: loggedInUsers is not looked at.
LoginPasswordUnlocked(c) ==
    /\ pc[c] = "loginPassword"
    /\ \E p \in Typed(c, Passwords) : pass' = [pass EXCEPT ![c] = p]
    /\ Goto(c, "validate")
    /\ UNCHANGED <<users, salt, names, uname, discarded, up, registered>>

\* The password is read and then loggedInUsers looked at, once.
LoginPassword(c) ==
    /\ pc[c] = "loginPassword"
    /\ \E p \in Typed(c, Passwords) : pass' = [pass EXCEPT ![c] = p]
    /\ Goto(c, IF uname[c] \in loggedInUsers THEN "alreadyIn" ELSE "validate")
    /\ UNCHANGED <<users, salt, names, uname, discarded, up, registered>>

\* Mutant of isValidUser: the row is not looked up by name.
isValidForSomebody(n, p) ==
    n \in DOMAIN users /\ \E m \in DOMAIN users : users[m].hash = hashPassword(p, users[m].salt)

\* isValidUser: the password hashed with the stored salt is the stored hash.
isValidUser(n, p) == n \in DOMAIN users /\ users[n].hash = hashPassword(p, users[n].salt)

Validate(c) ==
    /\ pc[c] = "validate"
    /\ \E ok \in BOOLEAN :
        Goto(c, IF ok /\ isValidUser(uname[c], pass[c]) THEN "welcome" ELSE "badPassword")
    /\ UNCHANGED <<users, salt, names, locals, up, registered>>

\* The handlers at the main menu under n, and those on their way there past the look.
AtMenu(n) == {c \in Clients : pc[c] = "menu" /\ uname[c] = n}
Entering(n) == {c \in Clients : pc[c] \in {"validate", "welcome"} /\ uname[c] = n /\ ~discarded[c]}

\* "Login successful!", a pause, and back in handleClient.
Welcome(c) ==
    /\ pc[c] = "welcome"
    /\ \/ /\ discarded[c] \/ uname[c] = Empty
          /\ Close(c)
          /\ UNCHANGED names
       \/ /\ ~discarded[c] /\ uname[c] # Empty
          /\ loggedInUsers' = loggedInUsers \cup {uname[c]}
          /\ raced' = IF Entering(uname[c]) = {c} THEN raced ELSE raced \cup {uname[c]}
          /\ Goto(c, "menu")
          /\ UNCHANGED <<locals, up>>
    /\ UNCHANGED <<users, salt, registered>>

RegName(c) ==
    /\ pc[c] = "regName"
    /\ \E n \in Typed(c, Names), ok \in BOOLEAN :
        /\ uname' = [uname EXCEPT ![c] = n]
        /\ Goto(c, IF Seen(n, ok) THEN "regExists" ELSE "regPassword")
    /\ UNCHANGED <<users, salt, names, pass, discarded, up, registered>>

\* Mutant of RegPassword: addUser replaces the row.
RegPasswordReplaces(c) ==
    /\ pc[c] = "regPassword"
    /\ \E p \in Typed(c, Passwords) :
        /\ users' = [n \in DOMAIN users \cup {uname[c]} |->
                         IF n = uname[c] THEN [hash |-> hashPassword(p, salt), salt |-> salt]
                         ELSE users[n]]
        /\ registered' = registered \cup {<<uname[c], p>>}
    /\ uname' = [uname EXCEPT ![c] = Empty]
    /\ Goto(c, "regDone")
    /\ UNCHANGED <<pass, discarded, up, salt, names>>

\* addUser looks again whether the name is taken; if that look fails, the table's
\* UNIQUE constraint refuses the row.  The insertion itself may fail, too.
RegPassword(c) ==
    /\ pc[c] = "regPassword"
    /\ \E p \in Typed(c, Passwords) :
        \/ /\ uname[c] \notin DOMAIN users
           /\ users' = [n \in DOMAIN users \cup {uname[c]} |->
                            IF n = uname[c] THEN [hash |-> hashPassword(p, salt), salt |-> salt]
                            ELSE users[n]]
           /\ registered' = registered \cup {<<uname[c], p>>}
           /\ uname' = [uname EXCEPT ![c] = Empty]
           /\ Goto(c, "regDone")
           /\ UNCHANGED <<pass, discarded, up>>
        \/ Close(c) /\ UNCHANGED <<users, registered>>
    /\ UNCHANGED <<salt, names>>

\* Mutant of Exit: the name is not erased.
ExitKeepsName(c) ==
    /\ pc[c] = "menu"
    /\ Close(c)
    /\ UNCHANGED <<users, salt, names, registered>>

\* "exit", other text or a lost connection at the main menu.  "play" and
\* "leaderboard" come back to it and touch nothing of this module.
Exit(c) ==
    /\ pc[c] = "menu"
    /\ loggedInUsers' = loggedInUsers \ {uname[c]}
    /\ raced' = IF AtMenu(uname[c]) = {c} THEN raced \ {uname[c]} ELSE raced
    /\ Close(c)
    /\ UNCHANGED <<users, salt, registered>>

Handler(c) ==
    \/ Operation(c) \/ Answer(c)
    \/ LoginName(c) \/ LoginPassword(c) \/ Validate(c) \/ Welcome(c)
    \/ RegName(c) \/ RegPassword(c) \/ Exit(c)
-----------------------------------------------------------------------------
Connect(c) ==
    /\ pc[c] = "closed"
    /\ Goto(c, "operation")
    /\ up' = [up EXCEPT ![c] = TRUE]
    /\ UNCHANGED <<users, salt, names, locals, registered>>

\* The peer is gone, and nothing it has sent is left to be read.
Disconnect(c) ==
    /\ up[c]
    /\ up' = [up EXCEPT ![c] = FALSE]
    /\ UNCHANGED <<users, salt, names, pc, locals, registered>>

\* The program stops and is started again: only the database survives, and a new
\* UserService draws a new salt.
Restart ==
    /\ salt < MaxRuns
    /\ salt' = salt + 1
    /\ loggedInUsers' = {} /\ raced' = {}
    /\ pc' = [c \in Clients |-> "closed"]
    /\ uname' = Fresh /\ pass' = Fresh
    /\ discarded' = [c \in Clients |-> FALSE]
    /\ up' = [c \in Clients |-> FALSE]
    /\ UNCHANGED <<users, registered>>

Next ==
    \/ \E c \in Clients : Handler(c) \/ Connect(c) \/ Disconnect(c)
    \/ Restart

Spec == Init /\ [][Next]_vars
=============================================================================
