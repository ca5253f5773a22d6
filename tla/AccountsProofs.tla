--------------------------- MODULE AccountsProofs ---------------------------
(***************************************************************************)
(* Proofs about Accounts for all sets of connections, names and passwords  *)
(* and any number of runs of the program.                                  *)
(***************************************************************************)
EXTENDS AccountsProps, TLAPS

\* At the start nobody is registered or logged in.
LEMMA InitIInv == Init => IInv
BY EmptyAssumption, RunsAssumption
   DEF Init, IInv, TypeOK, Fresh, HandlerPcs, PasswordsHold, RowsRegistered, Authentic, NoGhostLogin,
      NameLockHolds, NoneEntering, AtMenu, Entering

\* The lock of the names is kept by a handler that stays away from the main menu and is
\* entering only if it was, or if loggedInUsers does not hold its name.
LEMMA StepLock ==
    ASSUME IInv, NEW c \in Clients, pc[c] # "menu", pc'[c] # "menu", UNCHANGED names,
           \A d \in Clients \ {c} :
               pc'[d] = pc[d] /\ uname'[d] = uname[d] /\ discarded'[d] = discarded[d],
           \/ pc'[c] \notin {"validate", "welcome"}
           \/ uname'[c] \notin loggedInUsers
           \/ /\ pc[c] \in {"validate", "welcome"}
              /\ uname'[c] = uname[c] /\ discarded'[c] = discarded[c]
    PROVE  NameLockHolds' /\ NoneEntering'
<1>1. ASSUME NEW n PROVE AtMenu(n)' = AtMenu(n)
  BY DEF AtMenu
<1>2. raced' = raced /\ loggedInUsers' = loggedInUsers
  BY DEF names
<1>3. NameLockHolds'
  BY <1>1, <1>2 DEF IInv, NameLockHolds
<1>4. ASSUME NEW n \in Names \ raced, AtMenu(n) # {} PROVE Entering(n)' = {}
  <2>1. n \in loggedInUsers /\ Entering(n) = {}
    BY <1>4 DEF IInv, NameLockHolds, NoneEntering
  <2> QED
    BY <2>1 DEF Entering
<1> QED
  BY <1>1, <1>2, <1>3, <1>4 DEF NoneEntering

\* Closing a handler that is not at the main menu, with nothing else changed.
LEMMA StepClose ==
    ASSUME IInv, NEW c \in Clients, pc[c] # "menu", Close(c),
           UNCHANGED <<users, salt, names, registered>>
    PROVE  IInv'
<1> USE EmptyAssumption DEF IInv
<1>1. TypeOK'
  BY DEF TypeOK, Close, Goto, HandlerPcs, names
<1>2. PasswordsHold' /\ RowsRegistered'
  BY DEF PasswordsHold, RowsRegistered, isValidUser
<1>3. Authentic'
  BY DEF Authentic, Close, Goto, TypeOK
<1>4. NoGhostLogin'
  BY DEF NoGhostLogin, Close, Goto, TypeOK, names
<1>5. NameLockHolds' /\ NoneEntering'
  BY StepLock DEF Close, Goto, TypeOK
<1> QED
  BY <1>1, <1>2, <1>3, <1>4, <1>5

\* Moving a handler between prompts before the main menu.
LEMMA StepPrompt ==
    ASSUME IInv, NEW c \in Clients, pc[c] \notin {"menu", "welcome"},
           NEW to \in HandlerPcs \ {"menu", "welcome"}, Goto(c, to),
           uname' \in [Clients -> Names], pass' \in [Clients -> Passwords],
           \A d \in Clients \ {c} :
               uname'[d] = uname[d] /\ pass'[d] = pass[d] /\ discarded'[d] = discarded[d],
           to = "validate" => uname'[c] \notin loggedInUsers,
           discarded' \in [Clients -> BOOLEAN], up' \in [Clients -> BOOLEAN],
           UNCHANGED <<users, salt, names, registered>>
    PROVE  IInv'
<1> USE DEF IInv
<1>1. pc' \in [Clients -> HandlerPcs] /\ pc'[c] = to /\ \A d \in Clients \ {c} : pc'[d] = pc[d]
  BY DEF Goto, TypeOK
<1>2. TypeOK'
  BY <1>1 DEF TypeOK, names
<1>3. PasswordsHold' /\ RowsRegistered'
  BY DEF PasswordsHold, RowsRegistered, isValidUser
<1>4. Authentic'
  BY <1>1 DEF Authentic
<1>5. NoGhostLogin'
  <2> SUFFICES ASSUME NEW n \in loggedInUsers
               PROVE  \E d \in Clients : pc'[d] = "menu" /\ uname'[d] = n
    BY DEF NoGhostLogin, names
  <2>1. PICK d \in Clients : pc[d] = "menu" /\ uname[d] = n
    BY DEF NoGhostLogin
  <2> QED
    BY <1>1, <2>1
<1>6. NameLockHolds' /\ NoneEntering'
  BY <1>1, StepLock
<1> QED
  BY <1>2, <1>3, <1>4, <1>5, <1>6

\* The prompts that read a name, a password or an answer.
LEMMA StepReads ==
    ASSUME IInv, NEW c \in Clients,
           \/ Operation(c) \/ Answer(c) \/ LoginName(c) \/ LoginPassword(c) \/ RegName(c)
           \/ Connect(c)
    PROVE  IInv'
<1>1. /\ Empty \in Names /\ Empty \in Passwords /\ pc \in [Clients -> HandlerPcs]
      /\ uname \in [Clients -> Names] /\ pass \in [Clients -> Passwords]
      /\ discarded \in [Clients -> BOOLEAN] /\ up \in [Clients -> BOOLEAN]
  BY EmptyAssumption DEF IInv, TypeOK
<1> USE DEF HandlerPcs, LoginPcs, RegisterPcs
<1>2. CASE Operation(c)
  <2>1. CASE Close(c)
    BY <1>2, <2>1, StepClose DEF Operation
  <2>2. CASE ~Close(c)
    BY <1>1, <1>2, <2>2, StepPrompt DEF Operation, locals
  <2> QED
    BY <2>1, <2>2
<1>3. CASE Answer(c)
  <2> DEFINE q == pc[c]
  <2>1. /\ q \in Questions /\ YesTo[q] \in {"regName", "loginName"}
        /\ NoTo[q] \in {"offerRetry", "regName", "closed"}
    BY <1>3 DEF Answer, Questions, YesTo, NoTo
  <2>2. q \notin {"menu", "welcome"}
    BY <2>1 DEF Questions, YesTo
  <2>3. CASE Close(c)
    BY <1>3, <2>2, <2>3, StepClose DEF Answer
  <2>4. CASE ~Close(c)
    <3>1. PICK to \in {"regName", "loginName", "offerRetry"} : Goto(c, to)
      BY <1>3, <2>1, <2>4 DEF Answer
    <3>2. /\ uname' = [uname EXCEPT ![c] = Empty]
          /\ pass' = pass \/ pass' = [pass EXCEPT ![c] = Empty]
          /\ discarded' \in [Clients -> BOOLEAN] /\ UNCHANGED up
          /\ \A d \in Clients \ {c} : discarded'[d] = discarded[d]
          /\ UNCHANGED <<users, salt, names, registered>>
      BY <1>1, <1>3, <2>4 DEF Answer
    <3> QED
      BY <1>1, <2>2, <3>1, <3>2, StepPrompt
  <2> QED
    BY <2>3, <2>4
<1>4. CASE LoginName(c) \/ RegName(c)
  <2>1. PICK n \in Names : uname' = [uname EXCEPT ![c] = n]
    BY <1>1, <1>4 DEF LoginName, RegName, Typed
  <2>2. PICK to \in {"loginPassword", "offerRegister", "regExists", "regPassword"} : Goto(c, to)
    BY <1>4 DEF LoginName, RegName
  <2>3. /\ pc[c] \in {"loginName", "regName"}
        /\ UNCHANGED <<users, salt, names, pass, discarded, up, registered>>
    BY <1>4 DEF LoginName, RegName
  <2> QED
    BY <1>1, <2>1, <2>2, <2>3, StepPrompt
<1>5. CASE LoginPassword(c)
  <2>1. PICK p \in Passwords : pass' = [pass EXCEPT ![c] = p]
    BY <1>1, <1>5 DEF LoginPassword, Typed
  <2>2. PICK to \in {"alreadyIn", "validate"} :
            Goto(c, to) /\ (to = "validate" => uname[c] \notin loggedInUsers)
    BY <1>5 DEF LoginPassword
  <2> QED
    BY <1>1, <1>5, <2>1, <2>2, StepPrompt DEF LoginPassword
<1>6. CASE Connect(c)
  BY <1>1, <1>6, StepPrompt DEF Connect, locals
<1> QED
  BY <1>2, <1>3, <1>4, <1>5, <1>6

\* A password that hashes to the stored hash is the one the row was written with.
LEMMA StepValidate == ASSUME IInv, NEW c \in Clients, Validate(c) PROVE IInv'
<1> USE DEF IInv
<1>1. /\ pc[c] = "validate" /\ UNCHANGED <<users, salt, names, locals, up, registered>>
      /\ \/ Goto(c, "badPassword")
         \/ Goto(c, "welcome") /\ isValidUser(uname[c], pass[c])
  BY DEF Validate
<1>2. CASE Goto(c, "badPassword")
  BY <1>1, <1>2, StepPrompt DEF HandlerPcs, LoginPcs, locals, TypeOK
<1>3. CASE Goto(c, "welcome") /\ isValidUser(uname[c], pass[c])
  <2>1. /\ pc' \in [Clients -> HandlerPcs] /\ pc'[c] = "welcome"
        /\ \A d \in Clients \ {c} : pc'[d] = pc[d]
    BY <1>3 DEF Goto, TypeOK, HandlerPcs, LoginPcs
  <2>2. <<uname[c], pass[c]>> \in registered
    <3>1. uname[c] \in DOMAIN users /\ users[uname[c]].hash = <<pass[c], users[uname[c]].salt>>
      BY <1>3 DEF isValidUser, hashPassword
    <3>2. PICK p \in Passwords : /\ <<uname[c], p>> \in registered
                                 /\ users[uname[c]].hash = <<p, users[uname[c]].salt>>
      BY <3>1 DEF RowsRegistered, hashPassword
    <3>3. p = pass[c]
      BY <3>1, <3>2
    <3> QED
      BY <3>2, <3>3
  <2>3. TypeOK'
    BY <1>1, <2>1 DEF TypeOK, locals, names
  <2>4. PasswordsHold' /\ RowsRegistered'
    BY <1>1 DEF PasswordsHold, RowsRegistered, isValidUser
  <2>5. Authentic'
    BY <1>1, <2>1, <2>2 DEF Authentic, locals
  <2>6. NoGhostLogin'
    BY <1>1, <2>1 DEF NoGhostLogin, locals, names
  <2>7. NameLockHolds' /\ NoneEntering'
    BY <1>1, <2>1, StepLock DEF locals
  <2> QED
    BY <2>3, <2>4, <2>5, <2>6, <2>7
<1> QED
  BY <1>1, <1>2, <1>3

\* The name that enters loggedInUsers is that of the handler entering the main menu.
LEMMA StepWelcome == ASSUME IInv, NEW c \in Clients, Welcome(c) PROVE IInv'
<1> USE DEF IInv
<1>1. CASE Close(c)
  <2>1. pc[c] # "menu" /\ UNCHANGED names
    BY <1>1 DEF Welcome, Close, Goto, TypeOK
  <2> QED
    BY <1>1, <2>1, StepClose DEF Welcome
<1>2. CASE ~Close(c)
  <2> DEFINE n == uname[c]
  <2>1. /\ pc[c] = "welcome" /\ Goto(c, "menu") /\ loggedInUsers' = loggedInUsers \cup {n}
        /\ raced' = IF Entering(n) = {c} THEN raced ELSE raced \cup {n}
        /\ ~discarded[c]
        /\ UNCHANGED <<users, salt, uname, pass, discarded, up, registered>>
    BY <1>2 DEF Welcome, locals
  <2>2. /\ pc' \in [Clients -> HandlerPcs] /\ pc'[c] = "menu"
        /\ \A d \in Clients \ {c} : pc'[d] = pc[d]
    BY <2>1 DEF Goto, TypeOK, HandlerPcs
  <2>3. TypeOK'
    BY <2>1, <2>2 DEF TypeOK
  <2>4. PasswordsHold' /\ RowsRegistered'
    BY <2>1 DEF PasswordsHold, RowsRegistered, isValidUser
  <2>5. Authentic'
    BY <2>1, <2>2 DEF Authentic
  <2>6. NoGhostLogin'
    BY <2>1, <2>2 DEF NoGhostLogin
  <2>7. c \in Entering(n)
    BY <2>1 DEF Entering
  <2>8. ASSUME NEW m \in Names \ raced', m # n
        PROVE  AtMenu(m)' = AtMenu(m) /\ Entering(m)' = Entering(m) /\ m \in Names \ raced
    BY <2>1, <2>2, <2>8 DEF AtMenu, Entering
  <2>9. ASSUME n \notin raced' PROVE AtMenu(n)' = {c} /\ Entering(n)' = {}
    <3>1. n \notin raced /\ Entering(n) = {c}
      BY <2>1, <2>9
    <3>2. AtMenu(n) = {}
      BY <2>7, <3>1 DEF NoneEntering, TypeOK
    <3> QED
      BY <2>1, <2>2, <3>1, <3>2 DEF AtMenu, Entering
  <2>10. NameLockHolds'
    BY <2>1, <2>8, <2>9 DEF NameLockHolds
  <2>11. NoneEntering'
    BY <2>1, <2>8, <2>9 DEF NoneEntering
  <2> QED
    BY <2>3, <2>4, <2>5, <2>6, <2>10, <2>11
<1> QED
  BY <1>1, <1>2

\* A registration adds a row for a name that had none.
LEMMA StepRegPassword == ASSUME IInv, NEW c \in Clients, RegPassword(c) PROVE IInv'
<1> USE DEF IInv
<1>1. CASE Close(c) /\ UNCHANGED <<users, registered>>
  BY <1>1, StepClose DEF RegPassword
<1>2. CASE ~(Close(c) /\ UNCHANGED <<users, registered>>)
  <2> DEFINE n == uname[c]
  <2>1. PICK p \in Passwords :
            /\ n \notin DOMAIN users
            /\ users' = [m \in DOMAIN users \cup {n} |->
                            IF m = n THEN [hash |-> hashPassword(p, salt), salt |-> salt] ELSE users[m]]
            /\ registered' = registered \cup {<<n, p>>}
            /\ uname' = [uname EXCEPT ![c] = Empty] /\ Goto(c, "regDone")
            /\ UNCHANGED <<pass, discarded, up, salt, names>> /\ pc[c] = "regPassword"
    BY <1>2, EmptyAssumption DEF RegPassword, Typed
  <2>2. /\ DOMAIN users' = DOMAIN users \cup {n}
        /\ users'[n] = [hash |-> <<p, salt>>, salt |-> salt]
        /\ \A m \in DOMAIN users : users'[m] = users[m]
    BY <2>1 DEF hashPassword
  <2>3. /\ pc' \in [Clients -> HandlerPcs] /\ pc'[c] = "regDone"
        /\ \A d \in Clients \ {c} : pc'[d] = pc[d] /\ uname'[d] = uname[d]
    BY <2>1 DEF Goto, TypeOK, HandlerPcs, RegisterPcs
  <2>4. n \in Names
    BY DEF TypeOK
  <2> HIDE DEF n
  <2>5. TypeOK'
    <3>1. \A m \in DOMAIN users' : users'[m] \in [hash : Passwords \X (1..MaxRuns), salt : 1..MaxRuns]
      BY <2>2 DEF TypeOK
    <3>2. uname' \in [Clients -> Names] /\ DOMAIN users' \subseteq Names
      BY <2>1, <2>2, <2>4, EmptyAssumption DEF TypeOK
    <3>3. registered' \subseteq Names \X Passwords
      BY <2>1, <2>4 DEF TypeOK
    <3> QED
      BY <2>1, <2>3, <3>1, <3>2, <3>3 DEF TypeOK, names
  <2>6. PasswordsHold'
    <3>1. ASSUME NEW r \in registered PROVE isValidUser(r[1], r[2])'
      BY <2>2, <3>1 DEF PasswordsHold, isValidUser, hashPassword
    <3>2. ASSUME NEW r \in registered' PROVE isValidUser(r[1], r[2])'
      <4>1. CASE r \in registered
        BY <3>1, <4>1
      <4>2. CASE r = <<n, p>>
        BY <2>2, <4>2 DEF isValidUser, hashPassword
      <4> QED
        BY <2>1, <4>1, <4>2
    <3> QED
      BY <3>2 DEF PasswordsHold
  <2>7. RowsRegistered'
    BY <2>1, <2>2 DEF RowsRegistered, hashPassword
  <2>8. Authentic'
    BY <2>1, <2>3 DEF Authentic
  <2>9. NoGhostLogin'
    BY <2>1, <2>3 DEF NoGhostLogin, names
  <2>10. NameLockHolds' /\ NoneEntering'
    BY <2>1, <2>3, StepLock
  <2> QED
    BY <2>5, <2>6, <2>7, <2>8, <2>9, <2>10
<1> QED
  BY <1>1, <1>2

\* Leaving the main menu takes the name out; whoever else is in under another name
\* stays accounted for.
LEMMA StepExit == ASSUME IInv, NEW c \in Clients, Exit(c) PROVE IInv'
<1> USE EmptyAssumption DEF IInv
<1>0. PICK n : n = uname[c]
  OBVIOUS
<1>1. /\ pc[c] = "menu" /\ loggedInUsers' = loggedInUsers \ {n} /\ Close(c)
      /\ raced' = IF AtMenu(n) = {c} THEN raced \ {n} ELSE raced
      /\ UNCHANGED <<users, salt, registered>>
  BY <1>0 DEF Exit
<1>2. /\ pc' \in [Clients -> HandlerPcs] /\ pc'[c] = "closed"
      /\ uname' \in [Clients -> Names] /\ pass' \in [Clients -> Passwords]
      /\ \A d \in Clients \ {c} : /\ pc'[d] = pc[d] /\ uname'[d] = uname[d]
                                 /\ pass'[d] = pass[d] /\ discarded'[d] = discarded[d]
  BY <1>1 DEF Close, Goto, TypeOK, HandlerPcs
<1>3. TypeOK'
  BY <1>1, <1>2 DEF TypeOK, Close
<1>4. PasswordsHold' /\ RowsRegistered'
  BY <1>1 DEF PasswordsHold, RowsRegistered, isValidUser
<1>5. Authentic'
  BY <1>1, <1>2 DEF Authentic
<1>6. NoGhostLogin'
  <2> SUFFICES ASSUME NEW m \in loggedInUsers, m # n
               PROVE  \E d \in Clients : pc'[d] = "menu" /\ uname'[d] = m
    BY <1>1 DEF NoGhostLogin
  <2>1. PICK d \in Clients : pc[d] = "menu" /\ uname[d] = m
    BY DEF NoGhostLogin
  <2> QED
    BY <1>0, <1>2, <2>1
<1>7. ASSUME NEW m \in Names \ raced', m # n
      PROVE  AtMenu(m)' = AtMenu(m) /\ Entering(m)' \subseteq Entering(m) /\ m \in Names \ raced
  BY <1>0, <1>1, <1>2, <1>7 DEF AtMenu, Entering
<1>8. ASSUME n \notin raced' PROVE AtMenu(n)' = {}
  <2>1. AtMenu(n) = {c}
    BY <1>0, <1>1, <1>8 DEF NameLockHolds, AtMenu, TypeOK
  <2> QED
    BY <1>2, <2>1 DEF AtMenu
<1>9. NameLockHolds'
  BY <1>1, <1>7, <1>8 DEF NameLockHolds
<1>10. NoneEntering'
  BY <1>7, <1>8 DEF NoneEntering
<1> QED
  BY <1>3, <1>4, <1>5, <1>6, <1>9, <1>10

\* A restart keeps the rows with their own salts and forgets who was logged in.
LEMMA StepRestart == ASSUME IInv, Restart PROVE IInv'
<1> USE EmptyAssumption, RunsAssumption DEF IInv, Restart
<1>1. TypeOK'
  BY DEF TypeOK, Fresh, HandlerPcs
<1>2. PasswordsHold' /\ RowsRegistered'
  BY DEF PasswordsHold, RowsRegistered, isValidUser
<1>3. Authentic' /\ NoGhostLogin'
  BY DEF Authentic, NoGhostLogin
<1>4. NameLockHolds' /\ NoneEntering'
  BY DEF NameLockHolds, NoneEntering, AtMenu
<1> QED
  BY <1>1, <1>2, <1>3, <1>4

\* The invariant is inductive.
LEMMA StepIInv == IInv /\ [Next]_vars => IInv'
<1> SUFFICES ASSUME IInv, [Next]_vars PROVE IInv'
  OBVIOUS
<1>1. ASSUME NEW c \in Clients, Disconnect(c) PROVE IInv'
  BY <1>1 DEF IInv, Disconnect, locals, names, TypeOK, PasswordsHold, RowsRegistered, isValidUser,
      Authentic, NoGhostLogin, NameLockHolds, NoneEntering, AtMenu, Entering
<1>2. CASE UNCHANGED vars
  BY <1>2 DEF IInv, vars, locals, names, TypeOK, PasswordsHold, RowsRegistered, isValidUser,
      Authentic, NoGhostLogin, NameLockHolds, NoneEntering, AtMenu, Entering
<1> QED
  BY <1>1, <1>2, StepReads, StepValidate, StepWelcome, StepRegPassword, StepExit, StepRestart
     DEF Next, Handler

\* The inductive invariant of the accounts holds in every reachable state.
THEOREM Invariance == Spec => []IInv
BY InitIInv, StepIInv, PTL DEF Spec

\* Every variable keeps its type.
THEOREM TypeCorrect == Spec => []TypeOK
BY Invariance, PTL DEF IInv

\* A registered name and password log in, then and after every restart.
THEOREM RegistrationsHold == Spec => []PasswordsHold
BY Invariance, PTL DEF IInv

\* A logged-in handler typed a name and a password registered together.
THEOREM LoginsAuthentic == Spec => []Authentic
BY Invariance, PTL DEF IInv

\* No name stays in loggedInUsers after its last handler has left the main menu.
THEOREM NoGhostLogins == Spec => []NoGhostLogin
BY Invariance, PTL DEF IInv

\* loggedInUsers keeps a second client out of every account outside the race.
THEOREM NameLock == Spec => []NameLockHolds
BY Invariance, PTL DEF IInv
-----------------------------------------------------------------------------
(* The accounts implement the registry: Accepted and Inside name what its  *)
(* two variables are mapped to.                                            *)
Accepted == {r \in Names \X Passwords : isValidUser(r[1], r[2])}
Inside == [c \in Clients |-> IF pc[c] = "menu" THEN <<uname[c], pass[c]>> ELSE <<>>]

\* An entry, an exit or neither at the main menu leaves the registered pairs alone.
LEMMA SameAccepted == ASSUME UNCHANGED users PROVE Accepted' = Accepted
BY DEF Accepted, isValidUser

\* A handler that stays away from the main menu changes nobody's being inside.
LEMMA SameInside ==
    ASSUME NEW c \in Clients, pc[c] # "menu", pc'[c] # "menu",
           \A d \in Clients \ {c} :
               pc'[d] = pc[d] /\ uname'[d] = uname[d] /\ pass'[d] = pass[d]
    PROVE  Inside' = Inside
BY DEF Inside

\* A login enters under a pair that is registered.
LEMMA WelcomeEnters ==
    ASSUME IInv, NEW c \in Clients, Welcome(c), ~Close(c)
    PROVE  \E account \in Accepted : Abstract!Enter(c, account)
<1>0. PICK a : a = <<uname[c], pass[c]>>
  OBVIOUS
<1>1. /\ pc[c] = "welcome" /\ pc'[c] = "menu" /\ \A d \in Clients \ {c} : pc'[d] = pc[d]
      /\ UNCHANGED <<users, uname, pass>>
  BY DEF Welcome, Goto, IInv, TypeOK, locals
<1>2. a \in Accepted
  <2>1. a \in registered
    BY <1>0, <1>1 DEF IInv, Authentic
  <2>2. isValidUser(a[1], a[2]) /\ a \in Names \X Passwords
    BY <2>1 DEF IInv, PasswordsHold, TypeOK
  <2> QED
    BY <2>2 DEF Accepted
<1>3. Inside[c] = <<>> /\ Inside' = [Inside EXCEPT ![c] = a]
  BY <1>0, <1>1 DEF Inside
<1>4. Abstract!Enter(c, a)
  BY <1>1, <1>3, SameAccepted DEF Abstract!Enter, Inside, Accepted
<1> QED
  BY <1>2, <1>4

\* A registration adds the one pair that its row accepts.
LEMMA RegistrationRegisters ==
    ASSUME IInv, NEW c \in Clients, RegPassword(c), ~(Close(c) /\ UNCHANGED users)
    PROVE  \E n \in Names, p \in Passwords : Abstract!Register(n, p)
<1>0. PICK n \in Names : n = uname[c]
  BY DEF IInv, TypeOK
<1>1. PICK p \in Passwords :
          /\ n \notin DOMAIN users /\ pc[c] = "regPassword"
          /\ users' = [m \in DOMAIN users \cup {n} |->
                          IF m = n THEN [hash |-> hashPassword(p, salt), salt |-> salt] ELSE users[m]]
          /\ uname' = [uname EXCEPT ![c] = Empty] /\ Goto(c, "regDone") /\ UNCHANGED pass
  BY <1>0, EmptyAssumption DEF RegPassword, Typed
<1>2. /\ DOMAIN users' = DOMAIN users \cup {n}
      /\ users'[n] = [hash |-> <<p, salt>>, salt |-> salt]
      /\ \A m \in DOMAIN users : users'[m] = users[m]
  BY <1>1 DEF hashPassword
<1>3. Accepted' = Accepted \cup {<<n, p>>}
  <2>1. ASSUME NEW m \in Names, NEW q \in Passwords
        PROVE  <<m, q>> \in Accepted' <=> <<m, q>> \in Accepted \/ <<m, q>> = <<n, p>>
    <3>1. CASE m = n
      BY <1>1, <1>2, <3>1 DEF Accepted, isValidUser, hashPassword
    <3>2. CASE m # n
      BY <1>1, <1>2, <3>2 DEF Accepted, isValidUser, hashPassword
    <3> QED
      BY <3>1, <3>2
  <2> QED
    BY <2>1 DEF Accepted
<1>4. \A r \in Accepted : r[1] # n
  BY <1>1 DEF Accepted, isValidUser
<1>5. Inside' = Inside
  BY <1>1, SameInside DEF Goto, IInv, TypeOK
<1>6. Abstract!Register(n, p)
  BY <1>3, <1>4, <1>5 DEF Abstract!Register, Accepted, Inside
<1> QED
  BY <1>6

\* Every step of the accounts is a step of the registry or invisible to it.
LEMMA StepRegistry ==
    ASSUME IInv, [Next]_vars
    PROVE  [Abstract!RegistryNext]_(Abstract!registryVars)
<1>1. ASSUME UNCHANGED users, Inside' = Inside PROVE UNCHANGED Abstract!registryVars
  BY <1>1, SameAccepted DEF Abstract!registryVars, Accepted, Inside
<1>2. ASSUME NEW c \in Clients, Close(c), pc[c] # "menu" PROVE Inside' = Inside
  BY <1>2, SameInside DEF Close, Goto, IInv, TypeOK
<1>3. ASSUME NEW c \in Clients,
             \/ Operation(c) \/ Answer(c) \/ LoginName(c) \/ LoginPassword(c)
             \/ Validate(c) \/ RegName(c) \/ Connect(c) \/ Disconnect(c)
      PROVE  UNCHANGED Abstract!registryVars
  <2>1. UNCHANGED users
    BY <1>3 DEF Operation, Answer, LoginName, LoginPassword, Validate, RegName, Connect, Disconnect
  <2>2. CASE Disconnect(c)
    BY <1>1, <2>1, <2>2 DEF Disconnect, locals, Inside
  <2>3. CASE Close(c) /\ (Operation(c) \/ Answer(c))
    BY <1>1, <1>2, <2>1, <2>3 DEF Operation, Answer, Questions, YesTo
  <2>4. CASE ~Disconnect(c) /\ ~(Close(c) /\ (Operation(c) \/ Answer(c)))
    <3>1. /\ pc[c] # "menu" /\ pc'[c] # "menu"
          /\ \A d \in Clients \ {c} :
                pc'[d] = pc[d] /\ uname'[d] = uname[d] /\ pass'[d] = pass[d]
      BY <1>3, <2>4 DEF Operation, Answer, LoginName, LoginPassword, Validate, RegName, Connect,
          Goto, locals, Questions, YesTo, NoTo, IInv, TypeOK
    <3> QED
      BY <1>1, <2>1, <3>1, SameInside
  <2> QED
    BY <2>2, <2>3, <2>4
<1>4. ASSUME NEW c \in Clients, Welcome(c)
      PROVE  \/ UNCHANGED Abstract!registryVars
             \/ \E account \in Accepted : Abstract!Enter(c, account)
  BY <1>1, <1>2, <1>4, WelcomeEnters DEF Welcome
<1>5. ASSUME NEW c \in Clients, RegPassword(c)
      PROVE  \/ UNCHANGED Abstract!registryVars
             \/ \E n \in Names, p \in Passwords : Abstract!Register(n, p)
  BY <1>1, <1>2, <1>5, RegistrationRegisters DEF RegPassword
<1>6. ASSUME NEW c \in Clients, Exit(c) PROVE Abstract!Leave(c)
  <2>1. Inside[c] # <<>> /\ Inside' = [Inside EXCEPT ![c] = <<>>] /\ UNCHANGED users
    BY <1>6 DEF Exit, Close, Goto, Inside, IInv, TypeOK
  <2> QED
    BY <2>1, SameAccepted DEF Abstract!Leave, Inside, Accepted
<1>7. ASSUME Restart PROVE Abstract!Stop
  <2>1. Inside' = [c \in Clients |-> <<>>] /\ UNCHANGED users
    BY <1>7 DEF Restart, Inside
  <2> QED
    BY <2>1, SameAccepted DEF Abstract!Stop, Abstract!Nobody, Inside, Accepted
<1>8. CASE UNCHANGED vars
  BY <1>1, <1>8 DEF vars, locals, Inside
<1> QED
  BY <1>3, <1>4, <1>5, <1>6, <1>7, <1>8
     DEF Next, Handler, Abstract!RegistryNext, Accepted

\* Whatever the prompts, retries, failures, lost connections and restarts, a client is
\* inside only under a pair that was registered, once and for good: Registry is what the
\* accounts promise.
THEOREM AccountsImplementRegistry == Spec => RegistrySpec
<1>1. Init => Abstract!RegistryInit
  BY DEF Init, Abstract!RegistryInit, Abstract!Nobody, isValidUser
<1>2. IInv /\ [Next]_vars => [Abstract!RegistryNext]_(Abstract!registryVars)
  BY StepRegistry
<1> QED
  BY <1>1, <1>2, Invariance, PTL DEF Spec, RegistrySpec, Abstract!RegistrySpec
=============================================================================
