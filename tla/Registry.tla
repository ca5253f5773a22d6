------------------------------ MODULE Registry ------------------------------
(***************************************************************************)
(* What the accounts promise, without prompts, hashes, salts and retries.  *)
(* A name is registered at most once and keeps its password for good, also *)
(* when the program is started again; a client is let in only under a name *)
(* and the password registered with it, and stays in under them until it   *)
(* leaves or the program stops.                                            *)
(***************************************************************************)
CONSTANTS Clients, Names, Passwords

VARIABLES
    registered,  \* pairs of a name and its password
    inside       \* the pair each client is in under; <<>> if it is not in

registryVars == <<registered, inside>>

Nobody == [c \in Clients |-> <<>>]

RegistryInit == registered = {} /\ inside = Nobody

Register(n, p) ==
    /\ \A r \in registered : r[1] # n
    /\ registered' = registered \cup {<<n, p>>}
    /\ UNCHANGED inside

Enter(c, account) ==
    /\ inside[c] = <<>>
    /\ inside' = [inside EXCEPT ![c] = account]
    /\ UNCHANGED registered

Leave(c) ==
    /\ inside[c] # <<>>
    /\ inside' = [inside EXCEPT ![c] = <<>>]
    /\ UNCHANGED registered

\* The program stops and is started again.
Stop ==
    /\ inside' = Nobody
    /\ UNCHANGED registered

RegistryNext ==
    \/ \E n \in Names, p \in Passwords : Register(n, p)
    \/ \E c \in Clients : Leave(c) \/ \E account \in registered : Enter(c, account)
    \/ Stop

RegistrySpec == RegistryInit /\ [][RegistryNext]_registryVars
=============================================================================
