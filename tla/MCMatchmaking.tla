--------------------------- MODULE MCMatchmaking ---------------------------
(* Instances of Matchmaking for TLC.                                       *)
EXTENDS MatchmakingProps, TLC, FiniteSets

Symmetry == Permutations(Clients)

\* At most one ended game thread has not yet notified the handlers.
FewGames == Cardinality({g \in games : g.pc = "tell"}) <= 1
=============================================================================
