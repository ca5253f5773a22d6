---------------------------- MODULE MCGameStore ----------------------------
(* Instances of GameStore for TLC.                                         *)
EXTENDS GameStoreProps, TLC

Symmetry == Permutations(Games) \cup Permutations(Players)
=============================================================================
