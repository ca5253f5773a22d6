----------------------------- MODULE MCAccounts -----------------------------
(* Instances of Accounts for TLC.                                          *)
EXTENDS AccountsProps, TLC

Symmetry == Permutations(Clients)
=============================================================================
