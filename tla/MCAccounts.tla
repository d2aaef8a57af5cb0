----------------------------- MODULE MCAccounts -----------------------------
(* The requests of an instance of Accounts differ in nothing but their names. *)
EXTENDS Accounts, TLC

Symmetry == Permutations(Requests)
=============================================================================
