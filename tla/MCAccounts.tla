----------------------------- MODULE MCAccounts -----------------------------
(* Three accounts and three requests: two administrators can remove each     *)
(* other while a third account signs in, registers or is unblocked.         *)
EXTENDS Accounts, TLC

Symmetric == Permutations(Requests)
=============================================================================
