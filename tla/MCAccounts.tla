----------------------------- MODULE MCAccounts -----------------------------
(* Small instance of Accounts. *)
EXTENDS Accounts, TLC

AccountsSymmetry == Permutations(Calls) \cup Permutations(Accounts)
=============================================================================
