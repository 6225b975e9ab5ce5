----------------------------- MODULE MCAccounts -----------------------------
(* Instances of Accounts for TLC.                                          *)
EXTENDS Accounts, TLC

Alike == Permutations(Calls) \union Permutations(Phones)
=============================================================================
