----------------------------- MODULE MCAccounts -----------------------------
(* Requests and links are told apart by nothing but their names.           *)
EXTENDS Accounts, TLC

Sym == Permutations(Requests) \cup Permutations(Links)
=============================================================================
