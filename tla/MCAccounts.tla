----------------------------- MODULE MCAccounts -----------------------------
(* Instances of Accounts for TLC: requests are interchangeable.             *)
EXTENDS Accounts, TLC

RequestSymmetry == Permutations(Request)

=============================================================================
