----------------------------- MODULE MCAccounts -----------------------------
(* Two usernames, two addresses and two requests under way; limits that     *)
(* keep the order of the program's: an account fills before an address.     *)
EXTENDS Accounts, TLC

MCLimits == [scope \in Scopes |-> IF scope = "ip" THEN 3 ELSE IF scope = "user" THEN 2 ELSE 1]

Symmetry == Permutations(Users) \cup Permutations(Emails) \cup Permutations(Slots)
=============================================================================
