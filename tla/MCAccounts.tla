------------------------------ MODULE MCAccounts ------------------------------
(* A small instance of Accounts for TLC. *)
EXTENDS Accounts, TLC

\* Identifiers are interchangeable.
Symmetry ==
  Permutations(Users) \cup Permutations(Emails) \cup Permutations(Passwords)
    \cup Permutations(Codes) \cup Permutations(Requests)
===============================================================================
