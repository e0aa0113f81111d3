----------------------------- MODULE MCCommunity -----------------------------
(* Community on small sets of users, posts and requests. *)
EXTENDS Community, TLC

Symmetry == Permutations(Users) \cup Permutations(Posts) \cup Permutations(Requests)
=============================================================================
