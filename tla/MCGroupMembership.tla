-------------------------- MODULE MCGroupMembership --------------------------
(* A small instance of GroupMembership for TLC. *)
EXTENDS GroupMembership, TLC

\* Identifiers are interchangeable.
Symmetry ==
  Permutations(Conversations) \cup Permutations(Users)
    \cup Permutations(Files) \cup Permutations(Requests)
=============================================================================
