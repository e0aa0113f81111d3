--------------------------- MODULE MCClassSchedule ---------------------------
(* A small instance of ClassSchedule for TLC. *)
EXTENDS ClassSchedule, TLC

\* Identifiers are interchangeable.
Symmetry ==
  Permutations(Modules) \cup Permutations(Titles)
    \cup Permutations(Classes) \cup Permutations(Requests)
=============================================================================
