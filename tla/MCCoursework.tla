---------------------------- MODULE MCCoursework ----------------------------
(* A small instance of Coursework for TLC. *)
EXTENDS Coursework, TLC

\* Identifiers are interchangeable.
Symmetry == Permutations(Students) \cup Permutations(Requests)
=============================================================================
