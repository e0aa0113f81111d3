-------------------------- MODULE MCStripeCheckout --------------------------
(* Small instances of StripeCheckout for TLC. *)
EXTENDS StripeCheckout, TLC

\* Identifiers are interchangeable.
Symmetry ==
  Permutations(Sessions) \cup Permutations(Orders)
    \cup Permutations(Tabs) \cup Permutations(Workers)
=============================================================================
