-------------------------- MODULE MCManualPayments --------------------------
(* Small instances of ManualPayments for TLC. *)
EXTENDS ManualPayments, TLC
LOCAL INSTANCE FiniteSetsExt

\* Worth is the sum of the shares the split gives, and the shares add up.
ASSUME WorthIsTheSumOfShares ==
  \A n \in Numbers :
    /\ \A S \in SUBSET (1..n) : Worth(n, S) = MapThenSumSet(LAMBDA i : Share(n, i), S)
    /\ Worth(n, 1..n) = Fee
=============================================================================
