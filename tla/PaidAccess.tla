----------------------------- MODULE PaidAccess -----------------------------
(***************************************************************************)
(* What taking money for a course or an event promises, whatever the way   *)
(* the money is taken: access is given only to what was paid for before,   *)
(* and what was given once is never taken back.                            *)
(***************************************************************************)
CONSTANT Items    \* the course enrollments and event tickets of a student

VARIABLES
  paid,     \* items the student's money was taken for
  access    \* items the student has access to

vars == <<paid, access>>

Init == paid = {} /\ access = {}

Pay(i) ==
  /\ paid' = paid \cup {i}
  /\ UNCHANGED access

Grant(i) ==
  /\ i \in paid
  /\ access' = access \cup {i}
  /\ UNCHANGED paid

Next == \E i \in Items : Pay(i) \/ Grant(i)

Spec == Init /\ [][Next]_vars
=============================================================================
