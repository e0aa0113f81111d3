------------------------- MODULE MCEnrolmentDocuments -------------------------
(* EnrolmentDocuments on small sets of requests. *)
EXTENDS EnrolmentDocuments
=============================================================================
