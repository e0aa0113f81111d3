--------------------------- MODULE MCChatDelivery ---------------------------
(* Small instances of ChatDelivery for TLC. *)
EXTENDS ChatDelivery, TLC
=============================================================================
