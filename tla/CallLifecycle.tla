---------------------------- MODULE CallLifecycle ----------------------------
(***************************************************************************)
(* What the members of a conversation see of its calls: a call runs and is *)
(* over, its card in the timeline shows it running and then how it ended,  *)
(* and neither ever goes back.                                             *)
(***************************************************************************)
CONSTANT Calls

VARIABLES
  status,   \* of each call: "NONE", "ONGOING" or "ENDED"
  card      \* of each call: "NONE", "ONGOING", "ENDED" or "MISSED"

vars == <<status, card>>

Init ==
  /\ status = [c \in Calls |-> "NONE"]
  /\ card = [c \in Calls |-> "NONE"]

Begin(c) ==
  /\ status[c] = "NONE"
  /\ status' = [status EXCEPT ![c] = "ONGOING"]
  /\ UNCHANGED card

Announce(c) ==
  /\ status[c] # "NONE"
  /\ card[c] = "NONE"
  /\ card' = [card EXCEPT ![c] = "ONGOING"]
  /\ UNCHANGED status

End(c) ==
  /\ status[c] = "ONGOING"
  /\ status' = [status EXCEPT ![c] = "ENDED"]
  /\ UNCHANGED card

\* The verdict may still change: a decline and a leave may both end a call.
Close(c, verdict) ==
  /\ status[c] = "ENDED"
  /\ card[c] # "NONE"
  /\ card' = [card EXCEPT ![c] = verdict]
  /\ UNCHANGED status

Next ==
  \E c \in Calls :
    \/ Begin(c) \/ Announce(c) \/ End(c)
    \/ \E verdict \in {"ENDED", "MISSED"} : Close(c, verdict)

Spec == Init /\ [][Next]_vars
=============================================================================
