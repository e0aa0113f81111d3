\* Two members, two connections and one message, with failures and restarts,
\* with fairness and without symmetry.
CONSTANTS
  Members = {u1, u2}
  Sockets = {s1, s2}
  Sends = {r1}
  MaxMessages = 1
  Nobody = Nobody
SPECIFICATION FairChatSpec
INVARIANTS
  PresenceFollowsSockets
  
PROPERTIES
  WaitingIsDelivered
