\* Two users, two addresses, two codes, two requests at a time.
CONSTANTS
  Users = {u1, u2}
  Emails = {e1, e2}
  Passwords = {p1, p2}
  Codes = {t1, t2}
  Requests = {r1, r2}
  MaxRequests = 5
  None = None
SPECIFICATION Spec
SYMMETRY Symmetry
CHECK_DEADLOCK FALSE
INVARIANTS
  
  OneCodeInForce
  CodeIsUsedOnce
  ResetReachesItsOwner
  
