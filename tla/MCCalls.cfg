\* Two members, one of them an admin, two requests at a time, one call, and at
\* most two participant rows of a member in it.
CONSTANTS
  Users = {u1, u2}
  Admins = {u1}
  Requests = {r1, r2}
  MaxCalls = 1
  MaxRows = 2
  None = None
SPECIFICATION FairSpec

  
PROPERTIES
  FollowsLifecycle
  EmptyCallEnds
