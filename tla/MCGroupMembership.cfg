\* Three users, two conversations, two requests at a time.
CONSTANTS
  Conversations = {c1, c2}
  Users = {u1, u2, u3}
  Files = {f1, f2}
  Requests = {r1, r2}
  MaxRequests = 4
  None = None
SPECIFICATION Spec
SYMMETRY Symmetry
CHECK_DEADLOCK FALSE
INVARIANTS
  AdminRemains
  OneDirectPerPair
  AvatarIsStored

  
