\* Two users, two posts, two requests at a time.
CONSTANTS
  Users = {u1, u2}
  Posts = {p1, p2}
  Rows = 4
  Statuses = {"APPROVED", "REJECTED"}
  Requests = {r1, r2}
  MaxRequests = 4
  MaxOptions = 2
  None = None
SPECIFICATION Spec
SYMMETRY Symmetry
CHECK_DEADLOCK FALSE
INVARIANTS
  OneVoteAndOneLike
  PollIsAsNamed
  EveryCommentIsListed
