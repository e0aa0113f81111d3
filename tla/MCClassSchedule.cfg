\* One course, two modules that may want the same title, two classes; a course is
\* created ACTIVE, the default, and edited to DRAFT.
CONSTANTS
  Courses = {k1}
  Modules = {m1, m2}
  Classes = {c1, c2}
  Titles = {t1, t2}
  NewStatuses = {"ACTIVE"}
  Statuses = {"DRAFT"}
  Requests = {r1, r2}
  MaxSubjects = 1
  MaxTime = 1
  Duration = 0
  None = None
SPECIFICATION Spec
SYMMETRY Symmetry
CHECK_DEADLOCK FALSE
INVARIANTS
  LossNeedsOverlap
  RunsForward
  
