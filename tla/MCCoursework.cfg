\* One class, one assignment, two submissions of one or two students.
CONSTANTS
  Classes = {c1}
  Assignments = {a1}
  MaxSubmissions = 2
  Students = {u1, u2}
  Teachers = {t1}
  Points = {1, 2}
  Marks = {"LATE"}
  Requests = {r1, r2}
  None = None
SPECIFICATION Spec
SYMMETRY Symmetry
CHECK_DEADLOCK FALSE
INVARIANTS
  
  GradeWithinTotal
  GradeIsSeen
  ProgressAddsUp
