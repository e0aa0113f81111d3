\* Two tabs and two deliveries for one course.
CONSTANTS
  Courses = {c1}
  Events = {}
  Sessions = {s1, s2}
  Orders = {o1, o2}
  Tabs = {t1, t2}
  Workers = {w1, w2}
  None = None
SPECIFICATION Spec
SYMMETRY Symmetry
INVARIANTS
  PaymentIsRecorded
  StatusesAreTrue
  
  
