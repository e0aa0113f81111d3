\* One tab, one order and two deliveries for an event, with fairness and without symmetry.
CONSTANTS
  Courses = {}
  Events = {v1}
  Sessions = {s1, s2}
  Orders = {o1}
  Tabs = {t1}
  Workers = {w1, w2}
  None = None
SPECIFICATION FairSpec
PROPERTIES
  PaidIsGranted
  KeepsThePromise
