\* One student with two enrollment orders at most, two admins, the overdue job,
\* plans of up to two unequal installments, with fairness and without symmetry.
CONSTANTS
  Enrollments = {e1}
  Orders = {o1, o2}
  Admins = {a1, a2}
  Sweepers = {s1}
  None = None
  Fee = 3
  MaxInstallments = 2
  MaxRequests = 3
  EditStatuses = {"ACTIVE"}
SPECIFICATION FairSpec
INVARIANTS
  CreditIsCovered
  PaidIffNothingDue
  AccessIsPaidFor
  SuspensionIsWarranted
PROPERTIES
  OverdueIsActedOn
