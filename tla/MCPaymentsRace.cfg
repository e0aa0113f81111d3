\* A payment between the two halves of the overdue job.
CONSTANTS
  Enrollments = {e1}
  Orders = {o1}
  Admins = {a1, a2}
  Sweepers = {s1}
  None = None
  Fee = 2
  MaxInstallments = 2
  MaxRequests = 3
  EditStatuses = {"ACTIVE"}
SPECIFICATION Spec
PROPERTIES
  OnlyOverdueIsSuspended
