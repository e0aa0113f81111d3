--------------------------- MODULE ManualPayments ---------------------------
(***************************************************************************)
(* The billing of course enrollments by the academy's staff.               *)
(*                                                                         *)
(*   - admin/course/courses.service.ts: makeEnrolment, updateEnrollment    *)
(*     and deleteEnrollment;                                               *)
(*   - admin/transaction/transaction.service.ts: addManualPayment (course  *)
(*     payments), addManualInstallmentPayment and                          *)
(*     suspendOverdueInstallmentAccess.                                    *)
(*                                                                         *)
(* Every one of these handlers except makeEnrolment reads the rows it      *)
(* needs first and writes them later, in one interactive transaction that  *)
(* re-reads nothing (updateEnrollment re-reads the order).  A handler is   *)
(* therefore a read action, which takes a snapshot, and a commit action,   *)
(* which computes everything from the snapshot; other handlers may commit  *)
(* in between.  A transaction that would touch a deleted row throws and is *)
(* rolled back, which is the Abort action.                                 *)
(***************************************************************************)
EXTENDS Integers, FiniteSets

CONSTANTS
  Enrollments,      \* identifiers of enrollment rows, never reused
  Orders,           \* identifiers of order rows, never reused
  Admins,           \* staff requests that may be in flight together
  Sweepers,         \* runs of the overdue job that may overlap (hourly, HTTP)
  None,             \* a null foreign key or an omitted field
  Fee,              \* the fee of the course, in the smallest unit stored
  MaxInstallments,  \* bound: the longest plan an admin creates
  MaxRequests,      \* bound: staff requests in a behaviour
  EditStatuses      \* bound: the statuses an admin sets by hand

ASSUME BillingAssumption ==
  /\ Fee \in Nat \ {0}
  /\ MaxInstallments \in Nat \ {0}
  /\ MaxInstallments <= Fee          \* every installment is worth something
  /\ MaxRequests \in Nat
  /\ EditStatuses \subseteq {"PENDING", "ACTIVE", "SUSPENDED", "CANCELLED", "EXPIRED"}
  /\ None \notin Orders
  /\ None \notin Enrollments
  /\ None \notin BOOLEAN
  /\ None \notin EditStatuses
  /\ None \notin {"SIGNING", "PAYMENT", "COMPLETED"}

VARIABLES
  enrollment,   \* the enrollments table
  order,        \* the orders table
  plan,         \* the installment_plans table, keyed by its unique order_id
  installment,  \* the installments table, keyed by order and installment_no
  lapsed,       \* the installments whose due date has passed
  request,      \* what each staff request has read so far
  sweep,        \* what each run of the overdue job has found
  received,     \* history: money recorded as received on an order
  waived,       \* history: orders that were FREE at some time
  decidedBy,    \* history: who last decided an enrollment's access
  requests      \* history: staff requests made, for the bound

vars == <<enrollment, order, plan, installment, lapsed, request, sweep,
          received, waived, decidedBy, requests>>

-----------------------------------------------------------------------------
(* Rows *)

Numbers == 1..MaxInstallments

EnrollmentStatus == {"PENDING", "ACTIVE", "SUSPENDED", "CANCELLED", "EXPIRED"}

\* SIGNING stands for the wizard's steps before PAYMENT.
EnrollmentStep == {"SIGNING", "PAYMENT", "COMPLETED"}

\* `free' is enrollment_type = FREE; the payment code does not tell
\* FULL_PAYMENT and INSTALLMENT apart once the payment type is given.
EnrollmentRow ==
  [status : EnrollmentStatus \cup {"ABSENT", "DELETED"},
   step   : EnrollmentStep,
   free   : BOOLEAN,
   order  : Orders \cup {None}]

OrderRow ==
  [status : {"NONE", "PENDING", "PARTIALLY_PAID", "PAID", "DELETED"},
   mode   : {"INSTALLMENT", "MANUAL", "FREE"},
   owner  : Enrollments \cup {None},
   total  : {0, Fee},
   paid   : 0..Fee,
   due    : 0..Fee]

PlanRow ==
  [status : {"NONE", "ACTIVE", "OVERDUE", "COMPLETED"},
   count  : 0..MaxInstallments]

InstallmentStatus == {"NONE", "PENDING", "PAID", "OVERDUE"}

AbsentEnrollment ==
  [status |-> "ABSENT", step |-> "SIGNING", free |-> FALSE, order |-> None]

\* An enrollment the student's wizard has brought to the given step.
WizardEnrollment(step) ==
  [status |-> "PENDING", step |-> step, free |-> FALSE, order |-> None]

NoOrder ==
  [status |-> "NONE", mode |-> "MANUAL", owner |-> None,
   total |-> 0, paid |-> 0, due |-> 0]

FreeOrder(e) ==
  [status |-> "PAID", mode |-> "FREE", owner |-> e,
   total |-> 0, paid |-> 0, due |-> 0]

PendingOrder(e, mode) ==
  [status |-> "PENDING", mode |-> mode, owner |-> e,
   total |-> Fee, paid |-> 0, due |-> Fee]

NoPlan == [status |-> "NONE", count |-> 0]

NoInstallments == [i \in Numbers |-> "NONE"]

NewInstallments(n) == [i \in Numbers |-> IF i <= n THEN "PENDING" ELSE "NONE"]

Live(e) == enrollment[e].status \in EnrollmentStatus

FreshOrders == {o \in Orders : order[o].status = "NONE"}

-----------------------------------------------------------------------------
(* Amounts *)

\* The fee split over n installments: equal parts, the remainder spread over
\* the first installments one unit each.
Share(n, i) == (Fee \div n) + (IF i <= Fee % n THEN 1 ELSE 0)

\* What the installments of S are worth together in a plan of n.
Worth(n, S) == (Fee \div n) * Cardinality(S) + Cardinality(S \cap (1..(Fee % n)))

Open(rows) == {i \in Numbers : rows[i] \in {"PENDING", "OVERDUE"}}

PaidOnes(rows) == {i \in Numbers : rows[i] = "PAID"}

-----------------------------------------------------------------------------
(* What a staff request reads *)

NoRequest ==
  [kind |-> "none", enr |-> None, free |-> FALSE, order |-> None,
   total |-> 0, paid |-> 0, due |-> 0, count |-> 0, rows |-> NoInstallments]

Request ==
  [kind  : {"none", "pay", "edit", "delete"},
   enr   : Enrollments \cup {None},
   free  : BOOLEAN,
   order : Orders \cup {None},
   total : {0, Fee},
   paid  : 0..Fee,
   due   : 0..Fee,
   count : 0..MaxInstallments,
   rows  : [Numbers -> InstallmentStatus]]

\* The read phase of updateEnrollment and deleteEnrollment keeps the type and
\* the order id; addManualPayment also keeps the order, its plan and its
\* installments.  Without an order the amounts are those of the order the
\* commit will create.
ReadRows(kind, e) ==
  LET o == enrollment[e].order
      base == [NoRequest EXCEPT !.kind = kind, !.enr = e,
                                !.free = enrollment[e].free, !.order = o]
  IN  IF kind # "pay" THEN base
      ELSE IF o = None THEN [base EXCEPT !.total = Fee, !.due = Fee]
      ELSE [base EXCEPT !.total = order[o].total, !.paid = order[o].paid,
                        !.due = order[o].due, !.count = plan[o].count,
                        !.rows = installment[o]]

\* The order a commit writes to: a new one when none was linked at the read,
\* else the one read, provided it still exists.
TargetOrders(r) ==
  IF r.order = None THEN FreshOrders
  ELSE {o \in {r.order} : order[o].status # "DELETED"}

Start(a, e, kind) ==
  /\ request[a].kind = "none"
  /\ requests < MaxRequests
  /\ Live(e)
  /\ request' = [request EXCEPT ![a] = ReadRows(kind, e)]
  /\ requests' = requests + 1
  /\ UNCHANGED <<enrollment, order, plan, installment, lapsed, sweep,
                 received, waived, decidedBy>>

Finish(a) ==
  /\ request' = [request EXCEPT ![a] = NoRequest]
  /\ UNCHANGED <<lapsed, sweep, requests>>

-----------------------------------------------------------------------------
(* Enrolling, editing and deleting *)

\* makeEnrolment: the check for an enrollment of the student is backed by the
\* unique index on (user_id, course_id), so check and creation are one step.
MakeEnrolment(e, o, free) ==
  /\ enrollment[e].status = "ABSENT"
  /\ o \in FreshOrders
  /\ order' = [order EXCEPT ![o] = IF free THEN FreeOrder(e)
                                           ELSE PendingOrder(e, "MANUAL")]
  /\ enrollment' = [enrollment EXCEPT ![e] =
       [status |-> IF free THEN "ACTIVE" ELSE "PENDING",
        step   |-> IF free THEN "COMPLETED" ELSE "PAYMENT",
        free   |-> free,
        order  |-> o]]
  /\ waived' = IF free THEN waived \cup {o} ELSE waived
  /\ decidedBy' = [decidedBy EXCEPT ![e] = "admin"]
  /\ UNCHANGED <<plan, installment, lapsed, request, sweep, received, requests>>

\* updateEnrollment reads the enrollment and its order id, stores the files ...
StartEdit(a, e) == Start(a, e, "edit")

\* ... decides from the snapshot whether the enrollment is free ...
EditsToFree(r, type) == type = TRUE \/ (type = None /\ r.free)

\* ... and writes the order and the enrollment.  The order is re-read here, to
\* see whether it has to be charged again.
EditedOrder(r, o, isFree) ==
  IF r.order = None
    THEN IF isFree THEN FreeOrder(r.enr) ELSE PendingOrder(r.enr, "MANUAL")
  ELSE IF isFree
    THEN [FreeOrder(r.enr) EXCEPT !.owner = order[o].owner]
  ELSE IF order[o].mode = "FREE"
    THEN [PendingOrder(r.enr, "MANUAL") EXCEPT !.owner = order[o].owner]
  ELSE order[o]

\* type, status and step are the fields of the request body, None if omitted.
CommitEdit(a, o, type, status, step) ==
  LET r == request[a]
      isFree == EditsToFree(r, type)
      decides == isFree \/ status # None \/ step # None
      row == enrollment[r.enr]
  IN  /\ r.kind = "edit"
      /\ Live(r.enr)
      /\ o \in TargetOrders(r)
      /\ order' = [order EXCEPT ![o] = EditedOrder(r, o, isFree)]
      /\ enrollment' = [enrollment EXCEPT ![r.enr] =
           [status |-> IF isFree THEN "ACTIVE"
                       ELSE IF status # None THEN status ELSE row.status,
            step   |-> IF isFree THEN "COMPLETED"
                       ELSE IF step # None THEN step ELSE row.step,
            free   |-> IF type # None THEN type ELSE row.free,
            order  |-> IF r.order = None THEN o ELSE row.order]]
      /\ waived' = IF isFree THEN waived \cup {o} ELSE waived
      /\ decidedBy' = IF decides THEN [decidedBy EXCEPT ![r.enr] = "admin"]
                                 ELSE decidedBy
      /\ UNCHANGED <<plan, installment, received>>
      /\ Finish(a)

\* deleteEnrollment reads the enrollment, deletes the files ...
StartDelete(a, e) == Start(a, e, "delete")

\* ... and deletes the rows.  Deleting the order cascades to its plan and its
\* installments; an order linked after the read is not deleted.
CommitDelete(a) ==
  LET r == request[a]
      gone == {r.order} \cap Orders
  IN  /\ r.kind = "delete"
      /\ Live(r.enr)
      /\ enrollment' = [enrollment EXCEPT ![r.enr] =
                          [AbsentEnrollment EXCEPT !.status = "DELETED"]]
      /\ order' = [o \in Orders |->
                     IF o \in gone THEN [NoOrder EXCEPT !.status = "DELETED"]
                                   ELSE order[o]]
      /\ plan' = [o \in Orders |-> IF o \in gone THEN NoPlan ELSE plan[o]]
      /\ installment' = [o \in Orders |->
                           IF o \in gone THEN NoInstallments ELSE installment[o]]
      /\ lapsed' = [o \in Orders |-> IF o \in gone THEN {} ELSE lapsed[o]]
      /\ request' = [request EXCEPT ![a] = NoRequest]
      /\ UNCHANGED <<sweep, received, waived, decidedBy, requests>>

-----------------------------------------------------------------------------
(* Manual payments *)

\* addManualPayment refuses an enrollment that is FREE when it is read.
StartPayment(a, e) ==
  /\ ~enrollment[e].free
  /\ Start(a, e, "pay")

OrderBefore(r, o, mode) ==
  IF r.order = None THEN PendingOrder(r.enr, mode) ELSE order[o]

\* The enrollment row, linked to the order this payment creates, if it does.
Linked(r, o) ==
  [enrollment[r.enr] EXCEPT !.order = IF r.order = None THEN o ELSE @]

Payable(r, o) ==
  /\ r.kind = "pay"
  /\ Live(r.enr)
  /\ o \in TargetOrders(r)

\* Mutant of Covers: any amount settles the order.
CoversWithAnything(r, amount) == amount >= 0

\* A one-time payment has to cover what the order had due when it was read.
Covers(r, amount) == amount >= r.due

\* A successful one-time payment settles the order, whatever its plan says.
PayOneTime(a, o, amount) ==
  LET r == request[a]
  IN  /\ Payable(r, o)
      /\ Covers(r, amount)
      /\ order' = [order EXCEPT ![o] =
           [OrderBefore(r, o, "MANUAL") EXCEPT
              !.status = "PAID", !.mode = "MANUAL", !.paid = r.total, !.due = 0]]
      /\ enrollment' = [enrollment EXCEPT ![r.enr] =
           [Linked(r, o) EXCEPT !.status = "ACTIVE", !.step = "COMPLETED"]]
      /\ received' = [received EXCEPT ![o] = @ + amount]
      /\ decidedBy' = [decidedBy EXCEPT ![r.enr] = "payment"]
      /\ UNCHANGED <<plan, installment, waived>>
      /\ Finish(a)

\* A one-time payment recorded as PENDING or FAILED still creates the order.
RecordOneTime(a, o) ==
  LET r == request[a]
  IN  /\ Payable(r, o)
      /\ order' = [order EXCEPT ![o] = OrderBefore(r, o, "MANUAL")]
      /\ enrollment' = [enrollment EXCEPT ![r.enr] = Linked(r, o)]
      /\ UNCHANGED <<plan, installment, received, waived, decidedBy>>
      /\ Finish(a)

\* addManualInstallmentPayment: the plan is the one read, or a new plan of n
\* installments, which the unique order_id refuses when another request made
\* one since and which cannot take a payment when the order read had no fee.
PlanOf(r, o, n) ==
  \/ r.count # 0 /\ n = r.count
  \/ r.count = 0 /\ n \in Numbers /\ plan[o].count = 0 /\ r.total # 0

\* The installments as this payment sees them: new ones, or those read.
SeenRows(r, n) == IF r.count = 0 THEN NewInstallments(n) ELSE r.rows

\* The installments as they are in the table when the transaction commits.
StoredRows(r, o, n) == IF r.count = 0 THEN NewInstallments(n) ELSE installment[o]

\* The amount has to match a run of open installments; the installment
\* numbers of the request select them, so every set of them can be paid.
Selection(r, n) == (SUBSET Open(SeenRows(r, n))) \ {{}}

NextPaid(r, n, S) ==
  IF r.paid + Worth(n, S) <= r.total THEN r.paid + Worth(n, S) ELSE r.total

NextDue(r, n, S) == r.total - NextPaid(r, n, S)

\* Mutant of Completes: only the installments are looked at.
CompletesByInstallments(r, n, S) ==
  \A i \in 1..n : i \in S \/ SeenRows(r, n)[i] = "PAID"

\* Mutant of Completes: an installment that is not PENDING counts as paid.
CompletesUnlessPending(r, n, S) ==
  \/ NextDue(r, n, S) = 0
  \/ \A i \in 1..n : i \in S \/ SeenRows(r, n)[i] # "PENDING"

\* Nothing is due any more, or every installment seen is paid now.
Completes(r, n, S) ==
  \/ NextDue(r, n, S) = 0
  \/ \A i \in 1..n : i \in S \/ SeenRows(r, n)[i] = "PAID"

PayInstallments(a, o, n, S) ==
  LET r == request[a]
      done == Completes(r, n, S)
  IN  /\ Payable(r, o)
      /\ PlanOf(r, o, n)
      /\ S \in Selection(r, n)
      /\ installment' = [installment EXCEPT ![o] =
           [i \in Numbers |-> IF i \in S THEN "PAID" ELSE StoredRows(r, o, n)[i]]]
      /\ order' = [order EXCEPT ![o] =
           [OrderBefore(r, o, "INSTALLMENT") EXCEPT
              !.status = IF done THEN "PAID" ELSE "PARTIALLY_PAID",
              !.mode = "INSTALLMENT",
              !.paid = NextPaid(r, n, S),
              !.due = IF done THEN 0 ELSE NextDue(r, n, S)]]
      /\ plan' = [plan EXCEPT ![o] =
           [status |-> IF done THEN "COMPLETED" ELSE "ACTIVE", count |-> n]]
      /\ enrollment' = [enrollment EXCEPT ![r.enr] =
           [Linked(r, o) EXCEPT !.status = "ACTIVE",
                                !.step = IF done THEN "COMPLETED" ELSE "PAYMENT"]]
      /\ received' = [received EXCEPT ![o] = @ + Worth(n, S)]
      /\ decidedBy' = [decidedBy EXCEPT ![r.enr] = "payment"]
      /\ UNCHANGED waived
      /\ Finish(a)

\* An installment payment recorded as PENDING or FAILED still creates the
\* order and the plan.
RecordInstallments(a, o, n) ==
  LET r == request[a]
  IN  /\ Payable(r, o)
      /\ PlanOf(r, o, n)
      /\ Selection(r, n) # {}
      /\ order' = [order EXCEPT ![o] = OrderBefore(r, o, "INSTALLMENT")]
      /\ enrollment' = [enrollment EXCEPT ![r.enr] = Linked(r, o)]
      /\ installment' = [installment EXCEPT ![o] = StoredRows(r, o, n)]
      /\ plan' = [plan EXCEPT ![o] =
           IF r.count = 0 THEN [status |-> "ACTIVE", count |-> n] ELSE @]
      /\ UNCHANGED <<received, waived, decidedBy>>
      /\ Finish(a)

\* A request that is refused, fails or is rolled back leaves no trace.
Abort(a) ==
  /\ request[a].kind # "none"
  /\ Finish(a)
  /\ UNCHANGED <<enrollment, order, plan, installment, received, waived, decidedBy>>

-----------------------------------------------------------------------------
(* The overdue job *)

\* A due date passes.
Lapse(o, i) ==
  /\ i \in 1..plan[o].count
  /\ i \notin lapsed[o]
  /\ lapsed' = [lapsed EXCEPT ![o] = @ \cup {i}]
  /\ UNCHANGED <<enrollment, order, plan, installment, request, sweep,
                 received, waived, decidedBy, requests>>

\* Mutant of IsOverdue: the due date is not looked at.
IsOverdueEarly(o, i, e) ==
  /\ i \in Open(installment[o])
  /\ plan[o].status = "ACTIVE"
  /\ enrollment[e].order = o
  /\ enrollment[e].status = "ACTIVE"

\* An open installment past its due date, of an active plan whose enrollment
\* has access.
IsOverdue(o, i, e) ==
  /\ i \in Open(installment[o])
  /\ i \in lapsed[o]
  /\ plan[o].status = "ACTIVE"
  /\ enrollment[e].order = o
  /\ enrollment[e].status = "ACTIVE"

\* Mutant of Overdue: an installment found overdue before is not found again.
OverdueOnlyPending ==
  {t \in Orders \X Numbers \X Enrollments :
     /\ IsOverdue(t[1], t[2], t[3])
     /\ installment[t[1]][t[2]] = "PENDING"}

Overdue ==
  {t \in Orders \X Numbers \X Enrollments : IsOverdue(t[1], t[2], t[3])}

\* suspendOverdueInstallmentAccess finds the overdue installments (and stops
\* here when there is none) ...
Scan(s) ==
  /\ sweep[s] = {}
  /\ sweep' = [sweep EXCEPT ![s] = Overdue]
  /\ UNCHANGED <<enrollment, order, plan, installment, lapsed, request,
                 received, waived, decidedBy, requests>>

Found(s, o, i) == \E e \in Enrollments : <<o, i, e>> \in sweep[s]

FoundEnrollment(s, e) == \E o \in Orders, i \in Numbers : <<o, i, e>> \in sweep[s]

\* ... and then, in a transaction that checks no status again, marks them and
\* their plans OVERDUE and suspends the enrollments.
Suspend(s) ==
  /\ sweep[s] # {}
  /\ installment' = [o \in Orders |-> [i \in Numbers |->
       IF Found(s, o, i) /\ installment[o][i] # "NONE"
         THEN "OVERDUE" ELSE installment[o][i]]]
  /\ plan' = [o \in Orders |->
       IF (\E i \in Numbers : Found(s, o, i)) /\ plan[o].status # "NONE"
         THEN [plan[o] EXCEPT !.status = "OVERDUE"] ELSE plan[o]]
  /\ enrollment' = [e \in Enrollments |->
       IF FoundEnrollment(s, e) /\ Live(e)
         THEN [enrollment[e] EXCEPT !.status = "SUSPENDED"] ELSE enrollment[e]]
  /\ decidedBy' = [e \in Enrollments |->
       IF FoundEnrollment(s, e) /\ Live(e) THEN "sweep" ELSE decidedBy[e]]
  /\ sweep' = [sweep EXCEPT ![s] = {}]
  /\ UNCHANGED <<order, lapsed, request, received, waived, requests>>

\* The job fails or the server restarts between the two: what was found is lost.
SweepFails(s) ==
  /\ sweep[s] # {}
  /\ sweep' = [sweep EXCEPT ![s] = {}]
  /\ UNCHANGED <<enrollment, order, plan, installment, lapsed, request,
                 received, waived, decidedBy, requests>>

-----------------------------------------------------------------------------
(* The specification *)

Init ==
  /\ enrollment \in [Enrollments -> {AbsentEnrollment, WizardEnrollment("SIGNING"),
                                     WizardEnrollment("PAYMENT")}]
  /\ order = [o \in Orders |-> NoOrder]
  /\ plan = [o \in Orders |-> NoPlan]
  /\ installment = [o \in Orders |-> NoInstallments]
  /\ lapsed = [o \in Orders |-> {}]
  /\ request = [a \in Admins |-> NoRequest]
  /\ sweep = [s \in Sweepers |-> {}]
  /\ received = [o \in Orders |-> 0]
  /\ waived = {}
  /\ decidedBy = [e \in Enrollments |-> "nobody"]
  /\ requests = 0

\* Staff who enrol, edit and delete.
Editing ==
  \/ \E e \in Enrollments, o \in Orders, free \in BOOLEAN : MakeEnrolment(e, o, free)
  \/ \E a \in Admins, e \in Enrollments : StartEdit(a, e) \/ StartDelete(a, e)
  \/ \E a \in Admins, o \in Orders, type \in BOOLEAN \cup {None},
        status \in EditStatuses \cup {None}, step \in EnrollmentStep \cup {None} :
       CommitEdit(a, o, type, status, step)
  \/ \E a \in Admins : CommitDelete(a)

\* Staff who record payments.
Paying ==
  \/ \E a \in Admins, e \in Enrollments : StartPayment(a, e)
  \/ \E a \in Admins, o \in Orders :
       \/ \E amount \in 1..Fee : PayOneTime(a, o, amount)
       \/ RecordOneTime(a, o)
       \/ \E n \in Numbers : RecordInstallments(a, o, n)
       \/ \E n \in Numbers, S \in SUBSET Numbers : PayInstallments(a, o, n, S)
  \/ \E a \in Admins : Abort(a)

\* The clock and the overdue job.
Sweeping ==
  \/ \E o \in Orders, i \in Numbers : Lapse(o, i)
  \/ \E s \in Sweepers : Scan(s) \/ Suspend(s) \/ SweepFails(s)

Next == Editing \/ Paying \/ Sweeping

Spec == Init /\ [][Next]_vars

\* The job is repeated every hour, so a scan is always taken in the end; runs
\* may fail, but not for ever.
FairSpec ==
  /\ Spec
  /\ \A s \in Sweepers : WF_vars(Scan(s)) /\ SF_vars(Suspend(s))

-----------------------------------------------------------------------------
(* Properties *)

\* Every row, snapshot and finding has the shape the schema gives it.
TypeOK ==
  /\ enrollment \in [Enrollments -> EnrollmentRow]
  /\ order \in [Orders -> OrderRow]
  /\ plan \in [Orders -> PlanRow]
  /\ installment \in [Orders -> [Numbers -> InstallmentStatus]]
  /\ lapsed \in [Orders -> SUBSET Numbers]
  /\ request \in [Admins -> Request]
  /\ sweep \in [Sweepers -> SUBSET (Orders \X Numbers \X Enrollments)]
  /\ received \in [Orders -> Nat]
  /\ waived \in SUBSET Orders
  /\ decidedBy \in [Enrollments -> {"nobody", "admin", "payment", "sweep"}]
  /\ requests \in 0..MaxRequests

\* The books never claim more than was received.  Whatever the interleaving of
\* payments computed from stale snapshots, an order that was never made FREE
\* is credited at most what was received on it, and it is PAID, and its plan
\* COMPLETED, only when the whole fee was received.
CreditIsCovered ==
  \A o \in Orders \ waived :
    /\ order[o].paid <= received[o]
    /\ order[o].status = "PAID" => received[o] >= Fee
    /\ plan[o].status = "COMPLETED" => received[o] >= Fee

\* An order says PAID exactly when it has nothing due: the two columns are
\* written by four handlers, some of them from stale amounts.
PaidIffNothingDue ==
  \A o \in Orders :
    order[o].status \in {"PENDING", "PARTIALLY_PAID", "PAID"} =>
      (order[o].status = "PAID" <=> order[o].due = 0)

\* Access a payment gave was paid for: complete access with the whole fee,
\* access for the time being with a part of it, on some order of the
\* enrollment (or on an order an admin had made FREE).
AccessIsPaidFor ==
  \A e \in Enrollments :
    Live(e) /\ decidedBy[e] = "payment" =>
      \E o \in Orders :
        /\ order[o].owner = e
        /\ \/ o \in waived
           \/ received[o] >= Fee
           \/ enrollment[e].step # "COMPLETED" /\ received[o] > 0

\* Access the overdue job took away was overdue: some order of the enrollment
\* has a plan marked OVERDUE and an installment marked OVERDUE whose due date
\* has passed, although the job re-checks nothing when it writes.
SuspensionIsWarranted ==
  \A e \in Enrollments :
    Live(e) /\ decidedBy[e] = "sweep" =>
      \E o \in Orders :
        /\ order[o].owner = e
        /\ plan[o].status = "OVERDUE"
        /\ \E i \in lapsed[o] : installment[o][i] = "OVERDUE"

\* An enrollment is linked to at most an order of its own that still exists,
\* although orders are linked and deleted from stale snapshots.
LinkedOrderExists ==
  \A e \in Enrollments :
    enrollment[e].order # None =>
      /\ order[enrollment[e].order].owner = e
      /\ order[enrollment[e].order].status \notin {"NONE", "DELETED"}

\* A student with access, an active plan and an unpaid installment past its due
\* date does not stay that way: the hourly job suspends the access unless a
\* payment comes first.
OverdueIsActedOn ==
  \A o \in Orders, i \in Numbers, e \in Enrollments :
    IsOverdue(o, i, e) ~> ~IsOverdue(o, i, e)

\* What the route of the job says, "Suspend enrollments with overdue
\* installments": access is taken from an enrollment that has an overdue
\* installment when it is taken.  The code does not do this: a payment may come
\* between the two halves of the job.
OnlyOverdueIsSuspended ==
  [][\A e \in Enrollments :
       /\ enrollment[e].status = "ACTIVE"
       /\ enrollment'[e].status = "SUSPENDED"
       /\ decidedBy'[e] = "sweep"
       => \E o \in Orders, i \in Numbers : IsOverdue(o, i, e)]_vars

-----------------------------------------------------------------------------
(* The inductive invariant *)

Exists(o) == order[o].status \notin {"NONE", "DELETED"}

\* A snapshot refers to rows that belong together, or are gone by now.
SnapshotRefersToOwn(r) ==
  r.kind # "none" =>
    /\ r.enr \in Enrollments
    /\ r.order # None => \/ order[r.order].status = "DELETED"
                          \/ order[r.order].owner = r.enr

\* An installment found overdue is still there, and past its due date, as long
\* as the enrollment it belongs to is.
FindingRefersToOwn(o, i, e) ==
  /\ enrollment[e].status # "ABSENT"
  /\ Live(e) => /\ order[o].owner = e
                /\ i \in lapsed[o]
                /\ installment[o][i] # "NONE"
                /\ plan[o].status # "NONE"

RefersToOwn ==
  /\ LinkedOrderExists
  /\ \A o \in Orders : Exists(o) <=> order[o].owner # None
  /\ \A o \in Orders : plan[o].count = 0 <=> plan[o].status = "NONE"
  /\ \A a \in Admins : SnapshotRefersToOwn(request[a])
  /\ \A s \in Sweepers, o \in Orders, i \in Numbers, e \in Enrollments :
       <<o, i, e>> \in sweep[s] => FindingRefersToOwn(o, i, e)

\* Credit and debt of an order account for the whole fee, and the paid
\* installments are covered.
OrderIsCovered(o) ==
  /\ o \notin waived => /\ order[o].paid <= received[o]
                        /\ Exists(o) => /\ order[o].total = Fee
                                        /\ order[o].due + received[o] >= Fee
                        /\ plan[o].status = "COMPLETED" => received[o] >= Fee
  /\ plan[o].count # 0 =>
       Worth(plan[o].count, PaidOnes(installment[o])) <= received[o]

\* The same of what a payment has read: the money received since can only
\* have grown.
SnapshotIsCovered(r) ==
  r.kind = "pay" =>
    IF r.order = None
      THEN r.total = Fee /\ r.paid = 0 /\ r.due = Fee /\ r.count = 0
      ELSE Exists(r.order) =>
             /\ r.order \notin waived => /\ r.total = Fee
                                         /\ r.paid <= received[r.order]
                                         /\ r.due + received[r.order] >= Fee
             /\ r.count # 0 =>
                  /\ plan[r.order].count = r.count
                  /\ Worth(r.count, PaidOnes(r.rows)) <= received[r.order]

Covered ==
  /\ PaidIffNothingDue
  /\ \A o \in Orders : OrderIsCovered(o)
  /\ \A a \in Admins : SnapshotIsCovered(request[a])

\* What the invariants above need to be inductive.
IInv ==
  /\ TypeOK
  /\ RefersToOwn
  /\ Covered
  /\ AccessIsPaidFor
  /\ SuspensionIsWarranted
=============================================================================
