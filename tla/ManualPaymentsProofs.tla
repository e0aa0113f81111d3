------------------------ MODULE ManualPaymentsProofs ------------------------
(* Theorems about ManualPayments, for every value of its constants. *)
EXTENDS ManualPayments, FiniteSetTheorems, TLAPS

-----------------------------------------------------------------------------
(* What installments are worth *)

\* The remainder of the fee is spread over fewer than n installments.
LEMMA FeeSplit ==
  ASSUME NEW n \in Numbers
  PROVE  /\ Fee \div n \in Nat \ {0}
         /\ Fee % n \in 0..(n - 1)
         /\ Fee = (Fee \div n) * n + (Fee % n)
<1>1. n \in 1..Fee /\ Fee \in Nat
  BY BillingAssumption DEF Numbers
<1>2. \A f \in Nat : \A m \in 1..f : /\ f \div m \in Nat \ {0}
                                     /\ f % m \in 0..(m - 1)
                                     /\ f = (f \div m) * m + (f % m)
  BY Z3
<1> QED BY <1>1, <1>2

\* Sets of installment numbers are finite.
LEMMA CardinalityOfNumbers ==
  ASSUME NEW S \in SUBSET Numbers
  PROVE  /\ IsFiniteSet(S)
         /\ Cardinality(S) \in Nat
<1>1. IsFiniteSet(Numbers)
  BY FS_Interval, BillingAssumption DEF Numbers
<1> QED BY <1>1, FS_Subset, FS_CardinalityType

\* Products with a natural factor are monotone and distribute.
LEMMA Products ==
  ASSUME NEW q \in Nat, NEW a \in Nat, NEW b \in Nat
  PROVE  /\ q * a \in Nat
         /\ q * (a + b) = q * a + q * b
         /\ a <= b => q * a <= q * b
<1>1. q * a \in Nat /\ q * b \in Nat
  BY Z3
<1>2. q * (a + b) = q * a + q * b
  BY Z3
<1>3. ASSUME a <= b PROVE q * a <= q * b
  BY <1>3, Z3
<1> QED BY <1>1, <1>2, <1>3

\* A set of installments is worth a natural amount, at least one unit if any.
LEMMA WorthIsNatural ==
  ASSUME NEW n \in Numbers, NEW S \in SUBSET Numbers
  PROVE  /\ Worth(n, S) \in Nat
         /\ S # {} => Worth(n, S) >= 1
<1> DEFINE q == Fee \div n
           head == S \cap (1..(Fee % n))
<1>1. /\ q \in Nat \ {0}
      /\ Cardinality(S) \in Nat
      /\ Cardinality(head) \in Nat
  BY FeeSplit, CardinalityOfNumbers
<1>2. q * Cardinality(S) \in Nat
  BY <1>1, Products
<1>3. Worth(n, S) = q * Cardinality(S) + Cardinality(head)
  BY DEF Worth
<1>4. ASSUME S # {} PROVE q * 1 <= q * Cardinality(S)
  <2>1. Cardinality(S) # 0
    BY <1>4, FS_EmptySet, CardinalityOfNumbers
  <2> QED BY <2>1, <1>1, Products
<1> HIDE DEF q, head
<1>5. q * 1 = q
  BY <1>1
<1> QED BY <1>1, <1>2, <1>3, <1>4, <1>5

\* More installments are worth more.
LEMMA WorthIsMonotone ==
  ASSUME NEW n \in Numbers, NEW T \in SUBSET Numbers, NEW S \in SUBSET T
  PROVE  Worth(n, S) <= Worth(n, T)
<1> DEFINE q == Fee \div n
           front == 1..(Fee % n)
<1>1. q \in Nat
  BY FeeSplit
<1>2. /\ Cardinality(S) \in Nat /\ Cardinality(T) \in Nat
      /\ Cardinality(S \cap front) \in Nat /\ Cardinality(T \cap front) \in Nat
      /\ IsFiniteSet(T) /\ IsFiniteSet(T \cap front)
  BY CardinalityOfNumbers
<1>3. Cardinality(S) <= Cardinality(T)
  BY <1>2, FS_Subset
<1>4. Cardinality(S \cap front) <= Cardinality(T \cap front)
  <2>1. S \cap front \subseteq T \cap front
    OBVIOUS
  <2> QED BY <2>1, <1>2, FS_Subset
<1>5. q * Cardinality(S) <= q * Cardinality(T)
  BY <1>1, <1>2, <1>3, Products
<1>6. q * Cardinality(S) \in Nat /\ q * Cardinality(T) \in Nat
  BY <1>1, <1>2, Products
<1>7. /\ Worth(n, S) = q * Cardinality(S) + Cardinality(S \cap front)
      /\ Worth(n, T) = q * Cardinality(T) + Cardinality(T \cap front)
  BY DEF Worth
<1> HIDE DEF q, front
<1> QED BY <1>2, <1>4, <1>5, <1>6, <1>7

\* Two sets of installments together are worth no more than the two apart.
LEMMA WorthOfUnion ==
  ASSUME NEW n \in Numbers, NEW S \in SUBSET Numbers, NEW T \in SUBSET Numbers
  PROVE  Worth(n, S \cup T) <= Worth(n, S) + Worth(n, T)
<1> DEFINE q == Fee \div n
           front == 1..(Fee % n)
           c(U) == Cardinality(U)
<1>1. q \in Nat
  BY FeeSplit
<1>2. /\ c(S) \in Nat /\ c(T) \in Nat /\ c(S \cup T) \in Nat
      /\ c(S \cap front) \in Nat /\ c(T \cap front) \in Nat
      /\ c((S \cup T) \cap front) \in Nat
      /\ IsFiniteSet(S) /\ IsFiniteSet(T)
      /\ IsFiniteSet(S \cap front) /\ IsFiniteSet(T \cap front)
  BY CardinalityOfNumbers
<1>3. \A A, B : IsFiniteSet(A) /\ IsFiniteSet(B) => c(A \cup B) <= c(A) + c(B)
  <2> SUFFICES ASSUME NEW A, NEW B, IsFiniteSet(A), IsFiniteSet(B)
               PROVE  c(A \cup B) <= c(A) + c(B)
    OBVIOUS
  <2>1. c(A \cup B) = c(A) + c(B) - c(A \cap B)
    BY FS_Union
  <2>2. IsFiniteSet(A \cap B)
    BY FS_Intersection
  <2>3. c(A) \in Nat /\ c(B) \in Nat /\ c(A \cap B) \in Nat
    BY <2>2, FS_CardinalityType
  <2> QED BY <2>1, <2>3
<1>4. c(S \cup T) <= c(S) + c(T)
  BY <1>2, <1>3
<1>5. c((S \cup T) \cap front) <= c(S \cap front) + c(T \cap front)
  <2>1. (S \cup T) \cap front = (S \cap front) \cup (T \cap front)
    OBVIOUS
  <2> QED BY <2>1, <1>2, <1>3
<1>6. q * c(S \cup T) <= q * c(S) + q * c(T)
  <2>1. q * c(S \cup T) <= q * (c(S) + c(T))
    BY <1>1, <1>2, <1>4, Products
  <2> QED BY <2>1, <1>1, <1>2, Products
<1>7. q * c(S) \in Nat /\ q * c(T) \in Nat /\ q * c(S \cup T) \in Nat
  BY <1>1, <1>2, Products
<1>8. /\ Worth(n, S) = q * c(S) + c(S \cap front)
      /\ Worth(n, T) = q * c(T) + c(T \cap front)
      /\ Worth(n, S \cup T) = q * c(S \cup T) + c((S \cup T) \cap front)
  BY DEF Worth
<1> HIDE DEF q, front, c
<1> QED BY <1>2, <1>5, <1>6, <1>7, <1>8

\* All the installments of a plan are worth the fee, none of them nothing.
LEMMA WorthOfPlan ==
  ASSUME NEW n \in Numbers
  PROVE  /\ Worth(n, 1..n) = Fee
         /\ Worth(n, {}) = 0
<1>1. /\ n \in Nat \ {0}
      /\ Fee % n \in 0..(n - 1)
      /\ Fee \div n \in Nat
      /\ Fee = (Fee \div n) * n + (Fee % n)
  BY FeeSplit, BillingAssumption DEF Numbers
<1>2. Cardinality(1..n) = n
  BY <1>1, FS_Interval
<1>3. Cardinality((1..n) \cap (1..(Fee % n))) = Fee % n
  <2>1. (1..n) \cap (1..(Fee % n)) = 1..(Fee % n)
    BY <1>1
  <2>2. Cardinality(1..(Fee % n)) = Fee % n
    BY <1>1, FS_Interval
  <2> QED BY <2>1, <2>2
<1>4. Worth(n, 1..n) = Fee
  BY <1>1, <1>2, <1>3 DEF Worth
<1>5. Cardinality({}) = 0 /\ {} \cap (1..(Fee % n)) = {}
  BY FS_EmptySet
<1>6. Worth(n, {}) = (Fee \div n) * 0 + 0
  BY <1>5 DEF Worth
<1> QED BY <1>1, <1>4, <1>6

-----------------------------------------------------------------------------
(* Type correctness *)

\* The rows the handlers write are rows.
LEMMA RowTypes ==
  /\ AbsentEnrollment \in EnrollmentRow
  /\ \A step \in {"SIGNING", "PAYMENT"} : WizardEnrollment(step) \in EnrollmentRow
  /\ NoOrder \in OrderRow
  /\ NoPlan \in PlanRow
  /\ NoInstallments \in [Numbers -> InstallmentStatus]
  /\ \A n \in Numbers : NewInstallments(n) \in [Numbers -> InstallmentStatus]
  /\ NoRequest \in Request
  /\ \A e \in Enrollments : FreeOrder(e) \in OrderRow
  /\ \A e \in Enrollments, mode \in {"INSTALLMENT", "MANUAL"} :
       PendingOrder(e, mode) \in OrderRow
<1>1. Fee \in Nat /\ MaxInstallments \in Nat
  BY BillingAssumption
<1>2. NoInstallments \in [Numbers -> InstallmentStatus]
  BY DEF NoInstallments, InstallmentStatus
<1>3. \A n \in Numbers : NewInstallments(n) \in [Numbers -> InstallmentStatus]
  BY DEF NewInstallments, InstallmentStatus
<1>4. /\ AbsentEnrollment \in EnrollmentRow
      /\ \A step \in {"SIGNING", "PAYMENT"} : WizardEnrollment(step) \in EnrollmentRow
  BY DEF AbsentEnrollment, WizardEnrollment, EnrollmentRow, EnrollmentStatus, EnrollmentStep
<1>5. /\ NoOrder \in OrderRow
      /\ \A e \in Enrollments : FreeOrder(e) \in OrderRow
      /\ \A e \in Enrollments, mode \in {"INSTALLMENT", "MANUAL"} :
           PendingOrder(e, mode) \in OrderRow
  BY <1>1 DEF NoOrder, FreeOrder, PendingOrder, OrderRow
<1>6. NoPlan \in PlanRow
  BY <1>1 DEF NoPlan, PlanRow
<1>7. NoRequest \in Request
  BY <1>1, <1>2 DEF NoRequest, Request
<1> QED BY <1>2, <1>3, <1>4, <1>5, <1>6, <1>7

\* A handler that writes an order has an enrollment of its own; the order is a
\* new one, which nobody owns yet, or the enrollment's own.
LEMMA OwnTarget ==
  ASSUME TypeOK, RefersToOwn, NEW a \in Admins, request[a].kind # "none",
         NEW o \in TargetOrders(request[a])
  PROVE  /\ o \in Orders
         /\ request[a].enr \in Enrollments
         /\ \/ /\ request[a].order = None
               /\ order[o].status = "NONE"
               /\ order[o].owner = None
            \/ /\ request[a].order = o
               /\ order[o].owner = request[a].enr
               /\ Exists(o)
<1>1. /\ request[a].enr \in Enrollments
      /\ request[a].order \in Orders \cup {None}
      /\ SnapshotRefersToOwn(request[a])
  BY DEF TypeOK, RefersToOwn, SnapshotRefersToOwn, Request
<1>2. /\ o \in Orders
      /\ Exists(o) <=> order[o].owner # None
  BY <1>1, BillingAssumption DEF RefersToOwn, TargetOrders, FreshOrders
<1>3. CASE request[a].order = None
  BY <1>1, <1>2, <1>3 DEF TargetOrders, FreshOrders, Exists
<1>4. CASE request[a].order # None
  <2>1. o = request[a].order /\ order[o].status # "DELETED"
    BY <1>4 DEF TargetOrders
  <2>2. order[o].owner = request[a].enr
    BY <1>1, <1>4, <2>1 DEF SnapshotRefersToOwn
  <2> QED BY <1>1, <1>2, <2>1, <2>2, BillingAssumption
<1> QED BY <1>3, <1>4

\* Updating the columns a payment or a read writes keeps a row a row.
LEMMA RowUpdates ==
  /\ \A x \in OrderRow, status \in {"PARTIALLY_PAID", "PAID"},
        mode \in {"INSTALLMENT", "MANUAL"}, paid \in 0..Fee, due \in 0..Fee :
       [x EXCEPT !.status = status, !.mode = mode, !.paid = paid, !.due = due] \in OrderRow
  /\ \A x \in EnrollmentRow : [x EXCEPT !.status = "SUSPENDED"] \in EnrollmentRow
  /\ \A kind \in {"pay", "edit", "delete"}, e \in Enrollments, free \in BOOLEAN,
        o \in Orders \cup {None} :
       [NoRequest EXCEPT !.kind = kind, !.enr = e, !.free = free, !.order = o] \in Request
<1>1. \A x \in OrderRow, status \in {"PARTIALLY_PAID", "PAID"},
         mode \in {"INSTALLMENT", "MANUAL"}, paid \in 0..Fee, due \in 0..Fee :
       [x EXCEPT !.status = status, !.mode = mode, !.paid = paid, !.due = due] \in OrderRow
  BY DEF OrderRow
<1>2. \A x \in EnrollmentRow : [x EXCEPT !.status = "SUSPENDED"] \in EnrollmentRow
  BY DEF EnrollmentRow, EnrollmentStatus
<1>3. \A x \in Request, kind \in {"pay", "edit", "delete"}, e \in Enrollments,
         free \in BOOLEAN, o \in Orders \cup {None} :
       [x EXCEPT !.kind = kind, !.enr = e, !.free = free, !.order = o] \in Request
  BY DEF Request
<1> QED BY <1>1, <1>2, <1>3, RowTypes

\* A linked enrollment is an enrollment row.
LEMMA LinkedType ==
  ASSUME TypeOK, NEW r, r.enr \in Enrollments, NEW o \in Orders
  PROVE  Linked(r, o) \in EnrollmentRow
<1> DEFINE row == enrollment[r.enr]
<1>1. row \in EnrollmentRow
  BY DEF TypeOK
<1>2. ASSUME NEW v \in Orders \cup {None}
      PROVE  [row EXCEPT !.order = v] \in EnrollmentRow
  BY <1>1, <1>2 DEF EnrollmentRow
<1>3. (IF r.order = None THEN o ELSE row.order) \in Orders \cup {None}
  BY <1>1 DEF EnrollmentRow
<1> QED BY <1>2, <1>3 DEF Linked

\* The amounts a payment writes are amounts.
LEMMA PaymentAmounts ==
  ASSUME TypeOK, NEW a \in Admins, NEW n \in Numbers, NEW S \in Selection(request[a], n)
  PROVE  /\ S \in SUBSET Numbers
         /\ S # {}
         /\ Worth(n, S) \in Nat
         /\ Worth(n, S) >= 1
         /\ NextPaid(request[a], n, S) \in 0..Fee
         /\ NextPaid(request[a], n, S) <= request[a].paid + Worth(n, S)
         /\ NextPaid(request[a], n, S) <= request[a].total
         /\ NextDue(request[a], n, S) \in 0..Fee
<1>1. S \in SUBSET Numbers /\ S # {}
  BY DEF Selection, Open
<1>2. Worth(n, S) \in Nat /\ Worth(n, S) >= 1
  BY <1>1, WorthIsNatural
<1>3. request[a].paid \in 0..Fee /\ request[a].total \in {0, Fee} /\ Fee \in Nat
  BY BillingAssumption DEF TypeOK, Request
<1> QED BY <1>1, <1>2, <1>3 DEF NextPaid, NextDue

\* Every step keeps every row, snapshot and finding in its type.
LEMMA TypeStep ==
  ASSUME TypeOK, RefersToOwn, [Next]_vars
  PROVE  TypeOK'
<1> USE DEF TypeOK
<1>0. Fee \in Nat \ {0} /\ MaxInstallments \in Nat \ {0} /\ MaxRequests \in Nat
  BY BillingAssumption
<1>1. ASSUME NEW e \in Enrollments, NEW o \in Orders, NEW free \in BOOLEAN,
             MakeEnrolment(e, o, free)
      PROVE  TypeOK'
  <2>1. order' \in [Orders -> OrderRow]
    BY <1>1, RowTypes DEF MakeEnrolment
  <2>2. enrollment' \in [Enrollments -> EnrollmentRow]
    BY <1>1 DEF MakeEnrolment, EnrollmentRow, EnrollmentStatus, EnrollmentStep
  <2>3. waived' \in SUBSET Orders
    BY <1>1 DEF MakeEnrolment
  <2> QED BY <1>1, <2>1, <2>2, <2>3 DEF MakeEnrolment
<1>2. ASSUME NEW a \in Admins, NEW e \in Enrollments,
             NEW kind \in {"pay", "edit", "delete"}, Start(a, e, kind)
      PROVE  TypeOK'
  <2>1. ReadRows(kind, e) \in Request
    <3>1. /\ enrollment[e].free \in BOOLEAN
          /\ enrollment[e].order \in Orders \cup {None}
          /\ \A o \in Orders : order[o] \in OrderRow /\ plan[o] \in PlanRow
      BY DEF EnrollmentRow
    <3> DEFINE base == [NoRequest EXCEPT !.kind = kind, !.enr = e,
                          !.free = enrollment[e].free, !.order = enrollment[e].order]
    <3>2. base \in Request
      BY <3>1, RowUpdates
    <3>3. CASE kind # "pay"
      BY <3>2, <3>3 DEF ReadRows
    <3>4. CASE kind = "pay" /\ enrollment[e].order = None
      <4>1. Fee \in {0, Fee} /\ Fee \in 0..Fee
        BY <1>0
      <4>2. \A x \in Request : [x EXCEPT !.total = Fee, !.due = Fee] \in Request
        BY <4>1 DEF Request
      <4> QED BY <3>2, <3>4, <4>2 DEF ReadRows
    <3>5. CASE kind = "pay" /\ enrollment[e].order # None
      <4> DEFINE o == enrollment[e].order
      <4>1. /\ order[o].total \in {0, Fee} /\ order[o].paid \in 0..Fee
            /\ order[o].due \in 0..Fee /\ plan[o].count \in 0..MaxInstallments
            /\ installment[o] \in [Numbers -> InstallmentStatus]
        BY <3>1, <3>5 DEF OrderRow, PlanRow
      <4>2. [base EXCEPT !.total = order[o].total, !.paid = order[o].paid,
                         !.due = order[o].due, !.count = plan[o].count,
                         !.rows = installment[o]] \in Request
        BY <3>2, <4>1 DEF Request
      <4> QED BY <3>5, <4>2 DEF ReadRows
    <3> QED BY <3>3, <3>4, <3>5
  <2> QED BY <1>0, <1>2, <2>1 DEF Start
<1>3. ASSUME NEW a \in Admins, NEW o \in Orders, NEW type \in BOOLEAN \cup {None},
             NEW status \in EditStatuses \cup {None},
             NEW step \in EnrollmentStep \cup {None},
             CommitEdit(a, o, type, status, step)
      PROVE  TypeOK'
  <2> DEFINE r == request[a]
             isFree == EditsToFree(r, type)
  <2>1. r \in Request /\ r.enr \in Enrollments
    BY <1>3, OwnTarget DEF CommitEdit
  <2>2. EditedOrder(r, o, isFree) \in OrderRow
    BY <2>1, <1>0 DEF EditedOrder, FreeOrder, PendingOrder, OrderRow
  <2>3. order' \in [Orders -> OrderRow]
    BY <1>3, <2>2 DEF CommitEdit
  <2>4. enrollment' \in [Enrollments -> EnrollmentRow]
    <3>1. /\ status # None => status \in EnrollmentStatus
          /\ step # None => step \in EnrollmentStep
          /\ type # None => type \in BOOLEAN
      BY BillingAssumption DEF EnrollmentStatus
    <3>2. enrollment[r.enr] \in EnrollmentRow
      BY <2>1
    <3> QED BY <1>3, <2>1, <3>1, <3>2 DEF CommitEdit, EnrollmentRow, EnrollmentStatus, EnrollmentStep
  <2>5. request' \in [Admins -> Request]
    BY <1>3, RowTypes DEF CommitEdit, Finish
  <2>6. waived' \in SUBSET Orders /\ decidedBy' \in [Enrollments -> {"nobody", "admin", "payment", "sweep"}]
    BY <1>3 DEF CommitEdit
  <2> QED BY <1>3, <2>3, <2>4, <2>5, <2>6 DEF CommitEdit, Finish
<1>4. ASSUME NEW a \in Admins, CommitDelete(a)
      PROVE  TypeOK'
  <2>1. /\ [AbsentEnrollment EXCEPT !.status = "DELETED"] \in EnrollmentRow
        /\ [NoOrder EXCEPT !.status = "DELETED"] \in OrderRow
    BY RowTypes DEF EnrollmentRow, OrderRow
  <2>2. enrollment' \in [Enrollments -> EnrollmentRow]
    BY <1>4, <2>1 DEF CommitDelete
  <2>3. order' \in [Orders -> OrderRow]
    BY <1>4, <2>1 DEF CommitDelete
  <2>4. plan' \in [Orders -> PlanRow] /\ installment' \in [Orders -> [Numbers -> InstallmentStatus]]
    BY <1>4, RowTypes DEF CommitDelete
  <2>5. lapsed' \in [Orders -> SUBSET Numbers] /\ request' \in [Admins -> Request]
    BY <1>4, RowTypes DEF CommitDelete
  <2> QED BY <1>4, <2>2, <2>3, <2>4, <2>5 DEF CommitDelete
<1>5. ASSUME NEW a \in Admins, NEW o \in Orders, NEW amount \in 1..Fee,
             PayOneTime(a, o, amount)
      PROVE  TypeOK'
  <2> DEFINE r == request[a]
  <2>1. r \in Request /\ r.enr \in Enrollments
    BY <1>5, OwnTarget DEF PayOneTime, Payable
  <2>2. OrderBefore(r, o, "MANUAL") \in OrderRow
    BY <2>1, RowTypes DEF OrderBefore
  <2>3. order' \in [Orders -> OrderRow]
    <3>1. r.total \in 0..Fee
      BY <1>0, <2>1 DEF Request
    <3>2. [OrderBefore(r, o, "MANUAL") EXCEPT
             !.status = "PAID", !.mode = "MANUAL", !.paid = r.total, !.due = 0] \in OrderRow
      <4>1. 0 \in 0..Fee
        BY <1>0
      <4> QED BY <2>2, <3>1, <4>1, RowUpdates
    <3> QED BY <1>5, <3>2 DEF PayOneTime
  <2>4. Linked(r, o) \in EnrollmentRow
    BY <2>1, LinkedType
  <2>5. enrollment' \in [Enrollments -> EnrollmentRow]
    BY <1>5, <2>4 DEF PayOneTime, EnrollmentRow, EnrollmentStatus, EnrollmentStep
  <2>6. received' \in [Orders -> Nat]
    BY <1>0, <1>5 DEF PayOneTime
  <2>7. request' \in [Admins -> Request] /\ decidedBy' \in [Enrollments -> {"nobody", "admin", "payment", "sweep"}]
    BY <1>5, RowTypes DEF PayOneTime, Finish
  <2> QED BY <1>5, <2>3, <2>5, <2>6, <2>7 DEF PayOneTime, Finish
<1>6. ASSUME NEW a \in Admins, NEW o \in Orders, RecordOneTime(a, o)
      PROVE  TypeOK'
  <2> DEFINE r == request[a]
  <2>1. r \in Request /\ r.enr \in Enrollments
    BY <1>6, OwnTarget DEF RecordOneTime, Payable
  <2>2. OrderBefore(r, o, "MANUAL") \in OrderRow
    BY <2>1, RowTypes DEF OrderBefore
  <2>3. Linked(r, o) \in EnrollmentRow
    BY <2>1, LinkedType
  <2>4. request' \in [Admins -> Request]
    BY <1>6, RowTypes DEF RecordOneTime, Finish
  <2> QED BY <1>6, <2>2, <2>3, <2>4 DEF RecordOneTime, Finish
<1>7. ASSUME NEW a \in Admins, NEW o \in Orders, NEW n \in Numbers,
             RecordInstallments(a, o, n)
      PROVE  TypeOK'
  <2> DEFINE r == request[a]
  <2>1. r \in Request /\ r.enr \in Enrollments
    BY <1>7, OwnTarget DEF RecordInstallments, Payable
  <2>2. OrderBefore(r, o, "INSTALLMENT") \in OrderRow
    BY <2>1, RowTypes DEF OrderBefore
  <2>3. Linked(r, o) \in EnrollmentRow
    BY <2>1, LinkedType
  <2>4. request' \in [Admins -> Request]
    BY <1>7, RowTypes DEF RecordInstallments, Finish
  <2>5. StoredRows(r, o, n) \in [Numbers -> InstallmentStatus]
    BY RowTypes DEF StoredRows
  <2>6. plan' \in [Orders -> PlanRow]
    BY <1>0, <1>7 DEF RecordInstallments, PlanRow, Numbers
  <2> QED BY <1>7, <2>2, <2>3, <2>4, <2>5, <2>6 DEF RecordInstallments, Finish
<1>8. ASSUME NEW a \in Admins, NEW o \in Orders, NEW n \in Numbers,
             NEW S \in SUBSET Numbers, PayInstallments(a, o, n, S)
      PROVE  TypeOK'
  <2> DEFINE r == request[a]
  <2>1. r \in Request /\ r.enr \in Enrollments
    BY <1>8, OwnTarget DEF PayInstallments, Payable
  <2>2. OrderBefore(r, o, "INSTALLMENT") \in OrderRow
    BY <2>1, RowTypes DEF OrderBefore
  <2>3. Linked(r, o) \in EnrollmentRow
    BY <2>1, LinkedType
  <2>4. request' \in [Admins -> Request] /\ decidedBy' \in [Enrollments -> {"nobody", "admin", "payment", "sweep"}]
    BY <1>8, RowTypes DEF PayInstallments, Finish
  <2>5. StoredRows(r, o, n) \in [Numbers -> InstallmentStatus]
    BY RowTypes DEF StoredRows
  <2>6. /\ Worth(n, S) \in Nat
        /\ NextPaid(r, n, S) \in 0..Fee
        /\ NextDue(r, n, S) \in 0..Fee
    BY <1>8, PaymentAmounts DEF PayInstallments
  <2>7. plan' \in [Orders -> PlanRow]
    BY <1>0, <1>8 DEF PayInstallments, PlanRow, Numbers
  <2>8. order' \in [Orders -> OrderRow]
    <3> DEFINE done == Completes(r, n, S)
           status == IF done THEN "PAID" ELSE "PARTIALLY_PAID"
           due == IF done THEN 0 ELSE NextDue(r, n, S)
    <3>1. status \in {"PARTIALLY_PAID", "PAID"} /\ due \in 0..Fee
      BY <1>0, <2>6
    <3> HIDE DEF status, due
    <3>2. [OrderBefore(r, o, "INSTALLMENT") EXCEPT
             !.status = status, !.mode = "INSTALLMENT",
             !.paid = NextPaid(r, n, S), !.due = due] \in OrderRow
      BY <2>2, <2>6, <3>1, RowUpdates
    <3> QED BY <1>8, <3>2 DEF PayInstallments, status, due
  <2>9. enrollment' \in [Enrollments -> EnrollmentRow]
    BY <1>8, <2>3 DEF PayInstallments, EnrollmentRow, EnrollmentStatus, EnrollmentStep
  <2>10. installment' \in [Orders -> [Numbers -> InstallmentStatus]]
    BY <1>8, <2>5 DEF PayInstallments, InstallmentStatus
  <2>11. received' \in [Orders -> Nat]
    BY <1>8, <2>6 DEF PayInstallments
  <2> QED BY <1>8, <2>4, <2>7, <2>8, <2>9, <2>10, <2>11 DEF PayInstallments, Finish
<1>9. ASSUME NEW a \in Admins, Abort(a)
      PROVE  TypeOK'
  BY <1>9, RowTypes DEF Abort, Finish
<1>10. ASSUME NEW o \in Orders, NEW i \in Numbers, Lapse(o, i)
       PROVE  TypeOK'
  BY <1>10 DEF Lapse
<1>11. ASSUME NEW s \in Sweepers, Scan(s)
       PROVE  TypeOK'
  BY <1>11 DEF Scan, Overdue
<1>12. ASSUME NEW s \in Sweepers, Suspend(s)
       PROVE  TypeOK'
  <2>1. enrollment' \in [Enrollments -> EnrollmentRow]
    BY <1>12, RowUpdates DEF Suspend
  <2>2. plan' \in [Orders -> PlanRow]
    BY <1>12 DEF Suspend, PlanRow
  <2>3. installment' \in [Orders -> [Numbers -> InstallmentStatus]]
    BY <1>12 DEF Suspend, InstallmentStatus
  <2>4. decidedBy' \in [Enrollments -> {"nobody", "admin", "payment", "sweep"}]
    BY <1>12 DEF Suspend
  <2> QED BY <1>12, <2>1, <2>2, <2>3, <2>4 DEF Suspend
<1>13. ASSUME NEW s \in Sweepers, SweepFails(s)
       PROVE  TypeOK'
  BY <1>13 DEF SweepFails
<1>14. CASE UNCHANGED vars
  BY <1>14 DEF vars
<1> QED
  BY <1>1, <1>2, <1>3, <1>4, <1>5, <1>6, <1>7, <1>8, <1>9, <1>10, <1>11,
     <1>12, <1>13, <1>14
  DEF Next, Editing, Paying, Sweeping, StartEdit, StartDelete, StartPayment

-----------------------------------------------------------------------------
(* Ownership: what is linked, read or found belongs together *)

\* What a commit that writes order o of a request has in common: the order
\* becomes the enrollment's, the enrollment stays, no plan and no installment
\* disappears.
LEMMA CommitKeepsOwnership ==
  ASSUME TypeOK, RefersToOwn,
         NEW a \in Admins, NEW o \in TargetOrders(request[a]),
         request[a].kind # "none",
         Live(request[a].enr),
         order'[o].owner = request[a].enr,
         order'[o].status \notin {"NONE", "DELETED"},
         \A p \in Orders \ {o} : order'[p] = order[p],
         enrollment'[request[a].enr].status \in EnrollmentStatus,
         enrollment'[request[a].enr].order =
           IF request[a].order = None THEN o ELSE enrollment[request[a].enr].order,
         \A e \in Enrollments \ {request[a].enr} : enrollment'[e] = enrollment[e],
         \A p \in Orders : plan'[p].count = 0 <=> plan'[p].status = "NONE",
         \A p \in Orders : plan[p].status # "NONE" => plan'[p].status # "NONE",
         \A p \in Orders, i \in Numbers :
           plan[p].status # "NONE" /\ installment[p][i] # "NONE"
             => installment'[p][i] # "NONE",
         request' = [request EXCEPT ![a] = NoRequest],
         UNCHANGED <<lapsed, sweep>>
  PROVE  RefersToOwn'
<1> DEFINE r == request[a]
<1>1. /\ o \in Orders
      /\ r.enr \in Enrollments
      /\ \/ r.order = None /\ order[o].status = "NONE" /\ order[o].owner = None
         \/ r.order = o /\ order[o].owner = r.enr /\ Exists(o)
  BY OwnTarget
<1>2. LinkedOrderExists'
  <2> SUFFICES ASSUME NEW e \in Enrollments, enrollment'[e].order # None
               PROVE  /\ order'[enrollment'[e].order].owner = e
                      /\ order'[enrollment'[e].order].status \notin {"NONE", "DELETED"}
    BY DEF LinkedOrderExists
  <2> DEFINE p == enrollment[e].order
  <2>1. p # None => /\ p \in Orders
                    /\ order[p].owner = e
                    /\ order[p].status \notin {"NONE", "DELETED"}
    BY DEF TypeOK, EnrollmentRow, RefersToOwn, LinkedOrderExists
  <2>2. CASE e = r.enr
    BY <1>1, <2>1, <2>2
  <2>3. CASE e # r.enr
    BY <1>1, <2>1, <2>3 DEF Exists
  <2> QED BY <2>2, <2>3
<1>3. (\A p \in Orders : Exists(p) <=> order[p].owner # None)'
  BY <1>1, BillingAssumption DEF RefersToOwn, Exists
<1>4. (\A b \in Admins : SnapshotRefersToOwn(request[b]))'
  <2> SUFFICES ASSUME NEW b \in Admins
               PROVE  SnapshotRefersToOwn(request[b])'
    OBVIOUS
  <2>1. CASE b = a
    BY <2>1 DEF TypeOK, SnapshotRefersToOwn, NoRequest
  <2>2. CASE b # a
    <3>1. /\ request'[b] = request[b]
          /\ SnapshotRefersToOwn(request[b])
          /\ request[b].order \in Orders \cup {None}
      BY <2>2 DEF TypeOK, RefersToOwn, Request
    <3>2. CASE request[b].order = o
      BY <1>1, <3>1, <3>2, BillingAssumption DEF SnapshotRefersToOwn, Exists
    <3>3. CASE request[b].order # o
      BY <3>1, <3>3 DEF SnapshotRefersToOwn
    <3> QED BY <3>2, <3>3
  <2> QED BY <2>1, <2>2
<1>5. (\A s \in Sweepers, p \in Orders, i \in Numbers, e \in Enrollments :
         <<p, i, e>> \in sweep[s] => FindingRefersToOwn(p, i, e))'
  <2> SUFFICES ASSUME NEW s \in Sweepers, NEW p \in Orders, NEW i \in Numbers,
                      NEW e \in Enrollments, <<p, i, e>> \in sweep[s]
               PROVE  FindingRefersToOwn(p, i, e)'
    OBVIOUS
  <2>1. FindingRefersToOwn(p, i, e)
    BY DEF RefersToOwn
  <2>2. enrollment'[e].status # "ABSENT" /\ (Live(e)' => Live(e))
    BY <2>1 DEF FindingRefersToOwn, Live, EnrollmentStatus
  <2>3. order[p].owner = e => order'[p].owner = e
    <3>1. CASE p = o
      BY <1>1, <3>1, BillingAssumption
    <3>2. CASE p # o
      BY <3>2
    <3> QED BY <3>1, <3>2
  <2> QED BY <2>1, <2>2, <2>3 DEF FindingRefersToOwn
<1> QED BY <1>2, <1>3, <1>4, <1>5 DEF RefersToOwn

\* Installment numbers start at one.
LEMMA NumbersArePositive ==
  \A n \in Numbers : n # 0
BY BillingAssumption DEF Numbers

\* Linking changes the order of an enrollment and nothing else.
LEMMA LinkedRow ==
  ASSUME TypeOK, NEW r, r.enr \in Enrollments, NEW o \in Orders
  PROVE  /\ Linked(r, o).status = enrollment[r.enr].status
         /\ Linked(r, o).step = enrollment[r.enr].step
         /\ Linked(r, o).order = IF r.order = None THEN o ELSE enrollment[r.enr].order
<1> DEFINE row == enrollment[r.enr]
<1>1. row \in EnrollmentRow
  BY DEF TypeOK
<1>2. \A v : /\ [row EXCEPT !.order = v].status = row.status
             /\ [row EXCEPT !.order = v].step = row.step
             /\ [row EXCEPT !.order = v].order = v
  BY <1>1 DEF EnrollmentRow
<1> QED BY <1>2 DEF Linked

\* A payment that succeeds sets the status and the step besides.
LEMMA PaymentRow ==
  ASSUME TypeOK, NEW r, r.enr \in Enrollments, NEW o \in Orders,
         NEW status \in EnrollmentStatus, NEW step \in EnrollmentStep
  PROVE  LET row == [Linked(r, o) EXCEPT !.status = status, !.step = step]
         IN  /\ row.status = status
             /\ row.step = step
             /\ row.order = IF r.order = None THEN o ELSE enrollment[r.enr].order
<1>1. Linked(r, o) \in EnrollmentRow
  BY LinkedType
<1>2. \A x \in EnrollmentRow :
        /\ [x EXCEPT !.status = status, !.step = step].status = status
        /\ [x EXCEPT !.status = status, !.step = step].step = step
        /\ [x EXCEPT !.status = status, !.step = step].order = x.order
  BY DEF EnrollmentRow
<1> QED BY <1>1, <1>2, LinkedRow

\* Every step keeps what is linked, read or found together.
LEMMA OwnershipStep ==
  ASSUME TypeOK, RefersToOwn, [Next]_vars
  PROVE  RefersToOwn'
<1>1. ASSUME NEW e \in Enrollments, NEW o \in Orders, NEW free \in BOOLEAN,
             MakeEnrolment(e, o, free)
      PROVE  RefersToOwn'
  <2>1. /\ order[o].status = "NONE" /\ order[o].owner = None
        /\ order'[o].owner = e /\ order'[o].status \in {"PAID", "PENDING"}
        /\ \A p \in Orders \ {o} : order'[p] = order[p]
    BY <1>1 DEF MakeEnrolment, FreshOrders, TypeOK, RefersToOwn, Exists, FreeOrder, PendingOrder
  <2>2. /\ enrollment[e].status = "ABSENT"
        /\ enrollment'[e].order = o /\ enrollment'[e].status \in EnrollmentStatus
        /\ \A f \in Enrollments \ {e} : enrollment'[f] = enrollment[f]
    BY <1>1 DEF MakeEnrolment, TypeOK, EnrollmentStatus
  <2>3. UNCHANGED <<plan, installment, lapsed, request, sweep>>
    BY <1>1 DEF MakeEnrolment
  <2>4. LinkedOrderExists'
    <3> SUFFICES ASSUME NEW f \in Enrollments, enrollment'[f].order # None
                 PROVE  /\ order'[enrollment'[f].order].owner = f
                        /\ order'[enrollment'[f].order].status \notin {"NONE", "DELETED"}
      BY DEF LinkedOrderExists
    <3>1. CASE f = e
      BY <2>1, <2>2, <3>1
    <3>2. CASE f # e
      <4>1. enrollment'[f] = enrollment[f] /\ enrollment[f].order \in Orders
        BY <2>2, <3>2 DEF TypeOK, EnrollmentRow
      <4>2. /\ order[enrollment[f].order].owner = f
            /\ order[enrollment[f].order].status \notin {"NONE", "DELETED"}
        BY <4>1 DEF RefersToOwn, LinkedOrderExists
      <4> QED BY <2>1, <4>1, <4>2
    <3> QED BY <3>1, <3>2
  <2>5. (\A p \in Orders : Exists(p) <=> order[p].owner # None)'
    BY <2>1, BillingAssumption DEF RefersToOwn, Exists
  <2>6. (\A b \in Admins : SnapshotRefersToOwn(request[b]))'
    <3> SUFFICES ASSUME NEW b \in Admins
                 PROVE  SnapshotRefersToOwn(request[b])'
      OBVIOUS
    <3>1. /\ SnapshotRefersToOwn(request[b])
          /\ request[b].order \in Orders \cup {None}
      BY DEF TypeOK, RefersToOwn, Request
    <3>2. request[b].kind # "none" => request[b].order # o
      BY <2>1, <3>1, BillingAssumption DEF SnapshotRefersToOwn
    <3> QED BY <2>1, <2>3, <3>1, <3>2 DEF SnapshotRefersToOwn
  <2>7. (\A s \in Sweepers, p \in Orders, i \in Numbers, f \in Enrollments :
           <<p, i, f>> \in sweep[s] => FindingRefersToOwn(p, i, f))'
    <3> SUFFICES ASSUME NEW s \in Sweepers, NEW p \in Orders, NEW i \in Numbers,
                        NEW f \in Enrollments, <<p, i, f>> \in sweep[s]
                 PROVE  FindingRefersToOwn(p, i, f)'
      BY <2>3
    <3>1. FindingRefersToOwn(p, i, f)
      BY DEF RefersToOwn
    <3>2. f # e
      BY <2>2, <3>1 DEF FindingRefersToOwn
    <3>3. enrollment'[f] = enrollment[f]
      BY <2>2, <3>2
    <3>4. order[p].owner = f => order'[p].owner = f
      BY <2>1, BillingAssumption
    <3> QED BY <2>3, <3>1, <3>3, <3>4 DEF FindingRefersToOwn, Live
  <2> QED BY <2>3, <2>4, <2>5, <2>6, <2>7 DEF RefersToOwn
<1>2. ASSUME NEW a \in Admins, NEW e \in Enrollments,
             NEW kind \in {"pay", "edit", "delete"}, Start(a, e, kind)
      PROVE  RefersToOwn'
  <2>1. UNCHANGED <<enrollment, order, plan, installment, lapsed, sweep>>
    BY <1>2 DEF Start
  <2>2. request' = [request EXCEPT ![a] = ReadRows(kind, e)]
    BY <1>2 DEF Start
  <2>3. ReadRows(kind, e).enr = e /\ ReadRows(kind, e).order = enrollment[e].order
    BY DEF ReadRows, NoRequest
  <2>4. SnapshotRefersToOwn(ReadRows(kind, e))
    BY <2>3 DEF SnapshotRefersToOwn, RefersToOwn, LinkedOrderExists
  <2>5. \A b \in Admins : SnapshotRefersToOwn(request'[b])
    BY <2>2, <2>4 DEF TypeOK, RefersToOwn
  <2> QED BY <2>1, <2>5 DEF RefersToOwn, LinkedOrderExists, Exists,
             SnapshotRefersToOwn, FindingRefersToOwn, Live
<1>3. ASSUME NEW a \in Admins, NEW o \in Orders, NEW type \in BOOLEAN \cup {None},
             NEW status \in EditStatuses \cup {None},
             NEW step \in EnrollmentStep \cup {None},
             CommitEdit(a, o, type, status, step)
      PROVE  RefersToOwn'
  <2> DEFINE r == request[a]
             isFree == EditsToFree(r, type)
  <2>1. /\ r.kind # "none" /\ Live(r.enr) /\ o \in TargetOrders(r)
        /\ request' = [request EXCEPT ![a] = NoRequest]
        /\ UNCHANGED <<plan, installment, lapsed, sweep>>
    BY <1>3 DEF CommitEdit, Finish
  <2>2. /\ r.enr \in Enrollments
        /\ \/ r.order = None
           \/ r.order = o /\ order[o].owner = r.enr /\ Exists(o)
    BY <2>1, OwnTarget
  <2>3. order' = [order EXCEPT ![o] = EditedOrder(r, o, isFree)]
    BY <1>3 DEF CommitEdit
  <2>4. /\ EditedOrder(r, o, isFree).owner = r.enr
        /\ EditedOrder(r, o, isFree).status \notin {"NONE", "DELETED"}
    BY <2>2, BillingAssumption DEF EditedOrder, FreeOrder, PendingOrder, Exists
  <2>5. /\ order'[o].owner = r.enr
        /\ order'[o].status \notin {"NONE", "DELETED"}
        /\ \A p \in Orders \ {o} : order'[p] = order[p]
    BY <2>3, <2>4 DEF TypeOK
  <2>6. /\ enrollment'[r.enr].status \in EnrollmentStatus
        /\ enrollment'[r.enr].order =
             IF r.order = None THEN o ELSE enrollment[r.enr].order
        /\ \A e \in Enrollments \ {r.enr} : enrollment'[e] = enrollment[e]
    BY <1>3, <2>1, <2>2, BillingAssumption DEF CommitEdit, TypeOK, Live, EnrollmentStatus
  <2>7. \A p \in Orders : plan'[p].count = 0 <=> plan'[p].status = "NONE"
    BY <2>1 DEF RefersToOwn
  <2> QED BY <2>1, <2>5, <2>6, <2>7, CommitKeepsOwnership
<1>4. ASSUME NEW a \in Admins, CommitDelete(a)
      PROVE  RefersToOwn'
  <2> DEFINE r == request[a]
             gone == {r.order} \cap Orders
  <2>1. /\ r.enr \in Enrollments
        /\ \A p \in gone : order[p].status = "DELETED" \/ order[p].owner = r.enr
    BY <1>4, BillingAssumption DEF CommitDelete, RefersToOwn, SnapshotRefersToOwn
  <2>2. /\ \A p \in gone : /\ order'[p].status = "DELETED" /\ order'[p].owner = None
                           /\ plan'[p].status = "NONE" /\ plan'[p].count = 0
        /\ \A p \in Orders \ gone : /\ order'[p] = order[p] /\ plan'[p] = plan[p]
                                    /\ installment'[p] = installment[p]
                                    /\ lapsed'[p] = lapsed[p]
        /\ sweep' = sweep /\ request' = [request EXCEPT ![a] = NoRequest]
    BY <1>4 DEF CommitDelete, NoOrder, NoPlan
  <2>3. /\ enrollment'[r.enr].status = "DELETED" /\ enrollment'[r.enr].order = None
        /\ \A e \in Enrollments \ {r.enr} : enrollment'[e] = enrollment[e]
    BY <1>4, <2>1 DEF CommitDelete, TypeOK, AbsentEnrollment
  <2>4. \A p \in gone : order[p].owner \in {None, r.enr}
    BY <2>1 DEF RefersToOwn, Exists
  <2> HIDE DEF r, gone
  <2>5. LinkedOrderExists'
    <3> SUFFICES ASSUME NEW e \in Enrollments, enrollment'[e].order # None
                 PROVE  /\ order'[enrollment'[e].order].owner = e
                        /\ order'[enrollment'[e].order].status \notin {"NONE", "DELETED"}
      BY DEF LinkedOrderExists
    <3>1. e # r.enr /\ enrollment'[e] = enrollment[e]
      BY <2>3
    <3>2. /\ enrollment[e].order \in Orders
          /\ order[enrollment[e].order].owner = e
          /\ order[enrollment[e].order].status \notin {"NONE", "DELETED"}
      BY <3>1 DEF TypeOK, EnrollmentRow, RefersToOwn, LinkedOrderExists
    <3>3. enrollment[e].order \notin gone
      BY <2>4, <3>1, <3>2, BillingAssumption
    <3> QED BY <2>2, <3>1, <3>2, <3>3
  <2>6. (\A p \in Orders : Exists(p) <=> order[p].owner # None)'
    BY <2>2 DEF RefersToOwn, Exists
  <2>7. (\A p \in Orders : plan[p].count = 0 <=> plan[p].status = "NONE")'
    BY <2>2 DEF RefersToOwn
  <2>8. (\A b \in Admins : SnapshotRefersToOwn(request[b]))'
    <3> SUFFICES ASSUME NEW b \in Admins
                 PROVE  SnapshotRefersToOwn(request[b])'
      OBVIOUS
    <3>1. CASE b = a
      BY <2>2, <3>1 DEF TypeOK, SnapshotRefersToOwn, NoRequest
    <3>2. CASE b # a
      <4>1. /\ request'[b] = request[b]
            /\ SnapshotRefersToOwn(request[b])
            /\ request[b].order \in Orders \cup {None}
        BY <2>2, <3>2 DEF TypeOK, RefersToOwn, Request
      <4> QED BY <2>2, <4>1 DEF SnapshotRefersToOwn
    <3> QED BY <3>1, <3>2
  <2>9. (\A s \in Sweepers, p \in Orders, i \in Numbers, e \in Enrollments :
           <<p, i, e>> \in sweep[s] => FindingRefersToOwn(p, i, e))'
    <3> SUFFICES ASSUME NEW s \in Sweepers, NEW p \in Orders, NEW i \in Numbers,
                        NEW e \in Enrollments, <<p, i, e>> \in sweep[s]
                 PROVE  FindingRefersToOwn(p, i, e)'
      BY <2>2
    <3>1. FindingRefersToOwn(p, i, e)
      BY DEF RefersToOwn
    <3>2. CASE e = r.enr
      BY <2>3, <3>2 DEF FindingRefersToOwn, Live, EnrollmentStatus
    <3>3. CASE e # r.enr
      <4>1. Live(e) => p \notin gone
        BY <2>4, <3>1, <3>3, BillingAssumption DEF FindingRefersToOwn
      <4> QED BY <2>2, <2>3, <3>1, <3>3, <4>1 DEF FindingRefersToOwn, Live
    <3> QED BY <3>2, <3>3
  <2> QED BY <2>5, <2>6, <2>7, <2>8, <2>9 DEF RefersToOwn
<1>5. ASSUME NEW a \in Admins, NEW o \in Orders, NEW amount \in 1..Fee,
             PayOneTime(a, o, amount)
      PROVE  RefersToOwn'
  <2> DEFINE r == request[a]
  <2>1. /\ r.kind = "pay" /\ Live(r.enr) /\ o \in TargetOrders(r)
        /\ request' = [request EXCEPT ![a] = NoRequest]
        /\ UNCHANGED <<plan, installment, lapsed, sweep>>
    BY <1>5 DEF PayOneTime, Payable, Finish
  <2>2. r.enr \in Enrollments
    BY <2>1, OwnTarget
  <2>3. OrderBefore(r, o, "MANUAL").owner = r.enr
    BY <2>1, OwnTarget, BillingAssumption DEF OrderBefore, PendingOrder
  <2>4. /\ order'[o].owner = r.enr
        /\ order'[o].status = "PAID"
        /\ \A p \in Orders \ {o} : order'[p] = order[p]
    <3>1. OrderBefore(r, o, "MANUAL") \in OrderRow
      BY <2>2, RowTypes DEF OrderBefore, TypeOK
    <3> QED BY <1>5, <2>3, <3>1 DEF PayOneTime, TypeOK, OrderRow
  <2>5. /\ enrollment'[r.enr].status \in EnrollmentStatus
        /\ enrollment'[r.enr].order =
             IF r.order = None THEN o ELSE enrollment[r.enr].order
        /\ \A e \in Enrollments \ {r.enr} : enrollment'[e] = enrollment[e]
    BY <1>5, <2>2, PaymentRow DEF PayOneTime, TypeOK, EnrollmentStatus, EnrollmentStep
  <2>6. \A p \in Orders : plan'[p].count = 0 <=> plan'[p].status = "NONE"
    BY <2>1 DEF RefersToOwn
  <2> QED BY <2>1, <2>4, <2>5, <2>6, CommitKeepsOwnership
<1>6. ASSUME NEW a \in Admins, NEW o \in Orders, RecordOneTime(a, o)
      PROVE  RefersToOwn'
  <2> DEFINE r == request[a]
  <2>1. /\ r.kind = "pay" /\ Live(r.enr) /\ o \in TargetOrders(r)
        /\ request' = [request EXCEPT ![a] = NoRequest]
        /\ UNCHANGED <<plan, installment, lapsed, sweep>>
    BY <1>6 DEF RecordOneTime, Payable, Finish
  <2>2. r.enr \in Enrollments
    BY <2>1, OwnTarget
  <2>3. /\ OrderBefore(r, o, "MANUAL").owner = r.enr
        /\ OrderBefore(r, o, "MANUAL").status \notin {"NONE", "DELETED"}
    BY <2>1, OwnTarget, BillingAssumption DEF OrderBefore, PendingOrder, Exists
  <2>4. /\ order'[o] = OrderBefore(r, o, "MANUAL")
        /\ \A p \in Orders \ {o} : order'[p] = order[p]
    BY <1>6 DEF RecordOneTime, TypeOK
  <2>5. /\ enrollment'[r.enr].status \in EnrollmentStatus
        /\ enrollment'[r.enr].order =
             IF r.order = None THEN o ELSE enrollment[r.enr].order
        /\ \A e \in Enrollments \ {r.enr} : enrollment'[e] = enrollment[e]
    BY <1>6, <2>1, <2>2, LinkedRow DEF RecordOneTime, TypeOK, Live
  <2>6. \A p \in Orders : plan'[p].count = 0 <=> plan'[p].status = "NONE"
    BY <2>1 DEF RefersToOwn
  <2>7. order'[o].owner = r.enr /\ order'[o].status \notin {"NONE", "DELETED"}
    BY <2>3, <2>4
  <2> QED BY <2>1, <2>4, <2>5, <2>6, <2>7, CommitKeepsOwnership
<1>7. ASSUME NEW a \in Admins, NEW o \in Orders, NEW n \in Numbers,
             RecordInstallments(a, o, n)
      PROVE  RefersToOwn'
  <2> DEFINE r == request[a]
  <2>1. /\ r.kind = "pay" /\ Live(r.enr) /\ o \in TargetOrders(r)
        /\ request' = [request EXCEPT ![a] = NoRequest]
        /\ UNCHANGED <<lapsed, sweep>>
        /\ PlanOf(r, o, n)
    BY <1>7 DEF RecordInstallments, Payable, Finish
  <2>2. r.enr \in Enrollments
    BY <2>1, OwnTarget
  <2>3. /\ OrderBefore(r, o, "INSTALLMENT").owner = r.enr
        /\ OrderBefore(r, o, "INSTALLMENT").status \notin {"NONE", "DELETED"}
    BY <2>1, OwnTarget, BillingAssumption DEF OrderBefore, PendingOrder, Exists
  <2>4. /\ order'[o] = OrderBefore(r, o, "INSTALLMENT")
        /\ \A p \in Orders \ {o} : order'[p] = order[p]
    BY <1>7 DEF RecordInstallments, TypeOK
  <2>5. /\ enrollment'[r.enr].status \in EnrollmentStatus
        /\ enrollment'[r.enr].order =
             IF r.order = None THEN o ELSE enrollment[r.enr].order
        /\ \A e \in Enrollments \ {r.enr} : enrollment'[e] = enrollment[e]
    BY <1>7, <2>1, <2>2, LinkedRow DEF RecordInstallments, TypeOK, Live
  <2>6. plan' = [plan EXCEPT ![o] =
                   IF r.count = 0 THEN [status |-> "ACTIVE", count |-> n] ELSE plan[o]]
    BY <1>7 DEF RecordInstallments
  <2>7. \A p \in Orders : /\ plan'[p].count = 0 <=> plan'[p].status = "NONE"
                          /\ plan[p].status # "NONE" => plan'[p].status # "NONE"
    BY <2>6, NumbersArePositive DEF RefersToOwn, TypeOK
  <2>8. \A p \in Orders, i \in Numbers :
          plan[p].status # "NONE" /\ installment[p][i] # "NONE"
            => installment'[p][i] # "NONE"
    BY <1>7, <2>1 DEF RecordInstallments, StoredRows, PlanOf, RefersToOwn, TypeOK
  <2> QED BY <2>1, <2>3, <2>4, <2>5, <2>7, <2>8, CommitKeepsOwnership
<1>8. ASSUME NEW a \in Admins, NEW o \in Orders, NEW n \in Numbers,
             NEW S \in SUBSET Numbers, PayInstallments(a, o, n, S)
      PROVE  RefersToOwn'
  <2> DEFINE r == request[a]
  <2>1. /\ r.kind = "pay" /\ Live(r.enr) /\ o \in TargetOrders(r)
        /\ request' = [request EXCEPT ![a] = NoRequest]
        /\ UNCHANGED <<lapsed, sweep>>
        /\ PlanOf(r, o, n)
    BY <1>8 DEF PayInstallments, Payable, Finish
  <2>2. r.enr \in Enrollments
    BY <2>1, OwnTarget
  <2>3. OrderBefore(r, o, "INSTALLMENT").owner = r.enr
    BY <2>1, OwnTarget, BillingAssumption DEF OrderBefore, PendingOrder
  <2>4. /\ order'[o].owner = r.enr
        /\ order'[o].status \in {"PAID", "PARTIALLY_PAID"}
        /\ \A p \in Orders \ {o} : order'[p] = order[p]
    <3>1. OrderBefore(r, o, "INSTALLMENT") \in OrderRow
      BY <2>2, RowTypes DEF OrderBefore, TypeOK
    <3> QED BY <1>8, <2>3, <3>1 DEF PayInstallments, TypeOK, OrderRow
  <2>5. /\ enrollment'[r.enr].status \in EnrollmentStatus
        /\ enrollment'[r.enr].order =
             IF r.order = None THEN o ELSE enrollment[r.enr].order
        /\ \A e \in Enrollments \ {r.enr} : enrollment'[e] = enrollment[e]
    BY <1>8, <2>2, PaymentRow DEF PayInstallments, TypeOK, EnrollmentStatus, EnrollmentStep
  <2>6. plan' = [plan EXCEPT ![o] =
          [status |-> IF Completes(r, n, S) THEN "COMPLETED" ELSE "ACTIVE", count |-> n]]
    BY <1>8 DEF PayInstallments
  <2>7. \A p \in Orders : /\ plan'[p].count = 0 <=> plan'[p].status = "NONE"
                          /\ plan[p].status # "NONE" => plan'[p].status # "NONE"
    BY <2>6, NumbersArePositive DEF RefersToOwn, TypeOK
  <2>8. \A p \in Orders, i \in Numbers :
          plan[p].status # "NONE" /\ installment[p][i] # "NONE"
            => installment'[p][i] # "NONE"
    BY <1>8, <2>1 DEF PayInstallments, StoredRows, PlanOf, RefersToOwn, TypeOK
  <2> QED BY <2>1, <2>4, <2>5, <2>7, <2>8, CommitKeepsOwnership
<1>9. ASSUME NEW a \in Admins, Abort(a)
      PROVE  RefersToOwn'
  <2>1. \A b \in Admins : SnapshotRefersToOwn(request'[b])
    BY <1>9 DEF Abort, Finish, TypeOK, RefersToOwn, SnapshotRefersToOwn, NoRequest
  <2> QED BY <1>9, <2>1 DEF Abort, Finish, RefersToOwn, LinkedOrderExists, Exists,
             SnapshotRefersToOwn, FindingRefersToOwn, Live
<1>10. ASSUME NEW o \in Orders, NEW i \in Numbers, Lapse(o, i)
       PROVE  RefersToOwn'
  <2>1. \A p \in Orders : lapsed[p] \subseteq lapsed'[p]
    BY <1>10 DEF Lapse, TypeOK
  <2> QED BY <1>10, <2>1 DEF Lapse, RefersToOwn, LinkedOrderExists, Exists,
             SnapshotRefersToOwn, FindingRefersToOwn, Live
<1>11. ASSUME NEW s \in Sweepers, Scan(s)
       PROVE  RefersToOwn'
  <2>1. \A o \in Orders, i \in Numbers, e \in Enrollments :
          IsOverdue(o, i, e) => FindingRefersToOwn(o, i, e)
    BY BillingAssumption DEF IsOverdue, FindingRefersToOwn, Open, RefersToOwn,
       LinkedOrderExists
  <2>2. \A o \in Orders, i \in Numbers, e \in Enrollments :
          <<o, i, e>> \in Overdue => IsOverdue(o, i, e)
    BY DEF Overdue
  <2>3. \A z \in Sweepers, o \in Orders, i \in Numbers, e \in Enrollments :
          <<o, i, e>> \in sweep'[z] => FindingRefersToOwn(o, i, e)
    BY <1>11, <2>1, <2>2 DEF Scan, TypeOK, RefersToOwn
  <2> QED BY <1>11, <2>3 DEF Scan, RefersToOwn, LinkedOrderExists, Exists,
             SnapshotRefersToOwn, FindingRefersToOwn, Live
<1>12. ASSUME NEW s \in Sweepers, Suspend(s)
       PROVE  RefersToOwn'
  <2>1. UNCHANGED <<order, lapsed, request>>
    BY <1>12 DEF Suspend
  <2>2. \A e \in Enrollments : /\ enrollment'[e].order = enrollment[e].order
                               /\ enrollment'[e].status # "ABSENT" <=> enrollment[e].status # "ABSENT"
                               /\ Live(e)' <=> Live(e)
    BY <1>12 DEF Suspend, TypeOK, EnrollmentRow, Live, EnrollmentStatus
  <2>3. \A o \in Orders : /\ plan'[o].count = plan[o].count
                          /\ plan'[o].status = "NONE" <=> plan[o].status = "NONE"
    BY <1>12 DEF Suspend, TypeOK, PlanRow
  <2>4. \A o \in Orders, i \in Numbers :
          installment'[o][i] = "NONE" <=> installment[o][i] = "NONE"
    BY <1>12 DEF Suspend, TypeOK
  <2>5. \A z \in Sweepers : sweep'[z] \subseteq sweep[z]
    BY <1>12 DEF Suspend, TypeOK
  <2>6. LinkedOrderExists'
    BY <2>1, <2>2 DEF RefersToOwn, LinkedOrderExists
  <2>7. (\A z \in Sweepers, o \in Orders, i \in Numbers, e \in Enrollments :
           <<o, i, e>> \in sweep[z] => FindingRefersToOwn(o, i, e))'
    BY <2>1, <2>2, <2>3, <2>4, <2>5 DEF RefersToOwn, FindingRefersToOwn
  <2> QED BY <2>1, <2>3, <2>6, <2>7 DEF RefersToOwn, Exists, SnapshotRefersToOwn
<1>13. ASSUME NEW s \in Sweepers, SweepFails(s)
       PROVE  RefersToOwn'
  <2>1. \A z \in Sweepers : sweep'[z] \subseteq sweep[z]
    BY <1>13 DEF SweepFails, TypeOK
  <2> QED BY <1>13, <2>1 DEF SweepFails, RefersToOwn, LinkedOrderExists, Exists,
             SnapshotRefersToOwn, FindingRefersToOwn, Live
<1>14. CASE UNCHANGED vars
  BY <1>14 DEF vars, RefersToOwn, LinkedOrderExists, Exists,
     SnapshotRefersToOwn, FindingRefersToOwn, Live
<1> QED
  BY <1>1, <1>2, <1>3, <1>4, <1>5, <1>6, <1>7, <1>8, <1>9, <1>10, <1>11,
     <1>12, <1>13, <1>14
  DEF Next, Editing, Paying, Sweeping, StartEdit, StartDelete, StartPayment

-----------------------------------------------------------------------------
(* Coverage: credit and debt account for the whole fee *)

\* An order no handler writes, and no money reaches, stays covered.
LEMMA UntouchedOrder ==
  ASSUME NEW p \in Orders, OrderIsCovered(p),
         order'[p] = order[p], plan'[p] = plan[p],
         installment'[p] = installment[p], received'[p] = received[p],
         waived \subseteq waived'
  PROVE  OrderIsCovered(p)'
BY DEF OrderIsCovered, Exists

\* The paid installments are installments, and worth a natural amount.
LEMMA WorthOfPaid ==
  ASSUME NEW n \in Numbers, NEW rows
  PROVE  /\ PaidOnes(rows) \in SUBSET Numbers
         /\ Worth(n, PaidOnes(rows)) \in Nat
BY WorthIsNatural DEF PaidOnes

\* What a payment has read stays covered as long as money only comes in,
\* orders only become FREE and plans only disappear with their order.
LEMMA SnapshotStaysCovered ==
  ASSUME TypeOK, RefersToOwn, Covered, TypeOK', RefersToOwn', NEW b \in Admins,
         request'[b] = request[b],
         \A p \in Orders : received[p] <= received'[p],
         waived \subseteq waived',
         \A p \in Orders : Exists(p)' /\ plan[p].count # 0
                             => plan'[p].count = plan[p].count,
         \A p \in Orders : order[p].status = "DELETED" => order'[p].status = "DELETED"
  PROVE  SnapshotIsCovered(request[b])'
<1> DEFINE r == request[b]
           p == r.order
<1>1. /\ r \in Request /\ SnapshotIsCovered(r) /\ SnapshotRefersToOwn(r)
      /\ r.kind # "none" => r.enr \in Enrollments
  BY DEF TypeOK, Covered, RefersToOwn, SnapshotRefersToOwn
<1> SUFFICES ASSUME r.kind = "pay", p # None, Exists(p)'
             PROVE  /\ p \notin waived' => /\ r.total = Fee
                                           /\ r.paid <= received'[p]
                                           /\ r.due + received'[p] >= Fee
                    /\ r.count # 0 => /\ plan'[p].count = r.count
                                      /\ Worth(r.count, PaidOnes(r.rows)) <= received'[p]
  BY <1>1 DEF SnapshotIsCovered
<1>2. p \in Orders /\ r.paid \in 0..Fee /\ r.due \in 0..Fee /\ Fee \in Nat
  BY <1>1, BillingAssumption DEF Request
<1>3. Exists(p)
  BY <1>1, <1>2, BillingAssumption DEF SnapshotRefersToOwn, Exists, RefersToOwn
<1>4. received[p] \in Nat /\ received'[p] \in Nat /\ received[p] <= received'[p]
  BY <1>2 DEF TypeOK
<1>5. p \notin waived' => /\ r.total = Fee
                          /\ r.paid <= received[p]
                          /\ r.due + received[p] >= Fee
  BY <1>1, <1>3 DEF SnapshotIsCovered
<1>6. ASSUME r.count # 0
      PROVE  /\ plan'[p].count = r.count
             /\ Worth(r.count, PaidOnes(r.rows)) <= received'[p]
  <2>1. r.count \in Numbers
    BY <1>1, <1>6, BillingAssumption DEF Request, Numbers
  <2>2. Worth(r.count, PaidOnes(r.rows)) \in Nat
    BY <2>1, WorthOfPaid
  <2>3. plan[p].count = r.count /\ Worth(r.count, PaidOnes(r.rows)) <= received[p]
    BY <1>1, <1>3, <1>6 DEF SnapshotIsCovered
  <2>4. plan'[p].count = r.count
    BY <1>2, <1>6, <2>3
  <2> HIDE DEF r, p
  <2> QED BY <1>4, <2>2, <2>3, <2>4
<1>7. p \notin waived' => /\ r.paid <= received'[p]
                          /\ r.due + received'[p] >= Fee
  <2> HIDE DEF r, p
  <2> QED BY <1>2, <1>4, <1>5
<1> QED BY <1>5, <1>6, <1>7

\* What a payment has read, and the order it writes to, account for the fee.
LEMMA PaymentFacts ==
  ASSUME TypeOK, RefersToOwn, Covered, NEW a \in Admins, NEW o \in Orders,
         Payable(request[a], o), NEW mode \in {"INSTALLMENT", "MANUAL"}
  PROVE  LET r == request[a]
             before == OrderBefore(r, o, mode)
         IN  /\ r \in Request /\ r.enr \in Enrollments
             /\ before \in OrderRow
             /\ before.owner = r.enr
             /\ before.status \in {"PENDING", "PARTIALLY_PAID", "PAID"}
             /\ before.status = "PAID" <=> before.due = 0
             /\ o \notin waived =>
                  /\ r.total = Fee
                  /\ r.paid <= received[o]
                  /\ r.due + received[o] >= Fee
                  /\ before.total = Fee
                  /\ before.paid <= received[o]
                  /\ before.due + received[o] >= Fee
             /\ r.count # 0 =>
                  /\ plan[o].count = r.count
                  /\ Worth(r.count, PaidOnes(r.rows)) <= received[o]
<1> DEFINE r == request[a]
           before == OrderBefore(r, o, mode)
<1>1. /\ r.kind = "pay" /\ r \in Request /\ r.enr \in Enrollments
      /\ \/ r.order = None /\ order[o].status = "NONE" /\ order[o].owner = None
         \/ r.order = o /\ order[o].owner = r.enr /\ Exists(o)
  BY OwnTarget DEF Payable, TypeOK
<1>2. SnapshotIsCovered(r) /\ OrderIsCovered(o)
  BY DEF Covered
<1>3. Fee \in Nat \ {0} /\ received[o] \in Nat
  BY BillingAssumption DEF TypeOK
<1>4. CASE r.order = None
  <2>1. before = PendingOrder(r.enr, mode)
    BY <1>4 DEF OrderBefore
  <2>2. r.total = Fee /\ r.paid = 0 /\ r.due = Fee /\ r.count = 0
    BY <1>1, <1>2, <1>4 DEF SnapshotIsCovered
  <2>3. /\ before.total = Fee /\ before.paid = 0 /\ before.due = Fee
        /\ before.status = "PENDING" /\ before.owner = r.enr
        /\ before \in OrderRow
    <3>1. PendingOrder(r.enr, mode) \in OrderRow
      BY <1>1, RowTypes
    <3> QED BY <2>1, <3>1 DEF PendingOrder
  <2> HIDE DEF before, r
  <2> QED BY <1>1, <1>3, <2>2, <2>3 DEF before, r
<1>5. CASE r.order # None
  <2>1. before = order[o] /\ r.order = o /\ order[o].owner = r.enr /\ Exists(o)
    BY <1>1, <1>5 DEF OrderBefore
  <2>2. order[o] \in OrderRow
    BY DEF TypeOK
  <2>3. order[o].status \in {"PENDING", "PARTIALLY_PAID", "PAID"}
    BY <2>1, <2>2 DEF Exists, OrderRow
  <2>4. order[o].status = "PAID" <=> order[o].due = 0
    BY <2>3 DEF Covered, PaidIffNothingDue
  <2>5. o \notin waived => /\ order[o].total = Fee
                           /\ order[o].paid <= received[o]
                           /\ order[o].due + received[o] >= Fee
    BY <1>2, <2>1 DEF OrderIsCovered
  <2>6. /\ o \notin waived => /\ r.total = Fee
                              /\ r.paid <= received[o]
                              /\ r.due + received[o] >= Fee
        /\ r.count # 0 => /\ plan[o].count = r.count
                          /\ Worth(r.count, PaidOnes(r.rows)) <= received[o]
    BY <1>1, <1>2, <1>5, <2>1 DEF SnapshotIsCovered
  <2> QED BY <1>1, <2>1, <2>2, <2>3, <2>4, <2>5, <2>6
<1> QED BY <1>4, <1>5

\* A payment of installments that completes its plan has brought in the whole
\* fee, and the installments it leaves paid are covered.
LEMMA InstallmentsAreCovered ==
  ASSUME TypeOK, RefersToOwn, Covered, NEW a \in Admins, NEW o \in Orders,
         Payable(request[a], o), NEW n \in Numbers, PlanOf(request[a], o, n),
         NEW S \in Selection(request[a], n)
  PROVE  LET r == request[a]
             paid == S \cup PaidOnes(StoredRows(r, o, n))
         IN  /\ Completes(r, n, S) /\ o \notin waived
                  => received[o] + Worth(n, S) >= Fee
             /\ Worth(n, paid) <= received[o] + Worth(n, S)
<1> DEFINE r == request[a]
           stored == PaidOnes(StoredRows(r, o, n))
           seen == PaidOnes(SeenRows(r, n))
<1>1. /\ S \in SUBSET Numbers /\ Worth(n, S) \in Nat
      /\ NextPaid(r, n, S) <= r.paid + Worth(n, S)
      /\ NextPaid(r, n, S) \in 0..Fee
  BY PaymentAmounts
<1>2. /\ r \in Request
      /\ o \notin waived => r.total = Fee /\ r.paid <= received[o]
      /\ r.count # 0 => /\ plan[o].count = r.count
                        /\ Worth(r.count, PaidOnes(r.rows)) <= received[o]
  BY PaymentFacts
<1>3. /\ received[o] \in Nat /\ Fee \in Nat
      /\ Worth(n, stored) \in Nat /\ Worth(n, seen) \in Nat
      /\ stored \in SUBSET Numbers /\ seen \in SUBSET Numbers
  BY WorthOfPaid, BillingAssumption DEF TypeOK
<1>4. Worth(n, seen) <= received[o] /\ Worth(n, stored) <= received[o]
  <2>1. CASE r.count = 0
    <3>1. PaidOnes(NewInstallments(n)) = {}
      BY DEF PaidOnes, NewInstallments
    <3>2. seen = {} /\ stored = {}
      BY <2>1, <3>1 DEF SeenRows, StoredRows
    <3>3. Worth(n, {}) = 0
      BY WorthOfPlan
    <3> QED BY <1>3, <3>2, <3>3
  <2>2. CASE r.count # 0
    <3>1. n = r.count
      BY <2>2 DEF PlanOf
    <3>2. seen = PaidOnes(r.rows) /\ stored = PaidOnes(installment[o])
      BY <2>2 DEF SeenRows, StoredRows
    <3>3. OrderIsCovered(o)
      BY DEF Covered
    <3>4. Worth(n, PaidOnes(installment[o])) <= received[o]
      BY <1>2, <2>2, <3>1, <3>3 DEF OrderIsCovered
    <3> QED BY <1>2, <2>2, <3>1, <3>2, <3>4
  <2> QED BY <2>1, <2>2
<1>5. Worth(n, S \cup stored) <= received[o] + Worth(n, S)
  <2>1. Worth(n, S \cup stored) \in Nat
    BY <1>1, <1>3, WorthIsNatural
  <2>2. Worth(n, S \cup stored) <= Worth(n, S) + Worth(n, stored)
    BY <1>1, <1>3, WorthOfUnion
  <2> HIDE DEF stored
  <2> QED BY <1>1, <1>3, <1>4, <2>1, <2>2
<1>6. ASSUME Completes(r, n, S), o \notin waived
      PROVE  received[o] + Worth(n, S) >= Fee
  <2>1. CASE NextDue(r, n, S) = 0
    <3>1. NextPaid(r, n, S) = Fee /\ r.paid \in Nat
      BY <1>1, <1>2, <1>3, <1>6, <2>1 DEF NextDue, Request
    <3> QED BY <1>1, <1>2, <1>3, <1>6, <3>1
  <2>2. CASE \A i \in 1..n : i \in S \/ SeenRows(r, n)[i] = "PAID"
    <3>1. 1..n \subseteq S \cup seen
      <4>1. 1..n \subseteq Numbers
        BY BillingAssumption DEF Numbers
      <4> QED BY <2>2, <4>1 DEF PaidOnes
    <3>2. Worth(n, 1..n) <= Worth(n, S \cup seen)
      BY <1>1, <1>3, <3>1, WorthIsMonotone
    <3>3. Worth(n, S \cup seen) <= Worth(n, S) + Worth(n, seen)
      BY <1>1, <1>3, WorthOfUnion
    <3>4. Worth(n, 1..n) = Fee
      BY WorthOfPlan
    <3>5. Worth(n, S \cup seen) \in Nat
      BY <1>1, <1>3, WorthIsNatural
    <3> HIDE DEF seen
    <3> QED BY <1>1, <1>3, <1>4, <3>2, <3>3, <3>4, <3>5
  <2> QED BY <1>6, <2>1, <2>2 DEF Completes
<1> QED BY <1>5, <1>6

\* A commit by request a that writes order o, and o alone, keeps everything
\* covered if it keeps o covered.
LEMMA CommitKeepsCovered ==
  ASSUME TypeOK, RefersToOwn, Covered, TypeOK', RefersToOwn',
         NEW a \in Admins, NEW o \in Orders,
         order[o].status # "DELETED",
         \A p \in Orders \ {o} : /\ order'[p] = order[p] /\ plan'[p] = plan[p]
                                 /\ installment'[p] = installment[p]
                                 /\ received'[p] = received[p],
         waived \subseteq waived',
         received[o] <= received'[o],
         plan[o].count # 0 => plan'[o].count = plan[o].count,
         request' = [request EXCEPT ![a] = NoRequest],
         order'[o].status = "PAID" <=> order'[o].due = 0,
         OrderIsCovered(o)'
  PROVE  Covered'
<1>1. PaidIffNothingDue'
  BY DEF Covered, PaidIffNothingDue
<1>2. (\A p \in Orders : OrderIsCovered(p))'
  <2> SUFFICES ASSUME NEW p \in Orders, p # o
               PROVE  OrderIsCovered(p)'
    OBVIOUS
  <2>1. OrderIsCovered(p)
    BY DEF Covered
  <2>2. /\ order'[p] = order[p] /\ plan'[p] = plan[p]
        /\ installment'[p] = installment[p] /\ received'[p] = received[p]
    OBVIOUS
  <2> QED BY <2>1, <2>2, UntouchedOrder
<1>3. \A p \in Orders : received[p] <= received'[p]
  <2> SUFFICES ASSUME NEW p \in Orders, p # o
               PROVE  received[p] <= received'[p]
    OBVIOUS
  <2>1. received[p] \in Nat /\ received'[p] = received[p]
    BY DEF TypeOK
  <2> QED BY <2>1
<1>4. (\A b \in Admins : SnapshotIsCovered(request[b]))'
  <2> SUFFICES ASSUME NEW b \in Admins
               PROVE  SnapshotIsCovered(request[b])'
    OBVIOUS
  <2>1. CASE b = a
    BY <2>1 DEF TypeOK, SnapshotIsCovered, NoRequest
  <2>2. CASE b # a
    <3>1. request'[b] = request[b]
      BY <2>2 DEF TypeOK
    <3>2. \A p \in Orders : Exists(p)' /\ plan[p].count # 0 => plan'[p].count = plan[p].count
      OBVIOUS
    <3>3. \A p \in Orders : order[p].status = "DELETED" => order'[p].status = "DELETED"
      OBVIOUS
    <3> QED BY <1>3, <3>1, <3>2, <3>3, SnapshotStaysCovered
  <2> QED BY <2>1, <2>2
<1> QED BY <1>1, <1>2, <1>4 DEF Covered

\* Every step keeps credit and debt accounting for the whole fee.
LEMMA CoveredStep ==
  ASSUME TypeOK, RefersToOwn, Covered, TypeOK', RefersToOwn', [Next]_vars
  PROVE  Covered'
<1>0. Fee \in Nat \ {0} /\ \A o \in Orders : received[o] \in Nat
  BY BillingAssumption DEF TypeOK
<1>1. ASSUME NEW e \in Enrollments, NEW o \in Orders, NEW free \in BOOLEAN,
             MakeEnrolment(e, o, free)
      PROVE  Covered'
  <2> DEFINE new == IF free THEN FreeOrder(e) ELSE PendingOrder(e, "MANUAL")
  <2>1. /\ order[o].status = "NONE"
        /\ order'[o] = new
        /\ \A p \in Orders \ {o} : order'[p] = order[p]
        /\ waived' = IF free THEN waived \cup {o} ELSE waived
        /\ UNCHANGED <<plan, installment, received, request>>
    BY <1>1 DEF MakeEnrolment, FreshOrders, TypeOK
  <2>2. /\ new.status = "PAID" <=> new.due = 0
        /\ ~free => new.total = Fee /\ new.due = Fee /\ new.paid = 0
    BY <1>0 DEF FreeOrder, PendingOrder
  <2>3. OrderIsCovered(o)
    BY DEF Covered
  <2> HIDE DEF new
  <2>4. OrderIsCovered(o)'
    BY <1>0, <2>1, <2>2, <2>3 DEF OrderIsCovered
  <2>5. PaidIffNothingDue'
    BY <2>1, <2>2 DEF Covered, PaidIffNothingDue
  <2>6. (\A p \in Orders : OrderIsCovered(p))'
    <3> SUFFICES ASSUME NEW p \in Orders, p # o
                 PROVE  OrderIsCovered(p)'
      BY <2>4
    <3>1. OrderIsCovered(p)
      BY DEF Covered
    <3> QED BY <2>1, <3>1, UntouchedOrder
  <2>7. (\A b \in Admins : SnapshotIsCovered(request[b]))'
    <3> SUFFICES ASSUME NEW b \in Admins
                 PROVE  SnapshotIsCovered(request[b])'
      OBVIOUS
    <3>1. /\ request'[b] = request[b]
          /\ waived \subseteq waived'
          /\ \A p \in Orders : received[p] <= received'[p]
          /\ \A p \in Orders : Exists(p)' /\ plan[p].count # 0 => plan'[p].count = plan[p].count
          /\ \A p \in Orders : order[p].status = "DELETED" => order'[p].status = "DELETED"
      BY <1>0, <2>1
    <3> QED BY <3>1, SnapshotStaysCovered
  <2> QED BY <2>5, <2>6, <2>7 DEF Covered
<1>2. ASSUME NEW a \in Admins, NEW e \in Enrollments,
             NEW kind \in {"pay", "edit", "delete"}, Start(a, e, kind)
      PROVE  Covered'
  <2>1. /\ UNCHANGED <<order, plan, installment, received, waived>>
        /\ request' = [request EXCEPT ![a] = ReadRows(kind, e)]
    BY <1>2 DEF Start
  <2>2. SnapshotIsCovered(ReadRows(kind, e))
    <3> DEFINE r == ReadRows(kind, e)
               o == enrollment[e].order
    <3>1. CASE kind # "pay"
      BY <3>1 DEF ReadRows, NoRequest, SnapshotIsCovered
    <3>2. CASE kind = "pay" /\ o = None
      BY <3>2 DEF ReadRows, NoRequest, SnapshotIsCovered
    <3>3. CASE kind = "pay" /\ o # None
      <4>1. o \in Orders
        BY <3>3 DEF TypeOK, EnrollmentRow
      <4>2. /\ r.order = o /\ r.total = order[o].total /\ r.paid = order[o].paid
            /\ r.due = order[o].due /\ r.count = plan[o].count
            /\ r.rows = installment[o]
        BY <3>3 DEF ReadRows, NoRequest
      <4>3. OrderIsCovered(o)
        BY <4>1 DEF Covered
      <4> HIDE DEF r, o
      <4> QED BY <3>3, <4>2, <4>3 DEF SnapshotIsCovered, OrderIsCovered, r
    <3> QED BY <3>1, <3>2, <3>3
  <2>3. (\A b \in Admins : SnapshotIsCovered(request[b]))'
    <3> SUFFICES ASSUME NEW b \in Admins
                 PROVE  SnapshotIsCovered(request[b])'
      OBVIOUS
    <3>1. SnapshotIsCovered(request'[b])
      BY <2>1, <2>2 DEF TypeOK, Covered
    <3> QED BY <2>1, <3>1 DEF SnapshotIsCovered, Exists
  <2> QED BY <2>1, <2>3 DEF Covered, PaidIffNothingDue, OrderIsCovered, Exists
<1>3. ASSUME NEW a \in Admins, NEW o \in Orders, NEW type \in BOOLEAN \cup {None},
             NEW status \in EditStatuses \cup {None},
             NEW step \in EnrollmentStep \cup {None},
             CommitEdit(a, o, type, status, step)
      PROVE  Covered'
  <2> DEFINE r == request[a]
             isFree == EditsToFree(r, type)
             new == EditedOrder(r, o, isFree)
  <2>1. /\ r.kind # "none" /\ o \in TargetOrders(r)
        /\ request' = [request EXCEPT ![a] = NoRequest]
        /\ UNCHANGED <<plan, installment, received>>
        /\ waived' = IF isFree THEN waived \cup {o} ELSE waived
    BY <1>3 DEF CommitEdit, Finish
  <2>2. order'[o] = new /\ \A p \in Orders \ {o} : order'[p] = order[p]
    BY <1>3 DEF CommitEdit, TypeOK
  <2>3. \/ r.order = None /\ order[o].status = "NONE"
        \/ r.order = o /\ Exists(o) /\ order[o].status \in {"PENDING", "PARTIALLY_PAID", "PAID"}
    BY <2>1, OwnTarget DEF TypeOK, OrderRow, Exists
  <2>4. /\ new.status = "PAID" <=> new.due = 0
        /\ ~isFree => \/ new.total = Fee /\ new.due = Fee /\ new.paid = 0
                      \/ new = order[o] /\ Exists(o)
    <3>1. CASE isFree
      BY <2>3, <3>1 DEF EditedOrder, FreeOrder
    <3>2. CASE ~isFree /\ (r.order = None \/ order[o].mode = "FREE")
      BY <1>0, <3>2 DEF EditedOrder, PendingOrder
    <3>3. CASE ~isFree /\ r.order # None /\ order[o].mode # "FREE"
      BY <2>3, <3>3 DEF EditedOrder, Covered, PaidIffNothingDue
    <3> QED BY <3>1, <3>2, <3>3
  <2>5. OrderIsCovered(o)
    BY DEF Covered
  <2> HIDE DEF r, isFree, new
  <2>6. OrderIsCovered(o)'
    BY <1>0, <2>1, <2>2, <2>4, <2>5 DEF OrderIsCovered, Exists
  <2>7. order[o].status # "DELETED" /\ waived \subseteq waived'
    BY <2>1, <2>3 DEF Exists
  <2>8. order'[o].status = "PAID" <=> order'[o].due = 0
    BY <2>2, <2>4
  <2>9. received[o] <= received'[o]
    BY <1>0, <2>1
  <2> QED BY <2>1, <2>2, <2>6, <2>7, <2>8, <2>9, CommitKeepsCovered
<1>4. ASSUME NEW a \in Admins, CommitDelete(a)
      PROVE  Covered'
  <2> DEFINE gone == {request[a].order} \cap Orders
  <2>1. /\ \A p \in gone : /\ order'[p].status = "DELETED" /\ order'[p].paid = 0
                           /\ plan'[p].status = "NONE" /\ plan'[p].count = 0
        /\ \A p \in Orders \ gone : /\ order'[p] = order[p] /\ plan'[p] = plan[p]
                                    /\ installment'[p] = installment[p]
        /\ UNCHANGED <<received, waived>> /\ request' = [request EXCEPT ![a] = NoRequest]
    BY <1>4 DEF CommitDelete, NoOrder, NoPlan
  <2> HIDE DEF gone
  <2>2. PaidIffNothingDue'
    BY <2>1 DEF Covered, PaidIffNothingDue
  <2>3. (\A p \in Orders : OrderIsCovered(p))'
    <3> SUFFICES ASSUME NEW p \in Orders
                 PROVE  OrderIsCovered(p)'
      OBVIOUS
    <3>1. CASE p \in gone
      BY <1>0, <2>1, <3>1 DEF OrderIsCovered, Exists
    <3>2. CASE p \notin gone
      BY <2>1, <3>2, UntouchedOrder DEF Covered
    <3> QED BY <3>1, <3>2
  <2>4. (\A b \in Admins : SnapshotIsCovered(request[b]))'
    <3> SUFFICES ASSUME NEW b \in Admins
                 PROVE  SnapshotIsCovered(request[b])'
      OBVIOUS
    <3>1. CASE b = a
      BY <2>1, <3>1 DEF TypeOK, SnapshotIsCovered, NoRequest
    <3>2. CASE b # a
      <4>1. /\ request'[b] = request[b]
            /\ waived \subseteq waived'
            /\ \A p \in Orders : received[p] <= received'[p]
            /\ \A p \in Orders : Exists(p)' /\ plan[p].count # 0 => plan'[p].count = plan[p].count
            /\ \A p \in Orders : order[p].status = "DELETED" => order'[p].status = "DELETED"
        BY <1>0, <2>1, <3>2 DEF Exists, TypeOK
      <4> QED BY <4>1, SnapshotStaysCovered
    <3> QED BY <3>1, <3>2
  <2> QED BY <2>2, <2>3, <2>4 DEF Covered
<1>5. ASSUME NEW a \in Admins, NEW o \in Orders, NEW amount \in 1..Fee,
             PayOneTime(a, o, amount)
      PROVE  Covered'
  <2> DEFINE r == request[a]
             before == OrderBefore(r, o, "MANUAL")
  <2>1. /\ Payable(r, o) /\ amount >= r.due
        /\ request' = [request EXCEPT ![a] = NoRequest]
        /\ UNCHANGED <<plan, installment, waived>>
    BY <1>5 DEF PayOneTime, Covers, Finish
  <2>2. /\ r \in Request /\ before \in OrderRow
        /\ o \notin waived => /\ r.total = Fee
                              /\ r.due + received[o] >= Fee
                              /\ before.total = Fee
    BY <2>1, PaymentFacts
  <2>3. /\ order'[o].status = "PAID" /\ order'[o].paid = r.total
        /\ order'[o].due = 0 /\ order'[o].total = before.total
        /\ \A p \in Orders \ {o} : order'[p] = order[p]
    BY <1>5, <2>2 DEF PayOneTime, TypeOK, OrderRow
  <2>4. /\ received'[o] = received[o] + amount
        /\ \A p \in Orders \ {o} : received'[p] = received[p]
    BY <1>5 DEF PayOneTime, TypeOK
  <2>5. order[o].status # "DELETED" /\ OrderIsCovered(o)
    BY <1>0, <2>1 DEF Payable, TargetOrders, FreshOrders, Covered
  <2>6. r.due \in Nat /\ received[o] \in Nat /\ amount \in Nat /\ Fee \in Nat
    BY <1>0, <2>2 DEF Request
  <2>7. plan[o].count # 0 => Worth(plan[o].count, PaidOnes(installment[o])) \in Nat
    <3>1. plan[o].count # 0 => plan[o].count \in Numbers
      BY BillingAssumption DEF TypeOK, PlanRow, Numbers
    <3> QED BY <3>1, WorthOfPaid
  <2> HIDE DEF r, before
  <2>8. OrderIsCovered(o)'
    BY <2>1, <2>2, <2>3, <2>4, <2>5, <2>6, <2>7 DEF OrderIsCovered, Exists
  <2>9. received[o] <= received'[o]
    BY <2>4, <2>6
  <2> QED BY <2>1, <2>3, <2>4, <2>5, <2>8, <2>9, CommitKeepsCovered
<1>6. ASSUME NEW a \in Admins, NEW o \in Orders, RecordOneTime(a, o)
      PROVE  Covered'
  <2> DEFINE r == request[a]
             before == OrderBefore(r, o, "MANUAL")
  <2>1. /\ Payable(r, o)
        /\ request' = [request EXCEPT ![a] = NoRequest]
        /\ UNCHANGED <<plan, installment, waived, received>>
    BY <1>6 DEF RecordOneTime, Finish
  <2>2. /\ before.status = "PAID" <=> before.due = 0
        /\ o \notin waived => /\ before.total = Fee
                              /\ before.paid <= received[o]
                              /\ before.due + received[o] >= Fee
    BY <2>1, PaymentFacts
  <2>3. order'[o] = before /\ \A p \in Orders \ {o} : order'[p] = order[p]
    BY <1>6 DEF RecordOneTime, TypeOK
  <2>4. order[o].status # "DELETED" /\ OrderIsCovered(o)
    BY <2>1 DEF Payable, TargetOrders, FreshOrders, Covered
  <2> HIDE DEF r, before
  <2>5. OrderIsCovered(o)'
    BY <2>1, <2>2, <2>3, <2>4 DEF OrderIsCovered
  <2>6. order'[o].status = "PAID" <=> order'[o].due = 0
    BY <2>2, <2>3
  <2>7. received[o] <= received'[o]
    BY <1>0, <2>1
  <2> QED BY <2>1, <2>3, <2>4, <2>5, <2>6, <2>7, CommitKeepsCovered
<1>7. ASSUME NEW a \in Admins, NEW o \in Orders, NEW n \in Numbers,
             RecordInstallments(a, o, n)
      PROVE  Covered'
  <2> DEFINE r == request[a]
             before == OrderBefore(r, o, "INSTALLMENT")
  <2>1. /\ Payable(r, o) /\ PlanOf(r, o, n)
        /\ request' = [request EXCEPT ![a] = NoRequest]
        /\ UNCHANGED <<waived, received>>
    BY <1>7 DEF RecordInstallments, Finish
  <2>2. /\ before.status = "PAID" <=> before.due = 0
        /\ o \notin waived => /\ before.total = Fee
                              /\ before.paid <= received[o]
                              /\ before.due + received[o] >= Fee
    BY <2>1, PaymentFacts
  <2>3. order'[o] = before /\ \A p \in Orders \ {o} : order'[p] = order[p]
    BY <1>7 DEF RecordInstallments, TypeOK
  <2>4. order[o].status # "DELETED" /\ OrderIsCovered(o)
    BY <2>1 DEF Payable, TargetOrders, FreshOrders, Covered
  <2>5. /\ plan'[o] = IF r.count = 0 THEN [status |-> "ACTIVE", count |-> n] ELSE plan[o]
        /\ installment'[o] = StoredRows(r, o, n)
        /\ \A p \in Orders \ {o} : plan'[p] = plan[p] /\ installment'[p] = installment[p]
    BY <1>7 DEF RecordInstallments, TypeOK
  <2>6. r.count = 0 => plan[o].count = 0 /\ PaidOnes(installment'[o]) = {}
    BY <2>1, <2>5 DEF PlanOf, StoredRows, NewInstallments, PaidOnes
  <2>7. r.count # 0 => installment'[o] = installment[o]
    BY <2>5 DEF StoredRows
  <2>8. Worth(n, {}) = 0
    BY WorthOfPlan
  <2> HIDE DEF r, before
  <2>9. OrderIsCovered(o)'
    BY <1>0, <2>1, <2>2, <2>3, <2>4, <2>5, <2>6, <2>7, <2>8 DEF OrderIsCovered
  <2>10. plan[o].count # 0 => plan'[o].count = plan[o].count
    BY <2>5, <2>6
  <2>11. order'[o].status = "PAID" <=> order'[o].due = 0
    BY <2>2, <2>3
  <2>12. received[o] <= received'[o] /\ \A p \in Orders : received'[p] = received[p]
    BY <1>0, <2>1
  <2> QED BY <2>1, <2>3, <2>4, <2>5, <2>9, <2>10, <2>11, <2>12, CommitKeepsCovered
<1>8. ASSUME NEW a \in Admins, NEW o \in Orders, NEW n \in Numbers,
             NEW S \in SUBSET Numbers, PayInstallments(a, o, n, S)
      PROVE  Covered'
  <2> DEFINE r == request[a]
             before == OrderBefore(r, o, "INSTALLMENT")
             done == Completes(r, n, S)
             w == Worth(n, S)
             paid == NextPaid(r, n, S)
             due == NextDue(r, n, S)
  <2>1. /\ Payable(r, o) /\ PlanOf(r, o, n) /\ S \in Selection(r, n)
        /\ request' = [request EXCEPT ![a] = NoRequest]
        /\ UNCHANGED waived
    BY <1>8 DEF PayInstallments, Finish
  <2>2. /\ r \in Request /\ before \in OrderRow
        /\ o \notin waived => /\ r.total = Fee
                              /\ r.paid <= received[o]
                              /\ before.total = Fee
        /\ r.count # 0 => plan[o].count = r.count
    BY <2>1, PaymentFacts
  <2>3. /\ w \in Nat /\ paid \in 0..Fee /\ due \in 0..Fee
        /\ paid <= r.paid + w /\ due = r.total - paid
    BY <2>1, PaymentAmounts DEF NextDue
  <2>4. /\ done /\ o \notin waived => received[o] + w >= Fee
        /\ Worth(n, S \cup PaidOnes(StoredRows(r, o, n))) <= received[o] + w
    BY <2>1, InstallmentsAreCovered
  <2>5. /\ order'[o].status = IF done THEN "PAID" ELSE "PARTIALLY_PAID"
        /\ order'[o].paid = paid
        /\ order'[o].due = IF done THEN 0 ELSE due
        /\ order'[o].total = before.total
        /\ \A p \in Orders \ {o} : order'[p] = order[p]
    BY <1>8, <2>2 DEF PayInstallments, TypeOK, OrderRow
  <2>6. /\ plan'[o] = [status |-> IF done THEN "COMPLETED" ELSE "ACTIVE", count |-> n]
        /\ received'[o] = received[o] + w
        /\ \A p \in Orders \ {o} : /\ plan'[p] = plan[p] /\ installment'[p] = installment[p]
                                   /\ received'[p] = received[p]
    BY <1>8 DEF PayInstallments, TypeOK
  <2>7. PaidOnes(installment'[o]) = S \cup PaidOnes(StoredRows(r, o, n))
    <3>1. installment'[o] = [i \in Numbers |-> IF i \in S THEN "PAID" ELSE StoredRows(r, o, n)[i]]
      BY <1>8 DEF PayInstallments, TypeOK
    <3> QED BY <3>1 DEF PaidOnes
  <2>8. ~done => due # 0
    BY DEF Completes
  <2>9. plan[o].count # 0 => n = plan[o].count
    BY <2>1, <2>2 DEF PlanOf
  <2>10. order[o].status # "DELETED"
    BY <2>1 DEF Payable, TargetOrders, FreshOrders
  <2>11. r.paid \in Nat /\ received[o] \in Nat /\ Fee \in Nat
    BY <1>0, <2>2 DEF Request
  <2> HIDE DEF r, before, done, w, paid, due
  <2>12. OrderIsCovered(o)'
    <3> SUFFICES /\ o \notin waived =>
                      /\ paid <= received[o] + w
                      /\ before.total = Fee
                      /\ (IF done THEN 0 ELSE due) + received[o] + w >= Fee
                      /\ done => received[o] + w >= Fee
                 /\ Worth(n, PaidOnes(installment'[o])) <= received[o] + w
      BY <2>1, <2>3, <2>5, <2>6, <2>11 DEF OrderIsCovered
    <3>1. CASE o \notin waived
      BY <2>2, <2>3, <2>4, <2>7, <2>11, <3>1
    <3> QED BY <2>4, <2>7, <3>1
  <2>13. order'[o].status = "PAID" <=> order'[o].due = 0
    BY <2>5, <2>8
  <2>14. received[o] <= received'[o] /\ (plan[o].count # 0 => plan'[o].count = plan[o].count)
    BY <2>3, <2>6, <2>9, <2>11
  <2> QED BY <2>1, <2>5, <2>6, <2>10, <2>12, <2>13, <2>14, CommitKeepsCovered
<1>9. ASSUME NEW a \in Admins, Abort(a)
      PROVE  Covered'
  <2>1. /\ UNCHANGED <<order, plan, installment, received, waived>>
        /\ request' = [request EXCEPT ![a] = NoRequest]
    BY <1>9 DEF Abort, Finish
  <2>2. (\A b \in Admins : SnapshotIsCovered(request[b]))'
    BY <2>1 DEF TypeOK, Covered, SnapshotIsCovered, Exists, NoRequest
  <2> QED BY <2>1, <2>2 DEF Covered, PaidIffNothingDue, OrderIsCovered, Exists
<1>10. ASSUME NEW s \in Sweepers, Suspend(s)
       PROVE  Covered'
  <2>1. UNCHANGED <<order, request, received, waived>>
    BY <1>10 DEF Suspend
  <2>2. \A o \in Orders : /\ plan'[o].count = plan[o].count
                          /\ plan'[o].status = "COMPLETED" => plan[o].status = "COMPLETED"
                          /\ PaidOnes(installment'[o]) \subseteq PaidOnes(installment[o])
    BY <1>10 DEF Suspend, TypeOK, PlanRow, PaidOnes
  <2>3. (\A p \in Orders : OrderIsCovered(p))'
    <3> SUFFICES ASSUME NEW p \in Orders
                 PROVE  OrderIsCovered(p)'
      OBVIOUS
    <3>1. OrderIsCovered(p)
      BY DEF Covered
    <3>2. ASSUME plan[p].count # 0
          PROVE  Worth(plan[p].count, PaidOnes(installment'[p])) <= received[p]
      <4> DEFINE n == plan[p].count
                 later == PaidOnes(installment'[p])
                 earlier == PaidOnes(installment[p])
      <4>1. n \in Numbers
        BY <3>2, BillingAssumption DEF TypeOK, PlanRow, Numbers
      <4>2. Worth(n, earlier) \in Nat /\ Worth(n, later) \in Nat /\ earlier \in SUBSET Numbers
        BY <4>1, WorthOfPaid
      <4>3. Worth(n, later) <= Worth(n, earlier)
        BY <2>2, <4>1, <4>2, WorthIsMonotone
      <4>4. Worth(n, earlier) <= received[p] /\ received[p] \in Nat
        BY <1>0, <3>1, <3>2 DEF OrderIsCovered
      <4> HIDE DEF n, later, earlier
      <4> QED BY <4>2, <4>3, <4>4 DEF n, later
    <3> QED BY <2>1, <2>2, <3>1, <3>2 DEF OrderIsCovered, Exists
  <2>4. (\A b \in Admins : SnapshotIsCovered(request[b]))'
    BY <2>1, <2>2 DEF TypeOK, Request, Covered, SnapshotIsCovered, Exists
  <2> QED BY <2>1, <2>3, <2>4 DEF Covered, PaidIffNothingDue
<1>11. CASE UNCHANGED <<order, plan, installment, request, received, waived>>
  BY <1>11 DEF Covered, PaidIffNothingDue, OrderIsCovered, SnapshotIsCovered, Exists
<1> QED
  BY <1>1, <1>2, <1>3, <1>4, <1>5, <1>6, <1>7, <1>8, <1>9, <1>10, <1>11
  DEF Next, Editing, Paying, Sweeping, StartEdit, StartDelete, StartPayment,
      Lapse, Scan, SweepFails, vars

-----------------------------------------------------------------------------
(* Decisions: what gives access and what takes it away *)

\* An enrollment keeps its orders for as long as it exists.
LEMMA OwnersStay ==
  ASSUME TypeOK, RefersToOwn, [Next]_vars, NEW e \in Enrollments, Live(e)',
         NEW p \in Orders, order[p].owner = e
  PROVE  order'[p].owner = e
<1>0. e # None /\ order[p] \in OrderRow /\ (Exists(p) <=> order[p].owner # None)
  BY BillingAssumption DEF TypeOK, RefersToOwn
<1>1. ASSUME NEW f \in Enrollments, NEW o \in Orders, NEW free \in BOOLEAN,
             MakeEnrolment(f, o, free)
      PROVE  order'[p] = order[p]
  BY <1>0, <1>1 DEF MakeEnrolment, FreshOrders, TypeOK, Exists
<1>2. ASSUME NEW a \in Admins, request[a].kind # "none",
             NEW o \in TargetOrders(request[a]), NEW new,
             request[a].order # None => new.owner = order[o].owner,
             order' = [order EXCEPT ![o] = new]
      PROVE  order'[p].owner = e
  <2>1. p = o => request[a].order # None
    <3>1. CASE request[a].order = None
      BY <1>0, <1>2, <3>1, OwnTarget, BillingAssumption
    <3> QED BY <3>1
  <2> QED BY <1>2, <2>1 DEF TypeOK
<1>3. ASSUME NEW a \in Admins, NEW o \in Orders, NEW type \in BOOLEAN \cup {None},
             NEW status \in EditStatuses \cup {None},
             NEW step \in EnrollmentStep \cup {None},
             CommitEdit(a, o, type, status, step)
      PROVE  order'[p].owner = e
  <2> DEFINE r == request[a]
             new == EditedOrder(r, o, EditsToFree(r, type))
  <2>1. r.order # None => new.owner = order[o].owner
    BY DEF EditedOrder, FreeOrder, PendingOrder
  <2>2. /\ r.kind # "none" /\ o \in TargetOrders(r)
        /\ order' = [order EXCEPT ![o] = new]
    BY <1>3 DEF CommitEdit
  <2> HIDE DEF new
  <2> QED BY <1>2, <2>1, <2>2
<1>4. ASSUME NEW a \in Admins, CommitDelete(a)
      PROVE  order'[p].owner = e
  <2>1. e # request[a].enr
    BY <1>4 DEF CommitDelete, Live, TypeOK, EnrollmentStatus, AbsentEnrollment
  <2>2. p # request[a].order
    BY <1>0, <1>4, <2>1, BillingAssumption
    DEF CommitDelete, RefersToOwn, SnapshotRefersToOwn, Exists
  <2> QED BY <1>4, <2>2 DEF CommitDelete
<1>5. ASSUME NEW a \in Admins, NEW o \in Orders, NEW amount \in 1..Fee,
             PayOneTime(a, o, amount)
      PROVE  order'[p].owner = e
  <2> DEFINE r == request[a]
             before == OrderBefore(r, o, "MANUAL")
             new == [before EXCEPT !.status = "PAID", !.mode = "MANUAL",
                                   !.paid = r.total, !.due = 0]
  <2>1. Payable(r, o) /\ order' = [order EXCEPT ![o] = new]
    BY <1>5 DEF PayOneTime
  <2>2. r.order # None => before = order[o] /\ order[o] \in OrderRow
    BY DEF OrderBefore, TypeOK
  <2>3. r.order # None => new.owner = order[o].owner
    BY <2>2 DEF OrderRow
  <2> HIDE DEF new
  <2> QED BY <1>2, <2>1, <2>3 DEF Payable
<1>6. ASSUME NEW a \in Admins, NEW o \in Orders, RecordOneTime(a, o)
      PROVE  order'[p].owner = e
  <2> DEFINE before == OrderBefore(request[a], o, "MANUAL")
  <2>1. Payable(request[a], o) /\ order' = [order EXCEPT ![o] = before]
    BY <1>6 DEF RecordOneTime
  <2>2. request[a].order # None => before.owner = order[o].owner
    BY DEF OrderBefore
  <2> HIDE DEF before
  <2> QED BY <1>2, <2>1, <2>2 DEF Payable
<1>7. ASSUME NEW a \in Admins, NEW o \in Orders, NEW n \in Numbers,
             RecordInstallments(a, o, n)
      PROVE  order'[p].owner = e
  <2> DEFINE before == OrderBefore(request[a], o, "INSTALLMENT")
  <2>1. Payable(request[a], o) /\ order' = [order EXCEPT ![o] = before]
    BY <1>7 DEF RecordInstallments
  <2>2. request[a].order # None => before.owner = order[o].owner
    BY DEF OrderBefore
  <2> HIDE DEF before
  <2> QED BY <1>2, <2>1, <2>2 DEF Payable
<1>8. ASSUME NEW a \in Admins, NEW o \in Orders, NEW n \in Numbers,
             NEW S \in SUBSET Numbers, PayInstallments(a, o, n, S)
      PROVE  order'[p].owner = e
  <2> DEFINE r == request[a]
             before == OrderBefore(r, o, "INSTALLMENT")
             done == Completes(r, n, S)
             new == [before EXCEPT !.status = IF done THEN "PAID" ELSE "PARTIALLY_PAID",
                                   !.mode = "INSTALLMENT",
                                   !.paid = NextPaid(r, n, S),
                                   !.due = IF done THEN 0 ELSE NextDue(r, n, S)]
  <2>1. Payable(r, o) /\ order' = [order EXCEPT ![o] = new]
    BY <1>8 DEF PayInstallments
  <2>2. r.order # None => before = order[o] /\ order[o] \in OrderRow
    BY DEF OrderBefore, TypeOK
  <2>3. r.order # None => new.owner = order[o].owner
    BY <2>2 DEF OrderRow
  <2> HIDE DEF new
  <2> QED BY <1>2, <2>1, <2>3 DEF Payable
<1>9. CASE UNCHANGED order
  BY <1>9
<1> QED
  BY <1>1, <1>3, <1>4, <1>5, <1>6, <1>7, <1>8, <1>9
  DEF Next, Editing, Paying, Sweeping, StartEdit, StartDelete, StartPayment, Start,
      Abort, Lapse, Scan, Suspend, SweepFails, vars

\* Money is never taken off an order, and what was waived stays waived.
LEMMA MoneyStays ==
  ASSUME TypeOK, [Next]_vars
  PROVE  /\ waived \subseteq waived'
         /\ \A p \in Orders : received[p] <= received'[p]
<1>0. \A p \in Orders : received[p] \in Nat
  BY DEF TypeOK
<1>1. ASSUME NEW a \in Admins, NEW o \in Orders, NEW amount \in 1..Fee,
             PayOneTime(a, o, amount)
      PROVE  waived \subseteq waived' /\ \A p \in Orders : received[p] <= received'[p]
  BY <1>0, <1>1, BillingAssumption DEF PayOneTime, TypeOK
<1>2. ASSUME NEW a \in Admins, NEW o \in Orders, NEW n \in Numbers,
             NEW S \in SUBSET Numbers, PayInstallments(a, o, n, S)
      PROVE  waived \subseteq waived' /\ \A p \in Orders : received[p] <= received'[p]
  <2>1. Worth(n, S) \in Nat
    BY WorthIsNatural
  <2>2. received' = [received EXCEPT ![o] = received[o] + Worth(n, S)] /\ waived' = waived
    BY <1>2 DEF PayInstallments
  <2> QED BY <1>0, <2>1, <2>2 DEF TypeOK
<1>3. CASE received' = received /\ waived \subseteq waived'
  BY <1>0, <1>3
<1>4. CASE Editing
  <2>1. ASSUME NEW e \in Enrollments, NEW o \in Orders, NEW free \in BOOLEAN,
               MakeEnrolment(e, o, free)
        PROVE  received' = received /\ waived \subseteq waived'
    BY <2>1 DEF MakeEnrolment
  <2>2. ASSUME NEW a \in Admins, NEW o \in Orders, NEW type \in BOOLEAN \cup {None},
               NEW status \in EditStatuses \cup {None},
               NEW step \in EnrollmentStep \cup {None},
               CommitEdit(a, o, type, status, step)
        PROVE  received' = received /\ waived \subseteq waived'
    BY <2>2 DEF CommitEdit
  <2>3. ASSUME NEW a \in Admins, CommitDelete(a)
        PROVE  received' = received /\ waived \subseteq waived'
    BY <2>3 DEF CommitDelete
  <2> QED BY <1>3, <1>4, <2>1, <2>2, <2>3 DEF Editing, StartEdit, StartDelete, Start
<1>5. ASSUME NEW a \in Admins, NEW o \in Orders,
             RecordOneTime(a, o) \/ \E n \in Numbers : RecordInstallments(a, o, n)
      PROVE  received' = received /\ waived' = waived
  BY <1>5 DEF RecordOneTime, RecordInstallments
<1>6. ASSUME NEW a \in Admins, Abort(a) \/ \E e \in Enrollments : StartPayment(a, e)
      PROVE  received' = received /\ waived' = waived
  BY <1>6 DEF StartPayment, Start, Abort
<1>7. CASE Sweeping \/ UNCHANGED vars
  <2>1. received' = received /\ waived' = waived
    BY <1>7 DEF Sweeping, Lapse, Scan, Suspend, SweepFails, vars
  <2> QED BY <1>3, <2>1
<1> QED BY <1>1, <1>2, <1>3, <1>4, <1>5, <1>6, <1>7 DEF Next, Paying

\* Every step keeps the access payments gave paid for.
LEMMA AccessStep ==
  ASSUME TypeOK, RefersToOwn, Covered, AccessIsPaidFor, [Next]_vars, Covered'
  PROVE  AccessIsPaidFor'
<1> DEFINE Paid(e) == \E o \in Orders :
                        /\ order[o].owner = e
                        /\ \/ o \in waived
                           \/ received[o] >= Fee
                           \/ enrollment[e].step # "COMPLETED" /\ received[o] > 0
<1> SUFFICES ASSUME NEW e \in Enrollments, Live(e)', decidedBy'[e] = "payment"
             PROVE  Paid(e)'
  BY DEF AccessIsPaidFor
<1>0. Fee \in Nat \ {0} /\ \A p \in Orders : received[p] \in Nat /\ received[p] <= received'[p]
  BY MoneyStays, BillingAssumption DEF TypeOK
<1>1. ASSUME Live(e), decidedBy[e] = "payment", enrollment'[e].step = enrollment[e].step,
             TypeOK'
      PROVE  Paid(e)'
  <2>1. PICK p \in Orders : /\ order[p].owner = e
                            /\ \/ p \in waived
                               \/ received[p] >= Fee
                               \/ enrollment[e].step # "COMPLETED" /\ received[p] > 0
    BY <1>1 DEF AccessIsPaidFor
  <2>2. order'[p].owner = e
    BY <2>1, OwnersStay
  <2>3. waived \subseteq waived'
    BY MoneyStays
  <2>4. received[p] \in Nat /\ received'[p] \in Nat /\ received[p] <= received'[p]
    BY <1>0, <1>1 DEF TypeOK
  <2>5. \/ p \in waived'
        \/ received'[p] >= Fee
        \/ enrollment'[e].step # "COMPLETED" /\ received'[p] > 0
    BY <1>0, <1>1, <2>1, <2>3, <2>4
  <2> QED BY <2>2, <2>5
<1>2. TypeOK'
  BY TypeStep
<1>3. ASSUME NEW f \in Enrollments, NEW o \in Orders, NEW free \in BOOLEAN,
             MakeEnrolment(f, o, free)
      PROVE  Paid(e)'
  <2>1. f # e
    BY <1>3 DEF MakeEnrolment, TypeOK
  <2>2. enrollment'[e] = enrollment[e] /\ decidedBy'[e] = decidedBy[e]
    BY <1>3, <2>1 DEF MakeEnrolment, TypeOK
  <2> QED BY <1>1, <1>2, <2>2 DEF Live
<1>4. ASSUME NEW a \in Admins, NEW o \in Orders, NEW type \in BOOLEAN \cup {None},
             NEW status \in EditStatuses \cup {None},
             NEW step \in EnrollmentStep \cup {None},
             CommitEdit(a, o, type, status, step)
      PROVE  Paid(e)'
  <2> DEFINE r == request[a]
             isFree == EditsToFree(r, type)
  <2>1. /\ r.enr \in Enrollments /\ Live(r.enr)
        /\ e # r.enr => enrollment'[e] = enrollment[e] /\ decidedBy'[e] = decidedBy[e]
    BY <1>4, OwnTarget DEF CommitEdit, TypeOK
  <2>2. CASE e # r.enr
    BY <1>1, <1>2, <2>1, <2>2 DEF Live
  <2>3. CASE e = r.enr
    <3>1. ~isFree /\ status = None /\ step = None /\ decidedBy'[e] = decidedBy[e]
      BY <1>4, <2>3 DEF CommitEdit, TypeOK
    <3>2. enrollment'[e].step = enrollment[e].step
      BY <1>4, <2>3, <3>1 DEF CommitEdit, TypeOK
    <3> QED BY <1>1, <1>2, <2>1, <2>3, <3>1, <3>2
  <2> QED BY <2>2, <2>3
<1>5. ASSUME NEW a \in Admins, CommitDelete(a)
      PROVE  Paid(e)'
  <2>1. e # request[a].enr
    BY <1>5 DEF CommitDelete, Live, TypeOK, EnrollmentStatus, AbsentEnrollment
  <2>2. enrollment'[e] = enrollment[e] /\ decidedBy'[e] = decidedBy[e]
    BY <1>5, <2>1 DEF CommitDelete, TypeOK
  <2> QED BY <1>1, <1>2, <2>2 DEF Live
<1>6. ASSUME NEW a \in Admins, NEW o \in Orders, NEW amount \in 1..Fee,
             PayOneTime(a, o, amount)
      PROVE  Paid(e)'
  <2> DEFINE r == request[a]
  <2>1. Payable(r, o) /\ r.enr \in Enrollments
    BY <1>6, OwnTarget DEF PayOneTime, Payable
  <2>2. CASE e # r.enr
    <3>1. enrollment'[e] = enrollment[e] /\ decidedBy'[e] = decidedBy[e]
      BY <1>6, <2>2 DEF PayOneTime, TypeOK
    <3> QED BY <1>1, <1>2, <3>1 DEF Live
  <2>3. CASE e = r.enr
    <3>1. /\ OrderBefore(r, o, "MANUAL").owner = e
          /\ OrderBefore(r, o, "MANUAL") \in OrderRow
      BY <2>1, <2>3, PaymentFacts
    <3>2. order'[o].owner = e /\ order'[o].due = 0 /\ order'[o].status = "PAID"
      BY <1>6, <3>1 DEF PayOneTime, TypeOK, OrderRow
    <3>3. o \notin waived' => received'[o] >= Fee
      <4>1. OrderIsCovered(o)'
        BY DEF Covered
      <4>2. o \notin waived' => 0 + received'[o] >= Fee
        BY <3>2, <4>1 DEF OrderIsCovered, Exists
      <4>3. received'[o] \in Nat
        BY <1>2 DEF TypeOK
      <4> QED BY <1>0, <4>2, <4>3
    <3> QED BY <3>2, <3>3
  <2> QED BY <2>2, <2>3
<1>7. ASSUME NEW a \in Admins, NEW o \in Orders,
             \/ RecordOneTime(a, o)
             \/ \E n \in Numbers : RecordInstallments(a, o, n)
      PROVE  Paid(e)'
  <2> DEFINE r == request[a]
  <2>1. Live(r.enr) /\ r.enr \in Enrollments
    BY <1>7, OwnTarget DEF RecordOneTime, RecordInstallments, Payable
  <2>2. /\ enrollment' = [enrollment EXCEPT ![r.enr] = Linked(r, o)]
        /\ decidedBy' = decidedBy
    BY <1>7 DEF RecordOneTime, RecordInstallments
  <2>3. /\ enrollment'[e].step = enrollment[e].step
        /\ enrollment'[e].status = enrollment[e].status
    BY <2>1, <2>2, LinkedRow DEF TypeOK
  <2> QED BY <1>1, <1>2, <2>2, <2>3 DEF Live
<1>8. ASSUME NEW a \in Admins, NEW o \in Orders, NEW n \in Numbers,
             NEW S \in SUBSET Numbers, PayInstallments(a, o, n, S)
      PROVE  Paid(e)'
  <2> DEFINE r == request[a]
             done == Completes(r, n, S)
  <2>1. /\ Payable(r, o) /\ PlanOf(r, o, n) /\ S \in Selection(r, n)
        /\ r.enr \in Enrollments
    BY <1>8, OwnTarget DEF PayInstallments, Payable
  <2>2. CASE e # r.enr
    <3>1. enrollment'[e] = enrollment[e] /\ decidedBy'[e] = decidedBy[e]
      BY <1>8, <2>2 DEF PayInstallments, TypeOK
    <3> QED BY <1>1, <1>2, <3>1 DEF Live
  <2>3. CASE e = r.enr
    <3>1. /\ OrderBefore(r, o, "INSTALLMENT").owner = e
          /\ OrderBefore(r, o, "INSTALLMENT") \in OrderRow
      BY <2>1, <2>3, PaymentFacts
    <3>2. order'[o].owner = e
      BY <1>8, <3>1 DEF PayInstallments, TypeOK, OrderRow
    <3>3. received'[o] = received[o] + Worth(n, S) /\ waived' = waived
      BY <1>8 DEF PayInstallments, TypeOK
    <3>4. Worth(n, S) \in Nat /\ Worth(n, S) >= 1
      BY <2>1, PaymentAmounts
    <3>5. done /\ o \notin waived => received[o] + Worth(n, S) >= Fee
      BY <2>1, InstallmentsAreCovered
    <3>6. ~done => enrollment'[e].step = "PAYMENT"
      BY <1>8, <2>1, <2>3, PaymentRow DEF PayInstallments, TypeOK, EnrollmentStatus, EnrollmentStep
    <3> HIDE DEF r, done
    <3>7. received'[o] > 0
      BY <1>0, <3>3, <3>4
    <3> QED BY <3>2, <3>3, <3>5, <3>6, <3>7
  <2> QED BY <2>2, <2>3
<1>9. ASSUME NEW s \in Sweepers, Suspend(s)
      PROVE  Paid(e)'
  <2>1. enrollment'[e] = enrollment[e] /\ decidedBy'[e] = decidedBy[e]
    BY <1>9 DEF Suspend, Live, TypeOK, EnrollmentRow
  <2> QED BY <1>1, <1>2, <2>1 DEF Live
<1>10. CASE UNCHANGED <<enrollment, decidedBy>>
  BY <1>1, <1>2, <1>10 DEF Live
<1> QED
  BY <1>3, <1>4, <1>5, <1>6, <1>7, <1>8, <1>9, <1>10
  DEF Next, Editing, Paying, Sweeping, StartEdit, StartDelete, StartPayment, Start,
      Abort, Lapse, Scan, SweepFails, vars

\* Every step keeps the suspensions the overdue job decided warranted.
LEMMA SuspensionStep ==
  ASSUME TypeOK, RefersToOwn, SuspensionIsWarranted, [Next]_vars
  PROVE  SuspensionIsWarranted'
<1> DEFINE Warranted(e) == \E o \in Orders :
                             /\ order[o].owner = e
                             /\ plan[o].status = "OVERDUE"
                             /\ \E i \in lapsed[o] : installment[o][i] = "OVERDUE"
<1> SUFFICES ASSUME NEW e \in Enrollments, Live(e)', decidedBy'[e] = "sweep"
             PROVE  Warranted(e)'
  BY DEF SuspensionIsWarranted
<1>0. e # None /\ \A p \in Orders : Exists(p) <=> order[p].owner # None
  BY BillingAssumption DEF RefersToOwn
<1>1. ASSUME Live(e), decidedBy[e] = "sweep",
             \A p \in Orders : order[p].owner = e =>
               /\ plan[p].status = "OVERDUE" => plan'[p].status = "OVERDUE"
               /\ lapsed[p] \subseteq lapsed'[p]
               /\ plan[p].status = "OVERDUE" =>
                    \A i \in Numbers : installment[p][i] = "OVERDUE"
                                         => installment'[p][i] = "OVERDUE"
      PROVE  Warranted(e)'
  <2>1. PICK p \in Orders : /\ order[p].owner = e
                            /\ plan[p].status = "OVERDUE"
                            /\ \E i \in lapsed[p] : installment[p][i] = "OVERDUE"
    BY <1>1 DEF SuspensionIsWarranted
  <2>2. PICK i \in lapsed[p] : installment[p][i] = "OVERDUE"
    BY <2>1
  <2>3. i \in Numbers
    BY <2>2 DEF TypeOK
  <2>4. order'[p].owner = e
    BY <2>1, OwnersStay
  <2>5. plan'[p].status = "OVERDUE" /\ i \in lapsed'[p] /\ installment'[p][i] = "OVERDUE"
    BY <1>1, <2>1, <2>2, <2>3
  <2> QED BY <2>4, <2>5
<1>2. ASSUME NEW f \in Enrollments, NEW o \in Orders, NEW free \in BOOLEAN,
             MakeEnrolment(f, o, free)
      PROVE  Warranted(e)'
  <2>1. f # e
    BY <1>2 DEF MakeEnrolment, TypeOK
  <2>2. enrollment'[e] = enrollment[e] /\ decidedBy'[e] = decidedBy[e]
        /\ UNCHANGED <<plan, lapsed, installment>>
    BY <1>2, <2>1 DEF MakeEnrolment, TypeOK
  <2> QED BY <1>1, <2>2 DEF Live
<1>3. ASSUME NEW a \in Admins, NEW o \in Orders, NEW type \in BOOLEAN \cup {None},
             NEW status \in EditStatuses \cup {None},
             NEW step \in EnrollmentStep \cup {None},
             CommitEdit(a, o, type, status, step)
      PROVE  Warranted(e)'
  <2>1. Live(e)
    BY <1>3 DEF CommitEdit, TypeOK, Live
  <2>2. decidedBy[e] = "sweep" /\ UNCHANGED <<plan, lapsed, installment>>
    BY <1>3 DEF CommitEdit, Finish, TypeOK
  <2> QED BY <1>1, <2>1, <2>2
<1>4. ASSUME NEW a \in Admins, CommitDelete(a)
      PROVE  Warranted(e)'
  <2>1. e # request[a].enr
    BY <1>4 DEF CommitDelete, Live, TypeOK, EnrollmentStatus, AbsentEnrollment
  <2>2. enrollment'[e] = enrollment[e] /\ decidedBy'[e] = decidedBy[e]
    BY <1>4, <2>1 DEF CommitDelete, TypeOK
  <2>3. \A p \in Orders : order[p].owner = e => p # request[a].order
    BY <1>0, <1>4, <2>1, BillingAssumption
    DEF CommitDelete, RefersToOwn, SnapshotRefersToOwn, Exists
  <2>4. \A p \in Orders : order[p].owner = e =>
          plan'[p] = plan[p] /\ lapsed'[p] = lapsed[p] /\ installment'[p] = installment[p]
    BY <1>4, <2>3 DEF CommitDelete
  <2> QED BY <1>1, <2>2, <2>4 DEF Live
<1>5. ASSUME NEW a \in Admins, NEW o \in Orders, NEW amount \in 1..Fee,
             PayOneTime(a, o, amount)
      PROVE  Warranted(e)'
  <2>1. e # request[a].enr
    BY <1>5 DEF PayOneTime, TypeOK
  <2>2. enrollment'[e] = enrollment[e] /\ decidedBy'[e] = decidedBy[e]
        /\ UNCHANGED <<plan, lapsed, installment>>
    BY <1>5, <2>1 DEF PayOneTime, Finish, TypeOK
  <2> QED BY <1>1, <2>2 DEF Live
<1>6. ASSUME NEW a \in Admins, NEW o \in Orders, RecordOneTime(a, o)
      PROVE  Warranted(e)'
  <2>1. request[a].enr \in Enrollments /\ Live(request[a].enr)
    BY <1>6, OwnTarget DEF RecordOneTime, Payable
  <2>2. enrollment'[e].status = enrollment[e].status /\ decidedBy'[e] = decidedBy[e]
        /\ UNCHANGED <<plan, lapsed, installment>>
    BY <1>6, <2>1, LinkedRow DEF RecordOneTime, Finish, TypeOK
  <2> QED BY <1>1, <2>2 DEF Live
<1>7. ASSUME NEW a \in Admins, NEW o \in Orders, NEW n \in Numbers,
             RecordInstallments(a, o, n)
      PROVE  Warranted(e)'
  <2> DEFINE r == request[a]
  <2>1. r.enr \in Enrollments /\ Live(r.enr) /\ PlanOf(r, o, n)
    BY <1>7, OwnTarget DEF RecordInstallments, Payable
  <2>2. enrollment'[e].status = enrollment[e].status /\ decidedBy'[e] = decidedBy[e]
        /\ lapsed' = lapsed
    BY <1>7, <2>1, LinkedRow DEF RecordInstallments, Finish, TypeOK
  <2>3. r.count = 0 => plan[o].status = "NONE"
    BY <2>1 DEF PlanOf, RefersToOwn
  <2>4. \A p \in Orders : plan[p].status = "OVERDUE" =>
          plan'[p] = plan[p] /\ installment'[p] = installment[p]
    BY <1>7, <2>3 DEF RecordInstallments, StoredRows, TypeOK
  <2> HIDE DEF r
  <2> QED BY <1>1, <2>2, <2>4 DEF Live
<1>8. ASSUME NEW a \in Admins, NEW o \in Orders, NEW n \in Numbers,
             NEW S \in SUBSET Numbers, PayInstallments(a, o, n, S)
      PROVE  Warranted(e)'
  <2>1. e # request[a].enr
    BY <1>8 DEF PayInstallments, TypeOK
  <2>2. enrollment'[e] = enrollment[e] /\ decidedBy'[e] = decidedBy[e] /\ lapsed' = lapsed
    BY <1>8, <2>1 DEF PayInstallments, Finish, TypeOK
  <2>3. order[o].owner # e
    BY <1>0, <1>8, <2>1, OwnTarget DEF PayInstallments, Payable
  <2>4. \A p \in Orders \ {o} : plan'[p] = plan[p] /\ installment'[p] = installment[p]
    BY <1>8 DEF PayInstallments, TypeOK
  <2> QED BY <1>1, <2>2, <2>3, <2>4 DEF Live
<1>9. ASSUME NEW o \in Orders, NEW i \in Numbers, Lapse(o, i)
      PROVE  Warranted(e)'
  <2>1. \A p \in Orders : lapsed[p] \subseteq lapsed'[p]
    BY <1>9 DEF Lapse, TypeOK
  <2> QED BY <1>1, <1>9, <2>1 DEF Lapse, Live
<1>10. ASSUME NEW s \in Sweepers, Suspend(s)
       PROVE  Warranted(e)'
  <2>1. Live(e) /\ UNCHANGED <<order, lapsed>>
    BY <1>10 DEF Suspend, Live, TypeOK
  <2>2. \A p \in Orders, i \in Numbers :
          Found(s, p, i) /\ installment[p][i] # "NONE" => installment'[p][i] = "OVERDUE"
    BY <1>10 DEF Suspend
  <2>3. \A p \in Orders :
          (\E i \in Numbers : Found(s, p, i)) /\ plan[p].status # "NONE"
            => plan'[p].status = "OVERDUE"
    BY <1>10 DEF Suspend, TypeOK, PlanRow
  <2>4. CASE FoundEnrollment(s, e)
    <3>1. PICK p \in Orders, i \in Numbers : <<p, i, e>> \in sweep[s]
      BY <2>4 DEF FoundEnrollment
    <3>2. Found(s, p, i)
      BY <3>1 DEF Found
    <3>3. /\ order[p].owner = e /\ i \in lapsed[p]
          /\ installment[p][i] # "NONE" /\ plan[p].status # "NONE"
      BY <2>1, <3>1 DEF RefersToOwn, FindingRefersToOwn
    <3> QED BY <2>1, <2>2, <2>3, <3>2, <3>3
  <2>5. CASE ~FoundEnrollment(s, e)
    <3>1. decidedBy[e] = "sweep"
      BY <1>10, <2>5 DEF Suspend
    <3>2. \A p \in Orders : plan[p].status = "OVERDUE" => plan'[p].status = "OVERDUE"
      BY <1>10 DEF Suspend, TypeOK, PlanRow
    <3>3. \A p \in Orders, i \in Numbers :
            installment[p][i] = "OVERDUE" => installment'[p][i] = "OVERDUE"
      BY <1>10 DEF Suspend
    <3> QED BY <1>1, <2>1, <3>1, <3>2, <3>3
  <2> QED BY <2>4, <2>5
<1>11. CASE UNCHANGED <<enrollment, plan, installment, lapsed, decidedBy>>
  BY <1>1, <1>11 DEF Live
<1> HIDE DEF Warranted
<1>12. CASE Editing
  BY <1>2, <1>3, <1>4, <1>11, <1>12 DEF Editing, StartEdit, StartDelete, Start
<1>13. CASE Paying
  BY <1>5, <1>6, <1>7, <1>8, <1>11, <1>13 DEF Paying, StartPayment, Start, Abort, Finish
<1>14. CASE Sweeping
  BY <1>9, <1>10, <1>11, <1>14 DEF Sweeping, Scan, SweepFails
<1> QED BY <1>11, <1>12, <1>13, <1>14 DEF Next, vars

-----------------------------------------------------------------------------
(* Theorems *)

\* The tables as the system finds them satisfy the invariant.
LEMMA InitIInv == Init => IInv
<1> SUFFICES ASSUME Init PROVE IInv
  OBVIOUS
<1>0. Fee \in Nat \ {0} /\ MaxRequests \in Nat
  BY BillingAssumption
<1>1. TypeOK
  <2>1. enrollment \in [Enrollments -> EnrollmentRow]
    BY RowTypes DEF Init
  <2> QED BY <1>0, <2>1, RowTypes DEF Init, TypeOK
<1>2. RefersToOwn
  <2>1. \A e \in Enrollments : enrollment[e].order = None
    BY DEF Init, AbsentEnrollment, WizardEnrollment
  <2> QED BY <2>1 DEF Init, RefersToOwn, LinkedOrderExists, Exists, NoOrder, NoPlan,
             SnapshotRefersToOwn, NoRequest
<1>3. Covered
  BY <1>0 DEF Init, Covered, PaidIffNothingDue, OrderIsCovered, SnapshotIsCovered,
     Exists, NoOrder, NoPlan, NoRequest
<1>4. AccessIsPaidFor /\ SuspensionIsWarranted
  BY DEF Init, AccessIsPaidFor, SuspensionIsWarranted
<1> QED BY <1>1, <1>2, <1>3, <1>4 DEF IInv

\* Every step keeps the invariant.
LEMMA NextIInv == IInv /\ [Next]_vars => IInv'
<1> SUFFICES ASSUME IInv, [Next]_vars PROVE IInv'
  OBVIOUS
<1>1. TypeOK'
  BY TypeStep DEF IInv
<1>2. RefersToOwn'
  BY OwnershipStep DEF IInv
<1>3. Covered'
  BY <1>1, <1>2, CoveredStep DEF IInv
<1>4. AccessIsPaidFor'
  BY <1>3, AccessStep DEF IInv
<1>5. SuspensionIsWarranted'
  BY SuspensionStep DEF IInv
<1> QED BY <1>1, <1>2, <1>3, <1>4, <1>5 DEF IInv

\* The inductive invariant holds in every state the handlers and the job reach.
THEOREM Invariance == Spec => []IInv
BY InitIInv, NextIInv, PTL DEF Spec

\* Every row, snapshot and finding keeps its type.
THEOREM TypeCorrectness == Spec => []TypeOK
<1>1. IInv => TypeOK
  BY DEF IInv
<1> QED BY <1>1, Invariance, PTL

\* The books never claim more than was received, however many payments are
\* computed from the same stale order.
THEOREM CreditCovered == Spec => []CreditIsCovered
<1>1. IInv => CreditIsCovered
  <2> SUFFICES ASSUME IInv, NEW o \in Orders \ waived
               PROVE  /\ order[o].paid <= received[o]
                      /\ order[o].status = "PAID" => received[o] >= Fee
                      /\ plan[o].status = "COMPLETED" => received[o] >= Fee
    BY DEF CreditIsCovered
  <2>1. OrderIsCovered(o) /\ received[o] \in Nat /\ Fee \in Nat
    BY BillingAssumption DEF IInv, Covered, TypeOK
  <2>2. order[o].status = "PAID" => order[o].due = 0
    BY DEF IInv, Covered, PaidIffNothingDue
  <2> QED BY <2>1, <2>2 DEF OrderIsCovered, Exists
<1> QED BY <1>1, Invariance, PTL

\* An order is PAID exactly when nothing is due on it.
THEOREM PaidMeansNothingDue == Spec => []PaidIffNothingDue
<1>1. IInv => PaidIffNothingDue
  BY DEF IInv, Covered
<1> QED BY <1>1, Invariance, PTL

\* Access a payment gave was paid for.
THEOREM AccessPaidFor == Spec => []AccessIsPaidFor
<1>1. IInv => AccessIsPaidFor
  BY DEF IInv
<1> QED BY <1>1, Invariance, PTL

\* Access the overdue job took away was overdue.
THEOREM SuspensionWarranted == Spec => []SuspensionIsWarranted
<1>1. IInv => SuspensionIsWarranted
  BY DEF IInv
<1> QED BY <1>1, Invariance, PTL

\* An enrollment is linked to at most an existing order of its own.
THEOREM LinksAreSound == Spec => []LinkedOrderExists
<1>1. IInv => LinkedOrderExists
  BY DEF IInv, RefersToOwn
<1> QED BY <1>1, Invariance, PTL

=============================================================================
