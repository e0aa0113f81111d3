---------------------------- MODULE CourseworkProofs ----------------------------
(***************************************************************************)
(* Proofs about Coursework, for any classes, assignments, numbers of       *)
(* submissions, students, teachers, points, marks and requests.  IInv says *)
(* what a request knows of the submission it works on: it was read before  *)
(* others wrote, and every step is shown to leave it true or to note it.   *)
(***************************************************************************)
EXTENDS Coursework, FiniteSetTheorems, TLAPS

LEMMA RequestFields ==
  ASSUME TypeOK, NEW r \in Requests
  PROVE  /\ request[r] \in Request
         /\ request[r].row \in Assignments \cup Classes \cup {None}
         /\ request[r].of \in Submissions \cup {0}
         /\ request[r].by \in Students \cup Teachers \cup {None}
         /\ request[r].number \in Points \cup {0}
<1>1. request[r] \in Request
  BY DEF TypeOK
<1> QED
  BY <1>1 DEF Request

LEMMA IdleIsARequest == Idle \in Request /\ Idle.pc = "idle"
BY DEF Idle, Request

LEMMA NoRows ==
  /\ NoAssignment \in Assignment /\ NoAssignment.class = None /\ NoAssignment.total = 0
  /\ NoSubmission \in AssignmentSubmission /\ NoSubmission.assignment = None
  /\ NoSubmission.student = None /\ NoSubmission.status = "PENDING"
  /\ NoGrade \in AssignmentGrade /\ NoGrade.creator = None /\ NoGrade.number = 0
BY DEF NoAssignment, NoSubmission, NoGrade, Assignment, AssignmentSubmission, AssignmentGrade

\* A row that belongs to something is not an absent one.
LEMMA RowsBelong ==
  ASSUME IInv
  PROVE  /\ Existing \subseteq Assignments
         /\ \A s \in Submissions : submission[s] # NoSubmission =>
              /\ submission[s].assignment \in Existing
              /\ submission[s].assignment \in Assignments
         /\ \A s \in Submissions : submission[s] = NoSubmission => grade[s] = NoGrade
         /\ \A a \in Assignments : \A s \in Of(a) : submission[s] # NoSubmission /\ a \in Existing
<1>1. Existing \subseteq Assignments
  BY DEF Existing
<1>2. \A s \in Submissions : submission[s] # NoSubmission =>
        /\ submission[s].assignment \in Existing
        /\ submission[s].assignment \in Assignments
  BY <1>1 DEF IInv, TypeOK
<1>3. \A s \in Submissions : submission[s] = NoSubmission => grade[s] = NoGrade
  BY NoRows DEF IInv, TypeOK
<1>4. \A a \in Assignments : \A s \in Of(a) : submission[s] # NoSubmission /\ a \in Existing
  BY <1>2, NoRows, CourseworkAssumption DEF Of
<1> QED
  BY <1>1, <1>2, <1>3, <1>4

\* Totals are numbers.
LEMMA Numbers ==
  ASSUME TypeOK
  PROVE  /\ \A a \in Assignments : assignment[a].total \in Nat
         /\ \A s \in Submissions : grade[s].number \in Nat
         /\ \A r \in Requests : request[r].number \in Nat
<1>1. Points \cup {0} \subseteq Nat
  BY CourseworkAssumption
<1> QED
  BY <1>1, RequestFields DEF TypeOK, Assignment, AssignmentGrade

LEMMA GradesWithinByRow ==
  \A a : GradesWithin(a) <=> \A s \in Of(a) : grade[s].number <= assignment[a].total
<1>1. SUFFICES ASSUME NEW a
               PROVE  GradesWithin(a) <=> \A s \in Of(a) : grade[s].number <= assignment[a].total
  OBVIOUS
<1>2. ASSUME GradesWithin(a), NEW s \in Of(a)
      PROVE  grade[s].number <= assignment[a].total
  <2>1. [submission |-> s, grade |-> grade[s]] \in Listed(a)
    BY DEF Listed
  <2> QED
    BY <1>2, <2>1 DEF GradesWithin
<1>3. ASSUME \A s \in Of(a) : grade[s].number <= assignment[a].total
      PROVE  GradesWithin(a)
  BY <1>3 DEF GradesWithin, Listed
<1> QED
  BY <1>2, <1>3

-----------------------------------------------------------------------------
(* What steps leave alone *)

\* The invariants of the rows, when neither they nor what is noted changes.
LEMMA RowsStay ==
  ASSUME IInv, UNCHANGED <<assignment, submission, grade, history>>
  PROVE  /\ AssignmentsAreOfClasses' /\ OneSubmission'
         /\ (\A a \in Existing \ lowered : GradesWithin(a))'
         /\ \A a \in Assignments : Of(a)' = Of(a)
         /\ Existing' = Existing
BY DEF IInv, AssignmentsAreOfClasses, OneSubmission, GradesWithin, Listed, By, Of, Existing,
       history

LEMMA SubmissionsStayOne ==
  ASSUME IInv, UNCHANGED <<submission, overlapped>>
  PROVE  OneSubmission'
<1>1. SUFFICES ASSUME NEW a \in Assignments, NEW u \in Students, <<a, u>> \notin overlapped
               PROVE  \A s, t \in By(a, u)' : s = t
  BY DEF OneSubmission
<1>2. By(a, u)' = By(a, u)
  BY DEF By, Of
<1> QED
  BY <1>1, <1>2 DEF IInv, OneSubmission

\* A request that is left alone still knows what it knew.
LEMMA KnowsStays ==
  ASSUME NEW q \in Requests, RequestIsSound(q), RequestKnows(q), request'[q] = request[q],
         \A s \in Submissions : s = request[q].of /\ submission'[s] # NoSubmission =>
           /\ submission[s] # NoSubmission
           /\ submission'[s].assignment = submission[s].assignment
           /\ submission[s].status = "GRADED" => submission'[s].status = "GRADED"
           /\ submission[s].assignment \notin lowered' =>
                /\ submission[s].assignment \notin lowered
                /\ \A n \in Nat : n <= assignment[submission[s].assignment].total =>
                     n <= assignment'[submission[s].assignment].total,
         request[q].number \in Nat,
         request[q].pc = "submit" /\ <<request[q].row, request[q].by>> \notin overlapped' =>
           \A s \in Submissions :
             /\ submission'[s].assignment = request[q].row
             /\ submission'[s].student = request[q].by
             => /\ <<request[q].row, request[q].by>> \notin overlapped
                /\ submission[s].assignment = request[q].row
                /\ submission[s].student = request[q].by
  PROVE  RequestIsSound(q)' /\ RequestKnows(q)'
<1>1. RequestIsSound(q)'
  BY DEF RequestIsSound
<1>2. request[q].pc = "submit" /\ <<request[q].row, request[q].by>> \notin overlapped' =>
        By(request[q].row, request[q].by)' = {}
  BY DEF RequestKnows, By, Of
<1>3. ASSUME request[q].pc \in {"status", "grade"}, submission'[request[q].of] # NoSubmission
      PROVE  /\ submission'[request[q].of].assignment \notin lowered' =>
                  request[q].number <= assignment'[submission'[request[q].of].assignment].total
             /\ request[q].pc = "grade" => submission'[request[q].of].status = "GRADED"
  <2>1. request[q].of \in Submissions
    BY <1>3 DEF RequestIsSound
  <2>2. PICK s \in Submissions : s = request[q].of
    BY <2>1
  <2>3. /\ submission[s].assignment \notin lowered =>
             request[q].number <= assignment[submission[s].assignment].total
        /\ request[q].pc = "grade" => submission[s].status = "GRADED"
    BY <1>3, <2>2 DEF RequestKnows
  <2> QED
    BY <1>3, <2>2, <2>3
<1> QED
  BY <1>1, <1>2, <1>3 DEF RequestKnows

\* When rows and notes stay, every request but r knows what it knew.
LEMMA OthersKnow ==
  ASSUME IInv, NEW r \in Requests, NEW next \in Request,
         request' = [request EXCEPT ![r] = next],
         UNCHANGED <<assignment, submission, overlapped, lowered>>
  PROVE  /\ request' \in [Requests -> Request] /\ request'[r] = next
         /\ \A q \in Requests \ {r} : request'[q] = request[q]
         /\ \A q \in Requests \ {r} : RequestIsSound(q)' /\ RequestKnows(q)'
<1>1. /\ request' \in [Requests -> Request] /\ request'[r] = next
      /\ \A q \in Requests \ {r} : request'[q] = request[q]
  BY DEF IInv, TypeOK
<1>2. ASSUME NEW q \in Requests \ {r}
      PROVE  RequestIsSound(q)' /\ RequestKnows(q)'
  <2>1. RequestIsSound(q) /\ RequestKnows(q) /\ request[q].number \in Nat
    BY Numbers DEF IInv
  <2> QED
    BY <1>1, <2>1, KnowsStays
<1> QED
  BY <1>1, <1>2

LEMMA AllKnow ==
  ASSUME IInv, UNCHANGED <<request, assignment, submission, overlapped, lowered>>
  PROVE  \A q \in Requests : RequestIsSound(q)' /\ RequestKnows(q)'
<1>1. SUFFICES ASSUME NEW q \in Requests
               PROVE  RequestIsSound(q)' /\ RequestKnows(q)'
  OBVIOUS
<1>2. RequestIsSound(q) /\ RequestKnows(q) /\ request[q].number \in Nat
  BY Numbers DEF IInv
<1> QED
  BY <1>2, KnowsStays

\* A submission whose grade is being saved keeps its excuse when no such
\* request ends.
LEMMA GradesStay ==
  ASSUME IInv, UNCHANGED <<submission, grade, clashed>>, cut \subseteq cut',
         \A q \in Requests : request[q].pc = "grade" /\ request[q].of \notin cut' =>
           request'[q].pc = "grade" /\ request'[q].of = request[q].of
  PROVE  GradedHasGrade'
<1>1. SUFFICES ASSUME NEW s \in Submissions, submission[s].status = "GRADED", grade[s] = NoGrade,
                      s \notin cut'
               PROVE  \/ \E q \in Requests : request'[q].pc = "grade" /\ request'[q].of = s
                      \/ s \in clashed /\ Of(submission[s].assignment) # {s}
  BY DEF GradedHasGrade, Of
<1>2. \/ \E q \in Requests : request[q].pc = "grade" /\ request[q].of = s
      \/ s \in clashed /\ Of(submission[s].assignment) # {s}
  BY <1>1 DEF IInv, GradedHasGrade
<1> QED
  BY <1>1, <1>2

-----------------------------------------------------------------------------
(* Classes and attendance *)

\* A class is added or its time comes, or a student is marked.
LEMMA ClassesChange ==
  ASSUME IInv, UNCHANGED <<assignment, submission, grade, request, history>>,
         class' \in [Classes -> {"NONE", "planned", "past"}],
         attendance' \in [Classes -> [Students -> AttendanceStatus \cup {None}]],
         \A c \in Classes : class'[c] = "NONE" => class[c] = "NONE" /\ attendance'[c] = attendance[c]
  PROVE  IInv'
<1>1. TypeOK'
  BY DEF IInv, TypeOK, Existing
<1>2. /\ AssignmentsAreOfClasses' /\ OneSubmission'
      /\ (\A a \in Existing \ lowered : GradesWithin(a))'
  BY RowsStay
<1>3. GradedHasGrade'
  BY GradesStay DEF history
<1>4. \A q \in Requests : RequestIsSound(q)' /\ RequestKnows(q)'
  BY AllKnow DEF history
<1> QED
  BY <1>1, <1>2, <1>3, <1>4 DEF IInv

LEMMA AddClassStep ==
  ASSUME IInv, NEW c \in Classes, AddClass(c) \/ ClassTime(c)
  PROVE  IInv'
<1>1. UNCHANGED <<attendance, assignment, submission, grade, request, history>>
  BY DEF AddClass, ClassTime
<1>2. /\ class' \in [Classes -> {"NONE", "planned", "past"}]
      /\ \A d \in Classes : class'[d] = "NONE" => class[d] = "NONE"
  BY DEF AddClass, ClassTime, IInv, TypeOK
<1>3. attendance' \in [Classes -> [Students -> AttendanceStatus \cup {None}]]
  BY <1>1 DEF IInv, TypeOK
<1> QED
  BY <1>1, <1>2, <1>3, ClassesChange

LEMMA MarkStep ==
  ASSUME IInv, NEW c \in Classes, NEW u \in Students, NEW m \in Marks,
         MarkManualAttendance(c, u, m)
  PROVE  IInv'
<1>1. /\ class[c] # "NONE" /\ attendance' = [attendance EXCEPT ![c][u] = m] /\ class' = class
      /\ UNCHANGED <<assignment, submission, grade, request, history>>
  BY DEF MarkManualAttendance
<1>2. m \in AttendanceStatus
  BY CourseworkAssumption
<1>3. attendance \in [Classes -> [Students -> AttendanceStatus \cup {None}]]
  BY DEF IInv, TypeOK
<1>4. attendance' \in [Classes -> [Students -> AttendanceStatus \cup {None}]]
  BY <1>1, <1>2, <1>3
<1>5. \A d \in Classes : d # c => attendance'[d] = attendance[d]
  BY <1>1, <1>3
<1>6. class' \in [Classes -> {"NONE", "planned", "past"}]
  BY <1>1 DEF IInv, TypeOK
<1> QED
  BY <1>1, <1>4, <1>5, <1>6, ClassesChange

\* What is deleted takes with it what belongs to it and what is noted of it.
LEMMA Dropped ==
  ASSUME IInv, NEW A \in SUBSET Assignments, DropAssignments(A), request' = request
  PROVE  /\ assignment' \in [Assignments -> Assignment]
         /\ submission' \in [Submissions -> AssignmentSubmission]
         /\ grade' \in [Submissions -> AssignmentGrade]
         /\ Existing' = Existing \ A
         /\ \A a \in Existing' : assignment'[a] = assignment[a]
         /\ \A s \in Submissions :
              /\ submission'[s] # NoSubmission => submission'[s].assignment \in Existing'
              /\ grade'[s] # NoGrade => submission'[s].status = "GRADED"
         /\ AssignmentsAreOfClasses' /\ GradedHasGrade' /\ OneSubmission'
         /\ (\A a \in Existing \ lowered : GradesWithin(a))'
         /\ \A q \in Requests : RequestIsSound(q)' /\ RequestKnows(q)'
<1> DEFINE S == UNION {Of(a) : a \in A}
<1>1. /\ assignment' = [a \in Assignments |-> IF a \in A THEN NoAssignment ELSE assignment[a]]
      /\ submission' = [s \in Submissions |-> IF s \in S THEN NoSubmission ELSE submission[s]]
      /\ grade' = [s \in Submissions |-> IF s \in S THEN NoGrade ELSE grade[s]]
      /\ overlapped' = {p \in overlapped : p[1] \notin A}
      /\ clashed' = clashed \ S /\ cut' = cut \ S /\ lowered' = lowered \ A
  BY DEF DropAssignments
<1>2. \A s \in Submissions : s \in S <=> submission[s].assignment \in A
  BY DEF Of
<1> HIDE DEF S
<1>3. TypeOK
  BY DEF IInv
<1>4. /\ \A a \in A : assignment'[a] = NoAssignment
      /\ \A a \in Assignments \ A : assignment'[a] = assignment[a]
      /\ assignment' \in [Assignments -> Assignment]
  BY <1>1, <1>3, NoRows DEF TypeOK
<1>5. \A s \in Submissions :
        /\ s \in S => submission'[s] = NoSubmission /\ grade'[s] = NoGrade
        /\ s \notin S => submission'[s] = submission[s] /\ grade'[s] = grade[s]
  BY <1>1
<1>6. /\ submission' \in [Submissions -> AssignmentSubmission]
      /\ grade' \in [Submissions -> AssignmentGrade]
  BY <1>1, <1>3, NoRows DEF TypeOK
<1>7. Existing' = Existing \ A /\ \A a \in Existing' : assignment'[a] = assignment[a]
  BY <1>4 DEF Existing
<1>8. \A s \in Submissions : submission'[s] # NoSubmission =>
        /\ s \notin S /\ submission'[s] = submission[s] /\ grade'[s] = grade[s]
        /\ submission[s].assignment \in Existing'
        /\ submission[s].assignment \in Assignments \ A
  BY <1>2, <1>5, <1>7, RowsBelong
<1>9. \A s \in Submissions :
        /\ submission'[s] # NoSubmission => submission'[s].assignment \in Existing'
        /\ grade'[s] # NoGrade => submission'[s].status = "GRADED"
  BY <1>3, <1>5, <1>8 DEF TypeOK
<1>10. AssignmentsAreOfClasses'
  <2>1. IsFiniteSet(Existing')
    BY <1>7, FS_Subset DEF IInv, AssignmentsAreOfClasses
  <2> QED
    BY <1>7, <2>1 DEF IInv, AssignmentsAreOfClasses
<1>11. \A a \in Assignments \ A : /\ Of(a)' = Of(a)
                                  /\ \A u \in Students : By(a, u)' = By(a, u)
  <2>1. ASSUME NEW a \in Assignments \ A, NEW s \in Submissions
        PROVE  /\ submission'[s].assignment = a <=> submission[s].assignment = a
               /\ submission[s].assignment = a => submission'[s] = submission[s]
    BY <1>2, <1>5, <2>1, NoRows, CourseworkAssumption
  <2> QED
    BY <2>1 DEF Of, By
<1>12. \A a \in A : Of(a)' = {}
  BY <1>2, <1>5, NoRows, CourseworkAssumption DEF Of
<1>13. GradedHasGrade'
  <2>1. ASSUME NEW s \in Submissions, submission'[s].status = "GRADED", grade'[s] = NoGrade,
               s \notin cut'
        PROVE  \/ \E q \in Requests : request'[q].pc = "grade" /\ request'[q].of = s
               \/ s \in clashed' /\ {t \in Submissions :
                    submission'[t].assignment = submission'[s].assignment} # {s}
    <3>1. /\ submission'[s] # NoSubmission /\ s \notin S /\ submission'[s] = submission[s]
          /\ grade'[s] = grade[s] /\ submission[s].assignment \in Assignments \ A
      BY <1>8, <2>1, NoRows
    <3>2. \/ \E q \in Requests : request[q].pc = "grade" /\ request[q].of = s
          \/ s \in clashed /\ Of(submission[s].assignment) # {s}
      BY <1>1, <2>1, <3>1 DEF IInv, GradedHasGrade
    <3>3. PICK a \in Assignments \ A : a = submission[s].assignment
      BY <3>1
    <3>4. {t \in Submissions : submission'[t].assignment = a}
            = {t \in Submissions : submission[t].assignment = a}
      BY <1>11 DEF Of
    <3> QED
      BY <1>1, <3>1, <3>2, <3>3, <3>4 DEF Of
  <2> QED
    BY <2>1 DEF GradedHasGrade, Of
<1>14. OneSubmission'
  <2>1. ASSUME NEW a \in Assignments, NEW u \in Students, <<a, u>> \notin overlapped'
        PROVE  \A s, t \in By(a, u)' : s = t
    <3>1. CASE a \in A
      BY <1>12, <3>1 DEF By
    <3>2. CASE a \notin A
      <4>1. <<a, u>> \notin overlapped
        BY <1>1, <2>1, <3>2
      <4>2. \A s, t \in By(a, u) : s = t
        BY <4>1 DEF IInv, OneSubmission
      <4> QED
        BY <1>11, <3>2, <4>2
    <3> QED
      BY <3>1, <3>2
  <2> QED
    BY <2>1 DEF OneSubmission
<1>15. ASSUME NEW a \in Existing', a \notin lowered'
       PROVE  GradesWithin(a)'
  <2>1. a \in Existing /\ a \in Assignments \ A /\ a \notin lowered
    BY <1>1, <1>7, <1>15 DEF Existing
  <2>2. GradesWithin(a)
    BY <2>1 DEF IInv
  <2>3. \A s \in Of(a)' : s \in Of(a) /\ grade'[s] = grade[s]
    BY <1>2, <1>5, <1>11, <2>1 DEF Of
  <2>4. \A s \in Of(a)' : grade'[s].number <= assignment'[a].total
    BY <1>4, <2>1, <2>2, <2>3, GradesWithinByRow
  <2> QED
    BY <2>4 DEF GradesWithin, Listed
<1>16. ASSUME NEW q \in Requests
       PROVE  RequestIsSound(q)' /\ RequestKnows(q)'
  <2>1. RequestIsSound(q) /\ RequestKnows(q) /\ request[q].number \in Nat
    BY <1>3, Numbers DEF IInv
  <2>2. \A s \in Submissions : s = request[q].of /\ submission'[s] # NoSubmission =>
           /\ submission[s] # NoSubmission
           /\ submission'[s].assignment = submission[s].assignment
           /\ submission[s].status = "GRADED" => submission'[s].status = "GRADED"
           /\ submission[s].assignment \notin lowered' =>
                /\ submission[s].assignment \notin lowered
                /\ \A n \in Nat : n <= assignment[submission[s].assignment].total =>
                     n <= assignment'[submission[s].assignment].total
    BY <1>1, <1>4, <1>8
  <2>3. request[q].pc = "submit" /\ <<request[q].row, request[q].by>> \notin overlapped' =>
           \A s \in Submissions :
             /\ submission'[s].assignment = request[q].row
             /\ submission'[s].student = request[q].by
             => /\ <<request[q].row, request[q].by>> \notin overlapped
                /\ submission[s].assignment = request[q].row
                /\ submission[s].student = request[q].by
    <3>1. SUFFICES ASSUME request[q].pc = "submit",
                          <<request[q].row, request[q].by>> \notin overlapped',
                          NEW s \in Submissions,
                          submission'[s].assignment = request[q].row
                   PROVE  /\ <<request[q].row, request[q].by>> \notin overlapped
                          /\ submission'[s] = submission[s]
      BY <1>5
    <3>2. request[q].row \in Assignments
      BY <2>1, <3>1 DEF RequestIsSound
    <3>3. submission'[s] # NoSubmission
      BY <3>1, <3>2, NoRows, CourseworkAssumption
    <3>4. request[q].row \notin A /\ submission'[s] = submission[s]
      BY <1>8, <3>1, <3>3
    <3> QED
      BY <1>1, <3>1, <3>4
  <2> QED
    BY <2>1, <2>2, <2>3, KnowsStays
<1> QED
  BY <1>4, <1>6, <1>7, <1>9, <1>10, <1>13, <1>14, <1>15, <1>16

LEMMA DeleteClassStep ==
  ASSUME IInv, NEW c \in Classes, DeleteClass(c)
  PROVE  IInv'
<1> DEFINE A == {a \in Assignments : assignment[a].class = c}
<1>1. /\ class' = [class EXCEPT ![c] = "NONE"]
      /\ attendance' = [attendance EXCEPT ![c] = NoMarks]
      /\ DropAssignments(A) /\ request' = request /\ A \in SUBSET Assignments
  BY DEF DeleteClass
<1>2. \A a \in Assignments : a \in A <=> assignment[a].class = c
  OBVIOUS
<1> HIDE DEF A
<1>3. /\ assignment' \in [Assignments -> Assignment]
      /\ submission' \in [Submissions -> AssignmentSubmission]
      /\ grade' \in [Submissions -> AssignmentGrade]
      /\ Existing' = Existing \ A
      /\ \A a \in Existing' : assignment'[a] = assignment[a]
      /\ \A s \in Submissions :
           /\ submission'[s] # NoSubmission => submission'[s].assignment \in Existing'
           /\ grade'[s] # NoGrade => submission'[s].status = "GRADED"
      /\ AssignmentsAreOfClasses' /\ GradedHasGrade' /\ OneSubmission'
      /\ (\A a \in Existing \ lowered : GradesWithin(a))'
      /\ \A q \in Requests : RequestIsSound(q)' /\ RequestKnows(q)'
  BY <1>1, Dropped
<1>4. NoMarks \in [Students -> AttendanceStatus \cup {None}]
  BY DEF NoMarks
<1>5. /\ class' \in [Classes -> {"NONE", "planned", "past"}]
      /\ attendance' \in [Classes -> [Students -> AttendanceStatus \cup {None}]]
      /\ attendance'[c] = NoMarks
      /\ \A d \in Classes \ {c} : class'[d] = class[d] /\ attendance'[d] = attendance[d]
  BY <1>1, <1>4 DEF IInv, TypeOK
<1>6. ASSUME NEW d \in Classes, class'[d] = "NONE"
      PROVE  /\ attendance'[d] = NoMarks
             /\ \A a \in Existing' : assignment'[a].class # d
  <2>1. CASE d = c
    BY <1>2, <1>3, <1>5, <2>1 DEF Existing
  <2>2. CASE d # c
    BY <1>3, <1>5, <1>6, <2>2 DEF IInv, TypeOK
  <2> QED
    BY <2>1, <2>2
<1>7. TypeOK'
  <2>1. request' \in [Requests -> Request]
    BY <1>1 DEF IInv, TypeOK
  <2> QED
    BY <1>3, <1>5, <1>6, <2>1 DEF TypeOK
<1> QED
  BY <1>3, <1>7 DEF IInv

LEMMA DeleteAssignmentStep ==
  ASSUME IInv, NEW b \in Assignments, DeleteAssignment(b)
  PROVE  IInv'
<1>1. /\ DropAssignments({b}) /\ UNCHANGED <<class, attendance, request>>
      /\ {b} \in SUBSET Assignments
  BY DEF DeleteAssignment
<1>2. /\ assignment' \in [Assignments -> Assignment]
      /\ submission' \in [Submissions -> AssignmentSubmission]
      /\ grade' \in [Submissions -> AssignmentGrade]
      /\ Existing' = Existing \ {b}
      /\ \A a \in Existing' : assignment'[a] = assignment[a]
      /\ \A s \in Submissions :
           /\ submission'[s] # NoSubmission => submission'[s].assignment \in Existing'
           /\ grade'[s] # NoGrade => submission'[s].status = "GRADED"
      /\ AssignmentsAreOfClasses' /\ GradedHasGrade' /\ OneSubmission'
      /\ (\A a \in Existing \ lowered : GradesWithin(a))'
      /\ \A q \in Requests : RequestIsSound(q)' /\ RequestKnows(q)'
  BY <1>1, Dropped
<1>3. \A d \in Classes : class'[d] = "NONE" =>
        /\ attendance'[d] = NoMarks
        /\ \A a \in Existing' : assignment'[a].class # d
  BY <1>1, <1>2 DEF IInv, TypeOK
<1>4. TypeOK'
  <2>1. /\ class' \in [Classes -> {"NONE", "planned", "past"}]
        /\ attendance' \in [Classes -> [Students -> AttendanceStatus \cup {None}]]
        /\ request' \in [Requests -> Request]
    BY <1>1 DEF IInv, TypeOK
  <2> QED
    BY <1>2, <1>3, <2>1 DEF TypeOK
<1> QED
  BY <1>2, <1>4 DEF IInv

-----------------------------------------------------------------------------
(* Assignments *)

\* Nothing belongs to an assignment that does not exist yet.
LEMMA CreateAssignmentStep ==
  ASSUME IInv, NEW b \in Assignments, NEW c \in Classes, NEW n \in Points,
         CreateAssignment(b, c, n)
  PROVE  IInv'
<1> DEFINE row == [class |-> c, total |-> n]
<1>1. /\ class[c] # "NONE" /\ assignment[b] = NoAssignment
      /\ assignment' = [assignment EXCEPT ![b] = row]
      /\ UNCHANGED <<class, attendance, submission, grade, request, history>>
  BY DEF CreateAssignment
<1>2. TypeOK
  BY DEF IInv
<1>3. row \in Assignment /\ row.class = c /\ row # NoAssignment
  BY NoRows, CourseworkAssumption DEF Assignment
<1> HIDE DEF row
<1>4. /\ assignment' \in [Assignments -> Assignment] /\ assignment'[b] = row
      /\ \A a \in Assignments \ {b} : assignment'[a] = assignment[a]
  BY <1>1, <1>2, <1>3 DEF TypeOK
<1>5. b \notin Existing /\ Existing' = Existing \cup {b}
  BY <1>1, <1>3, <1>4 DEF Existing
<1>6. AssignmentsAreOfClasses'
  <2>1. IsFiniteSet(Existing')
    BY <1>5, FS_AddElement DEF IInv, AssignmentsAreOfClasses
  <2>2. \A a \in Existing' : assignment'[a].class \in Classes
    BY <1>3, <1>4, <1>5 DEF IInv, AssignmentsAreOfClasses, Existing
  <2> QED
    BY <2>1, <2>2 DEF AssignmentsAreOfClasses
<1>7. \A s \in Submissions : submission[s] # NoSubmission =>
        /\ submission[s].assignment \in Existing /\ submission[s].assignment \in Assignments
        /\ assignment'[submission[s].assignment] = assignment[submission[s].assignment]
  BY <1>4, <1>5, RowsBelong
<1>8. TypeOK'
  <2>1. \A d \in Classes : class[d] = "NONE" =>
          \A a \in Existing' : assignment'[a].class # d
    BY <1>1, <1>2, <1>3, <1>4, <1>5 DEF TypeOK, Existing
  <2>2. \A s \in Submissions : submission[s] # NoSubmission => submission[s].assignment \in Existing'
    BY <1>5, <1>7
  <2> QED
    BY <1>1, <1>2, <1>4, <2>1, <2>2 DEF TypeOK
<1>9. GradedHasGrade' /\ OneSubmission'
  BY <1>1 DEF IInv, GradedHasGrade, OneSubmission, By, Of, history
<1>10. ASSUME NEW a \in Existing', a \notin lowered'
       PROVE  GradesWithin(a)'
  <2>1. a \in Assignments
    BY <1>10 DEF Existing
  <2>2. CASE a = b
    <3>1. Of(a) = {}
      BY <1>5, <2>1, <2>2, RowsBelong
    <3> QED
      BY <1>1, <3>1 DEF GradesWithin, Listed, Of
  <2>3. CASE a # b
    <3>1. GradesWithin(a) /\ assignment'[a] = assignment[a]
      BY <1>1, <1>4, <1>5, <1>10, <2>1, <2>3 DEF IInv, history
    <3> QED
      BY <1>1, <3>1 DEF GradesWithin, Listed, Of
  <2> QED
    BY <2>2, <2>3
<1>11. ASSUME NEW q \in Requests
       PROVE  RequestIsSound(q)' /\ RequestKnows(q)'
  <2>1. RequestIsSound(q) /\ RequestKnows(q) /\ request[q].number \in Nat
    BY Numbers DEF IInv
  <2> QED
    BY <1>1, <1>7, <2>1, KnowsStays DEF history
<1> QED
  BY <1>6, <1>8, <1>9, <1>10, <1>11 DEF IInv

\* A request reads and remembers.
LEMMA Holding ==
  ASSUME IInv, NEW r \in Requests, NEW req \in Request, Hold(r, req),
         UNCHANGED <<rows, history>>, RequestIsSound(r)', RequestKnows(r)'
  PROVE  IInv'
<1> USE DEF rows, history
<1>1. request[r].pc = "idle" /\ request' = [request EXCEPT ![r] = req]
  BY IdleIsARequest DEF Hold
<1>2. /\ request' \in [Requests -> Request] /\ request'[r] = req
      /\ \A q \in Requests \ {r} : request'[q] = request[q]
      /\ \A q \in Requests \ {r} : RequestIsSound(q)' /\ RequestKnows(q)'
  BY <1>1, OthersKnow
<1>3. TypeOK'
  BY <1>2 DEF IInv, TypeOK, Existing
<1>4. /\ AssignmentsAreOfClasses' /\ OneSubmission'
      /\ (\A a \in Existing \ lowered : GradesWithin(a))'
  BY RowsStay
<1>5. GradedHasGrade'
  BY <1>1, <1>2, GradesStay
<1>6. \A q \in Requests : RequestIsSound(q)' /\ RequestKnows(q)'
  BY <1>2
<1> QED
  BY <1>3, <1>4, <1>5, <1>6 DEF IInv

LEMMA ReadAssignmentStep ==
  ASSUME IInv, NEW r \in Requests, NEW a \in Assignments, NEW n \in Points \cup {0},
         ReadAssignment(r, a, n)
  PROVE  IInv'
<1> DEFINE m == IF n = 0 THEN assignment[a].total ELSE n
           req == [Idle EXCEPT !.pc = "edit", !.row = a, !.number = m]
<1>1. m \in Points \cup {0}
  BY DEF IInv, TypeOK, Assignment
<1>2. req \in Request /\ req.pc = "edit" /\ req.row = a
  BY <1>1 DEF Idle, Request
<1>3. Hold(r, req) /\ UNCHANGED <<rows, history>>
  BY DEF ReadAssignment
<1> HIDE DEF req
<1>4. request'[r] = req
  BY <1>3 DEF Hold, IInv, TypeOK
<1>5. RequestIsSound(r)' /\ RequestKnows(r)'
  BY <1>2, <1>4 DEF RequestIsSound, RequestKnows
<1> QED
  BY <1>2, <1>3, <1>5, Holding

LEMMA FindNoneStep ==
  ASSUME IInv, NEW r \in Requests, NEW a \in Assignments, NEW u \in Students,
         FindNone(r, a, u)
  PROVE  IInv'
<1> DEFINE req == [Idle EXCEPT !.pc = "submit", !.row = a, !.by = u]
<1>1. req \in Request /\ req.pc = "submit" /\ req.row = a /\ req.by = u
  BY DEF Idle, Request
<1>2. Hold(r, req) /\ UNCHANGED <<rows, history>> /\ By(a, u) = {}
  BY DEF FindNone
<1> HIDE DEF req
<1>3. request'[r] = req
  BY <1>2 DEF Hold, IInv, TypeOK
<1>4. By(a, u)' = {}
  BY <1>2 DEF By, Of, rows
<1>5. RequestIsSound(r)' /\ RequestKnows(r)'
  BY <1>1, <1>3, <1>4 DEF RequestIsSound, RequestKnows, By, Of
<1> QED
  BY <1>1, <1>2, <1>5, Holding

LEMMA ReadSubmissionStep ==
  ASSUME IInv, NEW r \in Requests, NEW s \in Submissions, NEW t \in Teachers, NEW n \in Points,
         ReadSubmission(r, s, t, n)
  PROVE  IInv'
<1> DEFINE req == [Idle EXCEPT !.pc = "status", !.of = s, !.by = t, !.number = n]
<1>1. req \in Request /\ req.pc = "status" /\ req.of = s /\ req.by = t /\ req.number = n
  BY DEF Idle, Request
<1>2. /\ Hold(r, req) /\ UNCHANGED <<rows, history>>
      /\ n <= assignment[submission[s].assignment].total
  BY DEF ReadSubmission
<1> HIDE DEF req
<1>3. request'[r] = req
  BY <1>2 DEF Hold, IInv, TypeOK
<1>4. RequestIsSound(r)' /\ RequestKnows(r)'
  BY <1>1, <1>2, <1>3 DEF RequestIsSound, RequestKnows, rows
<1> QED
  BY <1>1, <1>2, <1>4, Holding

\* What stops between the status and the grade is noted.
LEMMA AbortStep ==
  ASSUME IInv, NEW r \in Requests, Abort(r)
  PROVE  IInv'
<1>1. /\ request' = [request EXCEPT ![r] = Idle]
      /\ cut' = IF request[r].pc = "grade" THEN cut \cup {request[r].of} ELSE cut
      /\ UNCHANGED <<class, attendance, assignment, submission, grade>>
      /\ UNCHANGED <<overlapped, clashed, lowered>>
  BY DEF Abort, Done, rows
<1>2. /\ request' \in [Requests -> Request] /\ request'[r] = Idle
      /\ \A q \in Requests \ {r} : request'[q] = request[q]
      /\ \A q \in Requests \ {r} : RequestIsSound(q)' /\ RequestKnows(q)'
  BY <1>1, IdleIsARequest, OthersKnow
<1>3. TypeOK'
  BY <1>1, <1>2 DEF IInv, TypeOK, Existing
<1>4. /\ AssignmentsAreOfClasses' /\ OneSubmission'
      /\ (\A a \in Existing \ lowered : GradesWithin(a))'
  BY <1>1 DEF IInv, AssignmentsAreOfClasses, OneSubmission, GradesWithin, Listed, By, Of, Existing
<1>5. GradedHasGrade'
  BY <1>1, <1>2, GradesStay
<1>6. RequestIsSound(r)' /\ RequestKnows(r)'
  BY <1>2, IdleIsARequest DEF RequestIsSound, RequestKnows
<1> QED
  BY <1>2, <1>3, <1>4, <1>5, <1>6 DEF IInv

\* A total that is lowered is noted.
LEMMA UpdateAssignmentStep ==
  ASSUME IInv, NEW r \in Requests, UpdateAssignment(r)
  PROVE  IInv'
<1> DEFINE b == request[r].row
           n == request[r].number
           row == [assignment[b] EXCEPT !.total = n]
<1>1. /\ request[r].pc = "edit" /\ assignment[b] # NoAssignment
      /\ assignment' = [assignment EXCEPT ![b] = row]
      /\ lowered' = IF n < assignment[b].total THEN lowered \cup {b} ELSE lowered
      /\ request' = [request EXCEPT ![r] = Idle]
      /\ UNCHANGED <<class, attendance, submission, grade, overlapped, clashed, cut>>
  BY DEF UpdateAssignment, Done
<1>2. TypeOK /\ RequestIsSound(r)
  BY DEF IInv
<1>3. b \in Assignments /\ n \in Points \cup {0} /\ n \in Nat /\ b \in Existing
      /\ assignment[b].class \in Classes /\ assignment[b].total \in Nat
  <2>1. b \in Assignments /\ n \in Points \cup {0}
    BY <1>1, <1>2, RequestFields DEF RequestIsSound
  <2> QED
    BY <1>1, <1>2, <2>1, Numbers DEF IInv, AssignmentsAreOfClasses, Existing
<1>4. /\ row \in Assignment /\ row.class = assignment[b].class /\ row.total = n
      /\ row # NoAssignment
  <2>1. assignment[b] \in Assignment
    BY <1>2, <1>3 DEF TypeOK
  <2>2. row \in Assignment /\ row.class = assignment[b].class /\ row.total = n
    BY <1>3, <2>1 DEF Assignment
  <2> QED
    BY <1>3, <2>2, NoRows, CourseworkAssumption
<1> HIDE DEF row
<1>5. /\ assignment' \in [Assignments -> Assignment] /\ assignment'[b] = row
      /\ \A a \in Assignments \ {b} : assignment'[a] = assignment[a]
  BY <1>1, <1>2, <1>3, <1>4 DEF TypeOK
<1>6. Existing' = Existing /\ \A a \in Existing : assignment'[a].class = assignment[a].class
  BY <1>3, <1>4, <1>5 DEF Existing
<1>7. \A a \in Assignments : a \notin lowered' =>
        /\ a \notin lowered
        /\ assignment[a].total <= assignment'[a].total
  <2>1. SUFFICES ASSUME NEW a \in Assignments, a \notin lowered'
                 PROVE  a \notin lowered /\ assignment[a].total <= assignment'[a].total
    OBVIOUS
  <2>2. CASE a = b
    BY <1>1, <1>3, <1>4, <1>5, <2>1, <2>2
  <2>3. CASE a # b
    BY <1>1, <1>2, <1>5, <2>1, <2>3, Numbers
  <2> QED
    BY <2>2, <2>3
<1>8. \A a \in Assignments : assignment[a].total \in Nat /\ assignment'[a].total \in Nat
  <2>1. \A a \in Assignments : assignment[a].total \in Nat
    BY <1>2, Numbers
  <2> QED
    BY <1>3, <1>4, <1>5, <2>1
<1>9. /\ request' \in [Requests -> Request] /\ request'[r] = Idle
      /\ \A q \in Requests \ {r} : request'[q] = request[q]
  BY <1>1, <1>2, IdleIsARequest DEF TypeOK
<1>10. TypeOK'
  BY <1>1, <1>2, <1>5, <1>6, <1>9 DEF TypeOK
<1>11. AssignmentsAreOfClasses'
  BY <1>6 DEF IInv, AssignmentsAreOfClasses
<1>12. OneSubmission'
  BY <1>1, SubmissionsStayOne
<1>13. GradedHasGrade'
  BY <1>1, <1>9, GradesStay
<1>14. ASSUME NEW a \in Existing', a \notin lowered'
       PROVE  GradesWithin(a)'
  <2>1. a \in Assignments /\ a \in Existing /\ a \notin lowered
    BY <1>6, <1>7, <1>14 DEF Existing
  <2>2. \A s \in Of(a) : grade[s].number <= assignment[a].total /\ grade[s].number \in Nat
    BY <1>2, <2>1, GradesWithinByRow, Numbers DEF IInv, Of
  <2>3. \A s \in Of(a) : grade[s].number <= assignment'[a].total
    BY <1>7, <1>8, <1>14, <2>1, <2>2
  <2> QED
    BY <1>1, <2>3 DEF GradesWithin, Listed, Of
<1>15. ASSUME NEW q \in Requests
       PROVE  RequestIsSound(q)' /\ RequestKnows(q)'
  <2>1. CASE q = r
    BY <1>9, <2>1, IdleIsARequest DEF RequestIsSound, RequestKnows
  <2>2. CASE q # r
    <3>1. /\ RequestIsSound(q) /\ RequestKnows(q) /\ request[q].number \in Nat
          /\ request'[q] = request[q]
      BY <1>2, <1>9, <2>2, Numbers DEF IInv
    <3>2. \A s \in Submissions :
            submission'[s] # NoSubmission /\ submission[s].assignment \notin lowered' =>
              /\ submission[s].assignment \notin lowered
              /\ \A m \in Nat : m <= assignment[submission[s].assignment].total =>
                   m <= assignment'[submission[s].assignment].total
      BY <1>1, <1>7, <1>8, RowsBelong
    <3> QED
      BY <1>1, <3>1, <3>2, KnowsStays
  <2> QED
    BY <2>1, <2>2
<1> QED
  BY <1>10, <1>11, <1>12, <1>13, <1>14, <1>15 DEF IInv

-----------------------------------------------------------------------------
(* Submissions and grades *)

\* The submission is new, and of whoever else was about to submit for the
\* student it is noted.
LEMMA SubmitAssignmentStep ==
  ASSUME IInv, NEW r \in Requests, NEW s \in Submissions, SubmitAssignment(r, s)
  PROVE  IInv'
<1> DEFINE b == request[r].row
           u == request[r].by
           row == [assignment |-> b, student |-> u, status |-> "SUBMITTED"]
<1>1. /\ request[r].pc = "submit" /\ assignment[b] # NoAssignment
      /\ submission[s] = NoSubmission /\ \A q \in Requests : request[q].of # s
      /\ submission' = [submission EXCEPT ![s] = row]
      /\ overlapped' = IF \E q \in Other(r, "submit") : request[q].row = b /\ request[q].by = u
                       THEN overlapped \cup {<<b, u>>} ELSE overlapped
      /\ request' = [request EXCEPT ![r] = Idle]
      /\ UNCHANGED <<class, attendance, assignment, grade, clashed, cut, lowered>>
  BY DEF SubmitAssignment, Done
<1>2. TypeOK /\ RequestIsSound(r) /\ RequestKnows(r)
  BY DEF IInv
<1>3. b \in Assignments /\ u \in Students /\ b \in Existing
  BY <1>1, <1>2 DEF RequestIsSound, Existing
<1>4. /\ row \in AssignmentSubmission /\ row.assignment = b /\ row.student = u
      /\ row.status = "SUBMITTED"
  BY <1>3 DEF AssignmentSubmission
<1> HIDE DEF row
<1>5. /\ submission' \in [Submissions -> AssignmentSubmission] /\ submission'[s] = row
      /\ \A t \in Submissions \ {s} : submission'[t] = submission[t]
  BY <1>1, <1>2, <1>4 DEF TypeOK
<1>6. /\ request' \in [Requests -> Request] /\ request'[r] = Idle
      /\ \A q \in Requests \ {r} : request'[q] = request[q]
  BY <1>1, <1>2, IdleIsARequest DEF TypeOK
<1>7. Existing' = Existing /\ grade[s] = NoGrade /\ submission[s].assignment = None
  BY <1>1, RowsBelong, NoRows DEF Existing
<1>8. overlapped \subseteq overlapped' /\ overlapped' \subseteq overlapped \cup {<<b, u>>}
  BY <1>1
<1>9. TypeOK'
  <2>1. \A t \in Submissions : /\ submission'[t] # NoSubmission => submission'[t].assignment \in Existing
                               /\ grade[t] # NoGrade => submission'[t].status = "GRADED"
    BY <1>2, <1>3, <1>4, <1>5, <1>7 DEF TypeOK
  <2> QED
    BY <1>1, <1>2, <1>5, <1>6, <1>7, <2>1 DEF TypeOK
<1>10. AssignmentsAreOfClasses'
  BY <1>1, <1>7 DEF IInv, AssignmentsAreOfClasses
<1>11. \A a \in Assignments : /\ Of(a) \subseteq Of(a)'
                              /\ Of(a)' \subseteq Of(a) \cup {s}
  BY <1>5, <1>7, CourseworkAssumption DEF Of
<1>12. GradedHasGrade'
  <2>1. ASSUME NEW t \in Submissions, submission'[t].status = "GRADED", grade[t] = NoGrade,
               t \notin cut
        PROVE  \/ \E q \in Requests : request'[q].pc = "grade" /\ request'[q].of = t
               \/ t \in clashed /\ {x \in Submissions :
                    submission'[x].assignment = submission'[t].assignment} # {t}
    <3>1. t # s /\ submission'[t] = submission[t]
      BY <1>4, <1>5, <2>1
    <3>2. \/ \E q \in Requests : request[q].pc = "grade" /\ request[q].of = t
          \/ t \in clashed /\ Of(submission[t].assignment) # {t}
      BY <2>1, <3>1 DEF IInv, GradedHasGrade
    <3>3. \A x \in Submissions : submission[x].assignment = submission[t].assignment =>
            submission'[x].assignment = submission[t].assignment
      <4>1. submission[t].assignment \in Assignments
        BY <2>1, <3>1, RowsBelong, NoRows
      <4> QED
        BY <1>5, <1>7, <4>1, CourseworkAssumption
    <3>4. CASE \E q \in Requests : request[q].pc = "grade" /\ request[q].of = t
      BY <1>1, <1>6, <3>4
    <3>5. CASE t \in clashed /\ Of(submission[t].assignment) # {t}
      <4>1. t \in Of(submission[t].assignment)
        BY DEF Of
      <4>2. PICK x \in Of(submission[t].assignment) : x # t
        BY <3>5, <4>1
      <4> QED
        BY <3>1, <3>3, <3>5, <4>2 DEF Of
    <3> QED
      BY <3>2, <3>4, <3>5
  <2> QED
    BY <1>1, <2>1 DEF GradedHasGrade, Of
<1>13. ASSUME NEW a \in Existing', a \notin lowered'
       PROVE  GradesWithin(a)'
  <2>1. a \in Existing /\ a \in Assignments /\ a \notin lowered
    BY <1>1, <1>7, <1>13 DEF Existing
  <2>2. \A t \in Of(a) : grade[t].number <= assignment[a].total
    BY <2>1, GradesWithinByRow DEF IInv
  <2>3. grade[s].number <= assignment[a].total
    BY <1>2, <1>7, <2>1, NoRows, Numbers
  <2>4. \A t \in Of(a)' : grade'[t].number <= assignment'[a].total
    BY <1>1, <1>11, <2>1, <2>2, <2>3
  <2> QED
    BY <2>4 DEF GradesWithin, Listed
<1>14. OneSubmission'
  <2>1. ASSUME NEW a \in Assignments, NEW v \in Students, <<a, v>> \notin overlapped'
        PROVE  \A t, x \in By(a, v)' : t = x
    <3>1. <<a, v>> \notin overlapped /\ \A t, x \in By(a, v) : t = x
      BY <1>8, <2>1 DEF IInv, OneSubmission
    <3>2. CASE a = b /\ v = u
      <4>1. By(a, v) = {}
        BY <1>1, <1>2, <3>1, <3>2 DEF RequestKnows
      <4>2. By(a, v)' \subseteq {s}
        BY <1>5, <4>1 DEF By, Of
      <4> QED
        BY <4>2
    <3>3. CASE ~(a = b /\ v = u)
      <4>1. By(a, v)' \subseteq By(a, v)
        BY <1>4, <1>5, <3>3 DEF By, Of
      <4> QED
        BY <3>1, <4>1
    <3> QED
      BY <3>2, <3>3
  <2> QED
    BY <2>1 DEF OneSubmission
<1>15. ASSUME NEW q \in Requests
       PROVE  RequestIsSound(q)' /\ RequestKnows(q)'
  <2>1. CASE q = r
    BY <1>6, <2>1, IdleIsARequest DEF RequestIsSound, RequestKnows
  <2>2. CASE q # r
    <3>1. /\ RequestIsSound(q) /\ RequestKnows(q) /\ request[q].number \in Nat
          /\ request'[q] = request[q] /\ request[q].of # s
      BY <1>1, <1>2, <1>6, <2>2, Numbers DEF IInv
    <3>2. \A t \in Submissions : t = request[q].of => submission'[t] = submission[t]
      BY <1>5, <3>1
    <3>3. request[q].pc = "submit" /\ <<request[q].row, request[q].by>> \notin overlapped' =>
           \A t \in Submissions :
             /\ submission'[t].assignment = request[q].row
             /\ submission'[t].student = request[q].by
             => /\ <<request[q].row, request[q].by>> \notin overlapped
                /\ submission[t].assignment = request[q].row
                /\ submission[t].student = request[q].by
      <4>1. ASSUME request[q].pc = "submit", <<request[q].row, request[q].by>> \notin overlapped',
                   submission'[s].assignment = request[q].row,
                   submission'[s].student = request[q].by
            PROVE  FALSE
        <5>1. q \in Other(r, "submit")
          BY <2>2, <4>1 DEF Other
        <5>2. request[q].row = b /\ request[q].by = u
          BY <1>4, <1>5, <4>1
        <5>3. overlapped' = overlapped \cup {<<b, u>>}
          BY <1>1, <5>1, <5>2
        <5> QED
          BY <4>1, <5>2, <5>3
      <4> QED
        BY <1>5, <1>8, <4>1
    <3> QED
      BY <1>1, <3>1, <3>2, <3>3, KnowsStays
  <2> QED
    BY <2>1, <2>2
<1> QED
  BY <1>9, <1>10, <1>12, <1>13, <1>14, <1>15 DEF IInv

\* The request that declares it graded has the grade still to save.
LEMMA SetGradedStep ==
  ASSUME IInv, NEW r \in Requests, SetGraded(r)
  PROVE  IInv'
<1> DEFINE s == request[r].of
           row == [submission[s] EXCEPT !.status = "GRADED"]
           next == [request[r] EXCEPT !.pc = "grade"]
<1>1. /\ request[r].pc = "status" /\ submission[s] # NoSubmission
      /\ submission' = [submission EXCEPT ![s] = row]
      /\ request' = [request EXCEPT ![r] = next]
      /\ UNCHANGED <<class, attendance, assignment, grade, overlapped, clashed, cut, lowered>>
  BY DEF SetGraded, history
<1>2. TypeOK /\ RequestIsSound(r) /\ RequestKnows(r)
  BY DEF IInv
<1>3. s \in Submissions /\ request[r].by \in Teachers
  BY <1>1, <1>2 DEF RequestIsSound
<1>4. /\ row \in AssignmentSubmission /\ row.assignment = submission[s].assignment
      /\ row.student = submission[s].student /\ row.status = "GRADED"
  <2>1. submission[s] \in AssignmentSubmission
    BY <1>2, <1>3 DEF TypeOK
  <2> QED
    BY <2>1 DEF AssignmentSubmission
<1>5. /\ next \in Request /\ next.pc = "grade" /\ next.of = s /\ next.by = request[r].by
      /\ next.number = request[r].number
  BY <1>2, RequestFields DEF Request
<1> HIDE DEF row, next
<1>6. /\ submission' \in [Submissions -> AssignmentSubmission] /\ submission'[s] = row
      /\ \A t \in Submissions \ {s} : submission'[t] = submission[t]
  BY <1>1, <1>2, <1>3, <1>4 DEF TypeOK
<1>7. /\ request' \in [Requests -> Request] /\ request'[r] = next
      /\ \A q \in Requests \ {r} : request'[q] = request[q]
  BY <1>1, <1>2, <1>5 DEF TypeOK
<1>8. \A t \in Submissions :
        /\ submission'[t].assignment = submission[t].assignment
        /\ submission'[t].student = submission[t].student
        /\ (submission[t].status = "GRADED" => submission'[t].status = "GRADED")
        /\ (submission'[t] # NoSubmission => submission[t] # NoSubmission)
  BY <1>1, <1>4, <1>6
<1>16. \A b : Of(b)' = Of(b) /\ \A v : By(b, v)' = By(b, v)
  <2>1. ASSUME NEW b
        PROVE  Of(b)' = Of(b)
    BY <1>8 DEF Of
  <2>2. ASSUME NEW b, NEW v
        PROVE  By(b, v)' = By(b, v)
    BY <1>8, <2>1 DEF Of, By
  <2> QED
    BY <2>1, <2>2
<1>9. Existing' = Existing
  BY <1>1 DEF Existing
<1>10. TypeOK'
  <2>1. \A t \in Submissions : /\ submission'[t] # NoSubmission => submission'[t].assignment \in Existing
                               /\ grade[t] # NoGrade => submission'[t].status = "GRADED"
    BY <1>2, <1>8 DEF TypeOK
  <2> QED
    BY <1>1, <1>2, <1>6, <1>7, <1>9, <2>1 DEF TypeOK
<1>11. AssignmentsAreOfClasses'
  BY <1>1, <1>9 DEF IInv, AssignmentsAreOfClasses
<1>12. GradedHasGrade'
  <2>1. ASSUME NEW t \in Submissions, submission'[t].status = "GRADED", grade[t] = NoGrade,
               t \notin cut
        PROVE  \/ \E q \in Requests : request'[q].pc = "grade" /\ request'[q].of = t
               \/ t \in clashed /\ {x \in Submissions :
                    submission'[x].assignment = submission'[t].assignment} # {t}
    <3>1. CASE t = s
      BY <1>5, <1>7, <3>1
    <3>2. CASE t # s
      <4>1. \/ \E q \in Requests : request[q].pc = "grade" /\ request[q].of = t
            \/ t \in clashed /\ Of(submission[t].assignment) # {t}
        BY <1>6, <2>1, <3>2 DEF IInv, GradedHasGrade
      <4>2. {x \in Submissions : submission'[x].assignment = submission'[t].assignment}
              = Of(submission[t].assignment)
        BY <1>8 DEF Of
      <4> QED
        BY <1>1, <1>7, <4>1, <4>2
    <3> QED
      BY <3>1, <3>2
  <2> QED
    BY <1>1, <2>1 DEF GradedHasGrade, Of
<1>13. (\A a \in Existing \ lowered : GradesWithin(a))'
  BY <1>1, <1>9, <1>16 DEF IInv, GradesWithin, Listed
<1>14. OneSubmission'
  BY <1>1, <1>16 DEF IInv, OneSubmission
<1>15. ASSUME NEW q \in Requests
       PROVE  RequestIsSound(q)' /\ RequestKnows(q)'
  <2>1. CASE q = r
    <3>1. RequestIsSound(r)'
      BY <1>3, <1>5, <1>7 DEF RequestIsSound
    <3>2. RequestKnows(r)'
      BY <1>1, <1>2, <1>3, <1>4, <1>5, <1>6, <1>7 DEF RequestKnows
    <3> QED
      BY <2>1, <3>1, <3>2
  <2>2. CASE q # r
    <3>1. /\ RequestIsSound(q) /\ RequestKnows(q) /\ request[q].number \in Nat
          /\ request'[q] = request[q]
      BY <1>2, <1>7, <2>2, Numbers DEF IInv
    <3> QED
      BY <1>1, <1>8, <3>1, KnowsStays
  <2> QED
    BY <2>1, <2>2
<1> QED
  BY <1>10, <1>11, <1>12, <1>13, <1>14, <1>15 DEF IInv

\* The grade is of the submission that was declared graded and still is; the
\* database refuses it only beside another submission of the assignment.
LEMMA SaveGradeStep ==
  ASSUME IInv, NEW r \in Requests, SaveGrade(r)
  PROVE  IInv'
<1> DEFINE s == request[r].of
           t == request[r].by
           a == submission[s].assignment
           row == [creator |-> t, number |-> request[r].number]
<1>1. /\ request[r].pc = "grade" /\ submission[s] # NoSubmission
      /\ \/ /\ GradedAnother(s, t) /\ clashed' = clashed \cup {s} /\ grade' = grade
         \/ clashed' = clashed /\ grade' = [grade EXCEPT ![s] = row]
      /\ request' = [request EXCEPT ![r] = Idle]
      /\ UNCHANGED <<class, attendance, assignment, submission, overlapped, cut, lowered>>
  BY DEF SaveGrade, Done
<1>2. TypeOK /\ RequestIsSound(r) /\ RequestKnows(r)
  BY DEF IInv
<1>3. s \in Submissions /\ t \in Teachers
  BY <1>1, <1>2 DEF RequestIsSound
<1>4. row \in AssignmentGrade /\ row.creator = t /\ row.number = request[r].number
      /\ row # NoGrade
  <2>1. request[r].number \in Points \cup {0}
    BY <1>2, RequestFields
  <2>2. row \in AssignmentGrade /\ row.creator = t /\ row.number = request[r].number
    BY <1>3, <2>1 DEF AssignmentGrade
  <2> QED
    BY <1>3, <2>2, NoRows, CourseworkAssumption
<1> HIDE DEF row
<1>5. /\ grade' \in [Submissions -> AssignmentGrade]
      /\ \A x \in Submissions : grade'[x] = grade[x] \/ (x = s /\ grade'[x] = row)
      /\ (GradedAnother(s, t) /\ clashed' = clashed \cup {s}) \/ grade'[s] = row
      /\ clashed \subseteq clashed'
  BY <1>1, <1>2, <1>3, <1>4 DEF TypeOK
<1>6. /\ request' \in [Requests -> Request] /\ request'[r] = Idle
      /\ \A q \in Requests \ {r} : request'[q] = request[q]
      /\ \A q \in Requests \ {r} : RequestIsSound(q)' /\ RequestKnows(q)'
  BY <1>1, IdleIsARequest, OthersKnow
<1>7. submission[s].status = "GRADED"
  BY <1>1, <1>2 DEF RequestKnows
<1>8. Existing' = Existing /\ \A b : Of(b)' = Of(b)
  BY <1>1 DEF Existing, Of
<1>9. TypeOK'
  <2>1. \A x \in Submissions : grade'[x] # NoGrade => submission[x].status = "GRADED"
    BY <1>2, <1>5, <1>7 DEF TypeOK
  <2> QED
    BY <1>1, <1>2, <1>5, <1>6, <1>8, <2>1 DEF TypeOK
<1>10. AssignmentsAreOfClasses' /\ OneSubmission'
  <2>1. AssignmentsAreOfClasses /\ OneSubmission
    BY DEF IInv
  <2>2. UNCHANGED <<assignment, submission, overlapped>>
    BY <1>1
  <2> QED
    BY <1>8, <2>1, <2>2 DEF AssignmentsAreOfClasses, OneSubmission, By, Of
<1>11. GradedHasGrade'
  <2>1. ASSUME NEW x \in Submissions, submission[x].status = "GRADED", grade'[x] = NoGrade,
               x \notin cut
        PROVE  \/ \E q \in Requests : request'[q].pc = "grade" /\ request'[q].of = x
               \/ x \in clashed' /\ Of(submission[x].assignment) # {x}
    <3>1. CASE x = s
      <4>1. GradedAnother(s, t) /\ clashed' = clashed \cup {s}
        BY <1>4, <1>5, <2>1, <3>1
      <4>2. PICK y \in Of(submission[s].assignment) : y # s
        BY <4>1 DEF GradedAnother
      <4> QED
        BY <3>1, <4>1, <4>2
    <3>2. CASE x # s
      <4>1. \/ \E q \in Requests : request[q].pc = "grade" /\ request[q].of = x
            \/ x \in clashed /\ Of(submission[x].assignment) # {x}
        BY <1>5, <2>1, <3>2 DEF IInv, GradedHasGrade
      <4> QED
        BY <1>5, <1>6, <3>2, <4>1
    <3> QED
      BY <3>1, <3>2
  <2> QED
    BY <1>1, <2>1 DEF GradedHasGrade, Of
<1>12. ASSUME NEW b \in Existing', b \notin lowered'
       PROVE  GradesWithin(b)'
  <2>1. b \in Existing /\ b \notin lowered
    BY <1>1, <1>8, <1>12
  <2>2. \A x \in Of(b) : grade[x].number <= assignment[b].total
    BY <2>1, GradesWithinByRow DEF IInv
  <2>3. s \in Of(b) => request[r].number <= assignment[b].total
    BY <1>1, <1>2, <2>1 DEF RequestKnows, Of
  <2>4. \A x \in Of(b)' : x \in Submissions /\ grade'[x].number <= assignment'[b].total
    BY <1>1, <1>4, <1>5, <1>8, <2>2, <2>3 DEF Of
  <2> QED
    BY <2>4 DEF GradesWithin, Listed
<1>13. RequestIsSound(r)' /\ RequestKnows(r)'
  BY <1>6, IdleIsARequest DEF RequestIsSound, RequestKnows
<1> QED
  BY <1>6, <1>9, <1>10, <1>11, <1>12, <1>13 DEF IInv

-----------------------------------------------------------------------------
(* The invariant *)

LEMMA InitIInv == Init => IInv
<1>1. SUFFICES ASSUME Init
               PROVE  IInv
  OBVIOUS
<1>2. Existing = {}
  BY <1>1 DEF Init, Existing
<1>3. \A a \in Assignments : Of(a) = {}
  BY <1>1, NoRows, CourseworkAssumption DEF Init, Of
<1>4. NoMarks \in [Students -> AttendanceStatus \cup {None}]
  BY DEF NoMarks
<1>5. TypeOK
  BY <1>1, <1>2, <1>4, NoRows, IdleIsARequest DEF Init, TypeOK
<1>6. AssignmentsAreOfClasses
  BY <1>2, FS_EmptySet DEF AssignmentsAreOfClasses
<1>7. GradedHasGrade
  BY <1>1, NoRows DEF Init, GradedHasGrade
<1>8. OneSubmission
  BY <1>3 DEF OneSubmission, By
<1>9. \A r \in Requests : RequestIsSound(r) /\ RequestKnows(r)
  BY <1>1, IdleIsARequest DEF Init, RequestIsSound, RequestKnows
<1> QED
  BY <1>2, <1>5, <1>6, <1>7, <1>8, <1>9 DEF IInv

LEMMA StutterStep ==
  ASSUME IInv, UNCHANGED vars
  PROVE  IInv'
<1>1. UNCHANGED <<assignment, submission, grade, request, history, class, attendance>>
  BY DEF vars, history
<1>2. \A c \in Classes : class'[c] = "NONE" => class[c] = "NONE" /\ attendance'[c] = attendance[c]
  BY <1>1
<1>3. /\ class' \in [Classes -> {"NONE", "planned", "past"}]
      /\ attendance' \in [Classes -> [Students -> AttendanceStatus \cup {None}]]
  BY <1>1 DEF IInv, TypeOK
<1> QED
  BY <1>1, <1>2, <1>3, ClassesChange

LEMMA NextIInv == IInv /\ [Next]_vars => IInv'
<1>1. SUFFICES ASSUME IInv, [Next]_vars
               PROVE  IInv'
  OBVIOUS
<1>2. CASE ClassStep
  BY <1>1, <1>2, AddClassStep, DeleteClassStep, MarkStep, CreateAssignmentStep DEF ClassStep
<1>3. CASE AssignmentStep
  BY <1>1, <1>3, DeleteAssignmentStep, ReadAssignmentStep, FindNoneStep DEF AssignmentStep
<1>4. CASE SubmissionStep
  BY <1>1, <1>4, SubmitAssignmentStep, ReadSubmissionStep DEF SubmissionStep
<1>5. CASE RequestStep
  BY <1>1, <1>5, UpdateAssignmentStep, SetGradedStep, SaveGradeStep, AbortStep DEF RequestStep
<1>6. CASE UNCHANGED vars
  BY <1>1, <1>6, StutterStep
<1> QED
  BY <1>1, <1>2, <1>3, <1>4, <1>5, <1>6 DEF Next

-----------------------------------------------------------------------------
(* What is shown *)

LEMMA TheOnlyOneIsShown ==
  ASSUME NEW a, NEW u, NEW s \in By(a, u), By(a, u) \subseteq Nat, \A t \in By(a, u) : t = s
  PROVE  Shown(a, u) = [status |-> submission[s].status, grade |-> grade[s]]
<1> DEFINE last == CHOOSE t \in By(a, u) : \A x \in By(a, u) : x <= t
<1>1. \A x \in By(a, u) : x <= s
  <2>1. s \in Nat
    OBVIOUS
  <2> QED
    BY <2>1
<1>2. last \in By(a, u)
  BY <1>1
<1>3. last = s
  BY <1>2
<1>4. By(a, u) # {}
  OBVIOUS
<1> QED
  BY <1>3, <1>4 DEF Shown

LEMMA SeenIsGraded == IInv => GradeIsSeen
<1>1. SUFFICES ASSUME IInv, NEW a \in Existing, NEW u \in Students, <<a, u>> \notin overlapped,
                      NEW s \in By(a, u)
               PROVE  /\ Shown(a, u).grade = grade[s]
                      /\ ShownForClass(assignment[a].class, u)[a].grade = grade[s]
                      /\ ShownForCourse(u)[a].status = submission[s].status
  BY DEF GradeIsSeen
<1>2. a \in Assignments
  BY DEF Existing
<1>3. \A t \in By(a, u) : t = s
  BY <1>1, <1>2 DEF IInv, OneSubmission
<1>4. By(a, u) \subseteq Nat
  BY CourseworkAssumption DEF By, Of, Submissions
<1>5. Shown(a, u) = [status |-> submission[s].status, grade |-> grade[s]]
  BY <1>3, <1>4, TheOnlyOneIsShown
<1>6. ShownForClass(assignment[a].class, u)[a] = Shown(a, u)
  BY DEF ShownForClass
<1>7. ShownForCourse(u)[a] = Shown(a, u)
  BY DEF ShownForCourse
<1> QED
  BY <1>5, <1>6, <1>7

\* The assignments of two different submissions of a student are different.
LEMMA NoMoreDoneThanThere ==
  ASSUME IInv, NEW u \in Students, \A a \in Existing : <<a, u>> \notin overlapped
  PROVE  ~(Progress(u).completed > Progress(u).total)
<1> DEFINE D == {s \in Submissions : /\ submission[s].student = u
                                     /\ submission[s].status \in {"SUBMITTED", "GRADED"}}
           f == [s \in D |-> submission[s].assignment]
<1>1. \A s \in D : submission[s].assignment \in Existing /\ s \in By(submission[s].assignment, u)
  <2>1. \A s \in D : submission[s] # NoSubmission
    BY NoRows
  <2> QED
    BY <2>1, RowsBelong DEF By, Of
<1>2. ASSUME NEW s \in D, NEW t \in D, f[s] = f[t]
      PROVE  s = t
  <2>1. f[s] = submission[s].assignment /\ f[t] = submission[t].assignment
    OBVIOUS
  <2>2. PICK a \in Existing : a = submission[s].assignment
    BY <1>1
  <2>3. s \in By(a, u) /\ t \in By(a, u)
    BY <1>1, <1>2, <2>1, <2>2
  <2>4. a \in Assignments /\ <<a, u>> \notin overlapped
    BY DEF Existing
  <2> QED
    BY <2>3, <2>4 DEF IInv, OneSubmission
<1>3. f \in [D -> Existing]
  BY <1>1
<1>4. f \in Injection(D, Existing)
  BY <1>2, <1>3 DEF Injection, IsInjective
<1>5. IsFiniteSet(Existing)
  BY DEF IInv, AssignmentsAreOfClasses
<1> HIDE DEF f
<1>6. Cardinality(D) <= Cardinality(Existing) /\ IsFiniteSet(D)
  BY <1>4, <1>5, FS_Injection
<1>7. Cardinality(D) \in Nat /\ Cardinality(Existing) \in Nat
  BY <1>5, <1>6, FS_CardinalityType
<1>8. Progress(u).completed = Cardinality(D) /\ Progress(u).total = Cardinality(Existing)
  BY DEF Progress
<1> QED
  BY <1>6, <1>7, <1>8

LEMMA ProgressIsRight == IInv => ProgressAddsUp
<1>1. SUFFICES ASSUME IInv, NEW u \in Students
               PROVE  /\ Progress(u).completed > Progress(u).total =>
                           \E a \in Existing : <<a, u>> \in overlapped
                      /\ {c \in Progress(u).attended : class[c] = "past"}
                           = {row.class : row \in
                               {row \in Report(u) : row.status \in {"PRESENT", "LATE"}}}
                      /\ \A c \in DOMAIN RecentAttendance :
                           u \in RecentAttendance[c] <=> c \in Progress(u).attended
  BY DEF ProgressAddsUp
<1>2. Progress(u).completed > Progress(u).total => \E a \in Existing : <<a, u>> \in overlapped
  BY <1>1, NoMoreDoneThanThere
<1> DEFINE there == {c \in Classes : class[c] # "NONE" /\ attendance[c][u] \in {"PRESENT", "LATE"}}
           marked == {row \in Report(u) : row.status \in {"PRESENT", "LATE"}}
<1>3. Progress(u).attended = there
  BY DEF Progress
<1>4. ASSUME NEW c \in there, class[c] = "past"
      PROVE  \E row \in marked : row.class = c
  <2>1. attendance[c][u] # None
    BY CourseworkAssumption DEF AttendanceStatus
  <2>2. [class |-> c, status |-> attendance[c][u]] \in Report(u)
    BY <1>4, <2>1 DEF Report
  <2> QED
    BY <1>4, <2>2
<1>5. ASSUME NEW row \in marked
      PROVE  row.class \in there /\ class[row.class] = "past"
  <2>1. row \in Report(u) /\ row.status \in {"PRESENT", "LATE"}
    OBVIOUS
  <2>2. PICK c \in Classes :
          /\ class[c] = "past"
          /\ row = [class |-> c, status |-> IF attendance[c][u] = None THEN "ABSENT"
                                            ELSE attendance[c][u]]
    BY <2>1 DEF Report
  <2> QED
    BY <2>1, <2>2
<1>6. \A c \in DOMAIN RecentAttendance : u \in RecentAttendance[c] <=> c \in there
  BY DEF RecentAttendance
<1> HIDE DEF there, marked
<1>7. {c \in there : class[c] = "past"} = {row.class : row \in marked}
  BY <1>4, <1>5
<1> QED
  BY <1>2, <1>3, <1>6, <1>7 DEF marked

-----------------------------------------------------------------------------
(* The theorems *)

\* The inductive invariant holds: what a request that nobody overtook has read
\* of submissions and totals is still so when it writes.
THEOREM Invariance == Spec => []IInv
<1>1. Init => IInv
  BY InitIInv
<1>2. IInv /\ [Next]_vars => IInv'
  BY NextIInv
<1> QED
  BY <1>1, <1>2, PTL DEF Spec

\* Every row has the shape the schema gives it, and none outlives the row it
\* belongs to, whatever requests still remember of a deleted class.
THEOREM TypeCorrectness == Spec => []TypeOK
<1>1. IInv => TypeOK
  BY DEF IInv
<1> QED
  BY <1>1, Invariance, PTL

\* A submission declared GRADED has its grade, unless it is being saved, saving
\* it stopped half way, or the database refused it beside another submission.
THEOREM GradedHaveGrades == Spec => []GradedHasGrade
<1>1. IInv => GradedHasGrade
  BY DEF IInv
<1> QED
  BY <1>1, Invariance, PTL

\* No grade is above the total of its assignment unless the total was lowered.
THEOREM GradesAreWithin == Spec => [](\A a \in Existing \ lowered : GradesWithin(a))
<1>1. IInv => \A a \in Existing \ lowered : GradesWithin(a)
  BY DEF IInv
<1> QED
  BY <1>1, Invariance, PTL

\* What the staff grade the student sees, in every list, unless two of his
\* submissions for the assignment overlapped.
THEOREM GradesAreSeen == Spec => []GradeIsSeen
<1> QED
  BY SeenIsGraded, Invariance, PTL

\* A student has done no more assignments than there are, unless two of his
\* submissions overlapped, and all pages agree on the classes he attended.
THEOREM ProgressIsTrue == Spec => []ProgressAddsUp
<1> QED
  BY ProgressIsRight, Invariance, PTL
=================================================================================
