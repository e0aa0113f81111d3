------------------------------ MODULE Coursework ------------------------------
(***************************************************************************)
(* What is done in a class: attendance taken by hand, assignments, their   *)
(* submissions and grades.  The staff's side is in admin/course/           *)
(* courses.service.ts, the student's in application/course/                *)
(* course.service.ts.                                                      *)
(*                                                                         *)
(* Nothing here is a database transaction: a request reads, puts files     *)
(* into storage and writes in steps of its own.  A read that only asks     *)
(* whether a row exists is part of the write after it, which the foreign   *)
(* keys check again.  A refused request changes nothing and is no step.    *)
(* Attachments, feedback and the letters of grades are left out.           *)
(*                                                                         *)
(* There are no rows for QR attendance: getAttendanceQR asks for a session *)
(* without expires_at whenever it gets as far as creating one, the column  *)
(* is required, and so makeAttendance never finds a session.               *)
(***************************************************************************)
EXTENDS Integers, FiniteSets, FiniteSetsExt

CONSTANTS
  Classes,         \* identifiers of class rows of one course
  Assignments,     \* identifiers of assignment rows
  MaxSubmissions,  \* submissions, numbered in the order of submitted_at
  Students,        \* students with an ACTIVE enrollment in the course
  Teachers,        \* those who grade
  Points,          \* totals and grades that requests ask for
  Marks,           \* attendance statuses that requests ask for
  Requests,        \* requests that may be in flight together
  None             \* a null reference or an absent row

AttendanceStatus == {"PRESENT", "ABSENT", "LATE", "LEAVE"}
Submissions == 1..MaxSubmissions

ASSUME CourseworkAssumption ==
  /\ MaxSubmissions \in Nat
  /\ Points \subseteq Nat \ {0}
  /\ Marks \subseteq AttendanceStatus
  /\ None \notin Classes \cup Assignments \cup Students \cup Teachers
  /\ None \notin AttendanceStatus

VARIABLES
  class,       \* whether a class exists and its class_at has come
  attendance,  \* the status of a student in a class, None without a row
  assignment,  \* the assignments table
  submission,  \* the assignment_submissions table
  grade,       \* the assignment_grades table, keyed by its unique submission
  request,     \* the requests in flight
  overlapped,  \* history: assignments a student submitted in two requests at once
  clashed,     \* history: submissions whose grade was refused by the database
  cut,         \* history: submissions whose grading stopped half way
  lowered      \* history: assignments whose total was lowered

rows == <<class, attendance, assignment, submission, grade>>
history == <<overlapped, clashed, cut, lowered>>
vars == <<class, attendance, assignment, submission, grade,
          request, overlapped, clashed, cut, lowered>>

-----------------------------------------------------------------------------
(* Rows and requests *)

Assignment == [class : Classes \cup {None}, total : Points \cup {0}]

AssignmentSubmission ==
  [assignment : Assignments \cup {None},
   student    : Students \cup {None},
   status     : {"PENDING", "SUBMITTED", "NOT_SUBMITTED", "GRADED"}]

AssignmentGrade == [creator : Teachers \cup {None}, number : Points \cup {0}]

\* What a request has read and will write.
Request ==
  [pc     : {"idle", "submit", "edit", "status", "grade"},
   row    : Assignments \cup Classes \cup {None},
   of     : Submissions \cup {0},
   by     : Students \cup Teachers \cup {None},
   number : Points \cup {0}]

NoMarks == [u \in Students |-> None]
NoAssignment == [class |-> None, total |-> 0]
NoSubmission == [assignment |-> None, student |-> None, status |-> "PENDING"]
NoGrade == [creator |-> None, number |-> 0]
Idle == [pc |-> "idle", row |-> None, of |-> 0, by |-> None, number |-> 0]

Of(a) == {s \in Submissions : submission[s].assignment = a}
By(a, u) == {s \in Of(a) : submission[s].student = u}

\* An identifier is new when no row has it and no request remembers it.
IsNew(x) == \A r \in Requests : request[r].row # x

Hold(r, req) ==
  /\ request[r] = Idle
  /\ request' = [request EXCEPT ![r] = req]

Done(r) == request' = [request EXCEPT ![r] = Idle]

Other(r, pc) == {q \in Requests \ {r} : request[q].pc = pc}

\* A query throws, the row is gone, or the server restarts.
Abort(r) ==
  /\ request[r] # Idle
  /\ Done(r)
  /\ cut' = IF request[r].pc = "grade" THEN cut \cup {request[r].of} ELSE cut
  /\ UNCHANGED <<rows, overlapped, clashed, lowered>>

-----------------------------------------------------------------------------
(* Classes and attendance *)

AddClass(c) ==
  /\ class[c] = "NONE" /\ IsNew(c)
  /\ class' = [class EXCEPT ![c] = "planned"]
  /\ UNCHANGED <<attendance, assignment, submission, grade, request, history>>

ClassTime(c) ==
  /\ class[c] = "planned"
  /\ class' = [class EXCEPT ![c] = "past"]
  /\ UNCHANGED <<attendance, assignment, submission, grade, request, history>>

\* onDelete: Cascade, from assignments to submissions and grades.
DropAssignments(A) ==
  LET S == UNION {Of(a) : a \in A}
  IN  /\ assignment' = [a \in Assignments |-> IF a \in A THEN NoAssignment ELSE assignment[a]]
      /\ submission' = [s \in Submissions |-> IF s \in S THEN NoSubmission ELSE submission[s]]
      /\ grade' = [s \in Submissions |-> IF s \in S THEN NoGrade ELSE grade[s]]
      /\ overlapped' = {p \in overlapped : p[1] \notin A}
      /\ clashed' = clashed \ S
      /\ cut' = cut \ S
      /\ lowered' = lowered \ A

\* The rows of a class go with it.
DeleteClass(c) ==
  /\ class[c] # "NONE"
  /\ class' = [class EXCEPT ![c] = "NONE"]
  /\ attendance' = [attendance EXCEPT ![c] = NoMarks]
  /\ DropAssignments({a \in Assignments : assignment[a].class = c})
  /\ UNCHANGED request

\* One row for a class and a student, written over by each mark; neither the
\* student's enrollment nor the state of the class is looked at.
MarkManualAttendance(c, u, m) ==
  /\ class[c] # "NONE"
  /\ attendance' = [attendance EXCEPT ![c][u] = m]
  /\ UNCHANGED <<class, assignment, submission, grade, request, history>>

-----------------------------------------------------------------------------
(* Assignments *)

CreateAssignment(a, c, n) ==
  /\ class[c] # "NONE"
  /\ assignment[a] = NoAssignment /\ IsNew(a)
  /\ assignment' = [assignment EXCEPT ![a] = [class |-> c, total |-> n]]
  /\ UNCHANGED <<class, attendance, submission, grade, request, history>>

\* The total that will be written is the one asked for or the one read here.
ReadAssignment(r, a, n) ==
  /\ assignment[a] # NoAssignment
  /\ Hold(r, [Idle EXCEPT !.pc = "edit", !.row = a,
                          !.number = IF n = 0 THEN assignment[a].total ELSE n])
  /\ UNCHANGED <<rows, history>>

UpdateAssignment(r) ==
  LET a == request[r].row
      n == request[r].number
  IN  /\ request[r].pc = "edit"
      /\ assignment[a] # NoAssignment
      /\ assignment' = [assignment EXCEPT ![a].total = n]
      /\ lowered' = IF n < assignment[a].total THEN lowered \cup {a} ELSE lowered
      /\ Done(r)
      /\ UNCHANGED <<class, attendance, submission, grade,
                     overlapped, clashed, cut>>

DeleteAssignment(a) ==
  /\ assignment[a] # NoAssignment
  /\ DropAssignments({a})
  /\ UNCHANGED <<class, attendance, request>>

-----------------------------------------------------------------------------
(* Submissions and grades *)

\* Mutant of FindNone: a student may submit again.
FindAny(r, a, u) ==
  /\ assignment[a] # NoAssignment
  /\ Hold(r, [Idle EXCEPT !.pc = "submit", !.row = a, !.by = u])
  /\ UNCHANGED <<rows, history>>

\* A student who has submitted nothing so far may submit; the files are put
\* into storage after this.
FindNone(r, a, u) ==
  /\ assignment[a] # NoAssignment
  /\ By(a, u) = {}
  /\ Hold(r, [Idle EXCEPT !.pc = "submit", !.row = a, !.by = u])
  /\ UNCHANGED <<rows, history>>

SubmitAssignment(r, s) ==
  LET a == request[r].row
      u == request[r].by
  IN  /\ request[r].pc = "submit"
      /\ assignment[a] # NoAssignment
      /\ submission[s] = NoSubmission
      /\ \A t \in Submissions : submission[t] # NoSubmission => t < s
      /\ \A q \in Requests : request[q].of # s
      /\ submission' = [submission EXCEPT ![s] =
           [assignment |-> a, student |-> u, status |-> "SUBMITTED"]]
      /\ overlapped' = IF \E q \in Other(r, "submit") : request[q].row = a /\ request[q].by = u
                       THEN overlapped \cup {<<a, u>>} ELSE overlapped
      /\ Done(r)
      /\ UNCHANGED <<class, attendance, assignment, grade, clashed, cut, lowered>>

\* Mutant of ReadSubmission: the grade is not compared with the total.
ReadSubmissionOnly(r, s, t, n) ==
  /\ submission[s] # NoSubmission
  /\ Hold(r, [Idle EXCEPT !.pc = "status", !.of = s, !.by = t, !.number = n])
  /\ UNCHANGED <<rows, history>>

\* gradeSubmission reads the submission and the total of its assignment ...
ReadSubmission(r, s, t, n) ==
  /\ submission[s] # NoSubmission
  /\ n <= assignment[submission[s].assignment].total
  /\ Hold(r, [Idle EXCEPT !.pc = "status", !.of = s, !.by = t, !.number = n])
  /\ UNCHANGED <<rows, history>>

\* ... declares the submission GRADED ...
SetGraded(r) ==
  LET s == request[r].of
  IN  /\ request[r].pc = "status"
      /\ submission[s] # NoSubmission
      /\ submission' = [submission EXCEPT ![s].status = "GRADED"]
      /\ request' = [request EXCEPT ![r].pc = "grade"]
      /\ UNCHANGED <<class, attendance, assignment, grade, history>>

\* @@unique([assignment_id, creator_id]): one grade of a teacher for an
\* assignment, whoever submitted.
GradedAnother(s, t) ==
  \E q \in Of(submission[s].assignment) \ {s} : grade[q].creator = t

\* Mutant of SaveGrade: the grade is looked up by assignment and teacher.
SaveGradeOfTeacher(r) ==
  LET s == request[r].of
      t == request[r].by
  IN  /\ request[r].pc = "grade"
      /\ submission[s] # NoSubmission
      /\ grade' = [q \in Submissions |->
           IF q = s THEN [creator |-> t, number |-> request[r].number]
           ELSE IF q \in Of(submission[s].assignment) /\ grade[q].creator = t THEN NoGrade
           ELSE grade[q]]
      /\ Done(r)
      /\ UNCHANGED <<class, attendance, assignment, submission, history>>

\* ... and only then creates or updates the grade, which the database refuses
\* to a teacher who has graded another submission of the assignment.
SaveGrade(r) ==
  LET s == request[r].of
      t == request[r].by
  IN  /\ request[r].pc = "grade"
      /\ submission[s] # NoSubmission
      /\ IF GradedAnother(s, t)
           THEN /\ clashed' = clashed \cup {s}
                /\ UNCHANGED grade
           ELSE /\ grade' = [grade EXCEPT ![s] = [creator |-> t, number |-> request[r].number]]
                /\ UNCHANGED clashed
      /\ Done(r)
      /\ UNCHANGED <<class, attendance, assignment, submission,
                     overlapped, cut, lowered>>

-----------------------------------------------------------------------------
(* What is shown *)

Existing == {a \in Assignments : assignment[a] # NoAssignment}

Graded(a) == {s \in Of(a) : grade[s] # NoGrade}

\* What the staff see of an assignment in the list of a class ...
Counts(a) == [submissions |-> Cardinality(Of(a)), grades |-> Cardinality(Graded(a))]

\* ... and on its own page, where the average is the score over the grades.
Details(a) ==
  [counts |-> Counts(a), score |-> MapThenSumSet(LAMBDA s : grade[s].number, Graded(a))]

\* The submissions the staff see, each with its grade.
Listed(a) == {[submission |-> s, grade |-> grade[s]] : s \in Of(a)}

\* What a student sees of an assignment: the latest submission and its grade.
Shown(a, u) ==
  IF By(a, u) = {} THEN [status |-> "PENDING", grade |-> NoGrade]
  ELSE LET s == CHOOSE s \in By(a, u) : \A t \in By(a, u) : t <= s
       IN  [status |-> submission[s].status, grade |-> grade[s]]

ShownForClass(c, u) ==
  [a \in {a \in Existing : assignment[a].class = c} |-> Shown(a, u)]

ShownForCourse(u) == [a \in Existing |-> Shown(a, u)]

\* The attendance report up to now.
Report(u) ==
  {[class |-> c, status |-> IF attendance[c][u] = None THEN "ABSENT" ELSE attendance[c][u]] :
     c \in {c \in Classes : class[c] = "past"}}

\* The classes held, with who attended, in the overview of the staff.
RecentAttendance ==
  [c \in {c \in Classes : class[c] = "past"} |->
     {u \in Students : attendance[c][u] \in {"PRESENT", "LATE"}}]

\* Mutant of Progress: the assignments of the classes to come are not counted.
ProgressSoFar(u) ==
  [attended  |-> {c \in Classes : class[c] # "NONE" /\ attendance[c][u] \in {"PRESENT", "LATE"}},
   completed |-> Cardinality({s \in Submissions :
                   /\ submission[s].student = u
                   /\ submission[s].status \in {"SUBMITTED", "GRADED"}}),
   total     |-> Cardinality({a \in Existing : class[assignment[a].class] = "past"})]

\* A student in the list of the enrolled: classes attended and assignments done.
Progress(u) ==
  [attended  |-> {c \in Classes : class[c] # "NONE" /\ attendance[c][u] \in {"PRESENT", "LATE"}},
   completed |-> Cardinality({s \in Submissions :
                   /\ submission[s].student = u
                   /\ submission[s].status \in {"SUBMITTED", "GRADED"}}),
   total     |-> Cardinality(Existing)]

-----------------------------------------------------------------------------
(* The specification *)

Init ==
  /\ class = [c \in Classes |-> "NONE"]
  /\ attendance = [c \in Classes |-> NoMarks]
  /\ assignment = [a \in Assignments |-> NoAssignment]
  /\ submission = [s \in Submissions |-> NoSubmission]
  /\ grade = [s \in Submissions |-> NoGrade]
  /\ request = [r \in Requests |-> Idle]
  /\ overlapped = {} /\ clashed = {} /\ cut = {} /\ lowered = {}

ClassStep ==
  \E c \in Classes :
    \/ AddClass(c) \/ ClassTime(c) \/ DeleteClass(c)
    \/ \E u \in Students, m \in Marks : MarkManualAttendance(c, u, m)
    \/ \E a \in Assignments, n \in Points : CreateAssignment(a, c, n)

AssignmentStep ==
  \E a \in Assignments :
    \/ DeleteAssignment(a)
    \/ \E r \in Requests, n \in Points \cup {0} : ReadAssignment(r, a, n)
    \/ \E r \in Requests, u \in Students : FindNone(r, a, u)

SubmissionStep ==
  \E r \in Requests, s \in Submissions :
    \/ SubmitAssignment(r, s)
    \/ \E t \in Teachers, n \in Points : ReadSubmission(r, s, t, n)

RequestStep ==
  \E r \in Requests : UpdateAssignment(r) \/ SetGraded(r) \/ SaveGrade(r) \/ Abort(r)

Next == ClassStep \/ AssignmentStep \/ SubmissionStep \/ RequestStep

Spec == Init /\ [][Next]_vars

-----------------------------------------------------------------------------
(* Properties *)

\* Every row has the shape the schema gives it, and none outlives the row it
\* belongs to, whatever requests still remember of a deleted class.
TypeOK ==
  /\ class \in [Classes -> {"NONE", "planned", "past"}]
  /\ attendance \in [Classes -> [Students -> AttendanceStatus \cup {None}]]
  /\ assignment \in [Assignments -> Assignment]
  /\ submission \in [Submissions -> AssignmentSubmission]
  /\ grade \in [Submissions -> AssignmentGrade]
  /\ request \in [Requests -> Request]
  /\ \A c \in Classes : class[c] = "NONE" =>
       /\ attendance[c] = NoMarks
       /\ \A a \in Existing : assignment[a].class # c
  /\ \A s \in Submissions :
       /\ submission[s] # NoSubmission => submission[s].assignment \in Existing
       /\ grade[s] # NoGrade => submission[s].status = "GRADED"

\* A submission that is GRADED has its grade, unless the grade is being saved,
\* saving it was cut short, or the database refused it; and it refuses one
\* only where the assignment has other submissions.
GradedHasGrade ==
  \A s \in Submissions :
    submission[s].status = "GRADED" /\ grade[s] = NoGrade =>
      \/ \E r \in Requests : request[r].pc = "grade" /\ request[r].of = s
      \/ s \in cut
      \/ s \in clashed /\ Of(submission[s].assignment) # {s}

\* The grades shown of an assignment are at most its total.
GradesWithin(a) == \A row \in Listed(a) : row.grade.number <= assignment[a].total

\* A grade, and so the average shown, is at most the total of the assignment,
\* although the total is read long before the grade is written, unless the
\* total was lowered.
GradeWithinTotal ==
  \A a \in Existing :
    a \notin lowered =>
      /\ GradesWithin(a)
      /\ Details(a).score <= assignment[a].total * Details(a).counts.grades

\* What the staff grade the student sees, in every list, unless two of his
\* submissions for the assignment overlapped: then only the later one counts.
GradeIsSeen ==
  \A a \in Existing, u \in Students :
    <<a, u>> \in overlapped \/
      \A s \in By(a, u) :
        /\ Shown(a, u).grade = grade[s]
        /\ ShownForClass(assignment[a].class, u)[a].grade = grade[s]
        /\ ShownForCourse(u)[a].status = submission[s].status

\* A student's progress adds up: no more assignments done than there are,
\* unless two submissions overlapped, and the classes attended so far are those
\* the attendance report and the overview of the staff show him in.
ProgressAddsUp ==
  \A u \in Students :
    /\ Progress(u).completed > Progress(u).total => \E a \in Existing : <<a, u>> \in overlapped
    /\ {c \in Progress(u).attended : class[c] = "past"}
         = {row.class : row \in {row \in Report(u) : row.status \in {"PRESENT", "LATE"}}}
    /\ \A c \in DOMAIN RecentAttendance :
         u \in RecentAttendance[c] <=> c \in Progress(u).attended

-----------------------------------------------------------------------------
(* The inductive invariant of the proofs *)

\* There are finitely many assignments, each of a class.
AssignmentsAreOfClasses ==
  IsFiniteSet(Existing) /\ \A a \in Existing : assignment[a].class \in Classes

\* A request has what it works on.
RequestIsSound(r) ==
  LET q == request[r]
  IN  /\ q.pc = "idle" => q = Idle
      /\ q.pc \in {"submit", "edit"} => q.row \in Assignments
      /\ q.pc = "submit" => q.by \in Students
      /\ q.pc \in {"status", "grade"} => q.of \in Submissions /\ q.by \in Teachers

\* Unless another overtook it, a student who may submit has not submitted; and
\* as long as the submission it grades exists, a grade is within the total.
RequestKnows(r) ==
  LET q == request[r]
      a == submission[q.of].assignment
  IN  /\ q.pc = "submit" /\ <<q.row, q.by>> \notin overlapped => By(q.row, q.by) = {}
      /\ q.pc \in {"status", "grade"} /\ submission[q.of] # NoSubmission =>
           /\ a \notin lowered => q.number <= assignment[a].total
           /\ q.pc = "grade" => submission[q.of].status = "GRADED"

\* A student submits once.
OneSubmission ==
  \A a \in Assignments, u \in Students :
    <<a, u>> \in overlapped \/ \A s, t \in By(a, u) : s = t

IInv ==
  /\ TypeOK
  /\ AssignmentsAreOfClasses
  /\ GradedHasGrade
  /\ \A a \in Existing \ lowered : GradesWithin(a)
  /\ OneSubmission
  /\ \A r \in Requests : RequestIsSound(r) /\ RequestKnows(r)
=============================================================================
