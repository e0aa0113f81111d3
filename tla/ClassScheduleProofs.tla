-------------------------- MODULE ClassScheduleProofs --------------------------
(***************************************************************************)
(* Proofs about ClassSchedule, for any courses, modules, classes, titles,  *)
(* times and requests.  IInv says what a request of the staff knows of the *)
(* rows it has read and will write: that they are still so, unless another *)
(* has written the same since, which every write notes.                    *)
(***************************************************************************)
EXTENDS ClassSchedule, TLAPS

\* Of two modules of a course with one title, one has overlapped.
TitlesApart ==
  \A m, n \in Modules :
    m # n /\ module[m] # NoModule /\ module[m] = module[n] => {m, n} \cap overlapped # {}

\* What is on the lists is what the rows say.
LEMMA LossByRows ==
  LossNeedsOverlap <=>
    /\ \A k \in Courses : course[k] = asked[k]
    /\ \A c \in Classes : class[c].at = asked[c]
    /\ TitlesApart
BY DEF LossNeedsOverlap, CourseById, Listed, Offered, ModuleById, TitlesApart

LEMMA IdleIsARequest ==
  Idle \in Request /\ Idle.pc = "idle" /\ Idle.row = None
BY DEF Idle, Request

LEMMA NullRows ==
  /\ NoModule \in CourseModule /\ NoModule.course = None /\ NoModule.title = None
  /\ NoClass \in ModuleClass /\ NoClass.module = None /\ NoClass.at = None
  /\ NoClass.start = None /\ NoClass.end = None
BY DEF NoModule, CourseModule, NoClass, ModuleClass

LEMMA OneRequest ==
  ASSUME TypeOK, NEW r \in Requests, NEW req \in Request,
         request' = [request EXCEPT ![r] = req]
  PROVE  /\ request' \in [Requests -> Request] /\ request'[r] = req
         /\ \A q \in Requests \ {r} : request'[q] = request[q]
BY DEF TypeOK

\* A request is as it was, but may be late now.
Stays(q) ==
  /\ request'[q].pc = request[q].pc /\ request'[q].row = request[q].row
  /\ request'[q].status = request[q].status /\ request'[q].at = request[q].at
  /\ request'[q].explicit = request[q].explicit
  /\ request'[q].course = request[q].course /\ request'[q].title = request[q].title
  /\ request[q].late => request'[q].late

LEMMA Released ==
  ASSUME TypeOK, NEW r \in Requests, NEW S, Release(r, S)
  PROVE  /\ request' \in [Requests -> Request] /\ request'[r] = Idle
         /\ \A q \in Requests \ {r} : Stays(q) /\ (q \in S => request'[q].late)
<1>1. \A q \in Requests : request[q] \in Request
  BY DEF TypeOK
<1>2. \A req \in Request :
        LET l == [req EXCEPT !.late = TRUE]
        IN  /\ l \in Request /\ l.pc = req.pc /\ l.row = req.row /\ l.status = req.status
            /\ l.at = req.at /\ l.explicit = req.explicit /\ l.course = req.course
            /\ l.title = req.title /\ l.late = TRUE
  <2>1. \A req \in Request : [req EXCEPT !.late = TRUE] \in Request
    BY DEF Request
  <2>2. \A req \in Request :
          LET l == [req EXCEPT !.late = TRUE]
          IN  /\ l.pc = req.pc /\ l.row = req.row /\ l.status = req.status
              /\ l.at = req.at /\ l.explicit = req.explicit /\ l.course = req.course
              /\ l.title = req.title /\ l.late = TRUE
    BY DEF Request
  <2> QED
    BY <2>1, <2>2
<1>3. \A q \in Requests : request'[q] =
        IF q = r THEN Idle
        ELSE IF q \in S THEN [request[q] EXCEPT !.late = TRUE] ELSE request[q]
  BY DEF Release
<1>4. request' \in [Requests -> Request]
  <2>1. \A q \in Requests : request'[q] \in Request
    BY <1>1, <1>2, <1>3, IdleIsARequest
  <2>2. request' = [q \in Requests |-> request'[q]]
    BY DEF Release
  <2> QED
    BY <2>1, <2>2
<1>5. ASSUME NEW q \in Requests \ {r}
      PROVE  Stays(q) /\ (q \in S => request'[q].late)
  <2>1. CASE q \in S
    <3>1. request'[q] = [request[q] EXCEPT !.late = TRUE] /\ request[q] \in Request
      BY <1>1, <1>3, <2>1
    <3> QED
      BY <1>2, <3>1 DEF Stays
  <2>2. CASE q \notin S
    BY <1>3, <2>2 DEF Stays
  <2> QED
    BY <2>1, <2>2
<1> QED
  BY <1>3, <1>4, <1>5

\* A request that is idle knows nothing.
LEMMA IdleKnows ==
  ASSUME NEW r \in Requests, request'[r] = Idle
  PROVE  RequestIsSound(r)' /\ RequestKnows(r)'
BY IdleIsARequest DEF RequestIsSound, RequestKnows

\* What a request knows stays true while a step leaves the rows it is about, or
\* the step notes it as late.
LEMMA KnowsStays ==
  ASSUME NEW q \in Requests, RequestIsSound(q), RequestKnows(q), Stays(q),
         request[q].pc = "edit course" /\ course'[request[q].row] # None =>
           course'[request[q].row] = course[request[q].row] \/ request'[q].late,
         request[q].pc = "edit class" /\ class'[request[q].row] # NoClass =>
           /\ class[request[q].row] # NoClass
           /\ class'[request[q].row].at = class[request[q].row].at \/ request'[q].late,
         request[q].pc = "rename" /\ module'[request[q].row] # NoModule =>
           /\ module[request[q].row] # NoModule
           /\ module'[request[q].row].course = module[request[q].row].course,
         request[q].pc \in {"add module", "rename"} =>
           \/ request'[q].late
           \/ \A m \in Modules :
                module'[m].course = request[q].course /\ module'[m].title = request[q].title =>
                  module[m].course = request[q].course /\ module[m].title = request[q].title,
         request[q].pc = "start" =>
           \/ request'[q].late
           \/ class'[request[q].row].start \in {class[request[q].row].start, None},
         request[q].pc = "end" /\ class'[request[q].row] # NoClass =>
           /\ class[request[q].row] # NoClass
           /\ class'[request[q].row].start = None => class[request[q].row].start = None
  PROVE  RequestIsSound(q)' /\ RequestKnows(q)'
<1> USE DEF Stays
<1>1. RequestIsSound(q)'
  BY DEF RequestIsSound
<1>2. /\ request[q].pc = "edit course" /\ course'[request[q].row] # None =>
           request[q].status = course'[request[q].row] \/ request[q].explicit \/ request'[q].late
      /\ request[q].pc = "edit class" /\ class'[request[q].row] # NoClass =>
           request[q].at = class'[request[q].row].at \/ request[q].explicit \/ request'[q].late
      /\ request[q].pc = "rename" /\ module'[request[q].row] # NoModule =>
           module'[request[q].row].course = request[q].course
      /\ request[q].pc = "start" /\ ~request'[q].late => class'[request[q].row].start = None
      /\ request[q].pc = "end" /\ class'[request[q].row] # NoClass =>
           class'[request[q].row].start # None
  BY DEF RequestKnows
<1>3. request[q].pc \in {"add module", "rename"} /\ ~request'[q].late =>
        TitleIsFree(request[q].course, request[q].title)'
  BY DEF RequestKnows, TitleIsFree, ModulesOf
<1> QED
  BY <1>1, <1>2, <1>3 DEF RequestKnows

-----------------------------------------------------------------------------
(* Steps that read, and steps that stop *)

LEMMA OnlyTheRequest ==
  ASSUME IInv, NEW r \in Requests, NEW req \in Request,
         request' = [request EXCEPT ![r] = req],
         UNCHANGED <<now, course, module, class, asked, overlapped>>,
         RequestIsSound(r)', RequestKnows(r)'
  PROVE  IInv'
<1>1. /\ request' \in [Requests -> Request] /\ request'[r] = req
      /\ \A q \in Requests \ {r} : request'[q] = request[q]
  BY OneRequest DEF IInv
<1>2. TypeOK'
  BY <1>1 DEF IInv, TypeOK
<1>3. RowsAreWhole' /\ RunsForward'
  BY DEF IInv, RowsAreWhole, RunsForward, ClassDetails
<1>4. LossNeedsOverlap'
  BY DEF IInv, LossNeedsOverlap, CourseById, Listed, Offered, ModuleById
<1>5. ASSUME NEW q \in Requests \ {r}
      PROVE  RequestIsSound(q)' /\ RequestKnows(q)'
  <2>1. RequestIsSound(q) /\ RequestKnows(q)
    BY DEF IInv
  <2>2. Stays(q)
    BY <1>1 DEF Stays
  <2> QED
    BY <2>1, <2>2, KnowsStays
<1> QED
  BY <1>2, <1>3, <1>4, <1>5 DEF IInv

LEMMA AbortStep ==
  ASSUME IInv, NEW r \in Requests, Abort(r)
  PROVE  IInv'
<1>1. request'[r] = Idle
  BY IdleIsARequest, OneRequest DEF IInv, Abort
<1>2. RequestIsSound(r)' /\ RequestKnows(r)'
  BY <1>1, IdleKnows
<1> QED
  BY <1>2, IdleIsARequest, OnlyTheRequest DEF Abort

LEMMA ReadCourseStep ==
  ASSUME IInv, NEW r \in Requests, NEW k \in Courses, NEW s \in Statuses \cup {None},
         ReadCourse(r, k, s)
  PROVE  IInv'
<1> DEFINE status == IF s = None THEN course[k] ELSE s
           given == (s # None)
           req == [Idle EXCEPT !.pc = "edit course", !.row = k, !.explicit = given,
                               !.status = status]
<1>1. course[k] # None /\ request' = [request EXCEPT ![r] = req]
      /\ UNCHANGED <<now, course, module, class, asked, overlapped>>
  BY DEF ReadCourse, Hold
<1>2. status \in CourseStatus /\ status # None /\ given \in BOOLEAN
      /\ (given \/ status = course[k])
  BY <1>1, ScheduleAssumption DEF IInv, TypeOK
<1> HIDE DEF status, given
<1>3. /\ req \in Request /\ req.pc = "edit course" /\ req.row = k /\ req.status = status
      /\ req.explicit = given /\ req.course = None
  BY <1>2 DEF Idle, Request
<1> HIDE DEF req
<1>4. request'[r] = req
  BY <1>1, <1>3, OneRequest DEF IInv
<1>5. RequestIsSound(r)' /\ RequestKnows(r)'
  BY <1>1, <1>2, <1>3, <1>4 DEF RequestIsSound, RequestKnows
<1> QED
  BY <1>1, <1>3, <1>5, OnlyTheRequest

LEMMA FindTitleStep ==
  ASSUME IInv, NEW r \in Requests, NEW k \in Courses, NEW t \in Titles, FindTitle(r, k, t)
  PROVE  IInv'
<1> DEFINE req == [Idle EXCEPT !.pc = "add module", !.row = k, !.course = k, !.title = t]
<1>1. TitleIsFree(k, t) /\ request' = [request EXCEPT ![r] = req]
      /\ UNCHANGED <<now, course, module, class, asked, overlapped>>
  BY DEF FindTitle, Hold
<1>2. /\ req \in Request /\ req.pc = "add module" /\ req.row = k /\ req.course = k
      /\ req.title = t
  BY DEF Idle, Request
<1> HIDE DEF req
<1>3. request'[r] = req
  BY <1>1, <1>2, OneRequest DEF IInv
<1>4. RequestIsSound(r)' /\ RequestKnows(r)'
  BY <1>1, <1>2, <1>3 DEF RequestIsSound, RequestKnows, TitleIsFree, ModulesOf
<1> QED
  BY <1>1, <1>2, <1>4, OnlyTheRequest

LEMMA FindRenameStep ==
  ASSUME IInv, NEW r \in Requests, NEW m \in Modules, NEW t \in Titles, FindRename(r, m, t)
  PROVE  IInv'
<1>1. PICK k \in Courses : module[m].course = k
  <2>1. module[m].course # None
    BY DEF FindRename
  <2> QED
    BY <2>1, NullRows DEF IInv, RowsAreWhole
<1> DEFINE req == [Idle EXCEPT !.pc = "rename", !.row = m, !.course = k, !.title = t]
<1>2. TitleIsFree(k, t) /\ request' = [request EXCEPT ![r] = req]
      /\ UNCHANGED <<now, course, module, class, asked, overlapped>>
  BY <1>1 DEF FindRename, Hold
<1>3. /\ req \in Request /\ req.pc = "rename" /\ req.row = m /\ req.course = k /\ req.title = t
  BY DEF Idle, Request
<1> HIDE DEF req
<1>4. request'[r] = req /\ module'[m].course = k
  BY <1>1, <1>2, <1>3, OneRequest DEF IInv
<1>5. RequestIsSound(r)' /\ RequestKnows(r)'
  BY <1>2, <1>3, <1>4 DEF RequestIsSound, RequestKnows, TitleIsFree, ModulesOf
<1> QED
  BY <1>2, <1>3, <1>5, OnlyTheRequest

LEMMA ReadClassStep ==
  ASSUME IInv, NEW r \in Requests, NEW c \in Classes, NEW t \in Times \cup {None},
         ReadClass(r, c, t)
  PROVE  IInv'
<1> DEFINE at == IF t = None THEN class[c].at ELSE t
           given == (t # None)
           req == [Idle EXCEPT !.pc = "edit class", !.row = c, !.explicit = given, !.at = at]
<1>1. class[c] # NoClass /\ request' = [request EXCEPT ![r] = req]
      /\ UNCHANGED <<now, course, module, class, asked, overlapped>>
  BY DEF ReadClass, Hold
<1>2. at \in Times /\ given \in BOOLEAN /\ (given \/ at = class[c].at)
  BY <1>1 DEF IInv, RowsAreWhole
<1> HIDE DEF at, given
<1>3. /\ req \in Request /\ req.pc = "edit class" /\ req.row = c /\ req.at = at
      /\ req.explicit = given /\ req.course = None
  BY <1>2 DEF Idle, Request
<1> HIDE DEF req
<1>4. request'[r] = req
  BY <1>1, <1>3, OneRequest DEF IInv
<1>5. RequestIsSound(r)' /\ RequestKnows(r)'
  BY <1>1, <1>2, <1>3, <1>4 DEF RequestIsSound, RequestKnows
<1> QED
  BY <1>1, <1>3, <1>5, OnlyTheRequest

LEMMA ReadStartStep ==
  ASSUME IInv, NEW r \in Requests, NEW c \in Classes, ReadStart(r, c)
  PROVE  IInv'
<1> DEFINE req == [Idle EXCEPT !.pc = "start", !.row = c]
<1>1. class[c].start = None /\ request' = [request EXCEPT ![r] = req]
      /\ UNCHANGED <<now, course, module, class, asked, overlapped>>
  BY DEF ReadStart, Hold
<1>2. req \in Request /\ req.pc = "start" /\ req.row = c /\ req.course = None
  BY DEF Idle, Request
<1> HIDE DEF req
<1>3. request'[r] = req
  BY <1>1, <1>2, OneRequest DEF IInv
<1>4. RequestIsSound(r)' /\ RequestKnows(r)'
  BY <1>1, <1>2, <1>3 DEF RequestIsSound, RequestKnows
<1> QED
  BY <1>1, <1>2, <1>4, OnlyTheRequest

LEMMA ReadEndStep ==
  ASSUME IInv, NEW r \in Requests, NEW c \in Classes, ReadEnd(r, c)
  PROVE  IInv'
<1> DEFINE req == [Idle EXCEPT !.pc = "end", !.row = c]
<1>1. class[c].start # None /\ request' = [request EXCEPT ![r] = req]
      /\ UNCHANGED <<now, course, module, class, asked, overlapped>>
  BY DEF ReadEnd, Hold
<1>2. req \in Request /\ req.pc = "end" /\ req.row = c /\ req.course = None
  BY DEF Idle, Request
<1> HIDE DEF req
<1>3. request'[r] = req
  BY <1>1, <1>2, OneRequest DEF IInv
<1>4. RequestIsSound(r)' /\ RequestKnows(r)'
  BY <1>1, <1>2, <1>3 DEF RequestIsSound, RequestKnows
<1> QED
  BY <1>1, <1>2, <1>4, OnlyTheRequest

LEMMA TickStep ==
  ASSUME IInv, Tick
  PROVE  IInv'
<1>1. /\ now \in Times /\ now' \in Times /\ now < now'
      /\ UNCHANGED <<course, module, class, request, asked, overlapped>>
  BY ScheduleAssumption DEF IInv, TypeOK, Tick, Times
<1>2. TypeOK'
  BY <1>1 DEF IInv, TypeOK
<1>3. RowsAreWhole'
  <2>1. \A c \in Classes : class[c].start # None => class[c].start \in Times
    BY DEF IInv, TypeOK, ModuleClass
  <2>2. \A t \in Times : t <= now => t <= now'
    BY <1>1, ScheduleAssumption DEF Times
  <2>3. RowsAreWhole
    BY DEF IInv
  <2> QED
    BY <1>1, <2>1, <2>2, <2>3 DEF RowsAreWhole
<1>4. RunsForward'
  BY <1>1 DEF IInv, RunsForward, ClassDetails
<1>5. LossNeedsOverlap'
  BY <1>1 DEF IInv, LossNeedsOverlap, CourseById, Listed, Offered, ModuleById
<1>6. ASSUME NEW q \in Requests
      PROVE  RequestIsSound(q)' /\ RequestKnows(q)'
  BY <1>1, KnowsStays DEF IInv, Stays
<1> QED
  BY <1>2, <1>3, <1>4, <1>5, <1>6 DEF IInv

-----------------------------------------------------------------------------
(* Rows that go *)

\* Courses, modules and classes are deleted, with all that belongs to them.
LEMMA CascadeStep ==
  ASSUME IInv, NEW K \in SUBSET Courses, NEW M \in SUBSET Modules, NEW C \in SUBSET Classes,
         course' = [k \in Courses |-> IF k \in K THEN None ELSE course[k]],
         Cascade(M, C), Forget(K \cup M \cup C), UNCHANGED <<now, request>>,
         \A m \in Modules : module[m].course \in K => m \in M,
         \A c \in Classes : class[c].module \in M => c \in C
  PROVE  IInv'
<1>1. /\ \A k \in Courses : course'[k] = IF k \in K THEN None ELSE course[k]
      /\ \A m \in Modules : module'[m] = IF m \in M THEN NoModule ELSE module[m]
      /\ \A c \in Classes : class'[c] = IF c \in C THEN NoClass ELSE class[c]
  BY DEF Cascade
<1>2. /\ DOMAIN asked' = Courses \cup Classes
      /\ \A k \in Courses : asked'[k] = IF k \in K THEN None ELSE asked[k]
      /\ \A c \in Classes : asked'[c] = IF c \in C THEN None ELSE asked[c]
      /\ overlapped' = overlapped \ (K \cup M \cup C)
      /\ \A c \in Classes : c \in overlapped /\ c \notin C => c \in overlapped'
      /\ \A m \in Modules : m \in overlapped /\ m \notin M => m \in overlapped'
  BY ScheduleAssumption DEF Forget, IInv, TypeOK
<1>3. RowsAreWhole'
  BY <1>1, NullRows DEF IInv, RowsAreWhole
<1>4. TypeOK'
  <2>1. /\ course' \in [Courses -> CourseStatus \cup {None}]
        /\ module' \in [Modules -> CourseModule]
        /\ class' \in [Classes -> ModuleClass]
    BY NullRows DEF IInv, TypeOK, Cascade
  <2>2. /\ \A k \in Courses : asked'[k] \in CourseStatus \cup {None}
        /\ \A c \in Classes : asked'[c] \in Times \cup {None}
        /\ overlapped' \subseteq Classes \cup Modules
    BY <1>2 DEF IInv, TypeOK
  <2>3. ASSUME NEW m \in Modules, module'[m] # NoModule
        PROVE  course'[module'[m].course] # None
    <3>1. m \notin M /\ module'[m] = module[m]
      BY <1>1, <2>3
    <3>2. module[m].course \in Courses /\ course[module[m].course] # None
      BY <2>3, <3>1 DEF IInv, TypeOK, RowsAreWhole
    <3> QED
      BY <1>1, <3>1, <3>2
  <2>4. ASSUME NEW c \in Classes, class'[c] # NoClass
        PROVE  module'[class'[c].module] # NoModule /\ class'[c].at # None
    <3>1. c \notin C /\ class'[c] = class[c]
      BY <1>1, <2>4
    <3>2. class[c].module \in Modules /\ module[class[c].module] # NoModule /\ class[c].at # None
      BY <2>4, <3>1 DEF IInv, TypeOK, RowsAreWhole
    <3> QED
      BY <1>1, <3>1, <3>2
  <2>5. now' \in Times /\ request' \in [Requests -> Request]
    BY DEF IInv, TypeOK
  <2> QED
    BY <1>2, <2>1, <2>2, <2>3, <2>4, <2>5 DEF TypeOK
<1>5. LossNeedsOverlap'
  <2>1. /\ \A k \in Courses : course[k] = asked[k]
        /\ \A c \in Classes : class[c].at = asked[c]
        /\ TitlesApart
    BY LossByRows DEF IInv
  <2>2. TitlesApart'
    BY <1>1, <1>2, <2>1 DEF TitlesApart
  <2>3. /\ \A k \in Courses : course'[k] = asked'[k]
        /\ \A c \in Classes : class'[c].at = asked'[c]
    BY <1>1, <1>2, <2>1, NullRows
  <2> QED
    BY <2>2, <2>3 DEF LossNeedsOverlap, CourseById, Listed, Offered, ModuleById, TitlesApart
<1>6. RunsForward'
  BY <1>1, <1>2, NullRows DEF IInv, RunsForward, ClassDetails
<1>7. ASSUME NEW q \in Requests
      PROVE  RequestIsSound(q)' /\ RequestKnows(q)'
  <2>1. RequestIsSound(q) /\ RequestKnows(q)
    BY DEF IInv
  <2>2. Stays(q)
    BY DEF Stays
  <2>3. /\ request[q].pc = "edit course" => request[q].row \in Courses
        /\ request[q].pc = "rename" => request[q].row \in Modules
        /\ request[q].pc \in {"edit class", "start", "end"} => request[q].row \in Classes
        /\ request[q].pc \in {"add module", "rename"} => request[q].course \in Courses
    BY <2>1 DEF RequestIsSound
  <2>4. \A m \in Modules : \A k \in Courses : module'[m].course = k =>
          module'[m] = module[m]
    BY <1>1, NullRows, ScheduleAssumption
  <2> QED
    BY <1>1, <2>1, <2>2, <2>3, <2>4, NullRows, KnowsStays
<1> QED
  BY <1>3, <1>4, <1>5, <1>6, <1>7 DEF IInv

LEMMA DeleteCourseStep ==
  ASSUME IInv, NEW k \in Courses, DeleteCourse(k)
  PROVE  IInv'
<1> DEFINE M == ModulesOf(k)
           C == ClassesIn(k)
<1>1. course' = [j \in Courses |-> IF j \in {k} THEN None ELSE course[j]]
  BY DEF DeleteCourse, IInv, TypeOK
<1>2. M \in SUBSET Modules /\ C \in SUBSET Classes
  BY DEF ModulesOf, ClassesIn, ClassesOf
<1>3. /\ \A m \in Modules : module[m].course \in {k} => m \in M
      /\ \A c \in Classes : class[c].module \in M => c \in C
  BY DEF ModulesOf, ClassesIn, ClassesOf
<1>4. Cascade(M, C) /\ Forget({k} \cup M \cup C) /\ UNCHANGED <<now, request>>
  BY DEF DeleteCourse
<1>5. {k} \in SUBSET Courses
  OBVIOUS
<1> HIDE DEF M, C
<1> QED
  BY <1>1, <1>2, <1>3, <1>4, <1>5, CascadeStep

LEMMA DeleteModuleStep ==
  ASSUME IInv, NEW m \in Modules, DeleteModule(m)
  PROVE  IInv'
<1> DEFINE C == ClassesOf(m)
<1>1. course' = [j \in Courses |-> IF j \in {} THEN None ELSE course[j]]
  BY DEF DeleteModule, IInv, TypeOK
<1>2. {m} \in SUBSET Modules /\ C \in SUBSET Classes
  BY DEF ClassesOf
<1>3. \A c \in Classes : class[c].module \in {m} => c \in C
  BY DEF ClassesOf
<1>4. Cascade({m}, C) /\ Forget({m} \cup C) /\ UNCHANGED <<now, request>>
  BY DEF DeleteModule
<1> HIDE DEF C
<1>5. Forget({} \cup {m} \cup C)
  <2>1. {} \cup {m} \cup C = {m} \cup C
    OBVIOUS
  <2> QED
    BY <1>4, <2>1
<1>6. {} \in SUBSET Courses /\ \A n \in Modules : module[n].course \in {} => n \in {m}
  OBVIOUS
<1> QED
  BY <1>1, <1>2, <1>3, <1>4, <1>5, <1>6, CascadeStep

LEMMA DeleteClassStep ==
  ASSUME IInv, NEW c \in Classes, DeleteClass(c)
  PROVE  IInv'
<1>1. course' = [j \in Courses |-> IF j \in {} THEN None ELSE course[j]]
  BY DEF DeleteClass, IInv, TypeOK
<1>2. Cascade({}, {c}) /\ Forget({c}) /\ UNCHANGED <<now, request>>
  BY DEF DeleteClass
<1>3. Forget({} \cup {} \cup {c})
  <2>1. {} \cup {} \cup {c} = {c}
    OBVIOUS
  <2> QED
    BY <1>2, <2>1
<1>4. /\ {} \in SUBSET Courses /\ {} \in SUBSET Modules /\ {c} \in SUBSET Classes
      /\ \A n \in Modules : module[n].course \in {} => n \in {}
      /\ \A d \in Classes : class[d].module \in {} => d \in {c}
  OBVIOUS
<1> QED
  BY <1>1, <1>2, <1>3, <1>4, CascadeStep

-----------------------------------------------------------------------------
(* Rows that are written *)

\* A course is written: every request has ended, or is late if it is about it.
LEMMA CourseWritten ==
  ASSUME IInv, NEW k \in Courses, NEW s \in CourseStatus,
         course' = [course EXCEPT ![k] = s],
         asked' = [asked EXCEPT ![k] = s] \/ (asked' = asked /\ asked[k] = s),
         UNCHANGED <<now, module, class, overlapped>>,
         request' \in [Requests -> Request],
         \A q \in Requests :
           \/ request'[q] = Idle
           \/ Stays(q) /\ (request[q].pc = "edit course" /\ request[q].row = k =>
                             request'[q].late)
  PROVE  IInv'
<1>1. /\ course' \in [Courses -> CourseStatus \cup {None}] /\ course'[k] = s
      /\ \A j \in Courses \ {k} : course'[j] = course[j]
  BY DEF IInv, TypeOK
<1>2. /\ DOMAIN asked' = Courses \cup Classes /\ asked'[k] = s
      /\ \A j \in Courses \ {k} : asked'[j] = asked[j]
      /\ \A c \in Classes : asked'[c] = asked[c]
  <2>1. DOMAIN asked = Courses \cup Classes
    BY DEF IInv, TypeOK
  <2>2. k \notin Classes
    BY ScheduleAssumption
  <2>3. CASE asked' = [asked EXCEPT ![k] = s]
    BY <2>1, <2>2, <2>3
  <2>4. CASE asked' = asked /\ asked[k] = s
    BY <2>1, <2>4
  <2> QED
    BY <2>3, <2>4
<1>3. s # None
  BY ScheduleAssumption
<1>4. TypeOK'
  <2>1. \A j \in Courses : course[j] # None => course'[j] # None
    BY <1>1, <1>3
  <2>2. \A m \in Modules : module[m] # NoModule => course'[module[m].course] # None
    BY <2>1 DEF IInv, TypeOK, RowsAreWhole
  <2>3. \A j \in Courses : asked'[j] \in CourseStatus \cup {None}
    BY <1>2 DEF IInv, TypeOK
  <2>4. \A c \in Classes : asked'[c] \in Times \cup {None}
    BY <1>2 DEF IInv, TypeOK
  <2> QED
    BY <1>1, <1>2, <2>2, <2>3, <2>4 DEF IInv, TypeOK
<1>5. RowsAreWhole' /\ RunsForward'
  BY DEF IInv, RowsAreWhole, RunsForward, ClassDetails
<1>6. LossNeedsOverlap'
  <2>1. /\ \A j \in Courses : course[j] = asked[j]
        /\ \A c \in Classes : class[c].at = asked[c]
        /\ TitlesApart
    BY LossByRows DEF IInv
  <2>2. TitlesApart'
    BY <2>1 DEF TitlesApart
  <2>3. /\ \A j \in Courses : course'[j] = asked'[j]
        /\ \A c \in Classes : class'[c].at = asked'[c]
    BY <1>1, <1>2, <2>1
  <2> QED
    BY <2>2, <2>3 DEF LossNeedsOverlap, CourseById, Listed, Offered, ModuleById, TitlesApart
<1>7. ASSUME NEW q \in Requests
      PROVE  RequestIsSound(q)' /\ RequestKnows(q)'
  <2>1. CASE request'[q] = Idle
    BY <2>1, IdleKnows
  <2>2. CASE request'[q] # Idle
    <3>1. RequestIsSound(q) /\ RequestKnows(q)
      BY DEF IInv
    <3>2. Stays(q) /\ (request[q].pc = "edit course" /\ request[q].row = k => request'[q].late)
      BY <2>2
    <3>3. request[q].pc = "edit course" => request[q].row \in Courses
      BY <3>1 DEF RequestIsSound
    <3> QED
      BY <1>1, <3>1, <3>2, <3>3, KnowsStays
  <2> QED
    BY <2>1, <2>2
<1> QED
  BY <1>4, <1>5, <1>6, <1>7 DEF IInv

\* The requests about class c, which row is written to, know it or are late.
NotesLate(c, row) ==
  \A q \in Requests :
    \/ request'[q] = Idle
    \/ /\ Stays(q)
       /\ request[q].row = c =>
            /\ request[q].pc \in {"edit class", "end"} => class[c] # NoClass
            /\ request[q].pc = "edit class" => row.at = class[c].at \/ request'[q].late
            /\ request[q].pc = "start" => row.start = class[c].start \/ request'[q].late
            /\ request[q].pc = "end" /\ row.start = None => class[c].start = None

\* A class is written.
LEMMA ClassWritten ==
  ASSUME IInv, NEW c \in Classes, NEW row \in ModuleClass,
         class' = [class EXCEPT ![c] = row],
         row.module \in Modules, module[row.module] # NoModule, row.at \in Times,
         row.start # None => row.start <= now,
         row.end # None => row.start # None /\ (row.start <= row.end \/ c \in overlapped'),
         asked' = [asked EXCEPT ![c] = row.at] \/ (asked' = asked /\ asked[c] = row.at),
         overlapped' \in {overlapped, overlapped \cup {c}, overlapped \ {c}},
         UNCHANGED <<now, course, module>>,
         request' \in [Requests -> Request],
         NotesLate(c, row)
  PROVE  IInv'
<1>1. /\ class' \in [Classes -> ModuleClass] /\ class'[c] = row
      /\ \A d \in Classes \ {c} : class'[d] = class[d]
  BY DEF IInv, TypeOK
<1>2. /\ DOMAIN asked' = Courses \cup Classes /\ asked'[c] = row.at
      /\ \A d \in Classes \ {c} : asked'[d] = asked[d]
      /\ \A k \in Courses : asked'[k] = asked[k]
  <2>1. DOMAIN asked = Courses \cup Classes
    BY DEF IInv, TypeOK
  <2>2. c \notin Courses
    BY ScheduleAssumption
  <2>3. CASE asked' = [asked EXCEPT ![c] = row.at]
    BY <2>1, <2>2, <2>3
  <2>4. CASE asked' = asked /\ asked[c] = row.at
    BY <2>1, <2>4
  <2> QED
    BY <2>3, <2>4
<1>3. /\ overlapped' \subseteq Classes \cup Modules
      /\ \A d \in Classes \ {c} : d \in overlapped => d \in overlapped'
      /\ \A m \in Modules : m \in overlapped => m \in overlapped'
  BY ScheduleAssumption DEF IInv, TypeOK
<1>4. row.at # None
  BY ScheduleAssumption
<1>5. TypeOK'
  <2>1. \A d \in Classes : class'[d] # NoClass =>
          module[class'[d].module] # NoModule /\ class'[d].at # None
    BY <1>1, <1>4 DEF IInv, TypeOK
  <2>2. \A k \in Courses : asked'[k] \in CourseStatus \cup {None}
    BY <1>2 DEF IInv, TypeOK
  <2>3. \A d \in Classes : asked'[d] \in Times \cup {None}
    BY <1>2 DEF IInv, TypeOK
  <2> QED
    BY <1>1, <1>2, <1>3, <2>1, <2>2, <2>3 DEF IInv, TypeOK
<1>6. RowsAreWhole'
  BY <1>1 DEF IInv, RowsAreWhole
<1>7. RunsForward'
  BY <1>1, <1>3 DEF IInv, RunsForward, ClassDetails
<1>8. LossNeedsOverlap'
  <2>1. /\ \A j \in Courses : course[j] = asked[j]
        /\ \A d \in Classes : class[d].at = asked[d]
        /\ TitlesApart
    BY LossByRows DEF IInv
  <2>2. TitlesApart'
    <3> SUFFICES ASSUME NEW m \in Modules, NEW n \in Modules,
                        m # n, module[m] # NoModule, module[m] = module[n]
                 PROVE  {m, n} \cap overlapped' # {}
      BY DEF TitlesApart
    <3>1. m \in overlapped \/ n \in overlapped
      BY <2>1 DEF TitlesApart
    <3>2. m \in overlapped' \/ n \in overlapped'
      BY <1>3, <3>1
    <3> QED
      BY <3>2
  <2>3. /\ \A j \in Courses : course'[j] = asked'[j]
        /\ \A d \in Classes : class'[d].at = asked'[d]
    BY <1>1, <1>2, <2>1
  <2> QED
    BY <2>2, <2>3 DEF LossNeedsOverlap, CourseById, Listed, Offered, ModuleById, TitlesApart
<1>9. ASSUME NEW q \in Requests
      PROVE  RequestIsSound(q)' /\ RequestKnows(q)'
  <2> USE DEF NotesLate
  <2>1. CASE request'[q] = Idle
    BY <2>1, IdleKnows
  <2>2. CASE request'[q] # Idle
    <3>1. RequestIsSound(q) /\ RequestKnows(q)
      BY DEF IInv
    <3>2. Stays(q)
      BY <2>2
    <3>3. request[q].pc \in {"edit class", "start", "end"} => request[q].row \in Classes
      BY <3>1 DEF RequestIsSound
    <3>4. request[q].pc = "edit class" /\ class'[request[q].row] # NoClass =>
            /\ class[request[q].row] # NoClass
            /\ class'[request[q].row].at = class[request[q].row].at \/ request'[q].late
      BY <1>1, <2>2, <3>3
    <3>5. request[q].pc = "start" =>
            \/ request'[q].late
            \/ class'[request[q].row].start \in {class[request[q].row].start, None}
      BY <1>1, <2>2, <3>3
    <3>6. request[q].pc = "end" /\ class'[request[q].row] # NoClass =>
            /\ class[request[q].row] # NoClass
            /\ class'[request[q].row].start = None => class[request[q].row].start = None
      BY <1>1, <2>2, <3>3
    <3> QED
      BY <3>1, <3>2, <3>4, <3>5, <3>6, KnowsStays
  <2> QED
    BY <2>1, <2>2
<1> QED
  BY <1>5, <1>6, <1>7, <1>8, <1>9 DEF IInv

\* A module is written, under a title that was free unless the request was late.
LEMMA ModuleWritten ==
  ASSUME IInv, NEW m \in Modules, NEW row \in CourseModule,
         module' = [module EXCEPT ![m] = row],
         row.course \in Courses, course[row.course] # None, row.title \in Titles,
         \/ overlapped' = overlapped \cup {m}
         \/ overlapped' = overlapped \ {m} /\ TitleIsFree(row.course, row.title),
         UNCHANGED <<now, course, class, asked>>,
         request' \in [Requests -> Request],
         \A q \in Requests :
           \/ request'[q] = Idle
           \/ /\ Stays(q)
              /\ request[q].pc \in {"add module", "rename"} /\ request[q].course = row.course
                   /\ request[q].title = row.title => request'[q].late
              /\ request[q].pc = "rename" /\ request[q].row = m =>
                   module[m] # NoModule /\ row.course = module[m].course
  PROVE  IInv'
<1>1. /\ module' \in [Modules -> CourseModule] /\ module'[m] = row
      /\ \A n \in Modules \ {m} : module'[n] = module[n]
  BY DEF IInv, TypeOK
<1>2. /\ overlapped' \subseteq Classes \cup Modules
      /\ \A c \in Classes : c \in overlapped => c \in overlapped'
      /\ \A n \in Modules \ {m} : n \in overlapped => n \in overlapped'
  BY ScheduleAssumption DEF IInv, TypeOK
<1>3. row # NoModule
  BY ScheduleAssumption, NullRows
<1>4. TypeOK'
  <2>1. \A n \in Modules : module'[n] # NoModule => course[module'[n].course] # None
    BY <1>1 DEF IInv, TypeOK
  <2>2. \A c \in Classes : class[c] # NoClass =>
          module'[class[c].module] # NoModule /\ class[c].at # None
    BY <1>1, <1>3 DEF IInv, TypeOK, RowsAreWhole
  <2> QED
    BY <1>1, <1>2, <2>1, <2>2 DEF IInv, TypeOK
<1>5. RowsAreWhole'
  BY <1>1 DEF IInv, RowsAreWhole
<1>6. RunsForward'
  BY <1>2 DEF IInv, RunsForward, ClassDetails
<1>7. LossNeedsOverlap'
  <2>1. /\ \A j \in Courses : course[j] = asked[j]
        /\ \A d \in Classes : class[d].at = asked[d]
        /\ TitlesApart
    BY LossByRows DEF IInv
  <2>2. ASSUME NEW n \in Modules, n # m, module'[n] = row
        PROVE  m \in overlapped'
    <3>1. ~TitleIsFree(row.course, row.title)
      BY <1>1, <2>2 DEF TitleIsFree, ModulesOf
    <3> QED
      BY <3>1
  <2>3. TitlesApart'
    <3> SUFFICES ASSUME NEW n \in Modules, NEW o \in Modules,
                        n # o, module'[n] # NoModule, module'[n] = module'[o]
                 PROVE  {n, o} \cap overlapped' # {}
      BY DEF TitlesApart
    <3>1. CASE n = m
      BY <1>1, <2>2, <3>1
    <3>2. CASE o = m
      BY <1>1, <2>2, <3>2
    <3>3. CASE n # m /\ o # m
      <4>3. n # o /\ module[n] # NoModule /\ module[n] = module[o]
        BY <1>1, <3>3
      <4>1. n \in overlapped \/ o \in overlapped
        <5>1. {n, o} \cap overlapped # {}
          BY <2>1, <4>3 DEF TitlesApart
        <5> QED
          BY <5>1
      <4>2. n \in overlapped' \/ o \in overlapped'
        BY <1>2, <3>3, <4>1
      <4> QED
        BY <4>2
    <3> QED
      BY <3>1, <3>2, <3>3
  <2> QED
    BY <2>1, <2>3 DEF LossNeedsOverlap, CourseById, Listed, Offered, ModuleById, TitlesApart
<1>8. ASSUME NEW q \in Requests
      PROVE  RequestIsSound(q)' /\ RequestKnows(q)'
  <2>1. CASE request'[q] = Idle
    BY <2>1, IdleKnows
  <2>2. CASE request'[q] # Idle
    <3>1. RequestIsSound(q) /\ RequestKnows(q)
      BY DEF IInv
    <3>2. Stays(q)
      BY <2>2
    <3>3. request[q].pc = "rename" => request[q].row \in Modules
      BY <3>1 DEF RequestIsSound
    <3>4. request[q].pc = "rename" /\ module'[request[q].row] # NoModule =>
            /\ module[request[q].row] # NoModule
            /\ module'[request[q].row].course = module[request[q].row].course
      BY <1>1, <2>2, <3>3
    <3>5. request[q].pc \in {"add module", "rename"} =>
            \/ request'[q].late
            \/ \A n \in Modules :
                 module'[n].course = request[q].course /\ module'[n].title = request[q].title =>
                   module[n].course = request[q].course /\ module[n].title = request[q].title
      BY <1>1, <2>2
    <3> QED
      BY <3>1, <3>2, <3>4, <3>5, KnowsStays
  <2> QED
    BY <2>1, <2>2
<1> QED
  BY <1>4, <1>5, <1>6, <1>7, <1>8 DEF IInv

-----------------------------------------------------------------------------
(* Requests that write *)

LEMMA CreateCourseStep ==
  ASSUME IInv, NEW k \in Courses, NEW s \in NewStatuses, CreateCourse(k, s)
  PROVE  IInv'
<1>1. /\ course' = [course EXCEPT ![k] = s] /\ asked' = [asked EXCEPT ![k] = s]
      /\ UNCHANGED <<now, module, class, request, overlapped>>
  BY DEF CreateCourse
<1>2. s \in CourseStatus
  BY ScheduleAssumption
<1>3. request' \in [Requests -> Request]
  BY <1>1 DEF IInv, TypeOK
<1>4. \A q \in Requests : Stays(q) /\ request[q].row # k
  BY <1>1 DEF CreateCourse, IsNew, Stays
<1> QED
  BY <1>1, <1>2, <1>3, <1>4, CourseWritten

LEMMA WriteCourseStep ==
  ASSUME IInv, NEW r \in Requests, WriteCourse(r)
  PROVE  IInv'
<1> DEFINE k == request[r].row
           s == request[r].status
<1>1. /\ request[r].pc = "edit course" /\ course[k] # None
      /\ course' = [course EXCEPT ![k] = s] /\ Asked(r, s) /\ Release(r, Rivals(r))
      /\ UNCHANGED <<now, module, class, overlapped>>
  BY DEF WriteCourse
<1>2. RequestIsSound(r) /\ RequestKnows(r) /\ TypeOK
  BY DEF IInv
<1>3. k \in Courses /\ s \in CourseStatus
  BY <1>1, <1>2 DEF RequestIsSound, TypeOK, Request
<1>4. asked[k] = course[k]
  BY <1>3, LossByRows DEF IInv
<1>5. asked' = [asked EXCEPT ![k] = s] \/ (asked' = asked /\ asked[k] = s)
  BY <1>1, <1>2, <1>4 DEF Asked, RequestKnows
<1>6. /\ request' \in [Requests -> Request] /\ request'[r] = Idle
      /\ \A q \in Requests \ {r} : Stays(q) /\ (q \in Rivals(r) => request'[q].late)
  BY <1>1, <1>2, Released
<1>7. \A q \in Requests \ {r} :
        request[q].pc = "edit course" /\ request[q].row = k => q \in Rivals(r)
  BY <1>1 DEF Rivals
<1>8. \A q \in Requests :
        \/ request'[q] = Idle
        \/ Stays(q) /\ (request[q].pc = "edit course" /\ request[q].row = k => request'[q].late)
  BY <1>6, <1>7
<1> QED
  BY <1>1, <1>3, <1>5, <1>6, <1>8, CourseWritten

LEMMA AddClassStep ==
  ASSUME IInv, NEW m \in Modules, NEW c \in Classes, NEW t \in Times, AddClass(m, c, t)
  PROVE  IInv'
<1> DEFINE row == [NoClass EXCEPT !.module = m, !.at = t]
<1>1. /\ module[m] # NoModule /\ class' = [class EXCEPT ![c] = row]
      /\ asked' = [asked EXCEPT ![c] = t]
      /\ UNCHANGED <<now, course, module, request, overlapped>>
  BY DEF AddClass
<1>2. /\ row \in ModuleClass /\ row.module = m /\ row.at = t
      /\ row.start = None /\ row.end = None
  BY DEF NoClass, ModuleClass
<1> HIDE DEF row
<1>3. request' \in [Requests -> Request]
  BY <1>1 DEF IInv, TypeOK
<1>4. \A q \in Requests : Stays(q) /\ request[q].row # c
  BY <1>1 DEF AddClass, IsNew, Stays
<1>5. NotesLate(c, row)
  BY <1>4 DEF NotesLate
<1> QED
  BY <1>1, <1>2, <1>3, <1>5, ClassWritten

\* What is written to a class that is there.
LEMMA RowOfClass ==
  ASSUME IInv, NEW c \in Classes, class[c] # NoClass
  PROVE  /\ class[c] \in ModuleClass
         /\ class[c].module \in Modules /\ module[class[c].module] # NoModule
         /\ class[c].at \in Times /\ asked[c] = class[c].at
         /\ class[c].start # None => class[c].start <= now
         /\ class[c].end # None =>
              class[c].start # None /\ (class[c].start <= class[c].end \/ c \in overlapped)
BY LossByRows DEF IInv, TypeOK, RowsAreWhole, RunsForward, ClassDetails

\* The row of a class in which one time is written.
LEMMA PlannedRow ==
  ASSUME NEW old \in ModuleClass, NEW t \in Times, NEW row, row = [old EXCEPT !.at = t]
  PROVE  /\ row \in ModuleClass /\ row.at = t
         /\ row.module = old.module /\ row.start = old.start /\ row.end = old.end
<1>1. row \in ModuleClass
  BY DEF ModuleClass
<1> QED
  BY <1>1 DEF ModuleClass

LEMMA StartedRow ==
  ASSUME NEW old \in ModuleClass, NEW t \in Times, NEW row, row = [old EXCEPT !.start = t]
  PROVE  /\ row \in ModuleClass /\ row.start = t
         /\ row.module = old.module /\ row.at = old.at /\ row.end = old.end
<1>1. row \in ModuleClass
  BY DEF ModuleClass
<1> QED
  BY <1>1 DEF ModuleClass

LEMMA EndedRow ==
  ASSUME NEW old \in ModuleClass, NEW t \in Times, NEW row, row = [old EXCEPT !.end = t]
  PROVE  /\ row \in ModuleClass /\ row.end = t
         /\ row.module = old.module /\ row.at = old.at /\ row.start = old.start
<1>1. row \in ModuleClass
  BY DEF ModuleClass
<1> QED
  BY <1>1 DEF ModuleClass

LEMMA WriteClassStep ==
  ASSUME IInv, NEW r \in Requests, WriteClass(r)
  PROVE  IInv'
<1> DEFINE c == request[r].row
           t == request[r].at
           row == [class[c] EXCEPT !.at = t]
<1>1. /\ request[r].pc = "edit class" /\ class[c] # NoClass
      /\ class' = [class EXCEPT ![c] = row] /\ Asked(r, t) /\ Release(r, Rivals(r))
      /\ UNCHANGED <<now, course, module, overlapped>>
  BY DEF WriteClass
<1>2. RequestIsSound(r) /\ RequestKnows(r) /\ TypeOK
  BY DEF IInv
<1>3. c \in Classes /\ t \in Times
  BY <1>1, <1>2 DEF RequestIsSound
<1>4. /\ row \in ModuleClass /\ row.module = class[c].module /\ row.at = t
      /\ row.start = class[c].start /\ row.end = class[c].end
  <2>1. class[c] \in ModuleClass
    BY <1>1, <1>3, RowOfClass
  <2> QED
    BY <1>3, <2>1, PlannedRow
<1> HIDE DEF row
<1>5. asked' = [asked EXCEPT ![c] = t] \/ (asked' = asked /\ asked[c] = t)
  BY <1>1, <1>2, <1>3, RowOfClass DEF Asked, RequestKnows
<1>6. /\ request' \in [Requests -> Request] /\ request'[r] = Idle
      /\ \A q \in Requests \ {r} : Stays(q) /\ (q \in Rivals(r) => request'[q].late)
  BY <1>1, <1>2, Released
<1>7. \A q \in Requests \ {r} :
        request[q].pc = "edit class" /\ request[q].row = c => q \in Rivals(r)
  BY <1>1 DEF Rivals
<1>8. \A q \in Requests :
        \/ request'[q] = Idle
        \/ Stays(q) /\ (request[q].pc = "edit class" /\ request[q].row = c => request'[q].late)
  BY <1>6, <1>7
<1>9. /\ row.module \in Modules /\ module[row.module] # NoModule /\ row.at \in Times
      /\ row.start # None => row.start <= now
      /\ row.end # None => row.start # None /\ (row.start <= row.end \/ c \in overlapped')
  BY <1>1, <1>3, <1>4, RowOfClass
<1>10. NotesLate(c, row)
  BY <1>1, <1>4, <1>8 DEF NotesLate
<1>11. asked' = [asked EXCEPT ![c] = row.at] \/ (asked' = asked /\ asked[c] = row.at)
  BY <1>4, <1>5
<1>12. overlapped' \in {overlapped, overlapped \cup {c}, overlapped \ {c}}
  BY <1>1
<1>13. row \in ModuleClass /\ class' = [class EXCEPT ![c] = row]
      /\ UNCHANGED <<now, course, module>>
  BY <1>1, <1>4
<1> HIDE DEF c
<1> QED
  BY <1>3, <1>6, <1>9, <1>10, <1>11, <1>12, <1>13, ClassWritten

\* A class that is started for the first time has not ended.
LEMMA StartClassStep ==
  ASSUME IInv, NEW r \in Requests, StartClass(r)
  PROVE  IInv'
<1> DEFINE c == request[r].row
           row == [class[c] EXCEPT !.start = now]
<1>1. /\ request[r].pc = "start" /\ class[c] # NoClass
      /\ class' = [class EXCEPT ![c] = row] /\ Release(r, Rivals(r))
      /\ overlapped' = IF request[r].late THEN overlapped \cup {c} ELSE overlapped
      /\ UNCHANGED <<now, course, module, asked>>
  BY DEF StartClass
<1>2. RequestIsSound(r) /\ RequestKnows(r) /\ TypeOK
  BY DEF IInv
<1>3. c \in Classes /\ now \in Times /\ now # None /\ now <= now
  BY <1>1, <1>2, ScheduleAssumption DEF RequestIsSound, TypeOK, Times
<1>4. /\ row \in ModuleClass /\ row.module = class[c].module /\ row.at = class[c].at
      /\ row.start = now /\ row.end = class[c].end
  <2>1. class[c] \in ModuleClass
    BY <1>1, <1>3, RowOfClass
  <2> QED
    BY <1>3, <2>1, StartedRow
<1> HIDE DEF row
<1>5. row.end # None => c \in overlapped'
  <2>1. ASSUME row.end # None
        PROVE  request[r].late
    <3>1. class[c].start # None
      BY <1>1, <1>3, <1>4, <2>1, RowOfClass
    <3> QED
      BY <1>1, <1>2, <3>1 DEF RequestKnows
  <2> QED
    BY <1>1, <2>1
<1>6. /\ request' \in [Requests -> Request] /\ request'[r] = Idle
      /\ \A q \in Requests \ {r} : Stays(q) /\ (q \in Rivals(r) => request'[q].late)
  BY <1>1, <1>2, Released
<1>7. \A q \in Requests \ {r} :
        request[q].pc = "start" /\ request[q].row = c => q \in Rivals(r)
  BY <1>1 DEF Rivals
<1>8. \A q \in Requests :
        \/ request'[q] = Idle
        \/ Stays(q) /\ (request[q].pc = "start" /\ request[q].row = c => request'[q].late)
  BY <1>6, <1>7
<1>9. overlapped' \in {overlapped, overlapped \cup {c}, overlapped \ {c}}
  BY <1>1
<1>10. /\ row.module \in Modules /\ module[row.module] # NoModule /\ row.at \in Times
       /\ row.start # None => row.start <= now
       /\ row.end # None => row.start # None /\ (row.start <= row.end \/ c \in overlapped')
  BY <1>1, <1>3, <1>4, <1>5, RowOfClass
<1>11. NotesLate(c, row)
  BY <1>1, <1>3, <1>4, <1>8 DEF NotesLate
<1>12. asked' = [asked EXCEPT ![c] = row.at] \/ (asked' = asked /\ asked[c] = row.at)
  BY <1>1, <1>3, <1>4, RowOfClass
<1> QED
  BY <1>1, <1>3, <1>4, <1>6, <1>9, <1>10, <1>11, <1>12, ClassWritten

LEMMA EndClassStep ==
  ASSUME IInv, NEW r \in Requests, EndClass(r)
  PROVE  IInv'
<1> DEFINE c == request[r].row
           row == [class[c] EXCEPT !.end = now]
<1>1. /\ request[r].pc = "end" /\ class[c] # NoClass
      /\ class' = [class EXCEPT ![c] = row] /\ Release(r, Rivals(r))
      /\ overlapped' = overlapped \ {c}
      /\ UNCHANGED <<now, course, module, asked>>
  BY DEF EndClass
<1>2. RequestIsSound(r) /\ RequestKnows(r) /\ TypeOK
  BY DEF IInv
<1>3. c \in Classes /\ now \in Times
  BY <1>1, <1>2 DEF RequestIsSound, TypeOK
<1>4. /\ row \in ModuleClass /\ row.module = class[c].module /\ row.at = class[c].at
      /\ row.start = class[c].start /\ row.end = now
  <2>1. class[c] \in ModuleClass
    BY <1>1, <1>3, RowOfClass
  <2> QED
    BY <1>3, <2>1, EndedRow
<1> HIDE DEF row
<1>5. row.start # None /\ row.start <= row.end
  <2>1. class[c].start # None
    BY <1>1, <1>2 DEF RequestKnows
  <2> QED
    BY <1>1, <1>3, <1>4, <2>1, RowOfClass
<1>6. /\ request' \in [Requests -> Request] /\ request'[r] = Idle
      /\ \A q \in Requests \ {r} : Stays(q)
  BY <1>1, <1>2, Released
<1>7. overlapped' \in {overlapped, overlapped \cup {c}, overlapped \ {c}}
  BY <1>1
<1>8. /\ row.module \in Modules /\ module[row.module] # NoModule /\ row.at \in Times
      /\ row.start # None => row.start <= now
      /\ row.end # None => row.start # None /\ (row.start <= row.end \/ c \in overlapped')
  BY <1>1, <1>3, <1>4, <1>5, RowOfClass
<1>9. NotesLate(c, row)
  BY <1>1, <1>4, <1>6 DEF NotesLate
<1>10. asked[c] = row.at
  BY <1>1, <1>3, <1>4, RowOfClass
<1> QED
  BY <1>1, <1>3, <1>4, <1>6, <1>7, <1>8, <1>9, <1>10, ClassWritten

\* Who takes a title notes the others that found it free.
LEMMA TitleTaken ==
  ASSUME IInv, NEW r \in Requests, NEW m \in Modules, TakeTitle(r, m)
  PROVE  /\ request' \in [Requests -> Request] /\ request'[r] = Idle
         /\ \A q \in Requests \ {r} :
              /\ Stays(q)
              /\ request[q].pc \in {"add module", "rename"}
                   /\ request[q].course = request[r].course
                   /\ request[q].title = request[r].title => request'[q].late
<1> DEFINE S == {q \in Requests \ {r} :
                   /\ request[q].pc \in {"add module", "rename"}
                   /\ request[q].course = request[r].course
                   /\ request[q].title = request[r].title}
<1>1. Release(r, S) /\ TypeOK
  BY DEF TakeTitle, IInv
<1>2. \A q \in Requests \ {r} :
        request[q].pc \in {"add module", "rename"} /\ request[q].course = request[r].course
          /\ request[q].title = request[r].title => q \in S
  OBVIOUS
<1> HIDE DEF S
<1>3. /\ request' \in [Requests -> Request] /\ request'[r] = Idle
      /\ \A q \in Requests \ {r} : Stays(q) /\ (q \in S => request'[q].late)
  BY <1>1, Released
<1> QED
  BY <1>2, <1>3

LEMMA AddModuleStep ==
  ASSUME IInv, NEW r \in Requests, NEW m \in Modules, AddModule(r, m)
  PROVE  IInv'
<1> DEFINE k == request[r].row
           t == request[r].title
           row == [course |-> k, title |-> t]
<1>1. /\ request[r].pc = "add module" /\ course[k] # None /\ IsNew(m)
      /\ module' = [module EXCEPT ![m] = row] /\ TakeTitle(r, m)
      /\ UNCHANGED <<now, course, class, asked>>
  BY DEF AddModule
<1>2. RequestIsSound(r) /\ RequestKnows(r)
  BY DEF IInv
<1>3. k \in Courses /\ t \in Titles /\ request[r].course = k
  BY <1>1, <1>2 DEF RequestIsSound
<1>4. row \in CourseModule /\ row.course = k /\ row.title = t
  BY <1>3 DEF CourseModule
<1> HIDE DEF row
<1>5. \/ overlapped' = overlapped \cup {m}
      \/ overlapped' = overlapped \ {m} /\ TitleIsFree(k, t)
  BY <1>1, <1>2, <1>3 DEF TakeTitle, RequestKnows
<1>6. /\ request' \in [Requests -> Request]
      /\ \A q \in Requests :
           \/ request'[q] = Idle
           \/ /\ Stays(q)
              /\ request[q].pc \in {"add module", "rename"} /\ request[q].course = k
                   /\ request[q].title = t => request'[q].late
              /\ request[q].row # m
  BY <1>1, <1>3, TitleTaken DEF IsNew
<1>7. \A q \in Requests :
        \/ request'[q] = Idle
        \/ /\ Stays(q)
           /\ request[q].pc \in {"add module", "rename"} /\ request[q].course = row.course
                /\ request[q].title = row.title => request'[q].late
           /\ request[q].pc = "rename" /\ request[q].row = m =>
                module[m] # NoModule /\ row.course = module[m].course
  BY <1>4, <1>6
<1>8. /\ row.course \in Courses /\ course[row.course] # None /\ row.title \in Titles
      /\ \/ overlapped' = overlapped \cup {m}
         \/ overlapped' = overlapped \ {m} /\ TitleIsFree(row.course, row.title)
  BY <1>1, <1>3, <1>4, <1>5
<1> QED
  BY <1>1, <1>4, <1>6, <1>7, <1>8, ModuleWritten

LEMMA RenameStep ==
  ASSUME IInv, NEW r \in Requests, Rename(r)
  PROVE  IInv'
<1> DEFINE m == request[r].row
           t == request[r].title
           k == request[r].course
           row == [module[m] EXCEPT !.title = t]
<1>1. /\ request[r].pc = "rename" /\ module[m] # NoModule
      /\ module' = [module EXCEPT ![m] = row] /\ TakeTitle(r, m)
      /\ UNCHANGED <<now, course, class, asked>>
  BY DEF Rename
<1>2. RequestIsSound(r) /\ RequestKnows(r) /\ TypeOK
  BY DEF IInv
<1>3. m \in Modules /\ k \in Courses /\ t \in Titles /\ module[m].course = k
  BY <1>1, <1>2 DEF RequestIsSound, RequestKnows
<1>4. course[k] # None
  BY <1>1, <1>2, <1>3 DEF TypeOK
<1>5. row \in CourseModule /\ row.course = k /\ row.title = t
  BY <1>2, <1>3 DEF TypeOK, CourseModule
<1> HIDE DEF row
<1>6. \/ overlapped' = overlapped \cup {m}
      \/ overlapped' = overlapped \ {m} /\ TitleIsFree(k, t)
  BY <1>1, <1>2 DEF TakeTitle, RequestKnows
<1>7. /\ request' \in [Requests -> Request]
      /\ \A q \in Requests :
           \/ request'[q] = Idle
           \/ /\ Stays(q)
              /\ request[q].pc \in {"add module", "rename"} /\ request[q].course = k
                   /\ request[q].title = t => request'[q].late
  BY <1>1, <1>3, TitleTaken
<1>8. \A q \in Requests :
        \/ request'[q] = Idle
        \/ /\ Stays(q)
           /\ request[q].pc \in {"add module", "rename"} /\ request[q].course = row.course
                /\ request[q].title = row.title => request'[q].late
           /\ request[q].pc = "rename" /\ request[q].row = m =>
                module[m] # NoModule /\ row.course = module[m].course
  BY <1>1, <1>3, <1>5, <1>7
<1>9. /\ row.course \in Courses /\ course[row.course] # None /\ row.title \in Titles
      /\ \/ overlapped' = overlapped \cup {m}
         \/ overlapped' = overlapped \ {m} /\ TitleIsFree(row.course, row.title)
  BY <1>3, <1>4, <1>5, <1>6
<1> QED
  BY <1>1, <1>3, <1>5, <1>7, <1>8, <1>9, ModuleWritten

-----------------------------------------------------------------------------
(* The invariant *)

LEMMA NextStep ==
  ASSUME IInv, Next
  PROVE  IInv'
<1>1. CASE Tick
  BY <1>1, TickStep
<1>2. CASE CourseStep
  BY <1>2, DeleteCourseStep, CreateCourseStep, ReadCourseStep, FindTitleStep DEF CourseStep
<1>3. CASE ModuleStep
  BY <1>3, DeleteModuleStep, AddModuleStep, FindRenameStep, AddClassStep DEF ModuleStep
<1>4. CASE ClassStep
  BY <1>4, DeleteClassStep, ReadClassStep, ReadStartStep, ReadEndStep DEF ClassStep
<1>5. CASE RequestStep
  BY <1>5, WriteCourseStep, RenameStep, WriteClassStep, StartClassStep, EndClassStep, AbortStep
  DEF RequestStep
<1> QED
  BY <1>1, <1>2, <1>3, <1>4, <1>5 DEF Next

LEMMA StutterStep ==
  ASSUME IInv, UNCHANGED vars
  PROVE  IInv'
<1>1. /\ now' = now /\ course' = course /\ module' = module /\ class' = class
      /\ request' = request /\ asked' = asked /\ overlapped' = overlapped
  BY DEF vars
<1>2. TypeOK' /\ RowsAreWhole'
  BY <1>1 DEF IInv, TypeOK, RowsAreWhole
<1>3. LossNeedsOverlap' /\ RunsForward'
  BY <1>1 DEF IInv, LossNeedsOverlap, RunsForward, ClassDetails, CourseById, Listed, Offered,
    ModuleById
<1>4. ASSUME NEW q \in Requests
      PROVE  RequestIsSound(q)' /\ RequestKnows(q)'
  BY <1>1, KnowsStays DEF IInv, Stays
<1> QED
  BY <1>2, <1>3, <1>4 DEF IInv

LEMMA InitIInv == Init => IInv
<1> SUFFICES ASSUME Init PROVE IInv
  OBVIOUS
<1>1. /\ now = 0 /\ overlapped = {}
      /\ \A k \in Courses : course[k] = None /\ asked[k] = None
      /\ \A m \in Modules : module[m] = NoModule
      /\ \A c \in Classes : class[c] = NoClass /\ asked[c] = None
      /\ \A r \in Requests : request[r] = Idle
  BY DEF Init
<1>2. TypeOK
  <2>1. 0 \in Times
    BY ScheduleAssumption DEF Times
  <2> QED
    BY <1>1, <2>1, NullRows, IdleIsARequest DEF Init, TypeOK
<1>3. RowsAreWhole /\ RunsForward
  BY <1>1, NullRows DEF RowsAreWhole, RunsForward, ClassDetails
<1>4. LossNeedsOverlap
  BY <1>1, NullRows, LossByRows DEF TitlesApart
<1>5. \A r \in Requests : RequestIsSound(r) /\ RequestKnows(r)
  BY <1>1, IdleIsARequest DEF RequestIsSound, RequestKnows
<1> QED
  BY <1>2, <1>3, <1>4, <1>5 DEF IInv

\* The invariant holds: what every request of the staff knows of the rows it will
\* write (courses.service.ts), or that it is late.
THEOREM Invariance == Spec => []IInv
<1>1. IInv /\ [Next]_vars => IInv'
  BY NextStep, StutterStep
<1> QED
  BY <1>1, InitIInv, PTL DEF Spec

\* Every row of courses, modules and classes has its shape, and none outlives the
\* row it belongs to (onDelete: Cascade), in whatever order rows come and go.
THEOREM TypeCorrectness == Spec => []TypeOK
<1>1. IInv => TypeOK
  BY DEF IInv
<1> QED
  BY <1>1, Invariance, PTL

\* A status or planned time asked for in an edit of a course or class is lost only
\* to an edit that had read it before, and a title is taken twice in a course only
\* by modules one of which took it late (updateCourse, updateClass, addModule).
THEOREM LossNeedsOverlapHolds == Spec => []LossNeedsOverlap
<1>1. IInv => LossNeedsOverlap
  BY DEF IInv
<1> QED
  BY <1>1, Invariance, PTL

\* A class shown as ended was started, and before its end unless it was started by
\* two requests at once (startClass, endClass, getClassDetails).
THEOREM RunsForwardHolds == Spec => []RunsForward
<1>1. IInv => RunsForward
  BY DEF IInv
<1> QED
  BY <1>1, Invariance, PTL

-----------------------------------------------------------------------------
(* The timetables *)

\* A class a student is shown as one to come has not been started.
LEMMA ToCome ==
  ASSUME IInv, NEW c \in Classes, class[c] # NoClass
  PROVE  /\ class[c].at \in Times /\ now \in Times
         /\ class[c].start # None => class[c].start \in Times /\ class[c].start <= now
         /\ ~IsOver(c) /\ ~IsOngoing(c) /\ StartTime(c) > now <=>
              class[c].start = None /\ class[c].at > now
         /\ class[c].start = None /\ class[c].at > now => class[c].end = None /\ ~IsOver(c)
<1>1. /\ class[c].at \in Times /\ now \in Times
      /\ class[c].start # None => class[c].start \in Times /\ class[c].start <= now
      /\ class[c].end # None => class[c].start # None
  BY DEF IInv, TypeOK, ModuleClass, RowsAreWhole, RunsForward, ClassDetails
<1>2. CASE class[c].start # None
  <2>1. StartTime(c) = class[c].start /\ ~(StartTime(c) > now)
    BY <1>1, <1>2, ScheduleAssumption DEF StartTime, Times
  <2> QED
    BY <1>1, <1>2, <2>1
<1>3. CASE class[c].start = None
  <2>1. StartTime(c) = class[c].at /\ EndTime(c) = class[c].at + Duration
    BY <1>1, <1>3 DEF StartTime, EndTime
  <2>2. class[c].at > now => ~(class[c].at + Duration < now) /\ ~(class[c].at <= now)
    BY <1>1, ScheduleAssumption DEF Times
  <2> QED
    BY <1>1, <1>3, <2>1, <2>2 DEF IsOver, IsOngoing
<1> QED
  BY <1>2, <1>3

\* The classes shown as NEXT to the students are the first ones not started.
LEMMA NextIsFirst ==
  ASSUME IInv, NEW m \in Modules
  PROVE  /\ \A c \in ClassesOf(m) : c \in Classes /\ class[c] # NoClass /\ class[c].module = m
         /\ StudentNext(m) =
              Earliest({c \in ClassesOf(m) : class[c].start = None /\ class[c].at > now})
<1>1. \A c \in ClassesOf(m) : c \in Classes /\ class[c] # NoClass /\ class[c].module = m
  BY NullRows, ScheduleAssumption DEF ClassesOf
<1>2. {c \in ClassesOf(m) : ~IsOver(c) /\ ~IsOngoing(c) /\ StartTime(c) > now} =
        {c \in ClassesOf(m) : class[c].start = None /\ class[c].at > now}
  BY <1>1, ToCome
<1> QED
  BY <1>1, <1>2 DEF StudentNext

LEMMA ClassesOfCourse ==
  ASSUME IInv, NEW k \in Courses, NEW c \in ClassesIn(k)
  PROVE  /\ c \in Classes /\ class[c] # NoClass /\ class[c].module \in Modules
         /\ class[c].module \in ModulesOf(k) /\ c \in ClassesOf(class[c].module)
<1>1. PICK m \in ModulesOf(k) : c \in ClassesOf(m)
  BY DEF ClassesIn
<1>2. m \in Modules
  BY DEF ModulesOf
<1> QED
  BY <1>1, <1>2, NextIsFirst

LEMMA CourseTimetables ==
  ASSUME IInv, NEW k \in Courses
  PROVE  /\ OverviewNext(k) = {}
         /\ \A c \in NextClass(k) : class[c].start = None => c \in StudentNext(class[c].module)
         /\ \A m \in ModulesOf(k) :
              (\A c \in Planned(ClassesOf(m)) : class[c].start = None) =>
                 StudentNext(m) = {c \in ClassesOf(m) : ClassStatus(c) = "NEXT"}
<1>1. \A m \in ModulesOf(k) : m \in Modules
  BY DEF ModulesOf
<1>2. \A c \in ClassesIn(k) :
        /\ c \in Classes /\ class[c] # NoClass
        /\ class[c].module \in ModulesOf(k) /\ c \in ClassesOf(class[c].module)
  BY ClassesOfCourse
<1>3. OverviewNext(k) = {}
  <2> SUFFICES ASSUME NEW c \in ClassesIn(k), class[c].start # None, class[c].start > now
               PROVE  FALSE
    BY DEF OverviewNext
  <2>1. class[c].start \in Times /\ class[c].start <= now /\ now \in Times
    BY <1>2, ToCome
  <2> QED
    BY <2>1, ScheduleAssumption DEF Times
<1>4. ASSUME NEW c \in NextClass(k), class[c].start = None
      PROVE  c \in StudentNext(class[c].module)
  <2>1. /\ c \in ClassesIn(k) /\ class[c].at > now
        /\ \A d \in ClassesIn(k) : class[d].at > now /\ class[d].end = None =>
             class[c].at <= class[d].at
    BY DEF NextClass, Earliest, Planned
  <2>2. PICK m \in ModulesOf(k) : class[c].module = m /\ c \in ClassesOf(m)
    BY <1>2, <2>1
  <2>3. ASSUME NEW d \in ClassesOf(m), class[d].start = None, class[d].at > now
        PROVE  class[c].at <= class[d].at
    <3>1. d \in ClassesIn(k)
      BY DEF ClassesIn
    <3>2. class[d].end = None
      BY <1>2, <2>3, <3>1, ToCome
    <3> QED
      BY <2>1, <2>3, <3>1, <3>2
  <2> QED
    BY <1>1, <1>4, <2>1, <2>2, <2>3, NextIsFirst DEF Earliest
<1>5. ASSUME NEW m \in ModulesOf(k), \A c \in Planned(ClassesOf(m)) : class[c].start = None
      PROVE  StudentNext(m) = {c \in ClassesOf(m) : ClassStatus(c) = "NEXT"}
  <2>1. {c \in ClassesOf(m) : class[c].start = None /\ class[c].at > now} =
          Planned(ClassesOf(m))
    BY <1>5 DEF Planned
  <2>2. StudentNext(m) = Earliest(Planned(ClassesOf(m)))
    BY <1>1, <2>1, NextIsFirst
  <2>3. \A c \in Earliest(Planned(ClassesOf(m))) : c \in ClassesOf(m) /\ ~IsOver(c)
    BY <1>1, <2>1, NextIsFirst, ToCome DEF Earliest
  <2>4. \A c \in ClassesOf(m) : ClassStatus(c) = "NEXT" <=> c \in StaffNext(m)
    BY <1>1, NextIsFirst DEF ClassStatus, StaffNext
  <2>5. StaffNext(m) = Earliest(Planned(ClassesOf(m)))
    BY <2>3 DEF StaffNext
  <2> QED
    BY <2>2, <2>3, <2>4, <2>5
<1> QED
  BY <1>3, <1>4, <1>5

LEMMA OverviewTimetable ==
  ASSUME IInv, NEW c \in OverviewClass, class[c].start = None
  PROVE  /\ c \in StudentNext(class[c].module)
         /\ \A k \in Offered : \A d \in ClassesIn(k) : class[d].start # None => ~IsOngoing(d)
<1> DEFINE ongoing == {d \in StartedClasses : class[d].end = None \/ class[d].end >= now}
<1>1. \A S : \A d \in LastStarted(S) : d \in S
  BY DEF LastStarted
<1>2. c \notin ongoing /\ c \notin StartedClasses
  BY DEF StartedClasses
<1>3. ongoing = {} /\ c \in Earliest(NotStarted)
  BY <1>1, <1>2 DEF OverviewClass
<1>4. \A k \in Offered : \A d \in ClassesIn(k) :
        /\ d \in Classes /\ class[d] # NoClass /\ d \in MyClasses
        /\ class[d].module \in Modules /\ class[d].module \in ModulesOf(k)
        /\ d \in ClassesOf(class[d].module)
  BY ClassesOfCourse DEF MyClasses, Offered
<1>5. PICK k \in Offered : c \in ClassesIn(k)
  BY <1>3 DEF Earliest, NotStarted, Planned, MyClasses
<1>6. PICK m \in Modules : class[c].module = m /\ m \in ModulesOf(k) /\ c \in ClassesOf(m)
  BY <1>4, <1>5
<1>7. class[c].at > now /\ \A d \in NotStarted : class[c].at <= class[d].at
  BY <1>3 DEF Earliest, NotStarted, Planned
<1>8. c \in StudentNext(class[c].module)
  <2>1. ASSUME NEW d \in ClassesOf(m), class[d].start = None, class[d].at > now
        PROVE  class[c].at <= class[d].at
    <3>1. d \in ClassesIn(k)
      BY <1>6 DEF ClassesIn
    <3>2. d \in NotStarted
      BY <1>4, <2>1, <3>1 DEF NotStarted, Planned
    <3> QED
      BY <1>7, <3>2
  <2> QED
    BY <1>6, <1>7, <2>1, NextIsFirst DEF Earliest
<1>9. ASSUME NEW j \in Offered, NEW d \in ClassesIn(j), class[d].start # None
      PROVE  ~IsOngoing(d)
  <2>1. d \in StartedClasses /\ now \in Times
    BY <1>4, <1>9, ToCome DEF StartedClasses
  <2>2. class[d].end # None /\ ~(class[d].end >= now)
    BY <1>3, <2>1
  <2>3. class[d].end \in Times
    BY <1>4, <1>9, <2>2 DEF IInv, TypeOK, ModuleClass
  <2> QED
    BY <2>1, <2>2, <2>3, ScheduleAssumption DEF IsOngoing, EndTime, Times
<1> QED
  BY <1>8, <1>9

\* The five timetables agree on the class that is next: the page of the course, the
\* modules as the student and the staff see them, their overview and the first page
\* (course.service.ts and courses.service.ts).
THEOREM TimetablesAgreeHolds == Spec => []TimetablesAgree
<1>1. IInv => TimetablesAgree
  BY CourseTimetables, OverviewTimetable DEF TimetablesAgree
<1> QED
  BY <1>1, Invariance, PTL
=============================================================================
