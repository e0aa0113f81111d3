---------------------------- MODULE ClassSchedule ----------------------------
(***************************************************************************)
(* Courses, their modules and classes, and the timetables shown of them:   *)
(* the staff's side in admin/course/courses.service.ts, the student's in   *)
(* application/course/course.service.ts.                                   *)
(*                                                                         *)
(* An edit reads the row, fills in from it what the request leaves out and *)
(* writes all of it back: reading and writing are separate actions.  A     *)
(* read that only asks whether a row exists is part of the write after it, *)
(* which the foreign keys check again.  A refused request changes nothing  *)
(* and is no step.                                                         *)
(***************************************************************************)
EXTENDS Integers, FiniteSets

CONSTANTS
  Courses,     \* identifiers of course rows
  Modules,     \* identifiers of module rows
  Classes,     \* identifiers of class rows
  Titles,      \* titles of modules
  NewStatuses, \* the statuses a course is created with
  Statuses,    \* the statuses an edit of a course asks for
  Requests,    \* requests of the staff that may be in flight together
  MaxSubjects, \* bound on the courses and classes these are about
  MaxTime,     \* the last moment of the clock
  Duration,    \* how long a class is planned to last
  None         \* a null reference, an absent row, a time that is not set

CourseStatus == {"DRAFT", "UPCOMING", "ACTIVE", "INACTIVE", "COMPLETED"}
Times == 0..MaxTime

ASSUME ScheduleAssumption ==
  /\ MaxTime \in Nat
  /\ MaxSubjects \in Nat
  /\ Duration \in Nat
  /\ NewStatuses \cup Statuses \subseteq CourseStatus
  /\ IsFiniteSet(Classes)
  /\ Courses \cap Classes = {} /\ Modules \cap Classes = {} /\ Courses \cap Modules = {}
  /\ None \notin Courses \cup Modules \cup Classes \cup Titles
  /\ None \notin CourseStatus
  /\ None \notin Times

VARIABLES
  now,         \* the clock
  course,      \* the status of a course, None without a row
  module,      \* the course_modules table
  class,       \* the module_classes table
  request,     \* the requests that have read and not yet written
  asked,       \* history: the status or time last asked for, or put back by a
               \* request that had read it before
  overlapped   \* history: classes started again, and not ended since, and
               \* modules whose title was taken, by a request that was late

vars == <<now, course, module, class, request, asked, overlapped>>

-----------------------------------------------------------------------------
(* Rows and requests *)

CourseModule == [course : Courses \cup {None}, title : Titles \cup {None}]

ModuleClass ==
  [module : Modules \cup {None},
   at     : Times \cup {None},      \* class_at: when it is planned
   start  : Times \cup {None},      \* start_at and end_at: when it was held
   end    : Times \cup {None}]

\* row: what the request read and will write.  status, at: what it will write
\* there, explicitly when the request named it and else as it was read.
\* course, title: the course in which a title was found free.  late: another
\* request has written the same since.
Request ==
  [pc       : {"idle", "edit course", "add module", "rename", "edit class", "start", "end"},
   row      : Courses \cup Modules \cup Classes \cup {None},
   status   : CourseStatus \cup {None},
   at       : Times \cup {None},
   explicit : BOOLEAN,
   course   : Courses \cup {None},
   title    : Titles \cup {None},
   late     : BOOLEAN]

NoModule == [course |-> None, title |-> None]
NoClass == [module |-> None, at |-> None, start |-> None, end |-> None]
Idle ==
  [pc |-> "idle", row |-> None, status |-> None, at |-> None, explicit |-> FALSE,
   course |-> None, title |-> None, late |-> FALSE]

ModulesOf(k) == {m \in Modules : module[m].course = k}
ClassesOf(m) == {c \in Classes : class[c].module = m}
ClassesIn(k) == UNION {ClassesOf(m) : m \in ModulesOf(k)}

\* An identifier is new when no row has it and no request remembers it.
IsNew(x) == \A r \in Requests : request[r].row # x

\* What a request is about: a class, or a course and the titles in it.
Subject(req) == IF req.course # None THEN req.course ELSE req.row

Hold(r, req) ==
  /\ request[r] = Idle
  /\ LET open == {req} \cup {request[q] : q \in {q \in Requests : request[q] # Idle}}
     IN  Cardinality({Subject(x) : x \in open}) <= MaxSubjects
  /\ request' = [request EXCEPT ![r] = req]

\* Request r has written: the requests of S, which have read before, are late.
Release(r, S) ==
  request' = [q \in Requests |->
    IF q = r THEN Idle
    ELSE IF q \in S THEN [request[q] EXCEPT !.late = TRUE] ELSE request[q]]

\* The requests of the same kind for the same row.
Rivals(r) ==
  {q \in Requests \ {r} : request[q].pc = request[r].pc /\ request[q].row = request[r].row}

Asked(r, value) ==
  asked' = IF request[r].explicit \/ request[r].late
           THEN [asked EXCEPT ![request[r].row] = value] ELSE asked

\* A query throws, the row is gone, or the server restarts.
Abort(r) ==
  /\ request[r] # Idle
  /\ request' = [request EXCEPT ![r] = Idle]
  /\ UNCHANGED <<now, course, module, class, asked, overlapped>>

-----------------------------------------------------------------------------
(* Courses *)

CreateCourse(k, s) ==
  /\ course[k] = None /\ IsNew(k)
  /\ course' = [course EXCEPT ![k] = s]
  /\ asked' = [asked EXCEPT ![k] = s]
  /\ UNCHANGED <<now, module, class, request, overlapped>>

ReadCourse(r, k, s) ==
  /\ course[k] # None
  /\ Hold(r, [Idle EXCEPT !.pc = "edit course", !.row = k, !.explicit = (s # None),
                          !.status = IF s = None THEN course[k] ELSE s])
  /\ UNCHANGED <<now, course, module, class, asked, overlapped>>

\* Mutant of WriteCourse: a status the request leaves out goes to the default.
WriteCourseWithDefault(r) ==
  LET k == request[r].row
  IN  /\ request[r].pc = "edit course"
      /\ course[k] # None
      /\ course' = [course EXCEPT ![k] =
           IF request[r].explicit THEN request[r].status ELSE "DRAFT"]
      /\ Asked(r, request[r].status)
      /\ Release(r, Rivals(r))
      /\ UNCHANGED <<now, module, class, overlapped>>

WriteCourse(r) ==
  LET k == request[r].row
  IN  /\ request[r].pc = "edit course"
      /\ course[k] # None
      /\ course' = [course EXCEPT ![k] = request[r].status]
      /\ Asked(r, request[r].status)
      /\ Release(r, Rivals(r))
      /\ UNCHANGED <<now, module, class, overlapped>>

\* onDelete: Cascade, from courses to modules and from modules to classes.
Cascade(M, C) ==
  /\ module' = [m \in Modules |-> IF m \in M THEN NoModule ELSE module[m]]
  /\ class' = [c \in Classes |-> IF c \in C THEN NoClass ELSE class[c]]

\* The history of a row ends with the row.
Forget(X) ==
  /\ asked' = [x \in DOMAIN asked |-> IF x \in X THEN None ELSE asked[x]]
  /\ overlapped' = overlapped \ X

DeleteCourse(k) ==
  /\ course[k] # None
  /\ course' = [course EXCEPT ![k] = None]
  /\ Cascade(ModulesOf(k), ClassesIn(k))
  /\ Forget({k} \cup ModulesOf(k) \cup ClassesIn(k))
  /\ UNCHANGED <<now, request>>

-----------------------------------------------------------------------------
(* Modules *)

TitleIsFree(k, t) == \A m \in ModulesOf(k) : module[m].title # t

FindTitle(r, k, t) ==
  /\ course[k] # None
  /\ TitleIsFree(k, t)
  /\ Hold(r, [Idle EXCEPT !.pc = "add module", !.row = k, !.course = k, !.title = t])
  /\ UNCHANGED <<now, course, module, class, asked, overlapped>>

\* Every title the course has, the module's own one too, is refused: an edit
\* of a module has to give it a new title.
FindRename(r, m, t) ==
  /\ module[m].course # None
  /\ TitleIsFree(module[m].course, t)
  /\ Hold(r, [Idle EXCEPT !.pc = "rename", !.row = m, !.course = module[m].course,
                          !.title = t])
  /\ UNCHANGED <<now, course, module, class, asked, overlapped>>

\* Module m takes the title; another request that found it free does so too.
TakeTitle(r, m) ==
  /\ Release(r, {q \in Requests \ {r} :
        /\ request[q].pc \in {"add module", "rename"}
        /\ request[q].course = request[r].course
        /\ request[q].title = request[r].title})
  /\ overlapped' = IF request[r].late THEN overlapped \cup {m} ELSE overlapped \ {m}

AddModule(r, m) ==
  LET k == request[r].row
  IN  /\ request[r].pc = "add module"
      /\ course[k] # None
      /\ module[m] = NoModule /\ IsNew(m)
      /\ module' = [module EXCEPT ![m] = [course |-> k, title |-> request[r].title]]
      /\ TakeTitle(r, m)
      /\ UNCHANGED <<now, course, class, asked>>

Rename(r) ==
  LET m == request[r].row
  IN  /\ request[r].pc = "rename"
      /\ module[m] # NoModule
      /\ module' = [module EXCEPT ![m].title = request[r].title]
      /\ TakeTitle(r, m)
      /\ UNCHANGED <<now, course, class, asked>>

DeleteModule(m) ==
  /\ module[m] # NoModule
  /\ Cascade({m}, ClassesOf(m))
  /\ Forget({m} \cup ClassesOf(m))
  /\ UNCHANGED <<now, course, request>>

-----------------------------------------------------------------------------
(* Classes *)

AddClass(m, c, t) ==
  /\ module[m] # NoModule
  /\ class[c] = NoClass /\ IsNew(c)
  /\ class' = [class EXCEPT ![c] = [NoClass EXCEPT !.module = m, !.at = t]]
  /\ asked' = [asked EXCEPT ![c] = t]
  /\ UNCHANGED <<now, course, module, request, overlapped>>

ReadClass(r, c, t) ==
  /\ class[c] # NoClass
  /\ Hold(r, [Idle EXCEPT !.pc = "edit class", !.row = c, !.explicit = (t # None),
                          !.at = IF t = None THEN class[c].at ELSE t])
  /\ UNCHANGED <<now, course, module, class, asked, overlapped>>

WriteClass(r) ==
  LET c == request[r].row
  IN  /\ request[r].pc = "edit class"
      /\ class[c] # NoClass
      /\ class' = [class EXCEPT ![c].at = request[r].at]
      /\ Asked(r, request[r].at)
      /\ Release(r, Rivals(r))
      /\ UNCHANGED <<now, course, module, overlapped>>

\* A class that was started is not started again ...
ReadStart(r, c) ==
  /\ class[c] # NoClass
  /\ class[c].start = None
  /\ Hold(r, [Idle EXCEPT !.pc = "start", !.row = c])
  /\ UNCHANGED <<now, course, module, class, asked, overlapped>>

\* Mutant of ReadEnd: any class is ended.
ReadEndUnstarted(r, c) ==
  /\ class[c] # NoClass
  /\ Hold(r, [Idle EXCEPT !.pc = "end", !.row = c])
  /\ UNCHANGED <<now, course, module, class, asked, overlapped>>

\* ... and only one that was started is ended, as often as is asked.
ReadEnd(r, c) ==
  /\ class[c].start # None
  /\ Hold(r, [Idle EXCEPT !.pc = "end", !.row = c])
  /\ UNCHANGED <<now, course, module, class, asked, overlapped>>

StartClass(r) ==
  LET c == request[r].row
  IN  /\ request[r].pc = "start"
      /\ class[c] # NoClass
      /\ class' = [class EXCEPT ![c].start = now]
      /\ overlapped' = IF request[r].late THEN overlapped \cup {c} ELSE overlapped
      /\ Release(r, Rivals(r))
      /\ UNCHANGED <<now, course, module, asked>>

EndClass(r) ==
  LET c == request[r].row
  IN  /\ request[r].pc = "end"
      /\ class[c] # NoClass
      /\ class' = [class EXCEPT ![c].end = now]
      /\ overlapped' = overlapped \ {c}
      /\ Release(r, Rivals(r))
      /\ UNCHANGED <<now, course, module, asked>>

DeleteClass(c) ==
  /\ class[c] # NoClass
  /\ Cascade({}, {c})
  /\ Forget({c})
  /\ UNCHANGED <<now, course, request>>

-----------------------------------------------------------------------------
(* What is shown *)

\* The staff's list of the courses of a status, and the one the students get.
Listed(s) == {k \in Courses : course[k] = s}
Offered == {k \in Courses : course[k] = "ACTIVE"}

\* What the staff see of one course, None when there is none, and of a module.
CourseById(k) == course[k]
ModuleById(m) == module[m]

\* getClassDetails gives a student the times as they are in the row.
ClassDetails(c) == [start |-> class[c].start, end |-> class[c].end]

StartTime(c) == IF class[c].start # None THEN class[c].start ELSE class[c].at
EndTime(c) == IF class[c].end # None THEN class[c].end ELSE StartTime(c) + Duration

Planned(S) == {c \in S : class[c].at > now}

Earliest(S) == {c \in S : \A d \in S : class[c].at <= class[d].at}

IsOver(c) == EndTime(c) < now

\* The class the staff see as NEXT in a module: among several of the same
\* time, one of these.
StaffNext(m) == {c \in Earliest(Planned(ClassesOf(m))) : ~IsOver(c)}

\* The overview of all modules looks for a class that starts in the future.
OverviewNext(k) ==
  {c \in ClassesIn(k) : class[c].start # None /\ class[c].start > now}

\* A single class is compared with the classes of its module.
ClassStatus(c) ==
  IF IsOver(c) THEN "COMPLETED"
  ELSE IF c \in StaffNext(class[c].module) THEN "NEXT" ELSE "PENDING"

IsOngoing(c) == StartTime(c) <= now /\ now <= EndTime(c)

\* Mutant of StudentNext: a class is NEXT by its planned time alone.
StudentNextByPlan(m) == Earliest({c \in ClassesOf(m) : class[c].at >= now})

\* The class a student sees as NEXT in a module, taken in the order of class_at.
StudentNext(m) ==
  Earliest({c \in ClassesOf(m) : ~IsOver(c) /\ ~IsOngoing(c) /\ StartTime(c) > now})

\* The next class on the student's page of the course.
NextClass(k) == Earliest({c \in Planned(ClassesIn(k)) : class[c].end = None})

\* The first page of a student, who is enrolled in every ACTIVE course.
MyClasses == UNION {ClassesIn(k) : k \in Offered}

StartedClasses == {c \in MyClasses : class[c].start # None /\ class[c].start <= now}

NotStarted == {c \in Planned(MyClasses) : class[c].start = None}

LastStarted(S) == {c \in S : \A d \in S : class[d].start <= class[c].start}

\* The one class announced there: the last started of those that have not
\* ended, or else the next not started, or else the last started.
OverviewClass ==
  LET ongoing == {c \in StartedClasses : class[c].end = None \/ class[c].end >= now}
  IN  IF ongoing # {} THEN LastStarted(ongoing)
      ELSE IF NotStarted # {} THEN Earliest(NotStarted) ELSE LastStarted(StartedClasses)

-----------------------------------------------------------------------------
(* The specification *)

Tick ==
  /\ now < MaxTime
  /\ now' = now + 1
  /\ UNCHANGED <<course, module, class, request, asked, overlapped>>

Init ==
  /\ now = 0
  /\ course = [k \in Courses |-> None]
  /\ module = [m \in Modules |-> NoModule]
  /\ class = [c \in Classes |-> NoClass]
  /\ request = [r \in Requests |-> Idle]
  /\ asked = [x \in Courses \cup Classes |-> None]
  /\ overlapped = {}

CourseStep ==
  \E k \in Courses :
    \/ DeleteCourse(k)
    \/ \E s \in NewStatuses : CreateCourse(k, s)
    \/ \E r \in Requests, s \in Statuses \cup {None} : ReadCourse(r, k, s)
    \/ \E r \in Requests, t \in Titles : FindTitle(r, k, t)

ModuleStep ==
  \E m \in Modules :
    \/ DeleteModule(m)
    \/ \E r \in Requests : AddModule(r, m)
    \/ \E r \in Requests, t \in Titles : FindRename(r, m, t)
    \/ \E c \in Classes, t \in Times : AddClass(m, c, t)

ClassStep ==
  \E c \in Classes :
    \/ DeleteClass(c)
    \/ \E r \in Requests, t \in Times \cup {None} : ReadClass(r, c, t)
    \/ \E r \in Requests : ReadStart(r, c) \/ ReadEnd(r, c)

RequestStep ==
  \E r \in Requests :
    WriteCourse(r) \/ Rename(r) \/ WriteClass(r) \/ StartClass(r) \/ EndClass(r) \/ Abort(r)

Next == Tick \/ CourseStep \/ ModuleStep \/ ClassStep \/ RequestStep

Spec == Init /\ [][Next]_vars

-----------------------------------------------------------------------------
(* Properties *)

\* Every row has the shape the schema gives it, and none outlives the row it
\* belongs to, in whatever order parents are deleted and children added.
TypeOK ==
  /\ now \in Times
  /\ course \in [Courses -> CourseStatus \cup {None}]
  /\ module \in [Modules -> CourseModule]
  /\ class \in [Classes -> ModuleClass]
  /\ request \in [Requests -> Request]
  /\ DOMAIN asked = Courses \cup Classes
  /\ \A k \in Courses : asked[k] \in CourseStatus \cup {None}
  /\ \A c \in Classes : asked[c] \in Times \cup {None}
  /\ overlapped \subseteq Classes \cup Modules
  /\ \A m \in Modules : module[m] # NoModule => course[module[m].course] # None
  /\ \A c \in Classes :
       class[c] # NoClass => module[class[c].module] # NoModule /\ class[c].at # None

\* What an edit asked for is lost only to an edit of the same row that had
\* read it before and did not name the field: otherwise a status or a planned
\* time is the last one asked for, and a course is listed under it and offered
\* when it is ACTIVE.  Two modules of a course have one title only if one of
\* them took it after the other, having found it free before.
LossNeedsOverlap ==
  /\ \A k \in Courses :
       /\ CourseById(k) = asked[k]
       /\ \A s \in CourseStatus : k \in Listed(s) <=> asked[k] = s
       /\ k \in Offered <=> asked[k] = "ACTIVE"
  /\ \A c \in Classes : class[c].at = asked[c]
  /\ \A m, n \in Modules :
       m # n /\ ModuleById(m) # NoModule /\ ModuleById(m) = ModuleById(n) =>
         {m, n} \cap overlapped # {}

\* A class that a student sees ended was started before, edits and repeated ends
\* notwithstanding; only two starts at once may put the start after the end.
RunsForward ==
  \A c \in Classes :
    LET held == ClassDetails(c)
    IN  held.end # None =>
          /\ held.start # None
          /\ held.start <= held.end \/ c \in overlapped

\* The five timetables, computed by five different pieces of code, agree as
\* long as no class was started before its time: the class announced on the
\* page of the course is NEXT in its module, for students and for the staff,
\* and the overview of the modules never shows a NEXT.  A class to come that the
\* first page announces is NEXT in its module, and no class is held meanwhile.
TimetablesAgree ==
  /\ \A k \in Courses :
       /\ OverviewNext(k) = {}
       /\ \A c \in NextClass(k) : class[c].start = None => c \in StudentNext(class[c].module)
       /\ \A m \in ModulesOf(k) :
            (\A c \in Planned(ClassesOf(m)) : class[c].start = None) =>
               StudentNext(m) = {c \in ClassesOf(m) : ClassStatus(c) = "NEXT"}
  /\ \A c \in OverviewClass :
       class[c].start = None =>
         /\ c \in StudentNext(class[c].module)
         /\ \A k \in Offered : \A d \in ClassesIn(k) : class[d].start # None => ~IsOngoing(d)

-----------------------------------------------------------------------------
(* The inductive invariant of the proofs *)

\* A row is there with all that the schema requires of it, or not at all; no
\* class was held later than now.
RowsAreWhole ==
  /\ \A m \in Modules : module[m] # NoModule =>
       module[m].course \in Courses /\ module[m].title \in Titles
  /\ \A c \in Classes :
       /\ class[c] # NoClass => class[c].module \in Modules /\ class[c].at \in Times
       /\ class[c].start # None => class[c].start <= now

\* A request is about rows of the table it writes.
RequestIsSound(r) ==
  LET q == request[r]
  IN  /\ q.pc = "edit course" => q.row \in Courses /\ q.status # None /\ q.course = None
      /\ q.pc = "add module" => q.row \in Courses /\ q.course = q.row /\ q.title \in Titles
      /\ q.pc = "rename" => q.row \in Modules /\ q.course \in Courses /\ q.title \in Titles
      /\ q.pc \in {"edit class", "start", "end"} => q.row \in Classes /\ q.course = None
      /\ q.pc = "edit class" => q.at \in Times

\* What a request has read and will write back is still in its row, unless the
\* row is gone or the request is late; a title it found free is free; a class
\* it will start has not been started, and one it will end has.
RequestKnows(r) ==
  LET q == request[r]
  IN  /\ q.pc = "edit course" /\ course[q.row] # None =>
           q.status = course[q.row] \/ q.explicit \/ q.late
      /\ q.pc = "edit class" /\ class[q.row] # NoClass =>
           q.at = class[q.row].at \/ q.explicit \/ q.late
      /\ q.pc = "rename" /\ module[q.row] # NoModule => module[q.row].course = q.course
      /\ q.pc \in {"add module", "rename"} /\ ~q.late => TitleIsFree(q.course, q.title)
      /\ q.pc = "start" /\ ~q.late => class[q.row].start = None
      /\ q.pc = "end" /\ class[q.row] # NoClass => class[q.row].start # None

IInv ==
  /\ TypeOK
  /\ RowsAreWhole
  /\ LossNeedsOverlap
  /\ RunsForward
  /\ \A r \in Requests : RequestIsSound(r) /\ RequestKnows(r)
=============================================================================
