-------------------------- MODULE EnrolmentDocuments --------------------------
(***************************************************************************)
(* The enrolment of a student in a course up to the payment, and its two   *)
(* signed documents:                                                       *)
(*                                                                         *)
(*   - application/course/course.service.ts: the wizard, enrollUser;       *)
(*   - processors/document.processor.ts: the worker that makes the         *)
(*     documents, one job after the other;                                 *)
(*   - application/profile/profile.service.ts: getSignedDocuments, which   *)
(*     orders the documents that are missing;                              *)
(*   - admin/course/courses.service.ts: makeEnrolment, updateEnrollment    *)
(*     and deleteEnrollment, for what they do to the step and the files.   *)
(*                                                                         *)
(* This is one enrollment: no row is shared with another.  A request reads *)
(* and later writes, each await is a step of its own unless nobody could   *)
(* tell the difference, and a refused request is no step.  Orders are in   *)
(* ManualPayments.                                                         *)
(***************************************************************************)
EXTENDS Naturals, FiniteSets, Sequences

CONSTANTS
  Requests,       \* requests of the staff and of the wizard in flight together
  EditSteps,      \* the steps the staff set by hand
  MaxEdits,       \* bound on the requests of the staff in a behaviour
  MaxJobs,        \* bound on the length of the queue
  MaxRows,        \* bound on the attachments of the enrollment
  MaxFiles,       \* bound on the files there are at a time
  MaxFaults       \* bound on the failures and restarts of a behaviour

Kinds == {"rules", "contract"}

EnrollmentStep ==
  {"RULES_SIGNING", "CONTRACT_SIGNING", "PAYMENT", "COMPLETED"}

ASSUME DocumentsAssumption ==
  /\ EditSteps \subseteq EnrollmentStep
  /\ MaxJobs \in Nat /\ MaxRows \in Nat /\ MaxRows >= 2
  /\ MaxFiles \in Nat /\ MaxFaults \in Nat /\ MaxEdits \in Nat
  /\ "worker" \notin Requests

Rows == 1..MaxRows
Files == 1..MaxFiles

VARIABLES
  step,        \* the step of the enrollment, NONE before it and DELETED after it
  signed,      \* the documents the enrollment has a signature for
  attachment,  \* the attachments table
  stored,      \* the files in storage and the document each is, none without it
  queue,       \* the jobs of document-queue
  worker,      \* what the worker does
  request,     \* the requests in flight
  faults,      \* the number of failures so far
  edits,       \* the number of requests of the staff so far
  completed,   \* history: the enrollment was paid for, or free
  late,        \* history: signing requests a payment has overtaken
  moved,       \* history: one of these, or the staff, has set the step since
  raced,       \* history: documents two writers worked on at the same time
  cut          \* history: documents of which something was left undone

history == <<completed, late, moved, raced, cut>>
enrolmentVars ==
  <<step, signed, attachment, stored, queue, worker, request, faults, edits,
    completed, late, moved, raced, cut>>

-----------------------------------------------------------------------------
(* Rows, requests and the worker *)

Exists == step \in EnrollmentStep

\* No attachment has the file 0.
Attachment == [kind : Kinds, file : Files \cup {0}]
NoRow == [kind |-> "rules", file |-> 0]

\* An attachment as it was read.
Found == [row : Rows, kind : Kinds, file : Files]

\* "kind" is the document in hand, "todo" are those to do, "files" were put.
Request ==
  [pc    : {"idle", "sign", "edit", "save", "files", "delete", "make"},
   kind  : Kinds,
   todo  : SUBSET Kinds,
   found : SUBSET Found,
   files : SUBSET Files,
   step  : EnrollmentStep \cup {"NONE"}]

Idle ==
  [pc |-> "idle", kind |-> "rules", todo |-> {}, found |-> {}, files |-> {},
   step |-> "NONE"]

Worker ==
  [pc    : {"idle", "render", "write", "clean"},
   kind  : Kinds,
   found : SUBSET Found,
   files : SUBSET Files]

Waiting ==
  [pc |-> "idle", kind |-> "rules", found |-> {}, files |-> {}]

Attached == {a \in Rows : attachment[a] # NoRow}
RowsOf(k) == {a \in Attached : attachment[a].kind = k}
Read(A) == {[row |-> a, kind |-> attachment[a].kind, file |-> attachment[a].file] : a \in A}
FilesOf(F) == {x.file : x \in F}
Of(k, F) == {x \in F : x.kind = k}

\* The first attachment of a kind, of which the database may give any.
First(k) ==
  IF RowsOf(k) = {} THEN {{}} ELSE {Read({a}) : a \in RowsOf(k)}

\* What requests and the worker know, beside the rows.
Actors == {worker} \cup {request[r] : r \in Requests}
Held == UNION {x.files \cup FilesOf(x.found) : x \in Actors}
Stored == {f \in Files : stored[f] # "none"}

\* Which of the new identifiers is taken is all the same: the n smallest.
Smallest(S, n) == {x \in S : Cardinality({y \in S : y < x}) < n}
NewFiles(n) ==
  {F \in {Smallest(Files \ (Stored \cup Held \cup FilesOf(Read(Attached))), n)} :
     Cardinality(F) = n}
NewRow ==
  Smallest(Rows \ (Attached \cup {x.row : x \in UNION {y.found : y \in Actors}}), 1)

Without(F) == [f \in Files |-> IF f \in F THEN "none" ELSE stored[f]]

\* Those who have looked for the document and have not finished with it.
Writers(k) ==
  {r \in Requests : /\ request[r].pc \in {"edit", "save", "files", "delete"}
                    /\ k \in request[r].todo}
    \cup (IF worker.pc \in {"write", "clean"} /\ worker.kind = k THEN {"worker"} ELSE {})

Meets(who, K) == raced' = raced \cup {k \in K : Writers(k) \ {who} # {}}

Start(r, req) == request[r] = Idle /\ request' = [request EXCEPT ![r] = req]
End(r) ==
  /\ request' = [request EXCEPT ![r] = Idle]
  /\ late' = late \ {r}

-----------------------------------------------------------------------------
(* The wizard of the student and the payment *)

\* enrollUser with FORM_FILLING; user and course are unique together.
Fill ==
  /\ step = "NONE"
  /\ step' = "RULES_SIGNING"
  /\ UNCHANGED <<signed, attachment, stored, queue, worker, request, faults, edits, history>>

Jobs(J) ==
  (IF "rules" \in J THEN <<"rules">> ELSE <<>>)
    \o (IF "contract" \in J THEN <<"contract">> ELSE <<>>)

\* The documents of K are ordered; the queue refuses some or the server stops.
Order(K) ==
  \E J \in SUBSET K :
    /\ Len(queue) + Len(Jobs(J)) + (IF worker = Waiting THEN 0 ELSE 1) <= MaxJobs
    /\ queue' = queue \o Jobs(J)
    /\ faults' = IF J = K THEN faults ELSE faults + 1
    /\ faults' <= MaxFaults

SigningStep == [rules |-> "RULES_SIGNING", contract |-> "CONTRACT_SIGNING"]
NextStep == [rules |-> "CONTRACT_SIGNING", contract |-> "PAYMENT"]

\* Mutant of ReadSign: a step can be signed again.
ReadSignAgain(r, k) ==
  /\ Exists
  /\ k = "contract" => step # "RULES_SIGNING"
  /\ Start(r, [Idle EXCEPT !.pc = "sign", !.kind = k])
  /\ UNCHANGED <<step, signed, attachment, stored, queue, worker, faults, edits, history>>

\* enrollUser with RULES_SIGNING or CONTRACT_SIGNING reads the step ...
ReadSign(r, k) ==
  /\ step = SigningStep[k]
  /\ Start(r, [Idle EXCEPT !.pc = "sign", !.kind = k])
  /\ UNCHANGED <<step, signed, attachment, stored, queue, worker, faults, edits, history>>

\* ... and sets the next one with a signature, whatever the step is now,
\* and orders the document.  A job names only the kind of the document, so an
\* order that comes late is one the worker takes late.
Sign(r) ==
  LET k == request[r].kind
  IN  /\ request[r].pc = "sign" /\ Exists
      /\ step' = NextStep[k]
      /\ signed' = signed \cup {k}
      /\ Order({k})
      /\ moved' = (moved \/ r \in late)
      /\ End(r)
      /\ UNCHANGED <<attachment, stored, worker, edits, completed, raced, cut>>

\* What a payment does to the enrollment, at whichever step it finds it: the
\* last one completes it, another installment waits for the rest.
Payment(last) ==
  /\ Exists /\ ~completed
  /\ step' = IF last THEN "COMPLETED" ELSE "PAYMENT"
  /\ completed' = last
  /\ late' = late \cup {r \in Requests : request[r].pc = "sign"}
  /\ UNCHANGED <<signed, attachment, stored, queue, worker, request, faults, edits, moved,
                 raced, cut>>

-----------------------------------------------------------------------------
(* The page of the student's documents *)

\* Mutant of Missing: the page orders nothing.
NothingMissing == {}

\* Signed, but without a document.
Missing == {k \in signed : RowsOf(k) = {}}

\* getSignedDocuments: what is missing is ordered.
View ==
  /\ Exists /\ Missing # {}
  /\ Order(Missing)
  /\ UNCHANGED <<step, signed, attachment, stored, worker, request, edits, completed,
                 late, moved, raced, cut>>

-----------------------------------------------------------------------------
(* The worker: DocumentProcessor.process *)

\* It reads the enrollment and the signature; without them the job fails.
Render ==
  /\ worker = Waiting /\ queue # <<>>
  /\ queue' = Tail(queue)
  /\ worker' = IF Exists /\ Head(queue) \in signed
                 THEN [Waiting EXCEPT !.pc = "render", !.kind = Head(queue)]
                 ELSE Waiting
  /\ UNCHANGED <<step, signed, attachment, stored, request, faults, edits, history>>

\* Mutant of Save: nobody looks for a document that is there.
SaveAlways ==
  /\ worker.pc = "render"
  /\ \E F \in NewFiles(1) :
       /\ worker' = [worker EXCEPT !.pc = "write", !.files = F]
       /\ stored' = [f \in Files |-> IF f \in F THEN worker.kind ELSE stored[f]]
  /\ UNCHANGED <<step, signed, attachment, queue, request, faults, edits, history>>

\* The document is put into storage; then the worker looks for an attachment.
Save ==
  /\ worker.pc = "render"
  /\ \E F \in NewFiles(1), found \in First(worker.kind) :
       /\ worker' = [worker EXCEPT !.pc = "write", !.files = F, !.found = found]
       /\ stored' = [f \in Files |-> IF f \in F THEN worker.kind ELSE stored[f]]
  /\ UNCHANGED <<step, signed, attachment, queue, request, faults, edits, history>>

NewAttachment(a, k, F) == [attachment EXCEPT ![a] = [kind |-> k, file |-> CHOOSE f \in F : TRUE]]

\* The attachment is created, or gets the new file ...
Write ==
  /\ worker.pc = "write" /\ Exists
  /\ IF worker.found = {}
       THEN /\ \E a \in NewRow : attachment' = NewAttachment(a, worker.kind, worker.files)
            /\ worker' = Waiting
       ELSE \E x \in worker.found :
            /\ attachment[x.row] # NoRow
            /\ attachment' = NewAttachment(x.row, worker.kind, worker.files)
            /\ worker' = [worker EXCEPT !.pc = "clean", !.files = {}]
  /\ Meets("worker", {worker.kind})
  /\ UNCHANGED <<step, signed, stored, queue, request, faults, edits, completed, late, moved,
                 cut>>

\* Mutant of Clean: the old file is kept.
CleanNothing ==
  /\ worker.pc = "clean"
  /\ worker' = Waiting
  /\ UNCHANGED <<step, signed, attachment, stored, queue, request, faults, edits, history>>

\* ... and then the old one is deleted.
Clean ==
  /\ worker.pc = "clean"
  /\ stored' = Without(FilesOf(worker.found))
  /\ worker' = Waiting
  /\ UNCHANGED <<step, signed, attachment, queue, request, faults, edits, history>>

\* The attachment or the enrollment is gone: the job fails, its file stays.
JobThrows ==
  /\ worker.pc = "write"
  /\ ~Exists \/ \E x \in worker.found : attachment[x.row] = NoRow
  /\ worker' = Waiting
  /\ cut' = cut \cup {worker.kind}
  /\ UNCHANGED <<step, signed, attachment, stored, queue, request, faults, edits, completed,
                 late, moved, raced>>

\* The browser, the storage or the database fails, or the server restarts: a
\* job that stalled is done again, any other is not.
JobFails(again) ==
  /\ worker # Waiting /\ faults < MaxFaults
  /\ faults' = faults + 1
  /\ worker' = Waiting
  /\ queue' = IF again THEN <<worker.kind>> \o queue ELSE queue
  /\ cut' = IF worker.pc = "render" THEN cut ELSE cut \cup {worker.kind}
  /\ UNCHANGED <<step, signed, attachment, stored, request, edits, completed, late,
                 moved, raced>>

-----------------------------------------------------------------------------
(* The staff *)

\* makeEnrolment stores both documents before it creates the enrollment ...
ReadMake(r) ==
  /\ edits < MaxEdits /\ edits' = edits + 1
  /\ step = "NONE"
  /\ \E F \in NewFiles(2) :
       /\ Start(r, [Idle EXCEPT !.pc = "make", !.files = F])
       /\ stored' = [f \in Files |-> IF f \notin F THEN stored[f]
                       ELSE IF \A g \in F : f <= g THEN "rules" ELSE "contract"]
  /\ UNCHANGED <<step, signed, attachment, queue, worker, faults, history>>

\* ... which is complete when it is free.
CommitMake(r, free) ==
  LET Document(k) ==
        [kind |-> k, file |-> CHOOSE f \in request[r].files : stored[f] = k]
  IN
  /\ request[r].pc = "make" /\ step = "NONE"
  /\ step' = IF free THEN "COMPLETED" ELSE "PAYMENT"
  /\ completed' = free
  /\ attachment' = [attachment EXCEPT ![1] = Document("rules"), ![2] = Document("contract")]
  /\ End(r)
  /\ UNCHANGED <<signed, stored, queue, worker, faults, edits, moved, raced, cut>>

\* updateEnrollment reads the enrollment with its documents; those it has not
\* must be given.
ReadEdit(r, K, s) ==
  /\ edits < MaxEdits /\ edits' = edits + 1
  /\ Exists
  /\ \A k \in Kinds \ K : RowsOf(k) # {}
  /\ \E x \in First("rules"), y \in First("contract") :
       Start(r, [Idle EXCEPT !.pc = "edit", !.todo = K, !.step = s,
                             !.found = {z \in x \cup y : z.kind \in K}])
  /\ UNCHANGED <<step, signed, attachment, stored, queue, worker, faults, history>>

\* The rules first: the old file is deleted and the new one put ...
Replace(r) ==
  LET k == IF "rules" \in request[r].todo THEN "rules" ELSE "contract"
  IN  /\ request[r].pc = "edit" /\ request[r].todo # {}
      /\ \E F \in NewFiles(1) :
           /\ stored' = [f \in Files |-> IF f \in F THEN k
                                          ELSE Without(FilesOf(Of(k, request[r].found)))[f]]
           /\ request' = [request EXCEPT ![r].pc = "save", ![r].kind = k, ![r].files = F]
      /\ UNCHANGED <<step, signed, attachment, queue, worker, faults, edits, history>>

\* ... and the row is updated, or created when there was none.
Upsert(r) ==
  LET k == request[r].kind
      found == Of(k, request[r].found)
      kept == {x \in found : attachment[x.row] # NoRow}
  IN  /\ request[r].pc = "save" /\ Exists
      /\ \E a \in IF kept = {} THEN NewRow ELSE {x.row : x \in kept} :
           attachment' = NewAttachment(a, k, request[r].files)
      /\ request' = [request EXCEPT ![r].pc = "edit", ![r].todo = @ \ {k},
                       ![r].found = @ \ found, ![r].files = {}]
      /\ Meets(r, {k})
      /\ UNCHANGED <<step, signed, stored, queue, worker, faults, edits, completed, late,
                     moved, cut>>

\* The step is set when it is given.
CommitEdit(r) ==
  LET s == request[r].step
  IN  /\ request[r].pc = "edit" /\ request[r].todo = {} /\ Exists
      /\ step' = IF s = "NONE" THEN step ELSE s
      /\ moved' = (moved \/ s # "NONE")
      /\ End(r)
      /\ UNCHANGED <<signed, attachment, stored, queue, worker, faults, edits, completed,
                     raced, cut>>

\* deleteEnrollment reads the documents ...
ReadDelete(r) ==
  /\ edits < MaxEdits /\ edits' = edits + 1
  /\ Exists
  /\ Start(r, [Idle EXCEPT !.pc = "files", !.todo = Kinds, !.found = Read(Attached)])
  /\ UNCHANGED <<step, signed, attachment, stored, queue, worker, faults, history>>

\* ... deletes their files ...
DeleteFiles(r) ==
  /\ request[r].pc = "files"
  /\ stored' = Without(FilesOf(request[r].found))
  /\ request' = [request EXCEPT ![r].pc = "delete"]
  /\ UNCHANGED <<step, signed, attachment, queue, worker, faults, edits, history>>

\* ... and then the rows, and the signatures of the enrollment.
CommitDelete(r) ==
  /\ request[r].pc = "delete" /\ Exists
  /\ step' = "DELETED"
  /\ signed' = {}
  /\ attachment' = [a \in Rows |-> NoRow]
  /\ Meets(r, Kinds)
  /\ End(r)
  /\ UNCHANGED <<stored, queue, worker, faults, edits, completed, moved, cut>>

-----------------------------------------------------------------------------
(* What is shown *)

\* getCurrentStep: where the wizard takes the student up again.
CurrentStep == IF Exists THEN step ELSE "FORM_FILLING"

\* getEnrollmentDetails: the documents the staff see.
EnrollmentDetails == Read(Attached)

-----------------------------------------------------------------------------
(* Requests that stop half way *)

Stop(r) ==
  /\ cut' = CASE request[r].pc = "save" -> cut \cup {request[r].kind}
             [] request[r].pc \in {"delete", "make"} -> Kinds
             [] OTHER -> cut
  /\ End(r)
  /\ UNCHANGED <<step, signed, attachment, stored, queue, worker, edits, completed, moved,
                 raced>>

\* The enrollment is there already, or there no more.
RequestThrows(r) ==
  /\ IF request[r].pc = "make" THEN step # "NONE"
       ELSE request[r].pc \in {"sign", "edit", "save", "delete"} /\ ~Exists
  /\ Stop(r)
  /\ UNCHANGED faults

\* A query or the queue fails, or the server restarts.
RequestFails(r) ==
  /\ request[r] # Idle /\ faults < MaxFaults
  /\ faults' = faults + 1
  /\ Stop(r)

-----------------------------------------------------------------------------
(* The system *)

EnrolmentInit ==
  /\ step = "NONE"
  /\ signed = {}
  /\ attachment = [a \in Rows |-> NoRow]
  /\ stored = [f \in Files |-> "none"]
  /\ queue = <<>>
  /\ worker = Waiting
  /\ request = [r \in Requests |-> Idle]
  /\ faults = 0 /\ edits = 0
  /\ completed = FALSE /\ late = {} /\ moved = FALSE
  /\ raced = {} /\ cut = {}

StudentStep ==
  \/ Fill
  \/ \E r \in Requests :
       \/ \E k \in Kinds : ReadSign(r, k)
       \/ Sign(r)
  \/ \E last \in BOOLEAN : Payment(last)

WorkerStep == Render \/ Save \/ Write \/ Clean \/ JobThrows

StaffStep(r) ==
  \/ ReadMake(r)
  \/ \E free \in BOOLEAN : CommitMake(r, free)
  \/ \E K \in SUBSET Kinds, s \in EditSteps \cup {"NONE"} : ReadEdit(r, K, s)
  \/ Replace(r)
  \/ Upsert(r)
  \/ CommitEdit(r)
  \/ ReadDelete(r)
  \/ DeleteFiles(r)
  \/ CommitDelete(r)
  \/ RequestThrows(r)

Fault ==
  \/ \E again \in BOOLEAN : JobFails(again)
  \/ \E r \in Requests : RequestFails(r)

EnrolmentNext ==
  \/ StudentStep
  \/ View
  \/ WorkerStep
  \/ \E r \in Requests : StaffStep(r)
  \/ Fault

EnrolmentSpec == EnrolmentInit /\ [][EnrolmentNext]_enrolmentVars

\* The worker works, and the student keeps looking for what is missing.
FairEnrolmentSpec ==
  /\ EnrolmentSpec
  /\ WF_enrolmentVars(WorkerStep)
  /\ WF_enrolmentVars(View)

-----------------------------------------------------------------------------
(* Properties *)

\* The type invariant.
EnrolmentTypeOK ==
  /\ step \in EnrollmentStep \cup {"NONE", "DELETED"}
  /\ signed \subseteq Kinds
  /\ attachment \in [Rows -> Attachment]
  /\ stored \in [Files -> Kinds \cup {"none"}]
  /\ queue \in Seq(Kinds) /\ Len(queue) <= MaxJobs
  /\ worker \in Worker
  /\ request \in [Requests -> Request]
  /\ faults \in 0..MaxFaults /\ edits \in 0..MaxEdits
  /\ completed \in BOOLEAN /\ moved \in BOOLEAN
  /\ late \subseteq Requests
  /\ raced \subseteq Kinds /\ cut \subseteq Kinds
  /\ ~Exists => Attached = {}

\* A student who has paid, or pays nothing, is not asked to sign or to pay
\* again until the enrollment is deleted, unless the staff sets another step
\* or a signature is written that was read before the payment.
CompletedStays ==
  completed => CurrentStep \in {"COMPLETED", "FORM_FILLING"} \/ moved

\* The staff see one attachment of each document, however often it is ordered,
\* unless the worker and the staff or two of the staff worked on it at the
\* same time.
OneDocument ==
  \A x, y \in EnrollmentDetails : x.kind = y.kind => x = y \/ x.kind \in raced

\* The files in storage are those of the attachments.  The file of an
\* attachment is there, unless the staff replaces it or deletes the enrollment;
\* and a file that is there belongs to an attachment or to somebody at work,
\* also after the enrollment is deleted.  It is otherwise only if two worked on
\* the document at the same time, or one stopped half way.
FilesMatchAttachments ==
  /\ \A a \in Attached :
       \/ attachment[a].file \in Stored
       \/ attachment[a].kind \in cut
       \/ \E r \in Requests :
            \/ request[r].pc = "save" /\ request[r].kind = attachment[a].kind
            \/ request[r].pc = "delete"
  /\ \A f \in Stored \ Held :
       \/ \E a \in Attached : attachment[a].file = f
       \/ stored[f] \in raced \cup cut

\* What is signed gets its document in the end, if the student keeps looking
\* for it, or the enrollment is deleted.
SignedIsGenerated ==
  \A k \in Kinds : k \in signed ~> RowsOf(k) # {} \/ ~Exists

-----------------------------------------------------------------------------
(* The inductive invariant of the proofs *)

\* The worker takes a job only when it waits, and there is room to do it again.
QueueFits == Len(queue) + (IF worker = Waiting THEN 0 ELSE 1) <= MaxJobs

\* Before the enrollment only makeEnrolment is at work.
NothingBefore ==
  step = "NONE" =>
    /\ Attached = {} /\ signed = {} /\ ~completed /\ worker = Waiting
    /\ \A r \in Requests : request[r].pc \in {"idle", "make"}

\* A signature that was read before the payment is late.
SignIsLate ==
  \A r \in Requests : request[r].pc = "sign" /\ completed => r \in late \/ moved

\* What a request has, at each of its steps.
RequestIsSound(r) ==
  LET q == request[r]
  IN  /\ q.pc \in {"idle", "sign", "make"} => q.found = {}
      /\ q.pc \in {"idle", "sign", "edit", "files", "delete"} => q.files = {}
      /\ q.pc \in {"edit", "save"} =>
           \A x \in q.found :
             x.kind \in q.todo /\ \A y \in q.found : x.kind = y.kind => x = y
      /\ q.pc = "save" => q.kind \in q.todo /\ \E f \in Files : q.files = {f}
      /\ q.pc \in {"files", "delete"} => q.todo = Kinds

WorkerIsSound ==
  /\ worker.pc = "idle" => worker = Waiting
  /\ worker.pc = "render" => worker.found = {}
  /\ worker.pc \in {"render", "clean"} => worker.files = {}
  /\ worker.pc = "write" => \E f \in Files : worker.files = {f}
  /\ \A x, y \in worker.found : x = y /\ x.kind = worker.kind

Sound ==
  /\ EnrolmentTypeOK /\ QueueFits /\ NothingBefore
  /\ \A a \in Attached : attachment[a].file \in Files
  /\ \A r \in Requests : RequestIsSound(r)
  /\ WorkerIsSound

People == Requests \cup {"worker"}
Actor(w) == IF w = "worker" THEN worker ELSE request[w]

\* Attachments have files of their own, stored as what they are or not at all.
FilesApart ==
  \A a \in Attached :
    /\ \A b \in Attached : attachment[a].file = attachment[b].file => a = b
    /\ stored[attachment[a].file] \in {attachment[a].kind, "none"}

\* The files somebody has put are in storage, and nobody else knows of them.
Owns(w) ==
  \A f \in Actor(w).files :
    /\ f \in Stored
    /\ \A a \in Attached : attachment[a].file # f
    /\ \A v \in People :
         (\A x \in Actor(v).found : x.file # f) /\ (v # w => f \notin Actor(v).files)

\* An attachment that was read may have another file by now, or be gone, but the
\* file that was read belongs to no other, and neither row nor file is of
\* another kind.
Remembers(w) ==
  \A x \in Actor(w).found :
    /\ \A a \in Attached : attachment[a].file = x.file => a = x.row
    /\ attachment[x.row] # NoRow => attachment[x.row].kind = x.kind
    /\ stored[x.file] \in {x.kind, "none"}

\* F is what there is of document k.
Knows(k, F) ==
  /\ \A x \in F : x.kind = k => attachment[x.row] = [kind |-> k, file |-> x.file]
  /\ \A a \in RowsOf(k) : \E x \in F : x.kind = k /\ x.row = a

\* Who writes a document alone knows it; what he was to put is there, and what
\* he was to delete is not.
RequestKnows(r) ==
  LET q == request[r]
  IN  /\ q.pc = "make" =>
           \E f, g \in Files :
             q.files = {f, g} /\ stored[f] = "rules" /\ stored[g] = "contract"
      /\ q.pc \in {"edit", "save", "files", "delete"} =>
           \A k \in q.todo \ raced : Knows(k, q.found)
      /\ q.pc = "save" =>
           /\ \A f \in q.files : stored[f] = q.kind
           /\ \A x \in q.found : x.kind = q.kind => x.file \notin Stored
      /\ q.pc = "delete" => \A x \in q.found : x.file \notin Stored

WorkerKnows ==
  /\ worker.pc = "write" =>
       /\ \A f \in worker.files : stored[f] = worker.kind
       /\ worker.kind \notin raced => Knows(worker.kind, worker.found)
  /\ worker.pc = "clean" =>
       \A x \in worker.found, a \in Attached : attachment[a].file # x.file

\* The file of an attachment is missing only while one is about to replace just
\* this attachment, or to delete them all, or failed to.
MissingIsReplaced ==
  \A a \in Attached :
    \/ attachment[a].file \in Stored
    \/ attachment[a].kind \in cut
    \/ \E r \in Requests :
         \/ request[r].pc = "delete"
         \/ /\ request[r].pc = "save" /\ request[r].kind = attachment[a].kind
            /\ \E x \in request[r].found : x.kind = attachment[a].kind /\ x.row = a

NothingIsLeft ==
  \A f \in Stored :
    \/ \E w \in People : f \in Actor(w).files \/ \E x \in Actor(w).found : x.file = f
    \/ \E a \in Attached : attachment[a].file = f
    \/ stored[f] \in raced \cup cut

EnrolmentInv ==
  /\ Sound /\ CompletedStays /\ SignIsLate
  /\ OneDocument /\ FilesApart
  /\ \A w \in People : Owns(w) /\ Remembers(w)
  /\ \A r \in Requests : RequestKnows(r)
  /\ WorkerKnows /\ MissingIsReplaced /\ NothingIsLeft
=============================================================================
