# A TLA+ model of the Acting Academy backend

The backend is a NestJS service over PostgreSQL (through Prisma), Redis queues
(BullMQ), socket.io, LiveKit and Stripe. Handlers are `async` functions: between
two `await`s any other request, job or socket event may run, and only some of
the writes are grouped in a database transaction. This directory models the
parts whose correctness depends on that.

## 1. The system

| Component (under `src/src/`) | State it keeps | Operations | Interacts with | What makes it correct | Model |
|---|---|---|---|---|---|
| Course billing by the staff: `modules/admin/course/courses.service.ts`, `modules/admin/transaction/` | enrollments, orders, installment plans, installments, transactions | enrol, edit, delete; one-time and installment payments; the hourly overdue job | shares every row with the wizard and with Stripe | the books claim no more than was received; access is paid for; only overdue access is taken away | `ManualPayments` |
| Stripe checkout and webhook: `modules/payment/stripe/`, `common/lib/Payment/stripe/` | orders, transactions, enrollments, registrations; Stripe's sessions | create or resume a checkout; completed and expired webhooks | Stripe, at least once and in any order | a payable session is recorded; a paid session gives access; access was paid for | `StripeCheckout`, `PaidAccess` |
| Enrolment wizard: `modules/application/course/course.service.ts`, `processors/document.processor.ts`, `modules/application/profile/` | the step of an enrollment, signatures, attachments, files, the document queue | form, rules, contract; the document job; the page of signed documents | billing and checkout set the same step, the staff replace the same documents | paid for stays paid for; one document of each kind; files and rows agree; what is signed gets its document | `EnrolmentDocuments` |
| Calls: `modules/chat/rtc/` | call sessions, participants, the call's message, LiveKit rooms | start, join, decline, leave, end | gateway, conversations | an ended call stays ended; an empty call ends; the card tells what happened | `Calls`, `CallLifecycle` |
| Realtime gateway and receipts: `modules/chat/realtime/`, `common/repository/chat/`, `modules/chat/messages/` | sockets per user, presence, receipts | connect, disconnect, send, deliver, read | conversations, blocks | who is connected is present; what waits for a present user is delivered; the read mark is true | `ChatDelivery` |
| Conversations and groups: `modules/chat/conversations/`, `modules/chat/users/` | conversations, memberships, roles, avatars, blocks | create, edit, delete, add, remove, leave, promote | messages, calls, storage | a group with members has an admin and is not taken from them; one direct conversation per pair; the avatar exists | `GroupMembership` |
| Attendance, assignments, grades: both course services | QR sessions, attendance, assignments, submissions, grades | mark, scan, assign, submit, grade | enrollments, classes | graded means a grade exists, within the total, that every page shows; progress adds up | `Coursework` |
| Courses, modules, classes: both course services | courses, modules, classes, files | create, update, delete, start and end a class; timetables | storage | an edit is not lost; start before end; all timetables agree | `ClassSchedule` |
| Authentication: `modules/auth/`, `common/repository/ucode`, `common/repository/user` | users, codes, two-factor flag | register, log in, ask for a code, verify, reset, change e-mail | mail queue | who registered can log in; a code is in force alone, is used once and for its owner | `Accounts` |
| Account status: `common/guard/`, `modules/admin/user/`, `modules/application/profile/` | the status of a user | approve, reject, block, disable, activate, edit, delete | every route | what the staff see as active is found by others | `Accounts` |
| Community: `modules/application/community/`, `modules/admin/community/` | posts, options, votes, likes, comments, reports | post, edit, like, vote, comment, moderate | notifications | one like and one vote per user; a poll has its options; every comment is listed | `Community` |
| Events: `modules/admin/event/`, `modules/application/event/` | events, registrations | create, edit, delete, list, members | Stripe checkout, manual payments | a paid registration is shown | `StripeCheckout` (partly) |
| Overview pages: `modules/admin/overview/`, `modules/application/overview/` | - | one summary for each role | classes, attendance | they agree with the other pages | `ClassSchedule`, `Coursework` (partly) |
| Notifications, settings, FAQ, contact, website information | rows | create, read, update, delete | - | nothing that several steps or actors could break | not modelled |
| Mail, file storage, seeding, abilities, pipes, middleware | - | input and output, wiring | - | - | not modelled |

The hard behaviours are the same everywhere: rows read before an `await` and
used after it, check-then-write without a unique index, several writes of which
one may fail, a job or a webhook that acts on what it found earlier, and events
that arrive late, twice or in the wrong order. `PROJECT.json` lists each place
under `hazards`, with the properties that cover it.

## 2. The modules

### ManualPayments

Billing of course enrollments by the staff. A handler that reads first and
writes later is two actions:

| Action | Code |
|---|---|
| `MakeEnrolment` | `makeEnrolment`; check and creation are one step, as the unique index on `(user_id, course_id)` makes them |
| `StartEdit`, `CommitEdit` | `updateEnrollment`: the first read, then the transaction, in which only the order is read again |
| `StartDelete`, `CommitDelete` | `deleteEnrollment`: the first read, then the transaction; deleting an order cascades to plan and installments |
| `StartPayment` | the reads and refusals of `addManualPayment` |
| `PayOneTime`, `RecordOneTime` | its transaction for a one-time payment: successful, or recorded PENDING or FAILED |
| `PayInstallments`, `RecordInstallments` | the same for `addManualInstallmentPayment`, with the creation of the plan |
| `Abort` | a refusal, an error or a rollback |
| `Lapse` | a due date passes |
| `Scan`, `Suspend`, `SweepFails` | `suspendOverdueInstallmentAccess`: find, then update by id; or a failure in between |

`enrollment`, `order`, `plan` and `installment` are the tables; `request` and
`sweep` are the local variables of the handlers in flight; `lapsed` is the
clock; `received`, `waived`, `decidedBy` and `requests` are history. Two
transactions that commit one after the other are atomic with respect to each
other (row locks), yet each writes what its snapshot told it.

Abstractions. The wizard's steps before PAYMENT are one step, SIGNING. The fee
is fixed and positive: a course without a fee and a fee that changes while
payments are made are left out, and so are amounts above the fee. An installment
payment chooses any non-empty set of open installments, which is what the
optional `installmentNumbers` of the request allow. Money is counted in the
smallest unit and the shares are those of the code's split. `FULL_PAYMENT` and
`INSTALLMENT` enrollments are the same once the request says how it is paid.
Rows of payment transactions are represented by `received`, the sum of the
successful ones.

### StripeCheckout and PaidAccess

Paying through Stripe, for one student and any courses and events. No
transaction is used in this code, so every `await` is an action: in
`createCheckout` `Begin`, `Lookup`, `Resume`, `MarkFailed`, `IgnoreError`,
`CreateSession`, `CreateOrder`, `CreateTx`; in the webhook `Deliver`, `Succeed`,
`Settle`, `ReadAccess`, `Grant`, and `Fail`, `Cancel` for an expiry.
`AbortCheckout`, `HandlerThrows` and `Crash` are an error or a restart at any
of these points. The controller answers Stripe with 2xx also when a handler threw
(`stripe.controller.ts:64-67`), so `HandlerThrows` ends the deliveries and is
recorded in `lost`; after `Crash` Stripe delivers again. `Pay`, `Expire` and the
at-least-once, any-order delivery are Stripe's, modelled from how the code uses
it. The reads of user, course and customer that precede `Begin` are left out,
and so are currencies and amounts. `Verified`, `Transactions`, `Revenue`,
`IsRegistered` and `ShownToStaff` are what students and staff see of these rows; the
other filters of the lists and their paging are left out.

`PaidAccess` is what any way of taking money promises: access only to what was
paid for before, and never taken back. `KeepsThePromise` is the refinement, with
the complete sessions as `paid` and the granted items as `access`.

### Calls and CallLifecycle

The calls of one conversation. `rtc.service.ts` uses one transaction, for the two
updates of `finishCallSession`; everything else is an action per `await`:

| Action | Code |
|---|---|
| `StartCall`, `CreateSession` | `startCall`: look for an active session, create one |
| `JoinCall` | `joinCall` and `issueCallToken`, up to the active session |
| `FindActive`, `FindPrevious`, `Rejoin`, `Insert` | `upsertParticipant`: two reads, then an update or a new row |
| `Announce` | `createCallMessage`, by the request that created the session |
| `DeclineCall`, `EndCall` | the checks of `declineCall` and `endCall` |
| `LeaveCall`, `FindMine`, `Leave`, `CountRemaining` | `leaveCall` with `markParticipantLeft` |
| `Finish`, `CountEver`, `Finalize` | `finishCallSession` and `finalizeCallMessage` |
| `Drop` | a query throws or the server restarts |

`call`, `rows` with `inCall` (the rows without `left_at`) and `message` (the status
on the card of the call) are the tables, `request` the handlers in flight,
`dropped` history. A conversation is direct or a group; its members do not change.
Blocks, LiveKit tokens, media flags and what is emitted to sockets are left out:
none of them decides about the call's state.

`CallLifecycle` is what the members see: a call runs, then is over; its card shows
it running and then how it ended. `FollowsLifecycle` is the refinement, by the
session's status and the message.

### ChatDelivery

Presence, and the receipts of one conversation with fixed members:

| Action | Code |
|---|---|
| `Connect`, `Admit`, `Activate`, `Find`, `Deliver` | `handleConnection` at its awaits: `userExists`, then `addUserSocket`, `updateLastActive`, and the two queries of `markMessagesAsDelivered`; a further connection of a user is only admitted |
| `Disconnect` | `handleDisconnect` with `removeUserSocket`; the handler of the connection goes on |
| `ConnectionFails` | the `catch` of `handleConnection`, which disconnects the socket. A failure after the delivery, while others are notified, is a `Disconnect` |
| `BeginSend`, `ListMembers`, `CommitSend`, `AbortSend` | the transaction of `sendMessage`: the message is created, the members are listed and looked up in the presence set, and all of it is seen when it commits |
| `MarkAsRead`, `ClearForMe` | `markAsRead`, from the route and from `message:read`, and `clearForMe`, whose time was taken when the request started |
| `Restart` | the server restarts and its sets are gone |

`online` is the gateway's map of sockets, `present` the set the repository keeps
beside it; `sender`, `receipt` and `lastRead` are the tables, times being the order
in which messages were created; `handler` and `send` are what is in flight. `missed`
and `behind` are history: the SENT receipts no handler will find until their user
comes again, and the receipts left unread behind the mark until the next reading.
`MarkAsRead` is one step: what others write between its two updates is overwritten by
the second. Left out: what is emitted, rooms, typing, `last_active_at`, blocks, changes
of members, the payload of messages.

### EnrolmentDocuments

One enrollment up to its payment, and its two signed documents. Orders are in
`ManualPayments`; here a payment is only what it does to the step.

| Action | Code |
|---|---|
| `Fill`, `ReadSign`, `Sign` | `enrollUser`: the form, and a signature with the step it found; the job is put into the queue (`Order`) |
| `Payment` | what a payment, by the staff or through Stripe, does to the step |
| `View` | `getSignedDocuments`, which orders what is `Missing` |
| `Render`, `Save`, `Write`, `Clean` | the worker: read, store the PDF, write its row, delete the old file |
| `JobThrows`, `JobFails` | the row is gone; the browser, the storage or the server fails, and a stalled job is done again |
| `ReadMake`, `CommitMake` | `makeEnrolment`: both files, then the enrollment |
| `ReadEdit`, `Replace`, `Upsert`, `CommitEdit` | `updateEnrollment`: the given documents one after the other, then the step |
| `ReadDelete`, `DeleteFiles`, `CommitDelete` | `deleteEnrollment` |
| `RequestThrows`, `RequestFails` | refusals and failures in between |

`CurrentStep` and `EnrollmentDetails` are what the wizard and the staff are shown.
`late` and `moved` remember whether a signature older than a payment, or the staff, set
the step; `raced` and `cut` the documents that two wrote at once or one left half done.

### ClassSchedule

Courses, modules and classes, their deletion with its cascades, and what is shown of
them. `ReadCourse`/`WriteCourse`, `FindTitle` or `FindRename` with `AddModule` or
`Rename`, `ReadClass`/`WriteClass`, `ReadStart`/`StartClass` and `ReadEnd`/`EndClass`
are the two halves of an edit; what a request leaves out is filled in from what it
read. A request is `late` once another has written what it has read. `StaffNext` with
`ClassStatus`, `OverviewNext`, `StudentNext`, `NextClass` and `OverviewClass`, on the
student's first page, are the computations of the next class, each translated from its
own page. `asked` remembers what was last asked for, or put back by a late request; `overlapped` the
classes and modules that a late request has started or named.

### Coursework

Attendance marked by hand, assignments, submissions and grades. `FindNone` and
`SubmitAssignment` are the halves of a submission, `ReadSubmission`, `SetGraded` and
`SaveGrade` the three steps of grading, `ReadAssignment` and `UpdateAssignment` those
of an edit. `Counts`, `Details`, `Listed`, `Shown`, `ShownForClass`, `ShownForCourse`,
`Report`, `Progress` and `RecentAttendance` are the pages of staff and students. The clock is only whether
the time of a class has come.

### GroupMembership

Conversations and who belongs to them. Every request reads the membership of the one
who asks and later writes: `ReadCreate`/`Create`, `ReadUpdate`/`ReplaceAvatar`/`Update`,
`ReadDelete`/`Delete`, `ReadAdd` with `Rejoin` and `Join`, `ReadRole`/`WriteRole`,
`ReadRemove`/`FindSuccessor`/`Remove`, `ReadLeave` with `LeaveLast`, `FindHeir` and
`Leave`. The transactions of `removeMember` and `leaveConversation` run at READ
COMMITTED, so their reads and writes are steps as well, and `Held` is the row lock of
a removal. `MyConversations` and `Participants` are what a member is shown. A request
is `fresh` until another writes what it has read.

### Accounts

Accounts, the codes sent by mail, and the status of an account. `ReadRegister` with
`Register` or `RegisterTaken`, `Ask`/`Clear`/`CreateCode` for a new code (`ForgotPassword`
and `RequestEmailChange` among others), `ReadReset`/`ResetPassword`, `VerifyEmail`,
`ExchangeOtp`, `ReadEmail`/`ChangeEmail` and `DeleteUsed` for its use, `Expire`, then
`ChangePassword`, `Edit`, `RemoveUser` and the changes of status. `LogsIn`, `FindAll`
and `Discoverable` are what follows from the tables. `moved` remembers the addresses that
changed hands: the staff gave one to another account, or a code that another account had
asked for, which `ChangeEmail` accepts as the code does, moved it.

### Community

Posts, polls, votes, likes and comments: `CreatePost`, `Announce`, `UpdatePost`,
`DropOptions`/`AddOptions` for a poll, `ChangePostStatus`, `DeletePost`,
`ReadLike`/`Like`/`Unlike`, `ReadVote`/`Vote`/`ChangeVote`/`Unvote`,
`ReadComment`/`CommentPost`, `DeleteComment`/`MarkDeleted`. `Listed` is the list of the
comments of a post.

In these six modules `Abort` is a query that throws or a restart, a refused request is
no step, and the history variables (`raced`, `overlapped`, `cut` and the like) name the
behaviours in which the code does lose something, so that a property can say exactly
when it does and refuse everything else.

### Runs

| Run | Question | Bounds | Distinct states |
|---|---|---|---|
| `payments` | do stale payments, by one sum or by installment, corrupt the books, and is an overdue installment always acted on? | 1 enrollment, 2 orders, 2 admins, 1 job, fee 3, 2 installments, 3 requests, no symmetry | 120,468 |
| `payments_race` | does the job suspend only what is overdue? (violated) | the same with 1 order and fee 2 | - |
| `checkout_course` | do two checkouts and two deliveries keep the records and the access right? | 1 course, 2 sessions, 2 orders, 2 tabs, 2 workers | 1,153,118 |
| `checkout_event` | does a paid ticket become a registration, and is `PaidAccess` implemented? | 1 event, 2 sessions, 1 order, 1 tab, 2 workers, no symmetry | 224,359 |
| `calls` | does an empty call end, do cards tell the truth, does nothing go back? | 2 members, 1 admin, 2 requests, 1 call, 2 rows per member, no symmetry | 281,755 |
| `chat` | do presence, receipts and read marks agree, and is what waits for a present user delivered? | 2 members, 2 connections, 1 message, no symmetry | 43,089 |
| `class_schedule` | is an edit lost, and do the timetables agree? | 1 course, 2 modules, 2 titles, 2 classes, 2 requests about one thing at a time, times 0 and 1 | 1,117,334 |
| `coursework` | is what is graded shown as such, everywhere? | 1 class, 1 assignment, 2 submissions, 2 students, 1 teacher, 2 requests | 504,460 |
| `groups` | does a group keep an admin, and its members the group? | 2 conversations, 3 users, 2 files, 4 requests, 2 at a time | 444,952 |
| `accounts` | who can log in, what is a code good for, who is found? | 2 users, addresses, passwords and codes, 5 requests, 2 at a time | 1,038,681 |
| `community` | is there one vote and one like, and is nothing lost of a poll or a thread? | 2 users, 2 posts, 4 requests, 2 at a time, polls of up to 2 options | 167,721 |
| `enrolment` | do step, rows, files and queue of an enrollment agree? | 1 request beside the worker and the student, 1 edit, 2 jobs, 3 rows, 6 files, 1 fault | 342,003 |

Why the bounds are enough. A lost update needs two requests in flight; a third and
fourth make the state they start from interesting (an existing plan, a settled order,
a group that someone has left). A fee of 3 over 2 installments leaves a remainder, so
unequal shares occur; a plan of 1 has no open rest. Two orders are enough for an order
linked to the wrong enrollment and for an orphan. At Stripe two sessions of one order
give every order of payment, expiry and delivery of the two. In a call two requests are
enough for two leaves that miss each other, two rows of one member and a call ended
while it is started. In the chat two connections of one user are two tabs, or an old
handler beside a new one; the message is one that is found or one that is not. What
is proved (section 3) holds for every size, so that these runs are small.

Two classes are a next one and another, two modules two that want the same title. Two
requests about different courses or classes share no row, so those in flight together
are about one (`MaxSubjects`); deletions come at any time. A course is created ACTIVE and edited to DRAFT, as one status that is offered and one that
is not. Two submissions are the second of one student or those of two who meet at one
teacher's grades. Three users are an admin, an heir and a bystander. Two accounts with
two addresses are enough for an address that changes hands, two codes for one that
replaces the other. A document's queue of two holds the two kinds, or one twice; three
rows are one more than there should be; six files are the two of the enrollment and one
for each of those at work. A larger instance of `EnrolmentDocuments` (two edits, no
fault, 1.6 million states) holds as well.

`MaxRequests`, `MaxInstallments`, `EditStatuses`, `MaxCalls`, `MaxRows`, `MaxMessages`,
`MaxTime`, `Duration`, `MaxSubjects`, `NewStatuses`, `Statuses`, `MaxSubmissions`, `Points`, `Marks`,
`Rows`, `MaxOptions`, `EditSteps`, `MaxEdits`, `MaxJobs`, `MaxFiles` and `MaxFaults` are
bounds of the model or of the values asked for; the code has none. The other constants
are sizes of identifier sets. `MCManualPayments` also checks, as an assumption, that
`Worth` is the sum of the shares and that the shares add up to the fee.

The runs of the six newer modules say `CHECK_DEADLOCK FALSE`: when the bounded requests
or identifiers are used up nobody has to ask for anything more. The others need it not:
a staff request may always be aborted and a scan repeated, Stripe may always deliver
again, and members may always connect. The type invariants of all modules hold on these
instances; three are proved.

What the runs show.

* `CreditIsCovered`, `PaidIffNothingDue`: lost updates exist (the second of two
  stale installment payments overwrites the credit of the first), but they only
  lose credit; the books never claim more than was received, and an order says
  PAID exactly when nothing is due.
* `AccessIsPaidFor`: two first payments create two orders and the first becomes an
  orphan, yet the access is paid for, on an order of the enrollment.
* `SuspensionIsWarranted`: a suspension leaves behind an OVERDUE plan with an
  OVERDUE installment past its due date.
* `OnlyOverdueIsSuspended` is violated. A payment that commits between the two
  halves of the job is overwritten: the installment just paid is OVERDUE again
  and the student who paid is suspended. See `findings`.
* `PaymentIsRecorded`, `StatusesAreTrue`, `AccessWasPaid`, `AnsweredIsGranted`,
  `PaidIsGranted`: no URL is handed out before its transaction exists, so a
  student can never pay a session the database does not know; statuses are true
  of some session; duplicates, restarts and late expiries do not lose a payment.
  A payment is lost, until the staff see it at Stripe, exactly when the handler
  threw, because that delivery is answered as well.
* `EmptyCallEnds`: each leave counts after it has left, so of the last who leave
  together at least one finds the room empty; only a failure in between leaves an
  empty call running.
* `CardMatchesParticipants`, `FollowsLifecycle`: finishing twice is harmless, a
  card is never reopened, and it says ENDED only with two rows in the books. A call
  ended between the creation of its session and that of its message leaves a card that
  says ONGOING, although `rtc.service.ts:550` says it "will be updated to ENDED/MISSED when the
  call finishes".
* `PresenceFollowsSockets`: tabs may open and close in any order, and a user with an
  admitted connection is present for the gateway and for the receipts.
* `WaitingIsDelivered`: a SENT receipt of a present user is delivered, with two
  exceptions that last until he comes again: the message was listed before he came and
  committed after the last look, or the delivery failed.
* `ReadMarkIsTrue`: up to `last_read_at` all is READ, but for a message that commits
  behind the mark and for a reading that overlaps a delivery. The delivery sets what was
  read in the meantime back to DELIVERED, which `socket_implementation_guide.md:447-454`
  does not know.
* `LossNeedsOverlap`, `RunsForward`, `TimetablesAgree`: edits one after the other lose
  nothing; only two starts at once put a start after its end; the timetables agree as
  long as no class is started before its time, and the student's first page with them.
* `GradedHasGrade`: GRADED without a grade is what a teacher's second submission of an
  assignment becomes, and a grading cut short; `GradeWithinTotal`, `GradeIsSeen`,
  `ProgressAddsUp`: a grade is within its total unless this was lowered, and everything
  shown is what was graded, unless a student submitted twice at once.
* `AdminRemains`, `NobodyLosesTheGroup`, `OneDirectPerPair`, `AvatarIsStored`: they hold
  for requests one after the other in any number and order. What breaks them are two
  departures at once, a departure overtaken by one's removal, two requests for one
  direct conversation, and an upload that fails or is overtaken.
* `RegisteredCanLogIn`: two registrations with one address at once both succeed, for the
  reader; one of them is nobody. `OneCodeInForce`, `CodeIsUsedOnce`, `ResetReachesItsOwner`:
  a code replaces the others, changes one password, and that of the one who asked,
  but for requests at the same time, a deletion that failed, and an address that changed
  hands meanwhile. `ActiveIsFound`: only the staff's status update leaves an ACTIVE account that
  nobody finds.
* `OneVoteAndOneLike`, `PollIsAsNamed`, `EveryCommentIsListed`: two clicks at once leave
  two likes or votes, and two edits at once or one that stops leave a poll with other
  options; comments are never lost.
* `CompletedStays`: a signature that read the step before a payment sets a COMPLETED
  enrollment back. `OneDocument`, `FilesMatchAttachments`, `SignedIsGenerated`: retries,
  lost jobs and orders made twice are harmless; two at work on one document are not.

### Seen while modelling

Reachable, or plain from the code, without a text in the repository that says otherwise
unless one is named.

* Payments: a one-time payment leaves the plan of its order ACTIVE, so a student who owes
  nothing can be suspended for an unpaid installment; a plan that became OVERDUE is not
  scanned again until a payment reactivates it; making a FREE enrollment payable again
  leaves it ACTIVE with an unpaid order; two tabs get two pending orders, and a paid
  session may be marked FAILED by a second checkout, so a student can pay twice; the
  expiry of one session cancels an order another session has paid, and the pages of the
  event then show its student as not registered. Stripe orders are
  stored in major units and manual payments in the unit of `fee_pence`. The revenue of
  `getStats` drops when an order is deleted, with its transactions.
* Calls: two members who start a call together get two running calls, and the older one
  is out of reach until the newer has ended; a member with two rows counts as two
  participants; who joins while the call is being ended is in the books of an ended call.
* Classes: a class that was started and never ended stays the one announced on the
  student's first page, before any class to come.
* Chat: a socket that closes while `userExists` is awaited is admitted afterwards and
  never removed, so its user stays present until the server restarts; `clearForMe` can
  move `last_read_at` back; `getConversationMessages` takes `limit` rows, so its
  `next_cursor` is never set.
* Classes: attendance by QR code cannot work (`getAttendanceQR` creates a session without
  the required `expires_at`, so `makeAttendance` finds none), although the repository's
  README and `api_list.md` document it; `updateModule` refuses a title that is unchanged
  or not given; `getAllModules` never shows NEXT; `getCoursesByUserId` builds a filter and
  does not use it; deleting a class leaves the files of its assets in storage, and
  `deleteClassAsset` deletes the file before the row.
* Groups: removing an admin promotes another member although the remover is one;
  `addMembers` and `removeMember` accept direct conversations; the last admin can demote
  himself; `getMyConversations` counts members who left; the old avatar is deleted before
  the new one is stored; `getAttachments` repeats the last row on the next page.
* Accounts: `register` answers success when `createUser` reports failure; refresh tokens
  are never stored, so refreshing always refuses; an account with a second factor cannot
  log in, as the local strategy passes no code; `UserStatusGuard` runs before the request
  has a user and lets everyone pass, although its comment (`user-status.guard.ts:41`) says
  "Always block BLOCKED users"; `activateAccount` overwrites any status; `api_list.md:165-175`
  names the field of `reset-password` "otp", and the controller reads `token`. A code says
  neither what it was asked for nor by whom: an e-mail change takes a code that another
  account asked for, and moves the address. `ResetReachesItsOwner` first excepted only the
  addresses the staff give away; its proof failed on this step, TLC reaches it once six
  requests are allowed, and `moved` in `Accounts` now records it.
* Community: an edit that does not name a visibility makes a post PUBLIC; an empty list
  of friends does not clear the list; an approval survives every edit; a vote's option
  need not be one of the post's; a user whose comment others have answered cannot be
  deleted; the feed shows the last row of a page again on the next.
* Enrolment: a late job overwrites a document the staff uploaded; a job that read the
  enrollment before its deletion leaves its file; an enrolment refused by the unique index
  leaves its two files; students enrolled by the staff have no signature, so the page of
  signed documents shows them nothing.

### Fairness

`ManualPayments!FairSpec`: `WF(Scan)`, because the job is repeated every hour
(`transaction.service.ts:47-56`), and `SF(Suspend)`, because a run may fail after
its scan but the next repetition scans again, and not every run fails. Staff and
clock have no fairness.

`StripeCheckout!FairSpec`: strong fairness for the delivery of an owed event
(Stripe retries until it is answered), weak fairness for the next step of a
delivery in hand (promises settle), and a server that does not restart for ever.
An error in a handler is allowed at any time and excused by `lost`. The student
pays, opens tabs and comes back without fairness.

`Calls!FairSpec`: weak fairness for the next step of each request in flight (a
promise settles or rejects); a rejection is `Drop`, which `EmptyCallEnds` excuses.
Nobody has to leave, join or end.

`ChatDelivery!FairChatSpec`: weak fairness for the next step of each connection's handler,
by the same argument; a rejection is `ConnectionFails`, and what it leaves is in
`missed`. Members connect, send and read without fairness.

`EnrolmentDocuments!FairEnrolmentSpec`: weak fairness for the worker, which takes the next job
when there is one, and for `View`: `SignedIsGenerated` says what a student gets who
keeps looking, because a job that is lost is ordered again only by the page. Faults
are bounded by `MaxFaults`.

The other modules have nothing that must happen: every request ends by itself, and no
one waits for another. They are checked for safety only.

## 3. Proofs

`ManualPaymentsProofs` proves, for every value of the constants allowed by
`BillingAssumption` (any numbers of enrollments, orders, admins and jobs, any
fee, any longest plan, any bound on requests):

| Theorem | Property |
|---|---|
| `Invariance` | `Spec => []IInv` |
| `TypeCorrectness` | `TypeOK` |
| `CreditCovered` | `CreditIsCovered` |
| `PaidMeansNothingDue` | `PaidIffNothingDue` |
| `AccessPaidFor` | `AccessIsPaidFor` |
| `SuspensionWarranted` | `SuspensionIsWarranted` |
| `LinksAreSound` | `LinkedOrderExists` |

The properties are not inductive: an action computes from a snapshot, and
nothing in the properties says what a snapshot is worth. `IInv` adds it:

* `RefersToOwn`: a linked order, the order of a snapshot and the finding of a job
  belong to the enrollment they are used for, or are gone;
* `Covered`: for an order never made FREE, credit is at most what was received
  and `due + received >= Fee`; what a payment has read satisfies the same against
  what has been received *since*, because `received` only grows; and the paid
  installments of a plan, and of a snapshot of it, are worth at most what was
  received. The last one makes a plan COMPLETED by its installments safe.

The argument has four layers, each a step lemma over all actions: `TypeStep`,
`OwnershipStep`, `CoveredStep` (with `InstallmentsAreCovered` for the arithmetic
of the split: `FeeSplit`, `WorthIsMonotone`, `WorthOfUnion`, `WorthOfPlan`), and
`AccessStep` with `SuspensionStep`. `NextIInv` puts them together and
`Invariance` adds the temporal step.

`ChatProofs` holds the proofs about `Calls` and `ChatDelivery`, the two halves of the
gateway. About `Calls` it proves, for any members, requests, calls and rows:

| Theorem | Property |
|---|---|
| `Invariance` | `Spec => []IInv` |
| `TypeCorrectness` | `TypeOK` |
| `LastOneEndsTheCall` | `EmptyCallIsBeingEnded` |
| `CardsMatch` | `CardMatchesParticipants` |
| `CallsImplementLifecycle` | `FollowsLifecycle`, the refinement of `CallLifecycle` |

Its `IInv` adds what a request may rely on between two awaits: the call it knows
was started and the row it is about to write belongs to its user and call
(`KnowsItsCall`); who announces has put the caller in the books, who counts has
ended the call, and a verdict ENDED has two rows behind it (`HasDoneItsPart`). The
proof has one lemma per kind of step. `OthersStay` and `EndingStays` say once why
a step of one request leaves the others what they rely on: books only grow, a
caller stays the caller, and an ended call stays ended. `StepOfLifecycle` then maps
`CreateSession`, `Announce`, `Finish` and `Finalize` to the steps of
`CallLifecycle` and every other step to a stutter.

About `ChatDelivery` it proves, for any members, connections,
concurrent sends and number of messages:

| Theorem | Property |
|---|---|
| `ChatInvariance` | `ChatSpec => []ChatInv` |
| `ChatTypeCorrectness` | `ChatTypeOK` |
| `PresenceIsRight` | `PresenceFollowsSockets` |
| `NothingIsForgotten` | `UndeliveredIsAwaited` |
| `ReadMarkHolds` | `ReadMarkIsTrue` |

The properties become inductive with `HandlersKnowTheirUser` (what a handler has found
are receipts of its user, so that a delivery creates none) and `SendsAreNumbered`
(messages in flight differ and are not seen yet, so that a commit replaces nothing).
Steps of connections leave the rows alone and share `ConnectionStep`; `UndeliveredStays`
says once when a step of one handler keeps everything awaited; readings share
`ReadMessagesStep`.

`EnrolmentProofs` holds the proofs about `StripeCheckout` and `EnrolmentDocuments`, the two
ways to an enrollment: how it is paid for and how it is signed. About `StripeCheckout` it
proves, for any courses, events, sessions, orders, tabs and webhook workers:

| Theorem | Property |
|---|---|
| `Invariance` | `Spec => []IInv` |
| `TypeCorrectness` | `TypeOK` |
| `PaymentsAreRecorded` | `PaymentIsRecorded` |
| `StatusesTellTheTruth` | `StatusesAreTrue` |
| `AccessIsPaid` | `AccessWasPaid` |
| `AnsweredGivesAccess` | `AnsweredIsGranted` |
| `CheckoutImplementsPaidAccess` | `KeepsThePromise`, the refinement of `PaidAccess` |

`createCheckout` creates a session, an order and a transaction, one after the other and
any of them may be the last. `RowsAgree` says what is true in between: a transaction
records a session that exists for an order of its item, and nothing is handed out before
it is recorded. `CheckoutKnows` and `HandlerKnows` say what a checkout and a delivery
remember, `SessionsAreOwned` that no two checkouts record one session, and
`StatusesHaveACause` and `LinksArePaid` trace each written status and each granted
access back to a complete session. For the refinement, `Pay` takes the payment of an
item, `Grant` gives access to one that was paid, and every other step stutters.

About `EnrolmentDocuments` it proves, for any requests, rows, files and bounds on jobs,
faults and edits:

| Theorem | Property |
|---|---|
| `EnrolmentInvariance` | `EnrolmentSpec => []EnrolmentInv` |
| `EnrolmentTypeCorrectness` | `EnrolmentTypeOK` |
| `CompletedHolds` | `CompletedStays` |
| `OneDocumentHolds` | `OneDocument` |
| `FilesMatch` | `FilesMatchAttachments` |

`EnrolmentInv` has two layers. `Sound`, `CompletedStays` and `SignIsLate` do not speak of
what is in storage: the shape of the queue and of what each actor carries (`QueueFits`,
`RequestIsSound`, `WorkerIsSound`), that nothing exists before the enrollment
(`NothingBefore`), and that a signature still in flight when a payment completes the
enrollment is `late`. The proofs call this layer `Basis`, and `RequestBasis` and
`WorkerBasis` keep it.

The other layer says whose each file is. Files of attachments are `FilesApart`; a file an
actor has put and not yet written into a row is in storage and known to nobody else
(`Owns`); a file an actor has read is the file of the row it was read from or of none
(`Remembers`), so that deleting it can hurt no other document. Where nobody `raced`, an
actor `Knows` all the rows of the document it writes, so that an upsert replaces and does not add;
`MissingIsReplaced` names the row whose file is away, and `NothingIsLeft` who will clean up a
file without a row. Steps that leave the rows alone share `StoringStep`, those that attach
a document share `AttachingStep`; `CommitMake` and `CommitDelete`, which write or drop all
rows at once, are argued by themselves. That the worker is none of the requests and that
there is room for both documents (`MaxRows >= 2`) is assumed.

`GroupMembershipProofs` proves about `GroupMembership`, for any finite set of users and any
conversations, files and requests:

| Theorem | Property |
|---|---|
| `Invariance` | `Spec => []IInv` |
| `TypeCorrectness` | `TypeOK` |
| `AnAdminRemains` | `AdminRemains` |
| `OneDirect` | `OneDirectPerPair` |
| `AvatarsAreStored` | `AvatarIsStored` |
| `GroupsGoByRight` | `NobodyLosesTheGroup`, an action property |

What a request has read is worth something only as long as it is `fresh`. `KnowsTheTable`
says for each kind of request what it still knows then: a creator that there is no direct
conversation of the two, a remover and a deleter that they are admins, a departing member
his role and that an heir or another admin stays. `KnowsItsFile` and `FilesAreOwn` say the
same of avatars, `DirectsHaveTwo` and `DirectsDiffer` make direct conversations unique.
Finiteness of `Users` is assumed because a departure counts those who remain.

`AccountsProofs` proves about `Accounts`, for any users, addresses, codes, passwords and
requests:

| Theorem | Property |
|---|---|
| `Invariance` | `Spec => []IInv` |
| `TypeCorrectness` | `TypeOK` |
| `RegisteredGetIn` | `RegisteredCanLogIn` |
| `OneCode` | `OneCodeInForce` |
| `CodesAreSpent` | `CodeIsUsedOnce` |
| `ResetsReach` | `ResetReachesItsOwner` |
| `ActiveAreFound` | `ActiveIsFound` |

`KnowsTheTables` is again about fresh requests: who registers knows the address free, who
creates a code that no other is in force, who resets a password that the code's user owns
the address. `CodesReachTheirUser` says this of the stored codes and is where the
exceptions of `ResetReachesItsOwner` come from (`Undisturbed`). `CodesAreUsedUp` follows a
used code to its deletion.

`CourseworkProofs` proves about `Coursework`, for any classes, assignments, students,
teachers, points and requests:

| Theorem | Property |
|---|---|
| `Invariance` | `Spec => []IInv` |
| `TypeCorrectness` | `TypeOK` |
| `GradedHaveGrades` | `GradedHasGrade` |
| `GradesAreWithin` | the grades of every assignment whose total was not lowered are `GradesWithin` it |
| `GradesAreSeen` | `GradeIsSeen` |
| `ProgressIsTrue` | `ProgressAddsUp` |

`RequestKnows` carries what was read over to the write: a grade in flight is within the
total as it is *now*, as totals that were not lowered only grow, and a student who may
submit has not submitted unless he is noted in `overlapped`. With `OneSubmission` the
latest submission that a page chooses is the only one, and mapping a student's submissions to
their assignments is an injection, so that no more are done than there are.
`AssignmentsAreOfClasses` makes the assignments there are finitely many.

`CommunityProofs` proves about `Community`, for any users, posts, requests and bounds:

| Theorem | Property |
|---|---|
| `Invariance` | `Spec => []IInv` |
| `TypeCorrectness` | `TypeOK` |
| `VotesAndLikesAreOne` | `OneVoteAndOneLike` |
| `PollsAreAsNamed` | `PollIsAsNamed` |
| `CommentsAreListed` | `EveryCommentIsListed` |

`RequestKnows` says that the vote or like a request has found is the only one, that an edit
finds the old options gone, and that a comment, if still there, starts a thread of the post.
The proof compares before and after: `FewerVotes`, `FewerLikes` and `FewerOptions` say that
a step leaves a user no more rows about a thing than there were, or that the step (or an
earlier one) is noted as late; `KnowsStays` and `OneStays` conclude from that alone, for
every step. `RepliesAreInThreads` is why the list is complete: a reply hangs under a comment
of the same post that starts a thread, and the database keeps it while it has replies.

`ClassScheduleProofs` proves about `ClassSchedule`, for any courses, modules, titles, times
and requests and any finite set of classes:

| Theorem | Property |
|---|---|
| `Invariance` | `Spec => []IInv` |
| `TypeCorrectness` | `TypeOK` |
| `LossNeedsOverlapHolds` | `LossNeedsOverlap` |
| `RunsForwardHolds` | `RunsForward` |
| `TimetablesAgreeHolds` | `TimetablesAgree` |

`RequestKnows` says what each edit still knows of the row it has read: the status or time it
will write back is the one in the row, unless it was given or the request is `late`; a title
found free is free; a class to be started was not started. Each write makes the others that
have read the same late, and the deletions take rows away without changing those that stay:
`KnowsStays` and `OnlyTheRequest` say once what each request keeps then, `CourseWritten`,
`ModuleWritten`, `ClassWritten` and `CascadeStep` what a write of each table leaves true.
`TimetablesAgree` then follows in one state: `ToCome` says that what is planned for later
neither runs nor is over, so that the pages, which ask this in different ways, choose the
earliest of the same classes (`CourseTimetables`, `OverviewTimetable`). That identifiers of
the three tables differ is assumed: they are cuids, and `asked` and `overlapped` hold rows
of any of them.

All of them cite the assumptions of their module and no others.

`IInv`, `ChatInv`, `EnrolmentInv`, the type invariants of the modules above, `LinkedOrderExists`,
`EmptyCallIsBeingEnded` and `UndeliveredIsAwaited` are invariants by these theorems and are
not repeated in the runs. `EnrolmentInv`, the largest, was model-checked apart before it was
proved: completely with one request, two edits and no fault and with one request, one edit
and one fault, and on 8 million states with two requests.

Only model-checked:

* the liveness properties `OverdueIsActedOn`, `PaidIsGranted`, `EmptyCallEnds`,
  `WaitingIsDelivered` and `SignedIsGenerated`: liveness under fairness and `ENABLED` are
  out of the prover's reach;
* the second conjunct of `GradeWithinTotal`, on the sum of the grades, which is a fold over
  a set and would need induction over data. No other property needs induction: `Worth` in
  `ManualPayments` is defined by cardinalities.

## 4. Not modelled

* Notifications, settings, FAQ, contact, website information: rows that
  one request writes and others show; no property relates several of their steps. The
  same holds of the events themselves and of the counts on the overview pages.
* Mail, storage, seeding, abilities, pipes, middleware: input, output and wiring. Storage
  appears where a file and its row must agree (`GroupMembership`, `EnrolmentDocuments`).
* `public/frontend`: pages that try the chat and the calls by hand for the gateway, not part of the service.
* Parts of modelled components: blocks, reports, typing, rooms, LiveKit tokens, the
  digits of codes and authenticators, the passport strategies, the ranking and paging of lists, titles
  of groups, instructors, the contents of documents, messages and posts. `components`
  in `PROJECT.json` says for each what is left out.

## 5. Plan

Every safety and action property that holds of a run is stated by a theorem, but for the sum
in `GradeWithinTotal`; what is only model-checked stays so for the reasons above. Should the
service gain the parts of section 4 that now have no state worth protecting, each would
become a module of its own, with its runs and proofs like the others.
