--------------------------- MODULE StripeCheckout ---------------------------
(***************************************************************************)
(* Paying for a course or an event through Stripe Checkout:                *)
(* payment/stripe/stripe.service.ts and the webhook of                     *)
(* payment/stripe/stripe.controller.ts, for one student.                   *)
(*                                                                         *)
(* No database transaction is used here: every awaited query or call to    *)
(* Stripe is an action of its own, and requests from several tabs and      *)
(* several webhook deliveries interleave between them.  Stripe, which is   *)
(* outside the repository, delivers the event of a session at least once,  *)
(* in any order, until a delivery is answered; the webhook answers 2xx     *)
(* also when its handler threw, so an error is as final as a success.      *)
(***************************************************************************)
EXTENDS Integers, FiniteSets

CONSTANTS
  Courses,    \* enrollments of the student that wait for payment
  Events,     \* events the student may buy a ticket for
  Sessions,   \* identifiers of Stripe sessions, never reused
  Orders,     \* identifiers of order rows, never reused
  Tabs,       \* checkout requests that may be in flight together
  Workers,    \* webhook deliveries that may be handled together
  None        \* a null reference

Items == Courses \cup Events

ASSUME CheckoutAssumption ==
  /\ Courses \cap Events = {}
  /\ IsFiniteSet(Sessions)
  /\ None \notin Items \cup Sessions \cup Orders
  /\ None # "PAID"

VARIABLES
  session,     \* Stripe's sessions: status and the item in their metadata
  handedOut,   \* sessions whose URL the student was given
  owed,        \* sessions whose event was not answered yet
  order,       \* the orders table
  tx,          \* the payment_transactions table, keyed by its unique session id
  access,      \* the enrollment of a course, the registration of an event
  checkout,    \* the checkout requests in flight
  handler,     \* the webhook deliveries in flight
  lost         \* history: sessions whose delivery was answered after an error

vars == <<session, handedOut, owed, order, tx, access, checkout, handler, lost>>

-----------------------------------------------------------------------------
(* Rows and requests *)

Session == [status : {"NONE", "open", "complete", "expired"}, item : Items \cup {None}]

OrderRow == [status : {"NONE", "PENDING", "PAID", "CANCELLED"}, item : Items \cup {None}]

\* `at' is the place in the order of creation (created_at).
Transaction ==
  [status : {"NONE", "PENDING", "SUCCESS", "FAILED"},
   order  : Orders \cup {None},
   at     : Nat]

\* granted: an ACTIVE and COMPLETED enrollment, a CONFIRMED registration.
Access == [granted : BOOLEAN, order : Orders \cup {None}]

Checkout ==
  [pc      : {"idle", "lookup", "resume", "markFailed", "createSession",
              "createOrder", "createTx"},
   item    : Items \cup {None},
   order   : Orders \cup {None},
   session : Sessions \cup {None}]

Handler ==
  [pc      : {"idle", "succeed", "settle", "readAccess", "grant", "fail", "cancel"},
   session : Sessions \cup {None},
   unlinked : BOOLEAN]

NoSession == [status |-> "NONE", item |-> None]
NoOrder == [status |-> "NONE", item |-> None]
NoTransaction == [status |-> "NONE", order |-> None, at |-> 0]
NoAccess == [granted |-> FALSE, order |-> None]
IdleTab == [pc |-> "idle", item |-> None, order |-> None, session |-> None]
IdleWorker == [pc |-> "idle", session |-> None, unlinked |-> FALSE]

PendingOrders(i) == {o \in Orders : order[o].status = "PENDING" /\ order[o].item = i}

PendingTxs(o) == {s \in Sessions : tx[s].status = "PENDING" /\ tx[s].order = o}

Recorded == {s \in Sessions : tx[s].status # "NONE"}

\* orderBy created_at desc
Latest(S) == {s \in S : \A t \in S : tx[t].at <= tx[s].at}

-----------------------------------------------------------------------------
(* createCheckout: one action for each await *)

At(c, pc) == checkout[c].pc = pc

Goto(c, pc) == checkout' = [checkout EXCEPT ![c].pc = pc]

\* The enrollment or the registration is read: what was paid for already is
\* refused.
Begin(c, i) ==
  /\ At(c, "idle")
  /\ ~access[i].granted
  /\ checkout' = [checkout EXCEPT ![c] = [IdleTab EXCEPT !.pc = "lookup", !.item = i]]
  /\ UNCHANGED <<session, handedOut, owed, order, tx, access, handler, lost>>

\* A pending order is looked up, with its latest pending transaction; any
\* pending order may be the first one found.
Lookup(c) ==
  LET i == checkout[c].item
      Found(o, s, pc) == checkout' =
        [checkout EXCEPT ![c] = [pc |-> pc, item |-> i, order |-> o, session |-> s]]
  IN  /\ At(c, "lookup")
      /\ \/ PendingOrders(i) = {} /\ Found(None, None, "createSession")
         \/ \E o \in PendingOrders(i) :
              \/ PendingTxs(o) = {} /\ Found(o, None, "createSession")
              \/ \E s \in Latest(PendingTxs(o)) : Found(o, s, "resume")
      /\ UNCHANGED <<session, handedOut, owed, order, tx, access, handler, lost>>

\* Its session is retrieved from Stripe: an open one is handed out again.
Resume(c) ==
  LET s == checkout[c].session
  IN  /\ At(c, "resume")
      /\ IF session[s].status = "open"
           THEN /\ handedOut' = handedOut \cup {s}
                /\ checkout' = [checkout EXCEPT ![c] = IdleTab]
           ELSE /\ Goto(c, "markFailed")
                /\ UNCHANGED handedOut
      /\ UNCHANGED <<session, owed, order, tx, access, handler, lost>>

\* Any other session, a paid one too, has its transaction marked FAILED.
MarkFailed(c) ==
  /\ At(c, "markFailed")
  /\ tx' = [tx EXCEPT ![checkout[c].session].status = "FAILED"]
  /\ Goto(c, "createSession")
  /\ UNCHANGED <<session, handedOut, owed, order, access, handler, lost>>

\* An error of either of the two calls is ignored.
IgnoreError(c) ==
  /\ checkout[c].pc \in {"resume", "markFailed"}
  /\ Goto(c, "createSession")
  /\ UNCHANGED <<session, handedOut, owed, order, tx, access, handler, lost>>

\* Mutant of CreateSession: the URL is returned before anything is recorded.
CreateSessionRedirectingEarly(c, s) ==
  /\ At(c, "createSession")
  /\ session[s].status = "NONE"
  /\ session' = [session EXCEPT ![s] = [status |-> "open", item |-> checkout[c].item]]
  /\ handedOut' = handedOut \cup {s}
  /\ checkout' = [checkout EXCEPT ![c].session = s,
       ![c].pc = IF checkout[c].order = None THEN "createOrder" ELSE "createTx"]
  /\ UNCHANGED <<owed, order, tx, access, handler, lost>>

\* A new session is created at Stripe ...
CreateSession(c, s) ==
  /\ At(c, "createSession")
  /\ session[s].status = "NONE"
  /\ session' = [session EXCEPT ![s] = [status |-> "open", item |-> checkout[c].item]]
  /\ checkout' = [checkout EXCEPT ![c].session = s,
       ![c].pc = IF checkout[c].order = None THEN "createOrder" ELSE "createTx"]
  /\ UNCHANGED <<handedOut, owed, order, tx, access, handler, lost>>

\* ... and, when no order is pending, an order ...
CreateOrder(c, o) ==
  /\ At(c, "createOrder")
  /\ order[o].status = "NONE"
  /\ order' = [order EXCEPT ![o] = [status |-> "PENDING", item |-> checkout[c].item]]
  /\ checkout' = [checkout EXCEPT ![c].order = o, ![c].pc = "createTx"]
  /\ UNCHANGED <<session, handedOut, owed, tx, access, handler, lost>>

\* ... and the transaction; only then is the URL returned.
CreateTx(c) ==
  LET s == checkout[c].session
  IN  /\ At(c, "createTx")
      /\ tx' = [tx EXCEPT ![s] = [status |-> "PENDING", order |-> checkout[c].order,
                                  at |-> Cardinality(Recorded)]]
      /\ handedOut' = handedOut \cup {s}
      /\ checkout' = [checkout EXCEPT ![c] = IdleTab]
      /\ UNCHANGED <<session, owed, order, access, handler, lost>>

\* The request fails, or the server restarts, between two awaits.
AbortCheckout(c) ==
  /\ ~At(c, "idle")
  /\ checkout' = [checkout EXCEPT ![c] = IdleTab]
  /\ UNCHANGED <<session, handedOut, owed, order, tx, access, handler, lost>>

-----------------------------------------------------------------------------
(* Stripe and the student *)

\* The student pays an open session; Stripe owes the event.
Pay(s) ==
  /\ s \in handedOut
  /\ session[s].status = "open"
  /\ session' = [session EXCEPT ![s].status = "complete"]
  /\ owed' = owed \cup {s}
  /\ UNCHANGED <<handedOut, order, tx, access, checkout, handler, lost>>

\* An open session expires after a day.
Expire(s) ==
  /\ session[s].status = "open"
  /\ session' = [session EXCEPT ![s].status = "expired"]
  /\ owed' = owed \cup {s}
  /\ UNCHANGED <<handedOut, order, tx, access, checkout, handler, lost>>

-----------------------------------------------------------------------------
(* The webhook: handleCheckoutCompleted and handleCheckoutExpired *)

\* Mutant of HandlerFor: the type of the event is not looked at.
HandlerForAnyEvent(s) == "succeed"

\* The handler of the event: handleCheckoutCompleted or handleCheckoutExpired.
HandlerFor(s) == IF session[s].status = "complete" THEN "succeed" ELSE "fail"

\* Mutant of Deliver: an event is taken for a duplicate, and answered, when its
\* transaction is no longer PENDING.
DeliverOnce(h, s) ==
  /\ handler[h].pc = "idle"
  /\ session[s].status \in {"complete", "expired"}
  /\ IF tx[s].status = "PENDING"
       THEN /\ handler' = [handler EXCEPT ![h] =
                 [IdleWorker EXCEPT !.session = s, !.pc = HandlerFor(s)]]
            /\ UNCHANGED owed
       ELSE /\ owed' = owed \ {s}
            /\ UNCHANGED handler
  /\ UNCHANGED <<session, handedOut, order, tx, access, checkout, lost>>

\* Mutant of Deliver: the event is answered first and handled afterwards.
DeliverAnsweringFirst(h, s) ==
  /\ handler[h].pc = "idle"
  /\ session[s].status \in {"complete", "expired"}
  /\ owed' = owed \ {s}
  /\ handler' = IF s \in Recorded
       THEN [handler EXCEPT ![h] = [IdleWorker EXCEPT !.session = s, !.pc = HandlerFor(s)]]
       ELSE handler
  /\ UNCHANGED <<session, handedOut, order, tx, access, checkout, lost>>

\* The event of a session is delivered, as often as Stripe likes, and its
\* transaction looked up.  Without a transaction there is nothing to do.
Deliver(h, s) ==
  /\ handler[h].pc = "idle"
  /\ session[s].status \in {"complete", "expired"}
  /\ IF s \in Recorded
       THEN /\ handler' = [handler EXCEPT ![h] =
                 [IdleWorker EXCEPT !.session = s, !.pc = HandlerFor(s)]]
            /\ UNCHANGED owed
       ELSE /\ owed' = owed \ {s}
            /\ UNCHANGED handler
  /\ UNCHANGED <<session, handedOut, order, tx, access, checkout, lost>>

\* The delivery is answered.
Answer(h) ==
  /\ owed' = owed \ {handler[h].session}
  /\ handler' = [handler EXCEPT ![h] = IdleWorker]

Step(h, from, to) ==
  /\ handler[h].pc = from
  /\ handler' = [handler EXCEPT ![h].pc = to]

Succeed(h) ==
  /\ Step(h, "succeed", "settle")
  /\ tx' = [tx EXCEPT ![handler[h].session].status = "SUCCESS"]
  /\ UNCHANGED <<session, handedOut, owed, order, access, checkout, lost>>

Settle(h) ==
  /\ Step(h, "settle", "readAccess")
  /\ order' = [order EXCEPT ![tx[handler[h].session].order].status = "PAID"]
  /\ UNCHANGED <<session, handedOut, owed, tx, access, checkout, lost>>

ItemOf(h) == session[handler[h].session].item

\* The enrollment is read, or the registration, which may exist already.
ReadAccess(h) ==
  LET i == ItemOf(h)
  IN  /\ handler[h].pc = "readAccess"
      /\ IF i \in Events /\ access[i].granted
           THEN Answer(h)
           ELSE /\ handler' = [handler EXCEPT ![h].pc = "grant",
                                              ![h].unlinked = (access[i].order = None)]
                /\ UNCHANGED owed
      /\ UNCHANGED <<session, handedOut, order, tx, access, checkout, lost>>

\* Mutant of Grant: the order is linked only where one was linked before.
GrantUnlinked(h) ==
  /\ handler[h].pc = "grant"
  /\ access' = [access EXCEPT ![ItemOf(h)].granted = TRUE]
  /\ Answer(h)
  /\ UNCHANGED <<session, handedOut, order, tx, checkout, lost>>

\* The enrollment is activated, and linked to the order if it had none when it
\* was read; a second registration is refused by its unique index.
Grant(h) ==
  LET i == ItemOf(h)
      o == tx[handler[h].session].order
  IN  /\ handler[h].pc = "grant"
      /\ access' = [access EXCEPT ![i] =
           IF i \in Events /\ @.granted THEN @
           ELSE [granted |-> TRUE, order |-> IF handler[h].unlinked THEN o ELSE @.order]]
      /\ Answer(h)
      /\ UNCHANGED <<session, handedOut, order, tx, checkout, lost>>

Fail(h) ==
  /\ Step(h, "fail", "cancel")
  /\ tx' = [tx EXCEPT ![handler[h].session].status = "FAILED"]
  /\ UNCHANGED <<session, handedOut, owed, order, access, checkout, lost>>

Cancel(h) ==
  /\ handler[h].pc = "cancel"
  /\ order' = [order EXCEPT ![tx[handler[h].session].order].status = "CANCELLED"]
  /\ Answer(h)
  /\ UNCHANGED <<session, handedOut, tx, access, checkout, lost>>

\* A query throws: the controller answers all the same.
HandlerThrows(h) ==
  /\ handler[h].pc # "idle"
  /\ lost' = lost \cup {handler[h].session}
  /\ Answer(h)
  /\ UNCHANGED <<session, handedOut, order, tx, access, checkout>>

\* The server restarts: no answer, so Stripe delivers again.
Crash(h) ==
  /\ handler[h].pc # "idle"
  /\ handler' = [handler EXCEPT ![h] = IdleWorker]
  /\ UNCHANGED <<session, handedOut, owed, order, tx, access, checkout, lost>>

\* verifyPayment: what the student's page shows of a session.
Verified(s) ==
  [status |-> tx[s].status,
   order  |-> IF tx[s].order = None THEN None ELSE order[tx[s].order].status]

-----------------------------------------------------------------------------
(* The other pages that read these rows *)

\* The list of transactions of the staff, filtered by status and by item.
Transactions(statuses, I) ==
  {s \in Recorded :
     /\ tx[s].status \in statuses
     /\ tx[s].order # None /\ order[tx[s].order].item \in I}

\* The payments the revenue of courses or of events is the sum of.
Revenue(I) == Transactions({"SUCCESS"}, I)

\* The list of events and the page of one: an event is shown as registered
\* when the order of the registration is PAID at the moment.
IsRegistered(i) ==
  /\ access[i].granted
  /\ \E o \in Orders : access[i].order = o /\ order[o].status = "PAID"

\* The staff's list of an event's members shows the latest transaction of the
\* registration's order, and fails when the order has none.
ShownToStaff(i) == Latest({s \in Recorded : tx[s].order = access[i].order})

-----------------------------------------------------------------------------
(* The specification *)

Init ==
  /\ session = [s \in Sessions |-> NoSession]
  /\ handedOut = {}
  /\ owed = {}
  /\ order = [o \in Orders |-> NoOrder]
  /\ tx = [s \in Sessions |-> NoTransaction]
  /\ access = [i \in Items |-> NoAccess]
  /\ checkout = [c \in Tabs |-> IdleTab]
  /\ handler = [h \in Workers |-> IdleWorker]
  /\ lost = {}

\* createCourseCheckout and createEventCheckout, up to the new session.
CourseCheckout(c) ==
  \/ \E i \in Courses : Begin(c, i)
  \/ /\ checkout[c].item \in Courses
     /\ Lookup(c) \/ Resume(c) \/ MarkFailed(c) \/ IgnoreError(c)

EventCheckout(c) ==
  \/ \E i \in Events : Begin(c, i)
  \/ /\ checkout[c].item \in Events
     /\ Lookup(c) \/ Resume(c) \/ MarkFailed(c) \/ IgnoreError(c)

CheckingOut ==
  \E c \in Tabs :
    \/ CourseCheckout(c)
    \/ EventCheckout(c)
    \/ \E s \in Sessions : CreateSession(c, s)
    \/ \E o \in Orders : CreateOrder(c, o)
    \/ CreateTx(c) \/ AbortCheckout(c)

AtStripe == \E s \in Sessions : Pay(s) \/ Expire(s)

Handling ==
  \E h \in Workers :
    \/ \E s \in Sessions : Deliver(h, s)
    \/ Succeed(h) \/ Settle(h) \/ ReadAccess(h) \/ Grant(h)
    \/ Fail(h) \/ Cancel(h) \/ HandlerThrows(h) \/ Crash(h)

Next == CheckingOut \/ AtStripe \/ Handling

Spec == Init /\ [][Next]_vars

Working(h) ==
  Succeed(h) \/ Settle(h) \/ ReadAccess(h) \/ Grant(h) \/ Fail(h) \/ Cancel(h)

\* Stripe delivers what it owes, a delivery in hand goes on, and the server
\* does not restart for ever.
FairSpec ==
  /\ Spec
  /\ \A s \in Sessions : SF_vars(s \in owed /\ \E h \in Workers : Deliver(h, s))
  /\ \A h \in Workers : WF_vars(Working(h))
  /\ <>[][\A h \in Workers : ~Crash(h)]_vars

-----------------------------------------------------------------------------
(* Properties *)

Complete == {s \in Sessions : session[s].status = "complete"}

\* Every row, session and request has the shape the schema and Stripe give it.
TypeOK ==
  /\ session \in [Sessions -> Session]
  /\ handedOut \in SUBSET Sessions
  /\ owed \in SUBSET Sessions
  /\ order \in [Orders -> OrderRow]
  /\ tx \in [Sessions -> Transaction]
  /\ access \in [Items -> Access]
  /\ checkout \in [Tabs -> Checkout]
  /\ handler \in [Workers -> Handler]
  /\ lost \in SUBSET Sessions

\* No money is taken that the database cannot account for: a session the
\* student can pay has a transaction, of an order for the item of the session,
\* and the staff find it under that item, whatever fails or restarts between
\* the three creations.
PaymentIsRecorded ==
  \A s \in handedOut \cup Complete :
    s \in Transactions({"PENDING", "SUCCESS", "FAILED"}, {session[s].item})

\* SUCCESS, PAID and CANCELLED tell the truth about some session: late, early
\* and repeated deliveries never invent a payment or an expiry, nor show one to
\* the student who comes back from Stripe, and the revenue of courses and of
\* events is made of sessions paid for courses and for events.
StatusesAreTrue ==
  /\ \A s \in Sessions :
       /\ Verified(s).status = "SUCCESS" => s \in Complete
       /\ Verified(s).order = "PAID" =>
            \E t \in Complete : session[t].item = session[s].item
  /\ \A I \in {Courses, Events} : \A s \in Revenue(I) :
       s \in Complete /\ session[s].item \in I
  /\ \A o \in Orders :
       /\ order[o].status = "PAID" => \E s \in Complete : tx[s].order = o
       /\ order[o].status = "CANCELLED" =>
            \E s \in Sessions : tx[s].order = o /\ session[s].status = "expired"

\* Access is linked to an order of its own that the student paid, even when
\* two payments for the same item are handled at the same time.
AccessWasPaid ==
  \A i \in Items :
    access[i].granted =>
      /\ access[i].order # None
      /\ order[access[i].order].item = i
      /\ \E s \in Complete : tx[s].order = access[i].order

\* A payment whose event was answered without an error gave access: nothing
\* the other deliveries or the checkouts do in between takes the event away.
AnsweredIsGranted ==
  \A s \in Complete : s \notin owed \cup lost => access[session[s].item].granted

\* A paid session gives access in the end, restarts and repeated deliveries
\* notwithstanding, unless a delivery of it was answered after an error.  The
\* staff's list of an event's members then finds a transaction, and the events
\* pages show the registration unless another session of its order expired.
PaidIsGranted ==
  \A s \in Sessions, i \in Items :
    s \in Complete /\ session[s].item = i ~>
      \/ s \in lost
      \/ /\ access[i].granted
         /\ i \in Events =>
              /\ ShownToStaff(i) # {}
              /\ IsRegistered(i) \/ \E t \in Sessions :
                   tx[t].order = access[i].order /\ session[t].status = "expired"

-----------------------------------------------------------------------------
(* The inductive invariant of the proofs *)

\* A transaction records a session that exists, for an order of its item, and
\* nothing is handed out, let alone paid, before its transaction exists.
RowsAgree ==
  /\ \A s \in Sessions : session[s].status # "NONE" => session[s].item # None
  /\ \A s \in Recorded :
       /\ session[s].status # "NONE"
       /\ tx[s].order # None
       /\ order[tx[s].order].status # "NONE"
       /\ order[tx[s].order].item = session[s].item
  /\ \A s \in Sessions \ Recorded : tx[s].order = None
  /\ Complete \subseteq handedOut
  /\ handedOut \subseteq Recorded

\* What a checkout remembers: an order of its item, a session found with a
\* transaction, or the session it created, which has none yet.
CheckoutKnows(c) ==
  LET k == checkout[c]
  IN  /\ k.pc # "idle" => k.item # None
      /\ k.order # None => order[k.order].status # "NONE" /\ order[k.order].item = k.item
      /\ k.pc \in {"resume", "markFailed"} => k.session \in Recorded
      /\ k.pc \in {"createOrder", "createTx"} =>
           /\ k.session \in Sessions \ Recorded
           /\ session[k.session].status # "NONE"
           /\ session[k.session].item = k.item
      /\ k.pc = "createTx" => k.order # None

\* No two checkouts record the same session.
SessionsAreOwned ==
  \A c, d \in Tabs :
    /\ c # d
    /\ checkout[c].pc \in {"createOrder", "createTx"}
    /\ checkout[d].pc \in {"createOrder", "createTx"}
    => checkout[c].session # checkout[d].session

\* What a delivery knows of its session, and of the access it is to give.
HandlerKnows(h) ==
  /\ handler[h].pc # "idle" => handler[h].session \in Recorded
  /\ handler[h].pc \in {"succeed", "settle", "readAccess", "grant"} =>
       handler[h].session \in Complete
  /\ handler[h].pc \in {"fail", "cancel"} => session[handler[h].session].status = "expired"
  /\ handler[h].pc = "grant" /\ ~handler[h].unlinked => access[ItemOf(h)].order # None

\* A status was written for a session that has reached it.
StatusesHaveACause ==
  /\ \A s \in Sessions : tx[s].status = "SUCCESS" => s \in Complete
  /\ \A o \in Orders :
       /\ order[o].status = "PAID" => \E s \in Complete : tx[s].order = o
       /\ order[o].status = "CANCELLED" =>
            \E s \in Sessions : tx[s].order = o /\ session[s].status = "expired"

\* A linked order is one of the item that was paid, and access is linked.
LinksArePaid ==
  \A i \in Items :
    /\ access[i].granted => access[i].order # None
    /\ access[i].order # None =>
         /\ order[access[i].order].item = i
         /\ \E s \in Complete : tx[s].order = access[i].order

IInv ==
  /\ TypeOK
  /\ RowsAgree
  /\ \A c \in Tabs : CheckoutKnows(c)
  /\ SessionsAreOwned
  /\ \A h \in Workers : HandlerKnows(h)
  /\ StatusesHaveACause
  /\ LinksArePaid
  /\ AnsweredIsGranted

-----------------------------------------------------------------------------
(* The refinement *)

Promise == INSTANCE PaidAccess WITH
  paid   <- {session[s].item : s \in Complete},
  access <- {i \in Items : access[i].granted}

\* The checkout implements what taking money promises.
KeepsThePromise == Promise!Spec
=============================================================================
