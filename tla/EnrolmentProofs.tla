-------------------------- MODULE EnrolmentProofs --------------------------
(***************************************************************************)
(* Theorems about the two ways to an enrollment: StripeCheckout, by which  *)
(* it is paid for, and EnrolmentDocuments, by which it is signed.  Each is *)
(* a specification of its own, with variables of its own, and no theorem   *)
(* is about both.  They hold for every number of courses, events,          *)
(* sessions, orders, tabs and webhook deliveries, and of requests, rows,   *)
(* files, jobs and faults.                                                 *)
(***************************************************************************)
EXTENDS StripeCheckout, EnrolmentDocuments, FiniteSetTheorems, TLAPS

-----------------------------------------------------------------------------
(* StripeCheckout: the inductive invariant *)

\* It holds before anything was bought.
LEMMA InitIInv == Init => IInv
<1> SUFFICES ASSUME Init PROVE IInv
  OBVIOUS
<1> USE DEF Init, NoSession, NoOrder, NoTransaction, NoAccess, IdleTab, IdleWorker
<1>1. TypeOK
  BY DEF TypeOK, Session, OrderRow, Transaction, Access, Checkout, Handler
<1>2. Recorded = {} /\ Complete = {}
  BY DEF Recorded, Complete
<1>3. RowsAgree
  BY <1>2 DEF RowsAgree
<1>4. (\A c \in Tabs : CheckoutKnows(c)) /\ SessionsAreOwned
  BY DEF CheckoutKnows, SessionsAreOwned
<1>5. \A h \in Workers : HandlerKnows(h)
  BY DEF HandlerKnows
<1>6. StatusesHaveACause /\ LinksArePaid
  BY DEF StatusesHaveACause, LinksArePaid
<1>7. AnsweredIsGranted
  BY <1>2 DEF AnsweredIsGranted
<1> QED BY <1>1, <1>3, <1>4, <1>5, <1>6, <1>7 DEF IInv

\* The identifiers of transactions are those of sessions.
LEMMA RecordedAreSessions == Recorded \subseteq Sessions /\ Complete \subseteq Sessions
BY DEF Recorded, Complete

-----------------------------------------------------------------------------
(* What the others may rely on *)

\* The rows only grow: what exists keeps its item and its order, and what has
\* reached its end stays there.
Grows ==
  /\ \A s \in Sessions :
       /\ session[s].status # "NONE" =>
            session'[s].status # "NONE" /\ session'[s].item = session[s].item
       /\ session[s].status = "complete" => session'[s].status = "complete"
       /\ session[s].status = "expired" => session'[s].status = "expired"
       /\ tx[s].status # "NONE" => tx'[s].status # "NONE" /\ tx'[s].order = tx[s].order
  /\ \A o \in Orders :
       order[o].status # "NONE" => order'[o].status # "NONE" /\ order'[o].item = order[o].item
  /\ \A i \in Items : access[i].order # None => access'[i].order # None

\* A checkout that does not move keeps what it knows, unless another records
\* the session it has created.
LEMMA CheckoutStays ==
  ASSUME IInv, Grows, NEW c \in Tabs,
         checkout'[c] = checkout[c],
         checkout[c].pc \in {"createOrder", "createTx"} => checkout[c].session \notin Recorded'
  PROVE  CheckoutKnows(c)'
<1>1. CheckoutKnows(c) /\ checkout[c] \in Checkout
  BY DEF IInv, TypeOK
<1>2. Recorded \subseteq Recorded'
  BY DEF Grows, Recorded
<1> QED BY <1>1, <1>2, CheckoutAssumption DEF CheckoutKnows, Grows, Checkout

\* A delivery that does not move keeps what it knows.
LEMMA HandlerStays ==
  ASSUME IInv, Grows, NEW h \in Workers, handler'[h] = handler[h]
  PROVE  HandlerKnows(h)'
<1>1. HandlerKnows(h) /\ handler[h] \in Handler
  BY DEF IInv, TypeOK
<1>2. Recorded \subseteq Recorded' /\ Complete \subseteq Complete'
  BY DEF Grows, Recorded, Complete
<1>3. handler[h].pc \in {"fail", "cancel"} => session'[handler[h].session].status = "expired"
  BY <1>1 DEF HandlerKnows, Grows, Recorded
<1>4. ASSUME handler[h].pc = "grant", ~handler[h].unlinked
      PROVE  access'[ItemOf(h)'].order # None
  <2>1. handler[h].session \in Sessions /\ session[handler[h].session].status # "NONE"
    BY <1>1, <1>4 DEF HandlerKnows, Complete
  <2>2. session[handler[h].session].item \in Items
    BY <2>1 DEF IInv, TypeOK, Session, RowsAgree
  <2>3. ItemOf(h)' = ItemOf(h) /\ ItemOf(h) \in Items
    BY <2>1, <2>2 DEF ItemOf, Grows
  <2> QED BY <1>1, <1>4, <2>3 DEF HandlerKnows, Grows
<1> QED BY <1>1, <1>2, <1>3, <1>4 DEF HandlerKnows

\* A step that only moves one checkout, which claims no further session.
LEMMA OnlyCheckout ==
  ASSUME IInv, NEW c \in Tabs,
         UNCHANGED <<session, handedOut, owed, order, tx, access, handler, lost>>,
         checkout' \in [Tabs -> Checkout],
         \A d \in Tabs \ {c} : checkout'[d] = checkout[d],
         CheckoutKnows(c)',
         checkout'[c].pc \notin {"createOrder", "createTx"}
  PROVE  IInv'
<1>1. TypeOK'
  BY DEF IInv, TypeOK
<1>2. RowsAgree' /\ StatusesHaveACause' /\ LinksArePaid' /\ AnsweredIsGranted'
  BY DEF IInv, RowsAgree, StatusesHaveACause, LinksArePaid, AnsweredIsGranted, Recorded, Complete
<1>3. Grows /\ Recorded' = Recorded
  BY DEF Grows, Recorded
<1>4. \A d \in Tabs : CheckoutKnows(d)'
  <2> SUFFICES ASSUME NEW d \in Tabs, d # c PROVE CheckoutKnows(d)'
    OBVIOUS
  <2>1. checkout[d].pc \in {"createOrder", "createTx"} => checkout[d].session \notin Recorded
    BY DEF IInv, CheckoutKnows
  <2> QED BY <1>3, <2>1, CheckoutStays
<1>5. SessionsAreOwned'
  BY DEF IInv, SessionsAreOwned
<1>6. \A h \in Workers : HandlerKnows(h)'
  BY <1>3, HandlerStays
<1> QED BY <1>1, <1>2, <1>4, <1>5, <1>6 DEF IInv

-----------------------------------------------------------------------------
(* The checkout *)

\* A checkout begins.
LEMMA BeginStep ==
  ASSUME IInv, NEW c \in Tabs, NEW i \in Items, Begin(c, i)
  PROVE  IInv'
<1>1. checkout'[c] = [IdleTab EXCEPT !.pc = "lookup", !.item = i]
  BY DEF IInv, TypeOK, Begin
<1>2. /\ checkout'[c].pc = "lookup" /\ checkout'[c].item = i
      /\ checkout'[c].order = None /\ checkout'[c].session = None
  BY <1>1 DEF IdleTab
<1>3. checkout' \in [Tabs -> Checkout] /\ \A d \in Tabs \ {c} : checkout'[d] = checkout[d]
  BY DEF IInv, TypeOK, Begin, IdleTab, Checkout
<1>4. CheckoutKnows(c)'
  BY <1>2, CheckoutAssumption DEF CheckoutKnows
<1> QED BY <1>2, <1>3, <1>4, OnlyCheckout DEF Begin

\* A checkout looks a pending order up.
LEMMA LookupStep ==
  ASSUME IInv, NEW c \in Tabs, Lookup(c)
  PROVE  IInv'
<1>1. PICK pc, o, s :
        /\ checkout' = [checkout EXCEPT ![c] =
             [pc |-> pc, item |-> checkout[c].item, order |-> o, session |-> s]]
        /\ \/ pc = "createSession" /\ s = None /\ o \in PendingOrders(checkout[c].item) \cup {None}
           \/ pc = "resume" /\ o \in PendingOrders(checkout[c].item) /\ s \in PendingTxs(o)
  BY DEF Lookup, Latest
<1>2. checkout[c] \in Checkout /\ checkout[c].item # None
  BY DEF IInv, TypeOK, CheckoutKnows, Lookup, At
<1>3. o \in Orders \cup {None} /\ s \in Sessions \cup {None}
  BY <1>1 DEF PendingOrders, PendingTxs
<1>4. checkout' \in [Tabs -> Checkout] /\ \A d \in Tabs \ {c} : checkout'[d] = checkout[d]
  BY <1>1, <1>2, <1>3 DEF IInv, TypeOK, Checkout
<1>5. checkout'[c] = [pc |-> pc, item |-> checkout[c].item, order |-> o, session |-> s]
  BY <1>1 DEF IInv, TypeOK
<1>6. UNCHANGED <<session, handedOut, owed, order, tx, access, handler, lost>>
  BY DEF Lookup
<1>7. CheckoutKnows(c)'
  BY <1>1, <1>2, <1>3, <1>5, <1>6 DEF CheckoutKnows, PendingOrders, PendingTxs, Recorded
<1> QED BY <1>1, <1>4, <1>5, <1>6, <1>7, OnlyCheckout

\* A checkout is done, or given up.
LEMMA IdleStep ==
  ASSUME IInv, NEW c \in Tabs, checkout' = [checkout EXCEPT ![c] = IdleTab],
         UNCHANGED <<session, handedOut, owed, order, tx, access, handler, lost>>
  PROVE  IInv'
<1>1. checkout' \in [Tabs -> Checkout] /\ checkout'[c] = IdleTab
  BY DEF IInv, TypeOK, Checkout, IdleTab
<1>2. CheckoutKnows(c)'
  BY <1>1 DEF CheckoutKnows, IdleTab
<1>3. \A d \in Tabs \ {c} : checkout'[d] = checkout[d]
  BY DEF IInv, TypeOK
<1> QED BY <1>1, <1>2, <1>3, OnlyCheckout DEF IdleTab

\* A checkout goes on with what it knows.
LEMMA GotoStep ==
  ASSUME IInv, NEW c \in Tabs, NEW pc \in {"markFailed", "createSession"},
         checkout[c].pc \in {"resume", "markFailed"}, Goto(c, pc),
         UNCHANGED <<session, handedOut, owed, order, tx, access, handler, lost>>
  PROVE  IInv'
<1>1. checkout[c] \in Checkout /\ CheckoutKnows(c)
  BY DEF IInv, TypeOK
<1>2. checkout'[c] = [checkout[c] EXCEPT !.pc = pc]
  BY DEF IInv, TypeOK, Goto
<1>3. checkout' \in [Tabs -> Checkout] /\ \A d \in Tabs \ {c} : checkout'[d] = checkout[d]
  BY DEF IInv, TypeOK, Goto, Checkout
<1>4. CheckoutKnows(c)'
  BY <1>1, <1>2 DEF CheckoutKnows, Checkout, Recorded
<1> QED BY <1>1, <1>2, <1>3, <1>4, OnlyCheckout DEF Checkout

\* A session is handed out again, which has its transaction.
LEMMA ResumeStep ==
  ASSUME IInv, NEW c \in Tabs, Resume(c)
  PROVE  IInv'
<1>1. CASE session[checkout[c].session].status # "open"
  BY <1>1, GotoStep DEF Resume, At
<1>2. CASE session[checkout[c].session].status = "open"
  <2>1. /\ handedOut' = handedOut \cup {checkout[c].session}
        /\ checkout' = [checkout EXCEPT ![c] = IdleTab]
        /\ UNCHANGED <<session, owed, order, tx, access, handler, lost>>
    BY <1>2 DEF Resume
  <2>2. checkout[c].session \in Recorded /\ checkout[c].session \in Sessions
    BY DEF IInv, CheckoutKnows, Resume, At, Recorded
  <2>3. TypeOK'
    BY <2>1, <2>2 DEF IInv, TypeOK, IdleTab, Checkout
  <2>4. /\ RowsAgree' /\ StatusesHaveACause' /\ LinksArePaid' /\ AnsweredIsGranted'
    BY <2>1, <2>2 DEF IInv, RowsAgree, StatusesHaveACause, LinksArePaid, AnsweredIsGranted,
                      Recorded, Complete
  <2>5. Grows /\ Recorded' = Recorded
    BY <2>1 DEF Grows, Recorded
  <2>6. checkout'[c] = IdleTab /\ \A d \in Tabs \ {c} : checkout'[d] = checkout[d]
    BY <2>1 DEF IInv, TypeOK
  <2>7. CheckoutKnows(c)'
    BY <2>6 DEF CheckoutKnows, IdleTab
  <2>8. \A d \in Tabs : CheckoutKnows(d)'
    <3> SUFFICES ASSUME NEW d \in Tabs, d # c PROVE CheckoutKnows(d)'
      BY <2>7
    <3>1. checkout[d].pc \in {"createOrder", "createTx"} => checkout[d].session \notin Recorded
      BY DEF IInv, CheckoutKnows
    <3> QED BY <2>5, <2>6, <3>1, CheckoutStays
  <2>9. SessionsAreOwned'
    BY <2>6 DEF IInv, SessionsAreOwned, IdleTab
  <2>10. \A h \in Workers : HandlerKnows(h)'
    BY <2>1, <2>5, HandlerStays
  <2> QED BY <2>3, <2>4, <2>8, <2>9, <2>10 DEF IInv
<1> QED BY <1>1, <1>2

\* Statuses of sessions that were seen paid or expired, of transactions and of
\* orders do not take anything away from what the others rely on: the lemma
\* is for steps of one checkout that write rows.
LEMMA WritingCheckout ==
  ASSUME IInv, Grows, NEW c \in Tabs,
         \A d \in Tabs \ {c} : checkout'[d] = checkout[d],
         CheckoutKnows(c)',
         \A s \in Recorded' \ Recorded :
           checkout[c].pc = "createTx" /\ s = checkout[c].session,
         checkout'[c].pc \in {"createOrder", "createTx"} =>
           \/ checkout[c].pc \in {"createOrder", "createTx"}
              /\ checkout'[c].session = checkout[c].session
           \/ session[checkout'[c].session].status = "NONE",
         UNCHANGED handler
  PROVE  /\ \A d \in Tabs : CheckoutKnows(d)'
         /\ SessionsAreOwned'
         /\ \A h \in Workers : HandlerKnows(h)'
<1>1. \A d \in Tabs : CheckoutKnows(d)'
  <2> SUFFICES ASSUME NEW d \in Tabs, d # c PROVE CheckoutKnows(d)'
    OBVIOUS
  <2>1. checkout[d].pc \in {"createOrder", "createTx"} => checkout[d].session \notin Recorded'
    BY DEF IInv, CheckoutKnows, SessionsAreOwned
  <2> QED BY <2>1, CheckoutStays
<1>2. SessionsAreOwned'
  BY DEF IInv, CheckoutKnows, SessionsAreOwned
<1>3. \A h \in Workers : HandlerKnows(h)'
  BY HandlerStays
<1> QED BY <1>1, <1>2, <1>3

\* A transaction whose session is not open any more is marked FAILED.
LEMMA MarkFailedStep ==
  ASSUME IInv, NEW c \in Tabs, MarkFailed(c)
  PROVE  IInv'
<1>1. /\ checkout[c].session \in Recorded /\ checkout[c].session \in Sessions
      /\ checkout[c] \in Checkout /\ CheckoutKnows(c)
  BY DEF IInv, TypeOK, CheckoutKnows, MarkFailed, At, Recorded
<1>2. tx' \in [Sessions -> Transaction] /\ \A s \in Sessions :
        /\ tx'[s].order = tx[s].order
        /\ tx'[s].status = IF s = checkout[c].session THEN "FAILED" ELSE tx[s].status
  BY <1>1 DEF IInv, TypeOK, MarkFailed, Transaction
<1>3. Recorded' = Recorded
  BY <1>1, <1>2 DEF Recorded
<1>4. UNCHANGED <<session, handedOut, owed, order, access, handler, lost>>
  BY DEF MarkFailed
<1>5. Grows
  BY <1>2, <1>4 DEF Grows
<1>6. /\ checkout'[c] = [checkout[c] EXCEPT !.pc = "createSession"]
      /\ checkout' \in [Tabs -> Checkout]
      /\ \A d \in Tabs \ {c} : checkout'[d] = checkout[d]
  BY DEF IInv, TypeOK, MarkFailed, Goto, Checkout
<1>7. CheckoutKnows(c)'
  <2>1. /\ checkout'[c].pc = "createSession" /\ checkout'[c].item = checkout[c].item
        /\ checkout'[c].order = checkout[c].order
    BY <1>1, <1>6 DEF Checkout
  <2> QED BY <1>1, <1>4, <2>1 DEF CheckoutKnows, MarkFailed, At
<1>8. TypeOK'
  BY <1>2, <1>4, <1>6 DEF IInv, TypeOK
<1>9. RowsAgree' /\ StatusesHaveACause' /\ LinksArePaid' /\ AnsweredIsGranted'
  BY <1>2, <1>3, <1>4 DEF IInv, RowsAgree, StatusesHaveACause, LinksArePaid, AnsweredIsGranted,
                          Recorded, Complete
<1>10. checkout'[c].pc = "createSession"
  BY <1>1, <1>6 DEF Checkout
<1>11. (\A d \in Tabs : CheckoutKnows(d)') /\ SessionsAreOwned' /\ \A h \in Workers : HandlerKnows(h)'
  BY <1>3, <1>4, <1>5, <1>6, <1>7, <1>10, WritingCheckout
<1> QED BY <1>8, <1>9, <1>11 DEF IInv

\* A session is created at Stripe, which nobody has yet.
LEMMA CreateSessionStep ==
  ASSUME IInv, NEW c \in Tabs, NEW s \in Sessions, CreateSession(c, s)
  PROVE  IInv'
<1>1. /\ checkout[c] \in Checkout /\ CheckoutKnows(c) /\ checkout[c].item \in Items
      /\ session[s].status = "NONE" /\ s \notin Recorded
  BY DEF IInv, TypeOK, CheckoutKnows, CreateSession, At, Checkout, RowsAgree
<1>2. /\ session' \in [Sessions -> Session]
      /\ session'[s].status = "open" /\ session'[s].item = checkout[c].item
      /\ \A t \in Sessions \ {s} : session'[t] = session[t]
  BY <1>1 DEF IInv, TypeOK, CreateSession, Session
<1>3. UNCHANGED <<handedOut, owed, order, tx, access, handler, lost>>
  BY DEF CreateSession
<1>4. Recorded' = Recorded /\ Complete' = Complete
  BY <1>1, <1>2, <1>3 DEF Recorded, Complete
<1>5. Grows
  BY <1>1, <1>2, <1>3 DEF Grows
<1>6. /\ checkout' \in [Tabs -> Checkout]
      /\ \A d \in Tabs \ {c} : checkout'[d] = checkout[d]
      /\ checkout'[c].session = s /\ checkout'[c].item = checkout[c].item
      /\ checkout'[c].order = checkout[c].order
      /\ checkout'[c].pc = IF checkout[c].order = None THEN "createOrder" ELSE "createTx"
  BY <1>1 DEF IInv, TypeOK, CreateSession, Checkout
<1>7. CheckoutKnows(c)'
  BY <1>1, <1>2, <1>3, <1>4, <1>6, CheckoutAssumption DEF CheckoutKnows, Checkout
<1>8. TypeOK'
  BY <1>2, <1>3, <1>6 DEF IInv, TypeOK
<1>9. RowsAgree'
  BY <1>1, <1>2, <1>3, <1>4, CheckoutAssumption DEF IInv, RowsAgree, Recorded
<1>10. StatusesHaveACause'
  BY <1>1, <1>2, <1>3, <1>4 DEF IInv, StatusesHaveACause
<1>11. LinksArePaid' /\ AnsweredIsGranted'
  BY <1>1, <1>2, <1>3, <1>4 DEF IInv, LinksArePaid, AnsweredIsGranted, Complete
<1>12. (\A d \in Tabs : CheckoutKnows(d)') /\ SessionsAreOwned' /\ \A h \in Workers : HandlerKnows(h)'
  BY <1>1, <1>3, <1>4, <1>5, <1>6, <1>7, WritingCheckout
<1> QED BY <1>8, <1>9, <1>10, <1>11, <1>12 DEF IInv

\* An order is created.
LEMMA CreateOrderStep ==
  ASSUME IInv, NEW c \in Tabs, NEW o \in Orders, CreateOrder(c, o)
  PROVE  IInv'
<1>1. /\ checkout[c] \in Checkout /\ CheckoutKnows(c) /\ checkout[c].item \in Items
      /\ order[o].status = "NONE" /\ o # None
  BY CheckoutAssumption DEF IInv, TypeOK, CheckoutKnows, CreateOrder, At, Checkout
<1>2. /\ order' \in [Orders -> OrderRow]
      /\ order'[o].status = "PENDING" /\ order'[o].item = checkout[c].item
      /\ \A p \in Orders \ {o} : order'[p] = order[p]
  BY <1>1 DEF IInv, TypeOK, CreateOrder, OrderRow
<1>3. UNCHANGED <<session, handedOut, owed, tx, access, handler, lost>>
  BY DEF CreateOrder
<1>4. Recorded' = Recorded /\ Complete' = Complete
  BY <1>3 DEF Recorded, Complete
<1>5. Grows
  BY <1>1, <1>2, <1>3 DEF Grows
<1>6. /\ checkout' \in [Tabs -> Checkout]
      /\ \A d \in Tabs \ {c} : checkout'[d] = checkout[d]
      /\ checkout'[c].session = checkout[c].session /\ checkout'[c].item = checkout[c].item
      /\ checkout'[c].order = o /\ checkout'[c].pc = "createTx" /\ checkout[c].pc = "createOrder"
  BY <1>1 DEF IInv, TypeOK, CreateOrder, Checkout, At
<1>7. CheckoutKnows(c)'
  BY <1>1, <1>2, <1>3, <1>4, <1>6 DEF CheckoutKnows
<1>8. TypeOK'
  BY <1>2, <1>3, <1>6 DEF IInv, TypeOK
<1>9. RowsAgree'
  BY <1>1, <1>2, <1>3, <1>4 DEF IInv, TypeOK, RowsAgree, Recorded, Transaction
<1>10. StatusesHaveACause'
  BY <1>1, <1>2, <1>3, <1>4 DEF IInv, StatusesHaveACause
<1>11. LinksArePaid'
  <2> SUFFICES ASSUME NEW i \in Items, access[i].order # None
               PROVE  order'[access[i].order].item = i
    BY <1>3, <1>4 DEF IInv, LinksArePaid
  <2>1. PICK s \in Complete : tx[s].order = access[i].order
    BY DEF IInv, LinksArePaid
  <2>2. access[i].order \in Orders /\ order[access[i].order].status # "NONE"
    BY <2>1 DEF IInv, TypeOK, Access, RowsAgree
  <2> QED BY <1>1, <1>2, <2>2 DEF IInv, LinksArePaid
<1>12. AnsweredIsGranted'
  BY <1>3, <1>4 DEF IInv, AnsweredIsGranted
<1>13. (\A d \in Tabs : CheckoutKnows(d)') /\ SessionsAreOwned' /\ \A h \in Workers : HandlerKnows(h)'
  BY <1>1, <1>3, <1>4, <1>5, <1>6, <1>7, WritingCheckout
<1> QED BY <1>8, <1>9, <1>10, <1>11, <1>12, <1>13 DEF IInv

\* The transaction is created, and the session handed out.
LEMMA CreateTxStep ==
  ASSUME IInv, NEW c \in Tabs, CreateTx(c)
  PROVE  IInv'
<1> DEFINE s == checkout[c].session
<1>1. /\ checkout[c] \in Checkout /\ CheckoutKnows(c) /\ checkout[c].pc = "createTx"
      /\ s \in Sessions \ Recorded /\ session[s].status # "NONE"
      /\ session[s].item = checkout[c].item
      /\ checkout[c].order \in Orders
  BY DEF IInv, TypeOK, CheckoutKnows, CreateTx, At, Checkout
<1>2. Cardinality(Recorded) \in Nat
  BY CheckoutAssumption, FS_Subset, FS_CardinalityType DEF Recorded
<1>3. /\ tx' \in [Sessions -> Transaction]
      /\ tx'[s].status = "PENDING" /\ tx'[s].order = checkout[c].order
      /\ \A t \in Sessions \ {s} : tx'[t] = tx[t]
  BY <1>1, <1>2 DEF IInv, TypeOK, CreateTx, Transaction
<1>4. UNCHANGED <<session, owed, order, access, handler, lost>> /\ handedOut' = handedOut \cup {s}
  BY DEF CreateTx
<1>5. Recorded' = Recorded \cup {s} /\ Complete' = Complete
  BY <1>1, <1>3, <1>4 DEF Recorded, Complete
<1>6. Grows
  BY <1>1, <1>3, <1>4 DEF Grows, Recorded
<1>7. /\ checkout'[c] = IdleTab /\ checkout' \in [Tabs -> Checkout]
      /\ \A d \in Tabs \ {c} : checkout'[d] = checkout[d]
  BY DEF IInv, TypeOK, CreateTx, Checkout, IdleTab
<1>8. CheckoutKnows(c)' /\ checkout'[c].pc = "idle"
  BY <1>7 DEF CheckoutKnows, IdleTab
<1>9. TypeOK'
  BY <1>1, <1>3, <1>4, <1>7 DEF IInv, TypeOK
<1>10. RowsAgree'
  BY <1>1, <1>3, <1>4, <1>5, CheckoutAssumption DEF IInv, RowsAgree, CheckoutKnows, Recorded
<1>11. s \notin Complete /\ tx[s].status = "NONE" /\ \A t \in Complete : tx'[t] = tx[t]
  BY <1>1, <1>3 DEF IInv, RowsAgree, Recorded, Complete
<1>12. LinksArePaid' /\ AnsweredIsGranted'
  BY <1>4, <1>5, <1>11 DEF IInv, LinksArePaid, AnsweredIsGranted
<1>13. StatusesHaveACause'
  <2>1. \A t \in Sessions : tx'[t].status = "SUCCESS" => t \in Complete'
    BY <1>3, <1>5 DEF IInv, StatusesHaveACause
  <2>2. \A o \in Orders : order'[o].status = "PAID" => \E t \in Complete' : tx'[t].order = o
    BY <1>4, <1>5, <1>11 DEF IInv, StatusesHaveACause
  <2>3. ASSUME NEW o \in Orders, order[o].status = "CANCELLED"
        PROVE  \E t \in Sessions : tx'[t].order = o /\ session[t].status = "expired"
    <3>1. PICK t \in Sessions : tx[t].order = o /\ session[t].status = "expired"
      BY <2>3 DEF IInv, StatusesHaveACause
    <3>2. CASE t # s
      BY <1>3, <3>1, <3>2
    <3>3. CASE t = s
      BY <1>1, <3>1, <3>3, CheckoutAssumption DEF IInv, RowsAgree
    <3> QED BY <3>2, <3>3
  <2> QED BY <1>4, <2>1, <2>2, <2>3 DEF StatusesHaveACause
<1>14. (\A d \in Tabs : CheckoutKnows(d)') /\ SessionsAreOwned' /\ \A h \in Workers : HandlerKnows(h)'
  BY <1>1, <1>4, <1>5, <1>6, <1>7, <1>8, WritingCheckout
<1> QED BY <1>9, <1>10, <1>12, <1>13, <1>14 DEF IInv

-----------------------------------------------------------------------------
(* Stripe *)

\* Checkouts keep what they know when no transaction is created.
LEMMA CheckoutsStay ==
  ASSUME IInv, Grows, UNCHANGED checkout, Recorded' = Recorded
  PROVE  (\A c \in Tabs : CheckoutKnows(c)') /\ SessionsAreOwned'
<1>1. \A c \in Tabs : checkout[c].pc \in {"createOrder", "createTx"} => checkout[c].session \notin Recorded
  BY DEF IInv, CheckoutKnows
<1>2. \A c \in Tabs : CheckoutKnows(c)'
  BY <1>1, CheckoutStays
<1> QED BY <1>2 DEF IInv, SessionsAreOwned

\* A session is paid or expires: its event is owed from then on.
LEMMA SessionStep ==
  ASSUME IInv, NEW s \in Sessions, NEW status \in {"complete", "expired"},
         session[s].status = "open",
         status = "complete" => s \in handedOut,
         session' = [session EXCEPT ![s].status = status],
         owed' = owed \cup {s},
         UNCHANGED <<handedOut, order, tx, access, checkout, handler, lost>>
  PROVE  IInv'
<1>1. /\ session' \in [Sessions -> Session]
      /\ session'[s].status = status /\ session'[s].item = session[s].item
      /\ \A t \in Sessions \ {s} : session'[t] = session[t]
  BY DEF IInv, TypeOK, Session
<1>2. Recorded' = Recorded
  BY DEF Recorded
<1>3. Complete \subseteq Complete' /\ Complete' \subseteq Complete \cup {s}
  BY <1>1 DEF Complete
<1>4. status = "expired" => Complete' = Complete
  BY <1>1 DEF Complete
<1>5. Grows
  BY <1>1 DEF Grows
<1>6. TypeOK'
  BY <1>1 DEF IInv, TypeOK
<1>7. RowsAgree'
  BY <1>1, <1>2, <1>3, <1>4 DEF IInv, RowsAgree
<1>8. StatusesHaveACause'
  BY <1>1, <1>3 DEF IInv, StatusesHaveACause
<1>9. LinksArePaid'
  BY <1>3 DEF IInv, LinksArePaid
<1>10. AnsweredIsGranted'
  BY <1>1, <1>3 DEF IInv, AnsweredIsGranted, Complete
<1>11. (\A c \in Tabs : CheckoutKnows(c)') /\ SessionsAreOwned'
  BY <1>2, <1>5, CheckoutsStay
<1>12. \A h \in Workers : HandlerKnows(h)'
  BY <1>5, HandlerStays
<1> QED BY <1>6, <1>7, <1>8, <1>9, <1>10, <1>11, <1>12 DEF IInv

-----------------------------------------------------------------------------
(* The webhook *)

\* A step that moves one delivery and writes no row.
LEMMA OnlyHandler ==
  ASSUME IInv, NEW h \in Workers,
         UNCHANGED <<session, handedOut, order, tx, access, checkout>>,
         owed' \subseteq owed, lost \subseteq lost', lost' \subseteq Sessions,
         \A s \in Complete \cap owed : s \notin owed' \cup lost' => access[session[s].item].granted,
         handler' \in [Workers -> Handler],
         \A g \in Workers \ {h} : handler'[g] = handler[g],
         HandlerKnows(h)'
  PROVE  IInv'
<1>1. TypeOK'
  BY DEF IInv, TypeOK
<1>2. RowsAgree' /\ StatusesHaveACause' /\ LinksArePaid'
  BY DEF IInv, RowsAgree, StatusesHaveACause, LinksArePaid, Recorded, Complete
<1>3. AnsweredIsGranted'
  BY DEF IInv, AnsweredIsGranted, Complete
<1>4. Grows /\ Recorded' = Recorded
  BY DEF Grows, Recorded
<1>5. (\A c \in Tabs : CheckoutKnows(c)') /\ SessionsAreOwned'
  BY <1>4, CheckoutsStay
<1>6. \A g \in Workers : HandlerKnows(g)'
  BY <1>4, HandlerStays
<1> QED BY <1>1, <1>2, <1>3, <1>5, <1>6 DEF IInv

\* A delivery that is over knows nothing.
LEMMA IdleHandler ==
  ASSUME IInv, NEW h \in Workers, handler' = [handler EXCEPT ![h] = IdleWorker]
  PROVE  /\ handler' \in [Workers -> Handler]
         /\ \A g \in Workers \ {h} : handler'[g] = handler[g]
         /\ HandlerKnows(h)'
<1>1. handler' \in [Workers -> Handler] /\ handler'[h] = IdleWorker
  BY DEF IInv, TypeOK, IdleWorker, Handler
<1>2. HandlerKnows(h)'
  BY <1>1 DEF HandlerKnows, IdleWorker
<1> QED BY <1>1, <1>2 DEF IInv, TypeOK

\* An event is delivered.
LEMMA DeliverStep ==
  ASSUME IInv, NEW h \in Workers, NEW s \in Sessions, Deliver(h, s)
  PROVE  IInv'
<1>1. CASE s \notin Recorded
  <2>1. /\ owed' = owed \ {s}
        /\ UNCHANGED <<session, handedOut, order, tx, access, checkout, lost, handler>>
    BY <1>1 DEF Deliver
  <2>2. s \notin Complete
    BY <1>1 DEF IInv, RowsAgree
  <2>3. HandlerKnows(h)'
    BY <2>1 DEF IInv, HandlerKnows, ItemOf, Recorded, Complete
  <2> QED BY <2>1, <2>2, <2>3, OnlyHandler DEF IInv, TypeOK
<1>2. CASE s \in Recorded
  <2>1. /\ handler' = [handler EXCEPT ![h] = [IdleWorker EXCEPT !.session = s, !.pc = HandlerFor(s)]]
        /\ UNCHANGED <<session, handedOut, owed, order, tx, access, checkout, lost>>
    BY <1>2 DEF Deliver
  <2>2. handler'[h].session = s /\ handler'[h].pc = HandlerFor(s)
    BY <2>1 DEF IInv, TypeOK, IdleWorker
  <2>3. /\ handler' \in [Workers -> Handler]
        /\ \A g \in Workers \ {h} : handler'[g] = handler[g]
    BY <2>1 DEF IInv, TypeOK, IdleWorker, Handler, HandlerFor
  <2>4. HandlerKnows(h)'
    BY <1>2, <2>1, <2>2 DEF HandlerKnows, HandlerFor, Deliver, Recorded, Complete
  <2> QED BY <2>1, <2>3, <2>4, OnlyHandler DEF IInv, TypeOK
<1> QED BY <1>1, <1>2

\* A delivery goes on and keeps its session.
LEMMA StepMoves ==
  ASSUME IInv, NEW h \in Workers, NEW from,
         NEW to \in {"settle", "readAccess", "cancel"}, Step(h, from, to)
  PROVE  /\ handler[h].pc = from /\ handler[h] \in Handler
         /\ handler' \in [Workers -> Handler]
         /\ \A g \in Workers \ {h} : handler'[g] = handler[g]
         /\ handler'[h].pc = to /\ handler'[h].session = handler[h].session
         /\ handler'[h].unlinked = handler[h].unlinked
BY DEF IInv, TypeOK, Step, Handler

\* A step that writes the status of the transaction of a delivery's session,
\* SUCCESS for a paid one and FAILED for an expired one.
LEMMA TransactionStep ==
  ASSUME IInv, NEW h \in Workers, NEW to \in {"settle", "cancel"},
         NEW status \in {"SUCCESS", "FAILED"},
         \/ status = "SUCCESS" /\ to = "settle" /\ Step(h, "succeed", to)
         \/ status = "FAILED" /\ to = "cancel" /\ Step(h, "fail", to),
         tx' = [tx EXCEPT ![handler[h].session].status = status],
         UNCHANGED <<session, handedOut, owed, order, access, checkout, lost>>
  PROVE  IInv'
<1> DEFINE s == handler[h].session
<1>1. /\ handler' \in [Workers -> Handler]
      /\ \A g \in Workers \ {h} : handler'[g] = handler[g]
      /\ handler'[h].pc = to /\ handler'[h].session = s
      /\ handler[h].pc \in {"succeed", "fail"}
      /\ handler[h].pc = "succeed" <=> status = "SUCCESS"
  BY StepMoves
<1>2. /\ s \in Recorded /\ s \in Sessions
      /\ status = "SUCCESS" => s \in Complete
      /\ status = "FAILED" => session[s].status = "expired"
  BY <1>1 DEF IInv, HandlerKnows, Recorded
<1>3. /\ tx' \in [Sessions -> Transaction]
      /\ \A t \in Sessions : tx'[t].order = tx[t].order
      /\ \A t \in Sessions : tx'[t].status = IF t = s THEN status ELSE tx[t].status
  BY <1>2 DEF IInv, TypeOK, Transaction
<1>4. Recorded' = Recorded /\ Complete' = Complete
  BY <1>2, <1>3 DEF Recorded, Complete
<1>5. Grows
  BY <1>3 DEF Grows
<1>6. TypeOK'
  BY <1>1, <1>3 DEF IInv, TypeOK
<1>7. RowsAgree' /\ LinksArePaid' /\ AnsweredIsGranted'
  <2>1. RowsAgree /\ LinksArePaid /\ AnsweredIsGranted
    BY DEF IInv
  <2>2. RowsAgree'
    BY <1>3, <1>4, <2>1, RecordedAreSessions DEF RowsAgree
  <2>3. LinksArePaid'
    BY <1>3, <1>4, <2>1, RecordedAreSessions DEF LinksArePaid
  <2>4. AnsweredIsGranted'
    BY <1>3, <1>4, <2>1 DEF AnsweredIsGranted
  <2> QED BY <2>2, <2>3, <2>4
<1>8. StatusesHaveACause'
  BY <1>2, <1>3, <1>4, RecordedAreSessions DEF IInv, StatusesHaveACause
<1>9. (\A c \in Tabs : CheckoutKnows(c)') /\ SessionsAreOwned'
  BY <1>4, <1>5, CheckoutsStay
<1>10. HandlerKnows(h)'
  BY <1>1, <1>2, <1>4 DEF HandlerKnows
<1>11. \A g \in Workers : HandlerKnows(g)'
  BY <1>1, <1>5, <1>10, HandlerStays
<1> QED BY <1>6, <1>7, <1>8, <1>9, <1>11 DEF IInv

\* A step that writes the status of the order of a delivery's session, PAID for
\* a paid one and CANCELLED for an expired one.
LEMMA OrderStep ==
  ASSUME IInv, NEW h \in Workers, NEW status \in {"PAID", "CANCELLED"},
         handler[h].pc \in {"settle", "cancel"},
         handler[h].pc = "settle" <=> status = "PAID",
         order' = [order EXCEPT ![tx[handler[h].session].order].status = status],
         UNCHANGED <<session, handedOut, tx, access, checkout, lost>>,
         owed' = owed \/ (status = "CANCELLED" /\ owed' = owed \ {handler[h].session}),
         handler' \in [Workers -> Handler],
         \A g \in Workers \ {h} : handler'[g] = handler[g],
         \/ handler'[h].pc = "idle"
         \/ status = "PAID" /\ handler'[h].pc = "readAccess" /\ handler'[h].session = handler[h].session
  PROVE  IInv'
<1> DEFINE s == handler[h].session
           o == tx[s].order
<1>1. /\ s \in Recorded /\ s \in Sessions
      /\ status = "PAID" => s \in Complete
      /\ status = "CANCELLED" => session[s].status = "expired" /\ s \notin Complete
  BY DEF IInv, HandlerKnows, Recorded, Complete
<1>2. o \in Orders /\ order[o].status # "NONE"
  BY <1>1 DEF IInv, TypeOK, Transaction, RowsAgree
<1>3. /\ order' \in [Orders -> OrderRow]
      /\ \A p \in Orders : order'[p].item = order[p].item
      /\ \A p \in Orders : order'[p].status = IF p = o THEN status ELSE order[p].status
  <2> DEFINE row == [order[o] EXCEPT !.status = status]
  <2>1. order \in [Orders -> OrderRow]
    BY DEF IInv, TypeOK
  <2>2. row \in OrderRow /\ row.item = order[o].item /\ row.status = status
    BY <1>2, <2>1 DEF OrderRow
  <2>3. order' = [order EXCEPT ![o] = row]
    OBVIOUS
  <2> HIDE DEF row
  <2> QED BY <1>2, <2>1, <2>2, <2>3
<1>4. Recorded' = Recorded /\ Complete' = Complete
  BY DEF Recorded, Complete
<1>5. Grows
  BY <1>3 DEF Grows
<1>6. TypeOK'
  BY <1>3 DEF IInv, TypeOK
<1>7. RowsAgree'
  <2>1. RowsAgree
    BY DEF IInv
  <2>2. \A t \in Recorded : tx[t].order \in Orders
    BY <2>1, RecordedAreSessions DEF IInv, TypeOK, Transaction, RowsAgree
  <2>3. \A t \in Recorded :
           /\ order'[tx[t].order].status # "NONE"
           /\ order'[tx[t].order].item = order[tx[t].order].item
    BY <1>3, <2>1, <2>2 DEF RowsAgree
  <2> HIDE DEF s, o
  <2> QED BY <1>4, <2>1, <2>3 DEF RowsAgree
<1>8. LinksArePaid'
  <2>1. LinksArePaid
    BY DEF IInv
  <2>2. \A i \in Items : access[i].order # None => access[i].order \in Orders
    BY DEF IInv, TypeOK, Access
  <2>3. \A i \in Items : access[i].order # None =>
           order'[access[i].order].item = order[access[i].order].item
    BY <1>3, <2>2
  <2> QED BY <1>4, <2>1, <2>3 DEF LinksArePaid
<1>9. AnsweredIsGranted'
  BY <1>1, <1>4 DEF IInv, AnsweredIsGranted
<1>10. StatusesHaveACause'
  <2>1. StatusesHaveACause
    BY DEF IInv
  <2>2. \A t \in Sessions : tx'[t].status = "SUCCESS" => t \in Complete'
    BY <1>4, <2>1 DEF StatusesHaveACause
  <2>3. ASSUME NEW p \in Orders, order'[p].status = "PAID"
        PROVE  \E t \in Complete' : tx'[t].order = p
    <3>1. CASE p = o
      BY <1>1, <1>3, <1>4, <2>3, <3>1
    <3>2. CASE p # o
      BY <1>3, <1>4, <2>1, <2>3, <3>2 DEF StatusesHaveACause
    <3> QED BY <3>1, <3>2
  <2>4. ASSUME NEW p \in Orders, order'[p].status = "CANCELLED"
        PROVE  \E t \in Sessions : tx'[t].order = p /\ session'[t].status = "expired"
    <3>1. CASE p = o
      BY <1>1, <1>3, <2>4, <3>1
    <3>2. CASE p # o
      BY <1>3, <2>1, <2>4, <3>2 DEF StatusesHaveACause
    <3> QED BY <3>1, <3>2
  <2> QED BY <2>2, <2>3, <2>4 DEF StatusesHaveACause
<1>11. (\A c \in Tabs : CheckoutKnows(c)') /\ SessionsAreOwned'
  BY <1>4, <1>5, CheckoutsStay
<1>12. HandlerKnows(h)'
  BY <1>1, <1>4 DEF HandlerKnows
<1>13. \A g \in Workers : HandlerKnows(g)'
  BY <1>5, <1>12, HandlerStays
<1> QED BY <1>6, <1>7, <1>8, <1>9, <1>10, <1>11, <1>13 DEF IInv

\* The access is read: an event whose registration exists is answered.
LEMMA ReadAccessStep ==
  ASSUME IInv, NEW h \in Workers, ReadAccess(h)
  PROVE  IInv'
<1> DEFINE s == handler[h].session
           i == ItemOf(h)
<1>1. UNCHANGED <<session, handedOut, order, tx, access, checkout, lost>>
  BY DEF ReadAccess
<1>2. handler[h] \in Handler /\ s \in Recorded /\ s \in Complete /\ i = session[s].item
  BY DEF IInv, TypeOK, HandlerKnows, ReadAccess, ItemOf
<1>3. CASE i \in Events /\ access[i].granted
  <2>1. owed' = owed \ {s} /\ handler' = [handler EXCEPT ![h] = IdleWorker]
    BY <1>3 DEF ReadAccess, Answer
  <2> QED BY <1>1, <1>2, <1>3, <2>1, IdleHandler, OnlyHandler DEF IInv, TypeOK
<1>4. CASE ~(i \in Events /\ access[i].granted)
  <2>1. /\ handler' = [handler EXCEPT ![h].pc = "grant", ![h].unlinked = (access[i].order = None)]
        /\ UNCHANGED owed
    BY <1>4 DEF ReadAccess
  <2>2. /\ handler' \in [Workers -> Handler]
        /\ \A g \in Workers \ {h} : handler'[g] = handler[g]
    <3> DEFINE none == access[i].order = None
    <3>1. none \in BOOLEAN
      OBVIOUS
    <3>2. handler' = [handler EXCEPT ![h].pc = "grant", ![h].unlinked = none]
      BY <2>1
    <3> DEFINE next == [handler[h] EXCEPT !.pc = "grant", !.unlinked = none]
    <3>3. handler' = [handler EXCEPT ![h] = next]
      BY <3>2
    <3> HIDE DEF none
    <3>4. next \in Handler
      BY <1>2, <3>1 DEF Handler
    <3> HIDE DEF next
    <3> QED BY <3>3, <3>4 DEF IInv, TypeOK
  <2>3. /\ handler'[h].pc = "grant" /\ handler'[h].session = s
        /\ handler'[h].unlinked <=> access[i].order = None
    <3>1. handler'[h] = [handler[h] EXCEPT !.pc = "grant", !.unlinked = (access[i].order = None)]
      BY <2>1 DEF IInv, TypeOK
    <3>2. handler'[h].pc = "grant" /\ handler'[h].session = s
      BY <1>2, <3>1 DEF Handler
    <3>3. handler'[h].unlinked <=> access[i].order = None
      BY <1>2, <3>1, Zenon DEF Handler
    <3> QED BY <3>2, <3>3
  <2>4. HandlerKnows(h)'
    BY <1>1, <1>2, <2>3 DEF HandlerKnows, ItemOf, Recorded, Complete
  <2> QED BY <1>1, <2>1, <2>2, <2>4, OnlyHandler DEF IInv, TypeOK
<1> QED BY <1>3, <1>4

\* What a delivery that is to give access knows.
LEMMA Granting ==
  ASSUME IInv, NEW h \in Workers, Grant(h)
  PROVE  /\ handler[h].session \in Complete /\ handler[h].session \in Recorded
         /\ ItemOf(h) = session[handler[h].session].item /\ ItemOf(h) \in Items
         /\ tx[handler[h].session].order \in Orders
         /\ order[tx[handler[h].session].order].item = ItemOf(h)
         /\ handler[h].unlinked \in BOOLEAN
<1>1. handler[h].session \in Complete /\ handler[h].session \in Recorded
  BY DEF IInv, HandlerKnows, Grant
<1> QED BY <1>1, RecordedAreSessions
        DEF IInv, TypeOK, Handler, Session, Transaction, RowsAgree, ItemOf

\* Access is given.
LEMMA GrantStep ==
  ASSUME IInv, NEW h \in Workers, Grant(h)
  PROVE  IInv'
<1> DEFINE s == handler[h].session
           i == ItemOf(h)
           o == tx[s].order
           given == IF i \in Events /\ access[i].granted THEN access[i]
                    ELSE [granted |-> TRUE,
                          order |-> IF handler[h].unlinked THEN o ELSE access[i].order]
<1>1. /\ s \in Complete /\ s \in Recorded /\ s \in Sessions
      /\ i = session[s].item /\ i \in Items
      /\ o \in Orders /\ order[o].item = i /\ o # None
  BY Granting, RecordedAreSessions, CheckoutAssumption
<1>2. /\ access' = [access EXCEPT ![i] = given]
      /\ owed' = owed \ {s} /\ handler' = [handler EXCEPT ![h] = IdleWorker]
      /\ UNCHANGED <<session, handedOut, order, tx, checkout, lost>>
  BY DEF Grant, Answer
<1>3. access[i] \in Access
  BY <1>1 DEF IInv, TypeOK
<1>4. /\ given \in Access /\ given.granted = TRUE
      /\ given.order = o \/ (given.order = access[i].order /\ access[i].order # None)
  <2>1. CASE i \in Events /\ access[i].granted
    BY <1>1, <1>3, <2>1 DEF IInv, LinksArePaid, Access
  <2>2. CASE ~(i \in Events /\ access[i].granted)
    <3>1. handler[h].unlinked \/ access[i].order # None
      BY DEF IInv, HandlerKnows, Grant
    <3> DEFINE link == IF handler[h].unlinked THEN o ELSE access[i].order
    <3>2. given = [granted |-> TRUE, order |-> link]
      BY <2>2
    <3>3. link = o \/ (link = access[i].order /\ access[i].order # None)
      BY <3>1
    <3>4. link \in Orders \cup {None}
      BY <1>1, <1>3, <3>3 DEF Access
    <3> HIDE DEF link, given
    <3> QED BY <3>2, <3>3, <3>4 DEF Access
  <2> QED BY <2>1, <2>2
<1> HIDE DEF given
<1>5. /\ access' \in [Items -> Access] /\ access'[i] = given
      /\ \A j \in Items \ {i} : access'[j] = access[j]
  BY <1>1, <1>2, <1>4 DEF IInv, TypeOK
<1>6. Recorded' = Recorded /\ Complete' = Complete
  BY <1>2 DEF Recorded, Complete
<1>7. Grows
  BY <1>1, <1>2, <1>4, <1>5 DEF Grows
<1>8. /\ handler' \in [Workers -> Handler] /\ HandlerKnows(h)'
      /\ \A g \in Workers \ {h} : handler'[g] = handler[g]
  BY <1>2, IdleHandler
<1>9. TypeOK'
  BY <1>2, <1>5, <1>8 DEF IInv, TypeOK
<1>10. RowsAgree' /\ StatusesHaveACause'
  BY <1>2, <1>6 DEF IInv, RowsAgree, StatusesHaveACause
<1>11. LinksArePaid'
  <2> SUFFICES ASSUME NEW j \in Items
               PROVE  /\ access'[j].granted => access'[j].order # None
                      /\ access'[j].order # None =>
                           /\ order[access'[j].order].item = j
                           /\ \E t \in Complete : tx[t].order = access'[j].order
    BY <1>2, <1>6 DEF LinksArePaid
  <2>1. LinksArePaid
    BY DEF IInv
  <2>2. CASE j # i
    BY <1>5, <2>1, <2>2 DEF LinksArePaid
  <2>3. CASE j = i /\ given.order = o
    BY <1>1, <1>5, <2>3
  <2>4. CASE j = i /\ given.order = access[i].order /\ access[i].order # None
    BY <1>5, <2>1, <2>4 DEF LinksArePaid
  <2> QED BY <1>4, <2>2, <2>3, <2>4
<1>12. AnsweredIsGranted'
  <2> SUFFICES ASSUME NEW t \in Complete, t \notin owed' \cup lost
               PROVE  access'[session[t].item].granted
    BY <1>2, <1>6 DEF AnsweredIsGranted
  <2>1. session[t].item \in Items
    BY RecordedAreSessions DEF IInv, TypeOK, Session, RowsAgree, Complete
  <2>2. t = s \/ access[session[t].item].granted
    BY <1>2 DEF IInv, AnsweredIsGranted
  <2> QED BY <1>1, <1>4, <1>5, <2>1, <2>2
<1>13. (\A c \in Tabs : CheckoutKnows(c)') /\ SessionsAreOwned'
  BY <1>2, <1>6, <1>7, CheckoutsStay
<1>14. \A g \in Workers : HandlerKnows(g)'
  BY <1>7, <1>8, HandlerStays
<1> QED BY <1>9, <1>10, <1>11, <1>12, <1>13, <1>14 DEF IInv

\* An error is answered and remembered, a restart is not answered.
LEMMA FaultStep ==
  ASSUME IInv, NEW h \in Workers, HandlerThrows(h) \/ Crash(h)
  PROVE  IInv'
<1>1. handler[h].session \in Sessions
  BY RecordedAreSessions DEF IInv, HandlerKnows, HandlerThrows, Crash
<1>2. /\ handler' = [handler EXCEPT ![h] = IdleWorker]
      /\ UNCHANGED <<session, handedOut, order, tx, access, checkout>>
      /\ \/ UNCHANGED <<owed, lost>>
         \/ owed' = owed \ {handler[h].session} /\ lost' = lost \cup {handler[h].session}
  BY DEF HandlerThrows, Crash, Answer
<1> QED BY <1>1, <1>2, IdleHandler, OnlyHandler DEF IInv, TypeOK

\* A step of a delivery.
LEMMA HandlingStep == ASSUME IInv, Handling PROVE IInv'
<1>1. PICK h \in Workers :
        \/ \E s \in Sessions : Deliver(h, s)
        \/ Succeed(h) \/ Settle(h) \/ ReadAccess(h) \/ Grant(h)
        \/ Fail(h) \/ Cancel(h) \/ HandlerThrows(h) \/ Crash(h)
  BY DEF Handling
<1>2. ASSUME NEW s \in Sessions, Deliver(h, s) PROVE IInv'
  BY <1>2, DeliverStep
<1>3. CASE Succeed(h)
  BY <1>3, TransactionStep DEF Succeed
<1>4. CASE Settle(h)
  <2>1. /\ handler[h].pc = "settle" /\ handler' \in [Workers -> Handler]
        /\ \A g \in Workers \ {h} : handler'[g] = handler[g]
        /\ handler'[h].pc = "readAccess" /\ handler'[h].session = handler[h].session
    BY <1>4, StepMoves DEF Settle
  <2>2. /\ order' = [order EXCEPT ![tx[handler[h].session].order].status = "PAID"]
        /\ UNCHANGED <<session, handedOut, owed, tx, access, checkout, lost>>
    BY <1>4 DEF Settle
  <2> QED BY <2>1, <2>2, OrderStep
<1>5. CASE ReadAccess(h)
  BY <1>5, ReadAccessStep
<1>6. CASE Grant(h)
  BY <1>6, GrantStep
<1>7. CASE Fail(h)
  BY <1>7, TransactionStep DEF Fail
<1>8. CASE Cancel(h)
  <2>1. /\ handler[h].pc = "cancel" /\ owed' = owed \ {handler[h].session}
        /\ order' = [order EXCEPT ![tx[handler[h].session].order].status = "CANCELLED"]
        /\ handler' = [handler EXCEPT ![h] = IdleWorker]
        /\ UNCHANGED <<session, handedOut, tx, access, checkout, lost>>
    BY <1>8 DEF Cancel, Answer
  <2>2. /\ handler' \in [Workers -> Handler] /\ handler'[h].pc = "idle"
        /\ \A g \in Workers \ {h} : handler'[g] = handler[g]
    BY <2>1, IdleHandler DEF IInv, TypeOK, IdleWorker
  <2> QED BY <2>1, <2>2, OrderStep
<1>9. CASE HandlerThrows(h) \/ Crash(h)
  BY <1>9, FaultStep
<1> QED BY <1>1, <1>2, <1>3, <1>4, <1>5, <1>6, <1>7, <1>8, <1>9

\* A step of a checkout.
LEMMA CheckingOutStep == ASSUME IInv, CheckingOut PROVE IInv'
<1>1. PICK c \in Tabs :
        \/ \E i \in Items : Begin(c, i)
        \/ Lookup(c) \/ Resume(c) \/ MarkFailed(c) \/ IgnoreError(c)
        \/ \E s \in Sessions : CreateSession(c, s)
        \/ \E o \in Orders : CreateOrder(c, o)
        \/ CreateTx(c) \/ AbortCheckout(c)
  BY DEF CheckingOut, CourseCheckout, EventCheckout, Items
<1>2. ASSUME NEW i \in Items, Begin(c, i) PROVE IInv'
  BY <1>2, BeginStep
<1>3. CASE Lookup(c)
  BY <1>3, LookupStep
<1>4. CASE Resume(c)
  BY <1>4, ResumeStep
<1>5. CASE MarkFailed(c)
  BY <1>5, MarkFailedStep
<1>6. CASE IgnoreError(c)
  BY <1>6, GotoStep DEF IgnoreError
<1>7. ASSUME NEW s \in Sessions, CreateSession(c, s) PROVE IInv'
  BY <1>7, CreateSessionStep
<1>8. ASSUME NEW o \in Orders, CreateOrder(c, o) PROVE IInv'
  BY <1>8, CreateOrderStep
<1>9. CASE CreateTx(c)
  BY <1>9, CreateTxStep
<1>10. CASE AbortCheckout(c)
  BY <1>10, IdleStep DEF AbortCheckout
<1> QED BY <1>1, <1>2, <1>3, <1>4, <1>5, <1>6, <1>7, <1>8, <1>9, <1>10

\* A step of Stripe or of the student there.
LEMMA AtStripeStep == ASSUME IInv, AtStripe PROVE IInv'
<1>1. PICK s \in Sessions : Pay(s) \/ Expire(s)
  BY DEF AtStripe
<1>2. CASE Pay(s)
  BY <1>2, SessionStep DEF Pay
<1>3. CASE Expire(s)
  BY <1>3, SessionStep DEF Expire
<1> QED BY <1>1, <1>2, <1>3

\* Every step keeps the invariant.
LEMMA StepIInv == IInv /\ [Next]_vars => IInv'
<1> SUFFICES ASSUME IInv, [Next]_vars PROVE IInv'
  OBVIOUS
<1>1. CASE CheckingOut
  BY <1>1, CheckingOutStep
<1>2. CASE AtStripe
  BY <1>2, AtStripeStep
<1>3. CASE Handling
  BY <1>3, HandlingStep
<1>4. CASE UNCHANGED vars
  <2>1. TypeOK' /\ RowsAgree' /\ SessionsAreOwned' /\ StatusesHaveACause'
    BY <1>4 DEF IInv, vars, TypeOK, RowsAgree, SessionsAreOwned, StatusesHaveACause,
                Recorded, Complete
  <2>2. LinksArePaid' /\ AnsweredIsGranted'
    BY <1>4 DEF IInv, vars, LinksArePaid, AnsweredIsGranted, Complete
  <2>3. \A c \in Tabs : CheckoutKnows(c)'
    BY <1>4 DEF IInv, vars, CheckoutKnows, Recorded
  <2>4. \A h \in Workers : HandlerKnows(h)'
    BY <1>4 DEF IInv, vars, HandlerKnows, ItemOf, Recorded, Complete
  <2> QED BY <2>1, <2>2, <2>3, <2>4 DEF IInv
<1> QED BY <1>1, <1>2, <1>3, <1>4 DEF Next

-----------------------------------------------------------------------------
(* Theorems *)

\* The inductive invariant of paying through Stripe.
THEOREM Invariance == Spec => []IInv
<1>1. Init => IInv
  BY InitIInv
<1>2. IInv /\ [Next]_vars => IInv'
  BY StepIInv
<1> QED BY <1>1, <1>2, PTL DEF Spec

\* Every row, session and request keeps its shape.
THEOREM TypeCorrectness == Spec => []TypeOK
<1>1. IInv => TypeOK
  BY DEF IInv
<1> QED BY <1>1, Invariance, PTL

\* Whatever fails between the three creations of createCheckout, a session that
\* may be paid has its transaction, of an order for its item.
THEOREM PaymentsAreRecorded == Spec => []PaymentIsRecorded
<1>1. IInv => PaymentIsRecorded
  <2> SUFFICES ASSUME IInv, NEW s \in handedOut \cup Complete
               PROVE  s \in Transactions({"PENDING", "SUCCESS", "FAILED"}, {session[s].item})
    BY DEF PaymentIsRecorded
  <2>1. s \in Recorded /\ s \in Sessions
    BY RecordedAreSessions DEF IInv, RowsAgree
  <2>2. tx[s].status \in {"PENDING", "SUCCESS", "FAILED"}
    BY <2>1 DEF IInv, TypeOK, Transaction, Recorded
  <2> QED BY <2>1, <2>2 DEF IInv, RowsAgree, Transactions
<1> QED BY <1>1, Invariance, PTL

\* Late, early and repeated deliveries never invent a payment or an expiry, on
\* no page.
THEOREM StatusesTellTheTruth == Spec => []StatusesAreTrue
<1>1. IInv => StatusesAreTrue
  <2> SUFFICES ASSUME IInv PROVE StatusesAreTrue
    OBVIOUS
  <2>1. \A s \in Sessions : Verified(s).status = "SUCCESS" => s \in Complete
    BY DEF Verified, IInv, StatusesHaveACause
  <2>2. ASSUME NEW s \in Sessions, Verified(s).order = "PAID"
        PROVE  \E t \in Complete : session[t].item = session[s].item
    <3>1. CASE tx[s].order = None
      <4>1. Verified(s).order = None
        BY <3>1 DEF Verified
      <4> QED BY <2>2, <4>1, CheckoutAssumption
    <3>2. CASE tx[s].order # None
      <4>1. order[tx[s].order].status = "PAID" /\ s \in Recorded /\ tx[s].order \in Orders
        BY <2>2, <3>2 DEF Verified, IInv, TypeOK, Transaction, RowsAgree
      <4>2. PICK t \in Complete : tx[t].order = tx[s].order
        BY <4>1 DEF IInv, StatusesHaveACause
      <4>3. t \in Recorded
        BY DEF IInv, RowsAgree
      <4> QED BY <4>1, <4>2, <4>3 DEF IInv, RowsAgree
    <3> QED BY <3>1, <3>2
  <2>3. ASSUME NEW I \in {Courses, Events}, NEW s \in Revenue(I)
        PROVE  s \in Complete /\ session[s].item \in I
    BY RecordedAreSessions DEF Revenue, Transactions, IInv, RowsAgree, StatusesHaveACause
  <2> QED BY <2>1, <2>2, <2>3 DEF StatusesAreTrue, IInv, StatusesHaveACause
<1> QED BY <1>1, Invariance, PTL

\* Access is linked to an order of its own item that was paid, even when two
\* payments for it are handled at once.
THEOREM AccessIsPaid == Spec => []AccessWasPaid
<1>1. IInv => AccessWasPaid
  BY DEF IInv, LinksArePaid, AccessWasPaid
<1> QED BY <1>1, Invariance, PTL

\* A payment whose event was answered without an error gave access.
THEOREM AnsweredGivesAccess == Spec => []AnsweredIsGranted
<1>1. IInv => AnsweredIsGranted
  BY DEF IInv
<1> QED BY <1>1, Invariance, PTL

-----------------------------------------------------------------------------
(* The refinement of PaidAccess *)

\* The items of complete sessions, and the granted items: what PaidAccess sees.
PaidItems == {session[s].item : s \in Complete}
Granted == {i \in Items : access[i].granted}

\* A payment at Stripe is a payment of its item.
LEMMA PayRefines ==
  ASSUME IInv, NEW s \in Sessions, Pay(s)
  PROVE  \E i \in Items : Promise!Pay(i)
<1>1. /\ session[s].item \in Items
      /\ session'[s].status = "complete" /\ session'[s].item = session[s].item
      /\ \A t \in Sessions \ {s} : session'[t] = session[t]
      /\ UNCHANGED access
  BY DEF IInv, TypeOK, RowsAgree, Session, Pay
<1>2. Complete' = Complete \cup {s}
  BY <1>1 DEF Complete
<1>3. PaidItems' = PaidItems \cup {session[s].item}
  BY <1>1, <1>2, RecordedAreSessions DEF PaidItems
<1>4. Granted' = Granted
  BY <1>1 DEF Granted
<1> QED BY <1>1, <1>3, <1>4 DEF Promise!Pay, PaidItems, Granted

\* Giving access is giving what was paid for.
LEMMA GrantRefines ==
  ASSUME IInv, NEW h \in Workers, Grant(h)
  PROVE  \E i \in Items : Promise!Grant(i)
<1> DEFINE i == ItemOf(h)
<1>1. i \in Items /\ i \in PaidItems
  BY Granting DEF PaidItems
<1>2. PaidItems' = PaidItems
  BY DEF PaidItems, Complete, Grant
<1>3. /\ access'[i].granted
      /\ \A j \in Items \ {i} : access'[j] = access[j]
  <2>1. CASE i \in Events /\ access[i].granted
    BY <1>1, <2>1 DEF IInv, TypeOK, Grant
  <2>2. CASE ~(i \in Events /\ access[i].granted)
    BY <1>1, <2>2 DEF IInv, TypeOK, Grant
  <2> QED BY <2>1, <2>2
<1>4. Granted' = Granted \cup {i}
  BY <1>1, <1>3 DEF Granted
<1> QED BY <1>1, <1>2, <1>4 DEF Promise!Grant, PaidItems, Granted

\* Every other step changes nothing of it.
LEMMA OthersStutter ==
  ASSUME IInv,
         \/ UNCHANGED <<session, access>>
         \/ \E c \in Tabs, s \in Sessions : CreateSession(c, s)
         \/ \E s \in Sessions : Expire(s)
  PROVE  PaidItems' = PaidItems /\ Granted' = Granted
<1>1. CASE UNCHANGED <<session, access>>
  BY <1>1 DEF PaidItems, Granted, Complete
<1>2. ASSUME NEW s \in Sessions,
             session[s].status # "complete", session'[s].status # "complete",
             \A t \in Sessions \ {s} : session'[t] = session[t],
             UNCHANGED access
      PROVE  PaidItems' = PaidItems /\ Granted' = Granted
  <2>1. Complete' = Complete /\ s \notin Complete
    BY <1>2 DEF Complete
  <2> QED BY <1>2, <2>1, RecordedAreSessions DEF PaidItems, Granted
<1>3. ASSUME NEW c \in Tabs, NEW s \in Sessions, CreateSession(c, s)
      PROVE  PaidItems' = PaidItems /\ Granted' = Granted
  BY <1>2, <1>3 DEF CreateSession, IInv, TypeOK
<1>4. ASSUME NEW s \in Sessions, Expire(s)
      PROVE  PaidItems' = PaidItems /\ Granted' = Granted
  BY <1>2, <1>4 DEF Expire, IInv, TypeOK, Session
<1> QED BY <1>1, <1>3, <1>4

\* The checkout implements PaidAccess: access is given only for money that was
\* taken, and never taken back.
THEOREM CheckoutImplementsPaidAccess == Spec => KeepsThePromise
<1>1. Init => Promise!Init
  <2> SUFFICES ASSUME Init PROVE Promise!Init
    OBVIOUS
  <2>1. PaidItems = {} /\ Granted = {}
    BY DEF Init, NoSession, NoAccess, PaidItems, Granted, Complete
  <2> QED BY <2>1 DEF Promise!Init, PaidItems, Granted
<1>2. IInv /\ [Next]_vars => [Promise!Next]_(Promise!vars)
  <2> SUFFICES ASSUME IInv, [Next]_vars
               PROVE  Promise!Next \/ (PaidItems' = PaidItems /\ Granted' = Granted)
    BY DEF Promise!vars, PaidItems, Granted
  <2>1. CASE CheckingOut
    <3>1. \/ UNCHANGED <<session, access>>
          \/ \E c \in Tabs, s \in Sessions : CreateSession(c, s)
      BY <2>1 DEF CheckingOut, CourseCheckout, EventCheckout, Begin, Lookup, Resume, MarkFailed,
                  IgnoreError, CreateOrder, CreateTx, AbortCheckout
    <3> QED BY <3>1, OthersStutter
  <2>2. CASE AtStripe
    BY <2>2, PayRefines, OthersStutter DEF AtStripe, Promise!Next
  <2>3. CASE Handling
    <3>1. UNCHANGED <<session, access>> \/ \E h \in Workers : Grant(h)
      BY <2>3 DEF Handling, Deliver, Succeed, Settle, ReadAccess, Fail, Cancel, HandlerThrows, Crash
    <3> QED BY <3>1, GrantRefines, OthersStutter DEF Promise!Next
  <2>4. CASE UNCHANGED vars
    BY <2>4, OthersStutter DEF vars
  <2> QED BY <2>1, <2>2, <2>3, <2>4 DEF Next
<1> QED BY <1>1, <1>2, Invariance, PTL DEF Spec, KeepsThePromise, Promise!Spec

-----------------------------------------------------------------------------
(* EnrolmentDocuments: rows, files and who holds them *)

LEMMA EmptyHands ==
  /\ Idle \in Request /\ Idle.pc = "idle" /\ Idle.found = {} /\ Idle.files = {}
  /\ Waiting \in Worker /\ Waiting.pc = "idle" /\ Waiting.found = {} /\ Waiting.files = {}
  /\ NoRow \in Attachment /\ NoRow.file = 0 /\ NoRow.file \notin Files
BY DEF Idle, Request, Kinds, Waiting, Worker, NoRow, Attachment, Files

LEMMA FoundFields ==
  ASSUME NEW x \in Found
  PROVE  /\ x.row \in Rows /\ x.kind \in Kinds /\ x.file \in Files
         /\ x = [row |-> x.row, kind |-> x.kind, file |-> x.file]
BY DEF Found

LEMMA ActorType ==
  ASSUME EnrolmentTypeOK, NEW w \in People
  PROVE  Actor(w).files \subseteq Files /\ Actor(w).found \subseteq Found
<1>1. CASE w = "worker"
  BY <1>1 DEF EnrolmentTypeOK, Actor, Worker
<1>2. CASE w # "worker"
  BY <1>2 DEF EnrolmentTypeOK, Actor, People, Request
<1> QED
  BY <1>1, <1>2

LEMMA WorkerAlone ==
  /\ "worker" \in People /\ Actor("worker") = worker
  /\ \A r \in Requests : r \in People /\ r # "worker" /\ Actor(r) = request[r]
  /\ \A w \in People : w = "worker" \/ w \in Requests
BY DocumentsAssumption DEF People, Actor

LEMMA HeldBy ==
  ASSUME NEW f
  PROVE  f \in Held <=>
           \E w \in People : f \in Actor(w).files \/ \E x \in Actor(w).found : x.file = f
<1>1. Actors = {Actor(w) : w \in People}
  BY WorkerAlone DEF Actors
<1>2. Held = UNION {y.files \cup {x.file : x \in y.found} : y \in {Actor(w) : w \in People}}
  BY <1>1 DEF Held, FilesOf
<1> QED
  BY <1>2

\* A file nobody has or knows of.
Free(f) ==
  /\ f \in Files /\ f \notin Stored /\ f \notin Held
  /\ \A a \in Attached : attachment[a].file # f

LEMMA NewIsFree ==
  ASSUME NEW n, NEW F \in NewFiles(n)
  PROVE  /\ \A f \in F : Free(f)
         /\ Cardinality(F) = n /\ IsFiniteSet(F)
<1>1. /\ F \subseteq Files \ (Stored \cup Held \cup FilesOf(Read(Attached)))
      /\ Cardinality(F) = n
  BY DEF NewFiles, Smallest
<1>2. IsFiniteSet(F)
  <2>1. IsFiniteSet(Files)
    BY FS_Interval, DocumentsAssumption DEF Files
  <2> QED
    BY <1>1, <2>1, FS_Subset
<1>3. ASSUME NEW a \in Attached
      PROVE  attachment[a].file \in FilesOf(Read(Attached))
  <2> DEFINE x == [row |-> a, kind |-> attachment[a].kind, file |-> attachment[a].file]
  <2>1. x \in Read(Attached) /\ x.file = attachment[a].file
    BY DEF Read
  <2> HIDE DEF x
  <2> QED
    BY <2>1 DEF FilesOf
<1> QED
  BY <1>1, <1>2, <1>3 DEF Free

LEMMA OneFreeFile ==
  ASSUME NEW F \in NewFiles(1)
  PROVE  \E f \in Files : F = {f} /\ Free(f)
<1>1. PICK f : F = {f}
  BY NewIsFree, FS_Singleton
<1> QED
  BY <1>1, NewIsFree DEF Free

LEMMA TwoFreeFiles ==
  ASSUME NEW F \in NewFiles(2)
  PROVE  \E f, g \in Files : F = {f, g} /\ f # g /\ Free(f) /\ Free(g)
<1>1. Cardinality(F) = 2 /\ IsFiniteSet(F)
  BY NewIsFree
<1>2. F # {}
  BY <1>1, FS_EmptySet
<1>3. PICK f : f \in F
  BY <1>2
<1>4. Cardinality(F \ {f}) = 1 /\ IsFiniteSet(F \ {f})
  BY <1>1, <1>3, FS_RemoveElement
<1>5. PICK g : F \ {f} = {g}
  BY <1>4, FS_Singleton
<1>6. F = {f, g} /\ f # g
  BY <1>3, <1>5
<1> QED
  BY <1>6, NewIsFree DEF Free

LEMMA FreeRow ==
  ASSUME NEW a \in NewRow
  PROVE  /\ a \in Rows /\ attachment[a] = NoRow
         /\ \A w \in People : \A x \in Actor(w).found : x.row # a
<1>1. a \in Rows \ (Attached \cup {x.row : x \in UNION {y.found : y \in Actors}})
  BY DEF NewRow, Smallest
<1>2. Actors = {Actor(w) : w \in People}
  BY WorkerAlone DEF Actors
<1> QED
  BY <1>1, <1>2 DEF Attached

LEMMA ReadRows ==
  ASSUME EnrolmentTypeOK, \A a \in Attached : attachment[a].file \in Files,
         NEW A \in SUBSET Attached, NEW x \in Read(A)
  PROVE  /\ x \in Found /\ x.row \in A
         /\ attachment[x.row] = [kind |-> x.kind, file |-> x.file]
<1>1. PICK a \in A : x = [row |-> a, kind |-> attachment[a].kind, file |-> attachment[a].file]
  BY DEF Read
<1>2. a \in Rows /\ attachment[a] \in Attachment /\ attachment[a].file \in Files
  BY DEF Attached, EnrolmentTypeOK
<1> QED
  BY <1>1, <1>2 DEF Found, Attachment

\* The first attachment of a kind is one, if there is any.
LEMMA FirstIsOne ==
  ASSUME EnrolmentTypeOK, \A a \in Attached : attachment[a].file \in Files,
         NEW k \in Kinds, NEW F \in First(k)
  PROVE  /\ F \subseteq Found /\ (F = {} <=> RowsOf(k) = {})
         /\ \A x, y \in F : x = y
         /\ \A x \in F : /\ x.kind = k /\ x.row \in RowsOf(k)
                         /\ attachment[x.row] = [kind |-> k, file |-> x.file]
<1>1. CASE RowsOf(k) = {}
  BY <1>1 DEF First
<1>2. CASE RowsOf(k) # {}
  <2>1. PICK a \in RowsOf(k) : F = Read({a})
    BY <1>2 DEF First
  <2>2. a \in Attached /\ attachment[a].kind = k
    BY DEF RowsOf
  <2>3. F = {[row |-> a, kind |-> attachment[a].kind, file |-> attachment[a].file]}
    BY <2>1 DEF Read
  <2>4. ASSUME NEW x \in F
        PROVE  /\ x \in Found /\ x.row = a
               /\ attachment[x.row] = [kind |-> x.kind, file |-> x.file]
    <3>1. {a} \in SUBSET Attached /\ x \in Read({a})
      BY <2>1, <2>2, <2>4
    <3> QED
      BY <3>1, ReadRows
  <2> QED
    BY <2>2, <2>3, <2>4
<1> QED
  BY <1>1, <1>2

-----------------------------------------------------------------------------
(* The steps of the enrollment, and what requests and the worker have *)

\* What does not depend on the files.
Basis == Sound /\ CompletedStays /\ SignIsLate

LEMMA InitBasis == EnrolmentInit => Basis
<1> SUFFICES ASSUME EnrolmentInit PROVE Basis
  OBVIOUS
<1> USE EmptyHands DEF EnrolmentInit
<1>1. Attached = {} /\ ~Exists
  BY DEF Attached, Exists, EnrollmentStep
<1>2. EnrolmentTypeOK
  <2>1. queue \in Seq(Kinds) /\ Len(queue) = 0
    OBVIOUS
  <2>2. request \in [Requests -> Request] /\ attachment \in [Rows -> Attachment]
    OBVIOUS
  <2>3. stored \in [Files -> Kinds \cup {"none"}]
    OBVIOUS
  <2>4. 0 \in 0..MaxFaults /\ 0 \in 0..MaxEdits /\ 0 <= MaxJobs
    BY DocumentsAssumption
  <2>5. ~Exists => Attached = {}
    BY <1>1
  <2> QED
    BY <2>1, <2>2, <2>3, <2>4, <2>5 DEF EnrolmentTypeOK
<1>3. QueueFits
  BY DocumentsAssumption DEF QueueFits
<1>4. NothingBefore
  BY <1>1 DEF NothingBefore
<1>5. \A r \in Requests : RequestIsSound(r)
  BY DEF RequestIsSound
<1>6. WorkerIsSound
  BY DEF WorkerIsSound
<1>7. CompletedStays /\ SignIsLate
  BY DEF CompletedStays, SignIsLate
<1> QED
  BY <1>1, <1>2, <1>3, <1>4, <1>5, <1>6, <1>7 DEF Basis, Sound

\* A step of one request.
LEMMA RequestBasis ==
  ASSUME Basis, NEW r \in Requests, NEW q \in Request,
         request' = [request EXCEPT ![r] = q], RequestIsSound(r)',
         step = "NONE" => q.pc \in {"idle", "make"},
         q.pc = "sign" => (completed => moved),
         UNCHANGED <<signed, queue, worker, completed>>,
         attachment' \in [Rows -> Attachment], ~Exists => attachment' = attachment,
         \A a \in Attached' : attachment'[a].file \in Files,
         stored' \in [Files -> Kinds \cup {"none"}],
         faults' \in 0..MaxFaults, edits' \in 0..MaxEdits,
         raced' \subseteq Kinds, cut' \subseteq Kinds,
         late' \in {late, late \ {r}},
         \/ step' = step /\ moved' = moved
         \/ Exists /\ step' \in EnrollmentStep /\ moved' = TRUE
  PROVE  Basis'
<1>1. Exists' <=> Exists
  BY DEF Exists
<1>2. EnrolmentTypeOK'
  <2>1. request' \in [Requests -> Request]
    BY DEF Basis, Sound, EnrolmentTypeOK
  <2>2. ~Exists' => Attached' = {}
    BY <1>1 DEF Basis, Sound, EnrolmentTypeOK, Attached
  <2>3. /\ step' \in EnrollmentStep \cup {"NONE", "DELETED"}
        /\ moved' \in BOOLEAN
    BY DEF Basis, Sound, EnrolmentTypeOK
  <2> QED
    BY <2>1, <2>2, <2>3 DEF Basis, Sound, EnrolmentTypeOK
<1>3. QueueFits'
  BY DEF Basis, Sound, QueueFits
<1>4. \A p \in Requests : request'[p] = IF p = r THEN q ELSE request[p]
  BY DEF Basis, Sound, EnrolmentTypeOK
<1>5. NothingBefore'
  <2> SUFFICES ASSUME step' = "NONE" PROVE NothingBefore'
    BY DEF NothingBefore
  <2>1. step = "NONE" /\ attachment' = attachment
    BY DEF EnrollmentStep, Exists
  <2> QED
    BY <2>1, <1>4 DEF Basis, Sound, NothingBefore, Attached
<1>6. \A p \in Requests : RequestIsSound(p)'
  BY <1>4 DEF Basis, Sound, RequestIsSound
<1>7. WorkerIsSound'
  BY DEF Basis, Sound, WorkerIsSound
<1>8. CompletedStays'
  BY <1>1 DEF Basis, CompletedStays, CurrentStep
<1>9. SignIsLate'
  BY <1>4 DEF Basis, SignIsLate
<1> QED
  BY <1>2, <1>3, <1>5, <1>6, <1>7, <1>8, <1>9 DEF Basis, Sound

\* A step of the worker or of the queue.
LEMMA WorkerBasis ==
  ASSUME Basis, UNCHANGED <<step, signed, request, completed, late, moved, edits>>,
         worker' \in Worker, WorkerIsSound', step = "NONE" => worker' = Waiting,
         queue' \in Seq(Kinds),
         Len(queue') + (IF worker' = Waiting THEN 0 ELSE 1) <= MaxJobs,
         attachment' \in [Rows -> Attachment], ~Exists => attachment' = attachment,
         \A a \in Attached' : attachment'[a].file \in Files,
         stored' \in [Files -> Kinds \cup {"none"}],
         faults' \in 0..MaxFaults, raced' \subseteq Kinds, cut' \subseteq Kinds
  PROVE  Basis'
<1>1. Exists' <=> Exists
  BY DEF Exists
<1>2. EnrolmentTypeOK'
  <2>1. Len(queue') \in Nat /\ Len(queue') <= MaxJobs
    BY DocumentsAssumption
  <2>2. ~Exists' => Attached' = {}
    BY <1>1 DEF Basis, Sound, EnrolmentTypeOK, Attached
  <2> QED
    BY <2>1, <2>2 DEF Basis, Sound, EnrolmentTypeOK
<1>3. QueueFits'
  BY DEF QueueFits
<1>4. NothingBefore'
  <2> SUFFICES ASSUME step' = "NONE" PROVE NothingBefore'
    BY DEF NothingBefore
  <2>1. attachment' = attachment
    BY DEF EnrollmentStep, Exists
  <2> QED
    BY <2>1 DEF Basis, Sound, NothingBefore, Attached
<1>5. \A p \in Requests : RequestIsSound(p)'
  BY DEF Basis, Sound, RequestIsSound
<1>6. CompletedStays'
  BY <1>1 DEF Basis, CompletedStays, CurrentStep
<1>7. SignIsLate'
  BY DEF Basis, SignIsLate
<1> QED
  BY <1>2, <1>3, <1>4, <1>5, <1>6, <1>7 DEF Basis, Sound

LEMMA RequestTypes ==
  ASSUME Basis, NEW r \in Requests
  PROVE  /\ request[r] \in Request
         /\ request[r].kind \in Kinds /\ request[r].files \subseteq Files
         /\ request[r].found \subseteq Found /\ request[r].todo \subseteq Kinds
         /\ request[r].step \in EnrollmentStep \cup {"NONE"}
BY DEF Basis, Sound, EnrolmentTypeOK, Request

LEMMA WorkerTypes ==
  ASSUME Basis
  PROVE  /\ worker \in Worker
         /\ worker.kind \in Kinds /\ worker.files \subseteq Files
         /\ worker.found \subseteq Found
BY DEF Basis, Sound, EnrolmentTypeOK, Worker

LEMMA IdleIsSound ==
  ASSUME NEW r, request[r] = Idle
  PROVE  RequestIsSound(r)
BY EmptyHands DEF RequestIsSound

\* A request stops, or ends with the step it sets.
LEMMA EndBasis ==
  ASSUME Basis, NEW r \in Requests, End(r),
         UNCHANGED <<signed, attachment, stored, queue, worker, completed, edits>>,
         faults' \in 0..MaxFaults, raced' \subseteq Kinds, cut' \subseteq Kinds,
         \/ step' = step /\ moved' = moved
         \/ Exists /\ step' \in EnrollmentStep /\ moved' = TRUE
  PROVE  Basis'
<1>1. request' = [request EXCEPT ![r] = Idle] /\ late' \in {late, late \ {r}}
  BY DEF End
<1>2. request'[r] = Idle
  BY <1>1, RequestTypes DEF Basis, Sound, EnrolmentTypeOK
<1>3. RequestIsSound(r)'
  BY <1>2, EmptyHands DEF RequestIsSound
<1>4. Attached' = Attached
  BY DEF Attached
<1>5. /\ attachment' \in [Rows -> Attachment] /\ \A a \in Attached' : attachment'[a].file \in Files
      /\ stored' \in [Files -> Kinds \cup {"none"}] /\ edits' \in 0..MaxEdits
  BY <1>4 DEF Basis, Sound, EnrolmentTypeOK
<1> QED
  BY <1>1, <1>3, <1>5, EmptyHands, RequestBasis

\* A request begins or goes on; the rows stay.
LEMMA GoOnBasis ==
  ASSUME Basis, NEW r \in Requests, NEW q \in Request,
         request' = [request EXCEPT ![r] = q],
         RequestIsSound(r)',
         step = "NONE" => q.pc \in {"idle", "make"},
         q.pc = "sign" => (completed => moved),
         UNCHANGED <<step, signed, attachment, queue, worker, faults, history>>,
         stored' \in [Files -> Kinds \cup {"none"}], edits' \in 0..MaxEdits
  PROVE  Basis'
<1>1. Attached' = Attached
  BY DEF Attached
<1>2. /\ attachment' \in [Rows -> Attachment] /\ \A a \in Attached' : attachment'[a].file \in Files
      /\ faults' \in 0..MaxFaults /\ raced' \subseteq Kinds /\ cut' \subseteq Kinds
  BY <1>1 DEF Basis, Sound, EnrolmentTypeOK, history
<1>3. /\ UNCHANGED <<signed, queue, worker, completed>>
      /\ ~Exists => attachment' = attachment
      /\ late' \in {late, late \ {r}}
      /\ step' = step /\ moved' = moved
  BY DEF history
<1>4. \/ step' = step /\ moved' = moved
      \/ Exists /\ step' \in EnrollmentStep /\ moved' = TRUE
  BY <1>3
<1> QED
  BY <1>2, <1>3, <1>4, RequestBasis

LEMMA EditsFit ==
  ASSUME Basis, edits < MaxEdits, edits' = edits + 1
  PROVE  edits' \in 0..MaxEdits
BY DocumentsAssumption DEF Basis, Sound, EnrolmentTypeOK

LEMMA FaultsFit ==
  ASSUME Basis, faults < MaxFaults, faults' = faults + 1
  PROVE  faults' \in 0..MaxFaults
BY DocumentsAssumption DEF Basis, Sound, EnrolmentTypeOK

LEMMA ReadSignBasis ==
  ASSUME Basis, NEW r \in Requests, NEW k \in Kinds, ReadSign(r, k)
  PROVE  Basis'
<1> DEFINE q == [Idle EXCEPT !.pc = "sign", !.kind = k]
<1>1. /\ q \in Request /\ q.pc = "sign" /\ q.found = {} /\ q.files = {}
  BY DEF Idle, Request, Kinds
<1>2. request' = [request EXCEPT ![r] = q]
  BY DEF ReadSign, Start
<1> HIDE DEF q
<1>3. request'[r] = q
  BY <1>2, RequestTypes DEF Basis, Sound, EnrolmentTypeOK
<1>4. RequestIsSound(r)'
  BY <1>1, <1>3 DEF RequestIsSound
<1>5. step \in EnrollmentStep /\ step # "NONE" /\ step # "COMPLETED"
  BY DEF ReadSign, SigningStep, EnrollmentStep, Kinds
<1>6. completed => moved
  BY <1>5 DEF Basis, CompletedStays, CurrentStep, Exists, EnrollmentStep
<1>7. /\ UNCHANGED <<step, signed, attachment, queue, worker, faults, history>>
      /\ UNCHANGED <<stored, edits>>
  BY DEF ReadSign
<1>8. stored' \in [Files -> Kinds \cup {"none"}] /\ edits' \in 0..MaxEdits
  BY <1>7 DEF Basis, Sound, EnrolmentTypeOK
<1> QED
  BY <1>1, <1>2, <1>4, <1>5, <1>6, <1>7, <1>8, GoOnBasis

LEMMA StoredType ==
  ASSUME Basis, NEW D
  PROVE  /\ stored \in [Files -> Kinds \cup {"none"}]
         /\ Without(D) \in [Files -> Kinds \cup {"none"}]
         /\ \A f \in Files : Without(D)[f] = IF f \in D THEN "none" ELSE stored[f]
BY DEF Basis, Sound, EnrolmentTypeOK, Without

LEMMA ReadMakeBasis ==
  ASSUME Basis, NEW r \in Requests, ReadMake(r)
  PROVE  Basis'
<1>1. PICK F \in NewFiles(2) :
        /\ request' = [request EXCEPT ![r] = [Idle EXCEPT !.pc = "make", !.files = F]]
        /\ stored' = [f \in Files |-> IF f \notin F THEN stored[f]
                       ELSE IF \A g \in F : f <= g THEN "rules" ELSE "contract"]
  BY DEF ReadMake, Start
<1>2. F \subseteq Files
  BY NewIsFree DEF Free
<1> DEFINE q == [Idle EXCEPT !.pc = "make", !.files = F]
<1>3. q \in Request /\ q.pc = "make" /\ q.found = {}
  BY <1>2 DEF Idle, Request, Kinds
<1>4. request' = [request EXCEPT ![r] = q]
  BY <1>1
<1> HIDE DEF q
<1>5. RequestIsSound(r)'
  <2>1. request'[r] = q
    BY <1>4 DEF Basis, Sound, EnrolmentTypeOK
  <2> QED
    BY <1>3, <2>1 DEF RequestIsSound
<1>6. stored' \in [Files -> Kinds \cup {"none"}]
  BY <1>1, StoredType DEF Kinds
<1>7. /\ edits' \in 0..MaxEdits
      /\ UNCHANGED <<step, signed, attachment, queue, worker, faults, history>>
  BY EditsFit DEF ReadMake
<1> QED
  BY <1>3, <1>4, <1>5, <1>6, <1>7, GoOnBasis

\* What updateEnrollment finds of the documents given.
LEMMA FoundToEdit ==
  ASSUME Basis, NEW K \in SUBSET Kinds, NEW F \in First("rules"), NEW G \in First("contract")
  PROVE  /\ {z \in F \cup G : z.kind \in K} \subseteq Found
         /\ \A x \in {z \in F \cup G : z.kind \in K} :
              x.kind \in K /\ \A y \in {z \in F \cup G : z.kind \in K} : x.kind = y.kind => x = y
<1>1. EnrolmentTypeOK /\ \A a \in Attached : attachment[a].file \in Files
  BY DEF Basis, Sound
<1>2. /\ F \subseteq Found /\ \A x, y \in F : x = y
      /\ \A x \in F : x.kind = "rules"
  BY <1>1, FirstIsOne DEF Kinds
<1>3. /\ G \subseteq Found /\ \A x, y \in G : x = y
      /\ \A x \in G : x.kind = "contract"
  BY <1>1, FirstIsOne DEF Kinds
<1> QED
  BY <1>2, <1>3

LEMMA ReadEditBasis ==
  ASSUME Basis, NEW r \in Requests, NEW K \in SUBSET Kinds,
         NEW s \in EditSteps \cup {"NONE"}, ReadEdit(r, K, s)
  PROVE  Basis'
<1>1. PICK F \in First("rules"), G \in First("contract") :
        request' = [request EXCEPT ![r] =
          [Idle EXCEPT !.pc = "edit", !.todo = K, !.step = s,
                       !.found = {z \in F \cup G : z.kind \in K}]]
  BY DEF ReadEdit, Start
<1> DEFINE H == {z \in F \cup G : z.kind \in K}
           q == [Idle EXCEPT !.pc = "edit", !.todo = K, !.step = s, !.found = H]
<1>2. /\ H \subseteq Found
      /\ \A x \in H : x.kind \in K /\ \A y \in H : x.kind = y.kind => x = y
  BY FoundToEdit
<1>3. request' = [request EXCEPT ![r] = q]
  BY <1>1
<1> HIDE DEF H
<1>4. /\ q \in Request /\ q.pc = "edit" /\ q.found = H /\ q.todo = K /\ q.files = {}
  BY <1>2, DocumentsAssumption DEF Idle, Request, Kinds
<1> HIDE DEF q
<1>5. RequestIsSound(r)'
  <2>1. request'[r] = q
    BY <1>3 DEF Basis, Sound, EnrolmentTypeOK
  <2> QED
    BY <1>2, <1>4, <2>1 DEF RequestIsSound
<1>6. step # "NONE"
  BY DEF ReadEdit, Exists, EnrollmentStep
<1>7. /\ edits' \in 0..MaxEdits /\ stored' \in [Files -> Kinds \cup {"none"}]
      /\ UNCHANGED <<step, signed, attachment, queue, worker, faults, history>>
  BY EditsFit, StoredType DEF ReadEdit
<1> QED
  BY <1>3, <1>4, <1>5, <1>6, <1>7, GoOnBasis

\* Nothing is edited before the enrollment.
LEMMA AtWork ==
  ASSUME Basis, NEW r \in Requests, request[r].pc \notin {"idle", "make"}
  PROVE  step # "NONE"
BY DEF Basis, Sound, NothingBefore

LEMMA ReplaceBasis ==
  ASSUME Basis, NEW r \in Requests, Replace(r)
  PROVE  Basis'
<1> DEFINE k == IF "rules" \in request[r].todo THEN "rules" ELSE "contract"
<1>1. k \in Kinds /\ k \in request[r].todo
  BY RequestTypes DEF Replace, Kinds
<1>2. PICK F \in NewFiles(1) :
        /\ stored' = [f \in Files |-> IF f \in F THEN k
                                       ELSE Without(FilesOf(Of(k, request[r].found)))[f]]
        /\ request' = [request EXCEPT ![r].pc = "save", ![r].kind = k, ![r].files = F]
  BY DEF Replace
<1> HIDE DEF k
<1>3. PICK f \in Files : F = {f}
  BY OneFreeFile
<1> DEFINE q == [request[r] EXCEPT !.pc = "save", !.kind = k, !.files = F]
<1>4. /\ q \in Request /\ q.pc = "save" /\ q.kind = k /\ q.files = {f}
      /\ q.found = request[r].found /\ q.todo = request[r].todo
  BY <1>1, <1>3, RequestTypes DEF Request
<1>5. request' = [request EXCEPT ![r] = q]
  BY <1>2 DEF Basis, Sound, EnrolmentTypeOK, Request
<1> HIDE DEF q
<1>6. RequestIsSound(r)'
  <2>1. request'[r] = q
    BY <1>5 DEF Basis, Sound, EnrolmentTypeOK
  <2>2. RequestIsSound(r) /\ request[r].pc = "edit"
    BY DEF Basis, Sound, Replace
  <2> QED
    BY <1>1, <1>4, <2>1, <2>2 DEF RequestIsSound
<1>7. stored' \in [Files -> Kinds \cup {"none"}]
  BY <1>1, <1>2, StoredType
<1>8. step # "NONE"
  BY AtWork DEF Replace
<1>9. /\ edits' \in 0..MaxEdits
      /\ UNCHANGED <<step, signed, attachment, queue, worker, faults, history>>
  BY DEF Replace, Basis, Sound, EnrolmentTypeOK
<1> QED
  BY <1>4, <1>5, <1>6, <1>7, <1>8, <1>9, GoOnBasis

LEMMA ReadDeleteBasis ==
  ASSUME Basis, NEW r \in Requests, ReadDelete(r)
  PROVE  Basis'
<1> DEFINE H == Read(Attached)
           q == [Idle EXCEPT !.pc = "files", !.todo = Kinds, !.found = H]
<1>1. request' = [request EXCEPT ![r] = q]
  BY DEF ReadDelete, Start
<1>2. H \subseteq Found
  BY ReadRows DEF Basis, Sound
<1> HIDE DEF H
<1>3. /\ q \in Request /\ q.pc = "files" /\ q.todo = Kinds /\ q.files = {}
  BY <1>2 DEF Idle, Request, Kinds
<1> HIDE DEF q
<1>4. RequestIsSound(r)'
  <2>1. request'[r] = q
    BY <1>1 DEF Basis, Sound, EnrolmentTypeOK
  <2> QED
    BY <1>3, <2>1 DEF RequestIsSound
<1>5. step # "NONE"
  BY DEF ReadDelete, Exists, EnrollmentStep
<1>6. /\ edits' \in 0..MaxEdits /\ stored' \in [Files -> Kinds \cup {"none"}]
      /\ UNCHANGED <<step, signed, attachment, queue, worker, faults, history>>
  BY EditsFit, StoredType DEF ReadDelete
<1> QED
  BY <1>1, <1>3, <1>4, <1>5, <1>6, GoOnBasis

LEMMA DeleteFilesBasis ==
  ASSUME Basis, NEW r \in Requests, DeleteFiles(r)
  PROVE  Basis'
<1> DEFINE q == [request[r] EXCEPT !.pc = "delete"]
<1>1. /\ q \in Request /\ q.pc = "delete" /\ q.todo = request[r].todo
      /\ q.files = request[r].files
  BY RequestTypes DEF Request
<1>2. request' = [request EXCEPT ![r] = q]
  BY DEF DeleteFiles, Basis, Sound, EnrolmentTypeOK, Request
<1> HIDE DEF q
<1>3. RequestIsSound(r)'
  <2>1. request'[r] = q
    BY <1>2 DEF Basis, Sound, EnrolmentTypeOK
  <2>2. RequestIsSound(r) /\ request[r].pc = "files"
    BY DEF Basis, Sound, DeleteFiles
  <2> QED
    BY <1>1, <2>1, <2>2 DEF RequestIsSound
<1>4. step # "NONE"
  BY AtWork DEF DeleteFiles
<1>5. stored' \in [Files -> Kinds \cup {"none"}]
  BY StoredType DEF DeleteFiles
<1>6. /\ edits' \in 0..MaxEdits
      /\ UNCHANGED <<step, signed, attachment, queue, worker, faults, history>>
  BY DEF DeleteFiles, Basis, Sound, EnrolmentTypeOK
<1> QED
  BY <1>1, <1>2, <1>3, <1>4, <1>5, <1>6, GoOnBasis

LEMMA CommitEditBasis ==
  ASSUME Basis, NEW r \in Requests, CommitEdit(r)
  PROVE  Basis'
<1>1. /\ End(r) /\ UNCHANGED <<signed, attachment, stored, queue, worker, completed, edits>>
      /\ UNCHANGED <<faults, raced, cut>>
  BY DEF CommitEdit
<1>2. faults' \in 0..MaxFaults /\ raced' \subseteq Kinds /\ cut' \subseteq Kinds
  BY <1>1 DEF Basis, Sound, EnrolmentTypeOK
<1>3. moved \in BOOLEAN
  BY DEF Basis, Sound, EnrolmentTypeOK
<1>4. \/ step' = step /\ moved' = moved
      \/ Exists /\ step' \in EnrollmentStep /\ moved' = TRUE
  <2>1. CASE request[r].step = "NONE"
    BY <1>3, <2>1 DEF CommitEdit
  <2>2. CASE request[r].step # "NONE"
    BY <1>3, <2>2, RequestTypes DEF CommitEdit
  <2> QED
    BY <2>1, <2>2
<1> QED
  BY <1>1, <1>2, <1>4, EndBasis

LEMMA StopBasis ==
  ASSUME Basis, NEW r \in Requests, Stop(r), faults' \in 0..MaxFaults
  PROVE  Basis'
<1>1. /\ End(r) /\ UNCHANGED <<signed, attachment, stored, queue, worker, completed, edits>>
      /\ UNCHANGED <<step, moved, raced>>
  BY DEF Stop
<1>2. raced' \subseteq Kinds /\ cut' \subseteq Kinds
  BY <1>1, RequestTypes DEF Stop, Basis, Sound, EnrolmentTypeOK
<1>3. step' = step /\ moved' = moved
  BY <1>1
<1> QED
  BY <1>1, <1>2, <1>3, EndBasis

LEMMA RequestThrowsBasis ==
  ASSUME Basis, NEW r \in Requests, RequestThrows(r)
  PROVE  Basis'
<1>1. Stop(r) /\ faults' \in 0..MaxFaults
  BY DEF RequestThrows, Basis, Sound, EnrolmentTypeOK
<1> QED
  BY <1>1, StopBasis

LEMMA RequestFailsBasis ==
  ASSUME Basis, NEW r \in Requests, RequestFails(r)
  PROVE  Basis'
<1>1. Stop(r) /\ faults' \in 0..MaxFaults
  BY FaultsFit DEF RequestFails
<1> QED
  BY <1>1, StopBasis

\* A row is created or gets another file.
Puts(a, k, f) == attachment' = [attachment EXCEPT ![a] = [kind |-> k, file |-> f]]

LEMMA PutRow ==
  ASSUME EnrolmentTypeOK, \A a \in Attached : attachment[a].file \in Files,
         NEW a \in Rows, NEW k \in Kinds, NEW f \in Files, Puts(a, k, f)
  PROVE  /\ attachment' \in [Rows -> Attachment]
         /\ \A b \in Rows :
              attachment'[b] = IF b = a THEN [kind |-> k, file |-> f] ELSE attachment[b]
         /\ Attached' = Attached \cup {a}
         /\ \A b \in Attached' : attachment'[b].file \in Files
<1>1. attachment \in [Rows -> Attachment]
  BY DEF EnrolmentTypeOK
<1>2. \A b \in Rows :
        attachment'[b] = IF b = a THEN [kind |-> k, file |-> f] ELSE attachment[b]
  BY <1>1 DEF Puts
<1>3. [kind |-> k, file |-> f] \in Attachment /\ [kind |-> k, file |-> f] # NoRow
  BY EmptyHands DEF Attachment
<1>4. attachment' \in [Rows -> Attachment]
  BY <1>1, <1>3 DEF Puts
<1>5. Attached' = Attached \cup {a}
  BY <1>2, <1>3 DEF Attached
<1>6. \A b \in Attached' : attachment'[b].file \in Files
  BY <1>2, <1>5 DEF Attached
<1> QED
  BY <1>2, <1>4, <1>5, <1>6

LEMMA Upserted ==
  ASSUME Basis, NEW r \in Requests, Upsert(r)
  PROVE  \E a \in Rows, f \in Files :
           /\ request[r].files = {f} /\ Puts(a, request[r].kind, f)
           /\ \/ /\ a \in NewRow
                 /\ \A x \in request[r].found :
                      x.kind = request[r].kind => attachment[x.row] = NoRow
              \/ \E x \in request[r].found :
                   x.kind = request[r].kind /\ x.row = a /\ attachment[a] # NoRow
<1> DEFINE k == request[r].kind
           kept == {x \in Of(k, request[r].found) : attachment[x.row] # NoRow}
<1>1. RequestIsSound(r) /\ request[r].pc = "save"
  BY DEF Basis, Sound, Upsert
<1>2. PICK f \in Files : request[r].files = {f}
  BY <1>1 DEF RequestIsSound
<1>3. PICK a \in IF kept = {} THEN NewRow ELSE {x.row : x \in kept} :
        attachment' = NewAttachment(a, k, request[r].files)
  BY DEF Upsert
<1>4. Puts(a, k, f)
  <2>1. (CHOOSE g \in request[r].files : TRUE) = f
    BY <1>2
  <2> QED
    BY <1>3, <2>1 DEF NewAttachment, Puts
<1>5. CASE kept = {}
  <2>1. a \in NewRow
    BY <1>3, <1>5
  <2>2. \A x \in request[r].found : x.kind = k => attachment[x.row] = NoRow
    BY <1>5 DEF Of
  <2> QED
    BY <1>2, <1>4, <2>1, <2>2, FreeRow
<1>6. CASE kept # {}
  <2>1. PICK x \in kept : a = x.row
    BY <1>3, <1>6
  <2>2. x \in request[r].found /\ x.kind = k /\ attachment[x.row] # NoRow
    BY DEF Of
  <2>3. a \in Rows
    BY <2>1, <2>2, RequestTypes, FoundFields
  <2> QED
    BY <1>2, <1>4, <2>1, <2>2, <2>3
<1> QED
  BY <1>5, <1>6

LEMMA UpsertBasis ==
  ASSUME Basis, NEW r \in Requests, Upsert(r)
  PROVE  Basis'
<1>1. PICK a \in Rows, f \in Files : Puts(a, request[r].kind, f)
  BY Upserted
<1>2. /\ attachment' \in [Rows -> Attachment]
      /\ \A b \in Attached' : attachment'[b].file \in Files
  BY <1>1, RequestTypes, PutRow DEF Basis, Sound
<1> DEFINE k == request[r].kind
           q == [request[r] EXCEPT !.pc = "edit", !.todo = @ \ {k},
                  !.found = @ \ Of(k, request[r].found), !.files = {}]
<1>3. /\ q \in Request /\ q.pc = "edit" /\ q.files = {} /\ q.todo = request[r].todo \ {k}
      /\ q.found = {x \in request[r].found : x.kind # k}
  BY RequestTypes DEF Request, Of
<1>4. request' = [request EXCEPT ![r] = q]
  BY DEF Upsert, Basis, Sound, EnrolmentTypeOK, Request
<1> HIDE DEF q
<1>5. RequestIsSound(r)'
  <2>1. request'[r] = q
    BY <1>4 DEF Basis, Sound, EnrolmentTypeOK
  <2>2. RequestIsSound(r) /\ request[r].pc = "save"
    BY DEF Basis, Sound, Upsert
  <2> QED
    BY <1>3, <2>1, <2>2 DEF RequestIsSound
<1>6. /\ step # "NONE" /\ Exists
      /\ UNCHANGED <<step, signed, stored, queue, worker, faults, edits, completed, late,
                     moved, cut>>
  BY AtWork DEF Upsert
<1>7. raced' \subseteq Kinds
  BY RequestTypes DEF Upsert, Meets, Basis, Sound, EnrolmentTypeOK
<1>8. /\ stored' \in [Files -> Kinds \cup {"none"}] /\ faults' \in 0..MaxFaults
      /\ edits' \in 0..MaxEdits /\ cut' \subseteq Kinds /\ late' = late
      /\ UNCHANGED <<signed, queue, worker, completed>>
  BY <1>6 DEF Basis, Sound, EnrolmentTypeOK
<1>9. step' = step /\ moved' = moved
  BY <1>6
<1> QED
  BY <1>2, <1>3, <1>4, <1>5, <1>6, <1>7, <1>8, <1>9, RequestBasis

LEMMA RowsKept ==
  ASSUME Basis, attachment' = attachment
  PROVE  /\ Attached' = Attached
         /\ attachment' \in [Rows -> Attachment]
         /\ \A a \in Attached' : attachment'[a].file \in Files
BY DEF Basis, Sound, EnrolmentTypeOK, Attached

\* The queue takes what is ordered.
LEMMA Ordered ==
  ASSUME Basis, NEW K \in SUBSET Kinds, Order(K)
  PROVE  /\ queue' \in Seq(Kinds) /\ faults' \in 0..MaxFaults
         /\ Len(queue') + (IF worker = Waiting THEN 0 ELSE 1) <= MaxJobs
<1>1. PICK J \in SUBSET K :
        /\ Len(queue) + Len(Jobs(J)) + (IF worker = Waiting THEN 0 ELSE 1) <= MaxJobs
        /\ queue' = queue \o Jobs(J)
        /\ faults' = IF J = K THEN faults ELSE faults + 1
        /\ faults' <= MaxFaults
  BY DEF Order
<1>2. Jobs(J) \in Seq(Kinds)
  <2>1. <<"rules">> \in Seq(Kinds) /\ <<"contract">> \in Seq(Kinds) /\ <<>> \in Seq(Kinds)
    <3>1. "rules" \in Kinds /\ "contract" \in Kinds
      BY DEF Kinds
    <3> QED
      BY <3>1
  <2>2. /\ (IF "rules" \in J THEN <<"rules">> ELSE <<>>) \in Seq(Kinds)
        /\ (IF "contract" \in J THEN <<"contract">> ELSE <<>>) \in Seq(Kinds)
    BY <2>1
  <2> QED
    BY <2>2 DEF Jobs
<1>3. queue \in Seq(Kinds) /\ faults \in Nat
  BY DEF Basis, Sound, EnrolmentTypeOK
<1>4. queue' \in Seq(Kinds) /\ Len(queue') = Len(queue) + Len(Jobs(J))
  BY <1>1, <1>2, <1>3
<1>5. faults' \in 0..MaxFaults
  BY <1>1, <1>3, DocumentsAssumption
<1> QED
  BY <1>1, <1>4, <1>5

LEMMA FillBasis ==
  ASSUME Basis, Fill
  PROVE  Basis'
<1>1. /\ step = "NONE" /\ step' = "RULES_SIGNING"
      /\ UNCHANGED <<signed, attachment, stored, queue, worker, request, faults, edits,
                     completed, late, moved, raced, cut>>
  BY DEF Fill, history
<1>2. ~completed /\ \A r \in Requests : request[r].pc \in {"idle", "make"}
  BY <1>1 DEF Basis, Sound, NothingBefore
<1>3. EnrolmentTypeOK'
  BY <1>1 DEF Basis, Sound, EnrolmentTypeOK, Exists, EnrollmentStep, Attached
<1>4. QueueFits' /\ WorkerIsSound' /\ NothingBefore'
  BY <1>1 DEF Basis, Sound, QueueFits, WorkerIsSound, NothingBefore
<1>5. \A r \in Requests : RequestIsSound(r)'
  BY <1>1 DEF Basis, Sound, RequestIsSound
<1>6. \A a \in Attached' : attachment'[a].file \in Files
  BY <1>1, RowsKept
<1>7. CompletedStays' /\ SignIsLate'
  BY <1>1, <1>2 DEF CompletedStays, SignIsLate
<1> QED
  BY <1>3, <1>4, <1>5, <1>6, <1>7 DEF Basis, Sound

LEMMA SignBasis ==
  ASSUME Basis, NEW r \in Requests, Sign(r)
  PROVE  Basis'
<1>1. /\ request[r].pc = "sign" /\ Exists
      /\ step' = NextStep[request[r].kind]
      /\ signed' = signed \cup {request[r].kind}
      /\ moved' = (moved \/ r \in late)
      /\ request' = [request EXCEPT ![r] = Idle] /\ late' = late \ {r}
      /\ UNCHANGED <<attachment, stored, worker, edits, completed, raced, cut>>
  BY DEF Sign, End
<1>2. request[r].kind \in Kinds
  BY RequestTypes
<1>3. /\ queue' \in Seq(Kinds) /\ faults' \in 0..MaxFaults
      /\ Len(queue') + (IF worker = Waiting THEN 0 ELSE 1) <= MaxJobs
  BY <1>2, Ordered DEF Sign
<1>4. step' \in {"CONTRACT_SIGNING", "PAYMENT"}
  BY <1>1, <1>2 DEF NextStep, Kinds
<1>5. Exists'
  BY <1>4 DEF Exists, EnrollmentStep
<1>6. \A p \in Requests : request'[p] = IF p = r THEN Idle ELSE request[p]
  BY <1>1 DEF Basis, Sound, EnrolmentTypeOK
<1>7. EnrolmentTypeOK'
  <2>1. request' \in [Requests -> Request] /\ signed' \subseteq Kinds /\ late' \subseteq Requests
    BY <1>1, <1>2, EmptyHands DEF Basis, Sound, EnrolmentTypeOK
  <2>2. moved' \in BOOLEAN
    BY <1>1 DEF Basis, Sound, EnrolmentTypeOK
  <2>3. Len(queue') \in Nat /\ Len(queue') <= MaxJobs
    BY <1>3, DocumentsAssumption
  <2>4. step' \in EnrollmentStep \cup {"NONE", "DELETED"}
    BY <1>4 DEF EnrollmentStep
  <2> QED
    BY <1>1, <1>3, <1>5, <2>1, <2>2, <2>3, <2>4 DEF Basis, Sound, EnrolmentTypeOK
<1>8. QueueFits'
  BY <1>1, <1>3 DEF QueueFits
<1>9. NothingBefore' /\ WorkerIsSound'
  BY <1>1, <1>4 DEF NothingBefore, Basis, Sound, WorkerIsSound
<1>10. \A p \in Requests : RequestIsSound(p)'
  BY <1>6, EmptyHands DEF Basis, Sound, RequestIsSound
<1>11. \A a \in Attached' : attachment'[a].file \in Files
  BY <1>1, RowsKept
<1>12. CompletedStays'
  BY <1>1 DEF Basis, CompletedStays, SignIsLate
<1>13. SignIsLate'
  BY <1>1, <1>6, EmptyHands DEF Basis, SignIsLate
<1> QED
  BY <1>7, <1>8, <1>9, <1>10, <1>11, <1>12, <1>13 DEF Basis, Sound

LEMMA PaymentBasis ==
  ASSUME Basis, NEW last \in BOOLEAN, Payment(last)
  PROVE  Basis'
<1>1. /\ Exists /\ step' = (IF last THEN "COMPLETED" ELSE "PAYMENT")
      /\ completed' = last
      /\ late' = late \cup {r \in Requests : request[r].pc = "sign"}
      /\ UNCHANGED <<signed, attachment, stored, queue, worker, request, faults, edits, moved,
                     raced, cut>>
  BY DEF Payment
<1>2. step' \in {"COMPLETED", "PAYMENT"} /\ (completed' => step' = "COMPLETED")
  BY <1>1
<1>3. Exists'
  BY <1>2 DEF Exists, EnrollmentStep
<1>4. EnrolmentTypeOK'
  <2>1. late' \subseteq Requests /\ completed' \in BOOLEAN
    BY <1>1 DEF Basis, Sound, EnrolmentTypeOK
  <2>2. step' \in EnrollmentStep \cup {"NONE", "DELETED"}
    BY <1>2 DEF EnrollmentStep
  <2> QED
    BY <1>1, <1>3, <2>1, <2>2 DEF Basis, Sound, EnrolmentTypeOK
<1>5. QueueFits' /\ WorkerIsSound' /\ NothingBefore'
  BY <1>1, <1>2 DEF Basis, Sound, QueueFits, WorkerIsSound, NothingBefore
<1>6. \A r \in Requests : RequestIsSound(r)'
  BY <1>1 DEF Basis, Sound, RequestIsSound
<1>7. \A a \in Attached' : attachment'[a].file \in Files
  BY <1>1, RowsKept
<1>8. CompletedStays' /\ SignIsLate'
  BY <1>1, <1>2, <1>3 DEF CompletedStays, SignIsLate, CurrentStep
<1> QED
  BY <1>4, <1>5, <1>6, <1>7, <1>8 DEF Basis, Sound

LEMMA CommitDeleteBasis ==
  ASSUME Basis, NEW r \in Requests, CommitDelete(r)
  PROVE  Basis'
<1>1. /\ Exists /\ step' = "DELETED" /\ signed' = {}
      /\ attachment' = [a \in Rows |-> NoRow]
      /\ request' = [request EXCEPT ![r] = Idle] /\ late' = late \ {r}
      /\ UNCHANGED <<stored, queue, worker, faults, edits, completed, moved, cut>>
  BY DEF CommitDelete, End
<1>2. Attached' = {} /\ ~Exists'
  BY <1>1 DEF Attached, Exists, EnrollmentStep
<1>3. \A p \in Requests : request'[p] = IF p = r THEN Idle ELSE request[p]
  BY <1>1 DEF Basis, Sound, EnrolmentTypeOK
<1>4. EnrolmentTypeOK'
  <2>1. /\ request' \in [Requests -> Request] /\ attachment' \in [Rows -> Attachment]
        /\ late' \subseteq Requests
    BY <1>1, EmptyHands DEF Basis, Sound, EnrolmentTypeOK
  <2>2. raced' \subseteq Kinds
    BY DEF CommitDelete, Meets, Basis, Sound, EnrolmentTypeOK
  <2> QED
    BY <1>1, <1>2, <2>1, <2>2 DEF Basis, Sound, EnrolmentTypeOK
<1>5. QueueFits' /\ WorkerIsSound' /\ NothingBefore'
  BY <1>1 DEF Basis, Sound, QueueFits, WorkerIsSound, NothingBefore
<1>6. \A p \in Requests : RequestIsSound(p)'
  BY <1>3, EmptyHands DEF Basis, Sound, RequestIsSound
<1>7. CompletedStays' /\ SignIsLate'
  BY <1>1, <1>2, <1>3, EmptyHands DEF Basis, CompletedStays, SignIsLate, CurrentStep
<1> QED
  BY <1>2, <1>4, <1>5, <1>6, <1>7 DEF Basis, Sound

\* makeEnrolment attaches the two files it has stored.
LEMMA Made ==
  ASSUME Basis, NEW r \in Requests, RequestKnows(r), NEW free \in BOOLEAN, CommitMake(r, free)
  PROVE  /\ Attached = {}
         /\ \E f, g \in Files :
              /\ request[r].files = {f, g} /\ f # g
              /\ stored[f] = "rules" /\ stored[g] = "contract"
              /\ 1 \in Rows /\ 2 \in Rows /\ Attached' = {1, 2}
              /\ attachment' \in [Rows -> Attachment]
              /\ attachment'[1] = [kind |-> "rules", file |-> f]
              /\ attachment'[2] = [kind |-> "contract", file |-> g]
<1>1. step = "NONE" /\ request[r].pc = "make"
  BY DEF CommitMake
<1>2. PICK f, g \in Files :
        request[r].files = {f, g} /\ stored[f] = "rules" /\ stored[g] = "contract"
  BY <1>1 DEF RequestKnows
<1>3. /\ (CHOOSE h \in request[r].files : stored[h] = "rules") = f
      /\ (CHOOSE h \in request[r].files : stored[h] = "contract") = g
  BY <1>2
<1>4. attachment' = [attachment EXCEPT ![1] = [kind |-> "rules", file |-> f],
                                       ![2] = [kind |-> "contract", file |-> g]]
  BY <1>3 DEF CommitMake
<1>5. 1 \in Rows /\ 2 \in Rows /\ Attached = {}
  BY <1>1, DocumentsAssumption DEF Rows, Basis, Sound, NothingBefore
<1>6. /\ [kind |-> "rules", file |-> f] \in Attachment
      /\ [kind |-> "contract", file |-> g] \in Attachment
      /\ [kind |-> "rules", file |-> f] # NoRow /\ [kind |-> "contract", file |-> g] # NoRow
  BY EmptyHands DEF Attachment, Kinds
<1>7. /\ attachment' \in [Rows -> Attachment]
      /\ \A b \in Rows : attachment'[b] = IF b = 1 THEN [kind |-> "rules", file |-> f]
                                          ELSE IF b = 2 THEN [kind |-> "contract", file |-> g]
                                          ELSE attachment[b]
  BY <1>4, <1>5, <1>6 DEF Basis, Sound, EnrolmentTypeOK
<1>8. Attached' = {1, 2}
  BY <1>5, <1>6, <1>7 DEF Attached
<1> QED
  BY <1>2, <1>5, <1>7, <1>8

LEMMA CommitMakeBasis ==
  ASSUME Basis, NEW r \in Requests, RequestKnows(r), NEW free \in BOOLEAN, CommitMake(r, free)
  PROVE  Basis'
<1>1. /\ step = "NONE" /\ step' = (IF free THEN "COMPLETED" ELSE "PAYMENT")
      /\ completed' = free
      /\ request' = [request EXCEPT ![r] = Idle] /\ late' = late \ {r}
      /\ UNCHANGED <<signed, stored, queue, worker, faults, edits, moved, raced, cut>>
  BY DEF CommitMake, End
<1>2. step' \in {"COMPLETED", "PAYMENT"} /\ (completed' => step' = "COMPLETED")
  BY <1>1
<1>3. Exists'
  BY <1>2 DEF Exists, EnrollmentStep
<1>4. \A p \in Requests : request'[p] = IF p = r THEN Idle ELSE request[p]
  BY <1>1 DEF Basis, Sound, EnrolmentTypeOK
<1>5. PICK f, g \in Files :
        /\ Attached' = {1, 2} /\ attachment' \in [Rows -> Attachment]
        /\ attachment'[1] = [kind |-> "rules", file |-> f]
        /\ attachment'[2] = [kind |-> "contract", file |-> g]
  BY Made
<1>6. EnrolmentTypeOK'
  <2>1. request' \in [Requests -> Request] /\ late' \subseteq Requests /\ completed' \in BOOLEAN
    BY <1>1, EmptyHands DEF Basis, Sound, EnrolmentTypeOK
  <2>2. step' \in EnrollmentStep \cup {"NONE", "DELETED"}
    BY <1>2 DEF EnrollmentStep
  <2> QED
    BY <1>1, <1>3, <1>5, <2>1, <2>2 DEF Basis, Sound, EnrolmentTypeOK
<1>7. QueueFits' /\ WorkerIsSound' /\ NothingBefore'
  BY <1>1, <1>2 DEF Basis, Sound, QueueFits, WorkerIsSound, NothingBefore
<1>8. \A p \in Requests : RequestIsSound(p)'
  BY <1>4, EmptyHands DEF Basis, Sound, RequestIsSound
<1>9. \A a \in Attached' : attachment'[a].file \in Files
  BY <1>5
<1>10. CompletedStays' /\ SignIsLate'
  <2>1. \A p \in Requests : request'[p].pc # "sign"
    BY <1>1, <1>4, EmptyHands DEF Basis, Sound, NothingBefore
  <2> QED
    BY <1>2, <1>3, <2>1 DEF CompletedStays, SignIsLate, CurrentStep
<1> QED
  BY <1>6, <1>7, <1>8, <1>9, <1>10 DEF Basis, Sound

LEMMA ViewBasis ==
  ASSUME Basis, View
  PROVE  Basis'
<1>1. UNCHANGED <<step, signed, attachment, stored, worker, request, edits, completed,
                  late, moved, raced, cut>>
  BY DEF View
<1>2. Missing \in SUBSET Kinds
  BY DEF Missing, Basis, Sound, EnrolmentTypeOK
<1>3. /\ queue' \in Seq(Kinds) /\ faults' \in 0..MaxFaults
      /\ Len(queue') + (IF worker' = Waiting THEN 0 ELSE 1) <= MaxJobs
  BY <1>1, <1>2, Ordered DEF View
<1>4. /\ worker' \in Worker /\ stored' \in [Files -> Kinds \cup {"none"}]
      /\ raced' \subseteq Kinds /\ cut' \subseteq Kinds
  BY <1>1 DEF Basis, Sound, EnrolmentTypeOK
<1>5. WorkerIsSound'
  BY <1>1 DEF Basis, Sound, WorkerIsSound
<1>6. step = "NONE" => worker' = Waiting
  BY <1>1 DEF Basis, Sound, NothingBefore
<1>7. ~Exists => attachment' = attachment
  BY <1>1
<1> QED
  BY <1>1, <1>3, <1>4, <1>5, <1>6, <1>7, RowsKept, WorkerBasis

\* A step of the worker that leaves the rows.
LEMMA WorkBasis ==
  ASSUME Basis, UNCHANGED <<step, signed, attachment, request, edits, completed, late, moved>>,
         worker' \in Worker, WorkerIsSound', step = "NONE" => worker' = Waiting,
         queue' \in Seq(Kinds),
         Len(queue') + (IF worker' = Waiting THEN 0 ELSE 1) <= MaxJobs,
         stored' \in [Files -> Kinds \cup {"none"}],
         faults' \in 0..MaxFaults, raced' \subseteq Kinds, cut' \subseteq Kinds
  PROVE  Basis'
<1>1. ~Exists => attachment' = attachment
  OBVIOUS
<1>2. UNCHANGED <<step, signed, request, completed, late, moved, edits>>
  OBVIOUS
<1> QED
  BY <1>1, <1>2, RowsKept, WorkerBasis

LEMMA WorkerAtWork ==
  ASSUME Basis, worker # Waiting
  PROVE  /\ step # "NONE" /\ Len(queue) \in Nat /\ Len(queue) + 1 <= MaxJobs
         /\ queue \in Seq(Kinds)
BY DEF Basis, Sound, NothingBefore, QueueFits, EnrolmentTypeOK

LEMMA NotWaiting ==
  worker.pc # "idle" => worker # Waiting
BY EmptyHands

LEMMA RenderBasis ==
  ASSUME Basis, Render
  PROVE  Basis'
<1>1. /\ worker = Waiting /\ queue # <<>> /\ queue' = Tail(queue)
      /\ worker' = (IF Exists /\ Head(queue) \in signed
                      THEN [Waiting EXCEPT !.pc = "render", !.kind = Head(queue)]
                      ELSE Waiting)
      /\ UNCHANGED <<step, signed, attachment, stored, request, faults, edits, history>>
  BY DEF Render
<1>2. queue \in Seq(Kinds) /\ Len(queue) <= MaxJobs
  BY DEF Basis, Sound, EnrolmentTypeOK
<1>3. /\ Head(queue) \in Kinds /\ queue' \in Seq(Kinds) /\ Len(queue') + 1 <= MaxJobs
      /\ Len(queue') \in Nat
  BY <1>1, <1>2
<1> DEFINE v == [Waiting EXCEPT !.pc = "render", !.kind = Head(queue)]
<1>4. v \in Worker /\ v.pc = "render" /\ v.found = {} /\ v.files = {}
  BY <1>3 DEF Waiting, Worker
<1>5. worker' \in {v, Waiting} /\ (worker' # Waiting => Exists)
  BY <1>1
<1> HIDE DEF v
<1>6. worker' \in Worker /\ WorkerIsSound'
  BY <1>4, <1>5, EmptyHands DEF WorkerIsSound
<1>7. step = "NONE" => worker' = Waiting
  BY <1>5 DEF Exists, EnrollmentStep
<1>8. Len(queue') + (IF worker' = Waiting THEN 0 ELSE 1) <= MaxJobs
  BY <1>3, DocumentsAssumption
<1>9. /\ UNCHANGED <<step, signed, attachment, request, edits, completed, late, moved>>
      /\ faults' \in 0..MaxFaults /\ raced' \subseteq Kinds /\ cut' \subseteq Kinds
      /\ stored' \in [Files -> Kinds \cup {"none"}]
  BY <1>1 DEF Basis, Sound, EnrolmentTypeOK, history
<1> QED
  BY <1>3, <1>6, <1>7, <1>8, <1>9, WorkBasis

LEMMA SaveBasis ==
  ASSUME Basis, Save
  PROVE  Basis'
<1>1. PICK F \in NewFiles(1), H \in First(worker.kind) :
        /\ worker' = [worker EXCEPT !.pc = "write", !.files = F, !.found = H]
        /\ stored' = [f \in Files |-> IF f \in F THEN worker.kind ELSE stored[f]]
  BY DEF Save
<1>2. PICK f \in Files : F = {f}
  BY OneFreeFile
<1>3. H \subseteq Found /\ \A x, y \in H : x = y /\ x.kind = worker.kind
  <2>1. EnrolmentTypeOK /\ \A a \in Attached : attachment[a].file \in Files
    BY DEF Basis, Sound
  <2>2. worker.kind \in Kinds
    BY WorkerTypes
  <2>3. /\ H \subseteq Found /\ \A x, y \in H : x = y
        /\ \A x \in H : x.kind = worker.kind
    BY <2>1, <2>2, FirstIsOne
  <2> QED
    BY <2>3
<1>4. /\ worker' \in Worker /\ worker'.pc = "write" /\ worker'.files = {f}
      /\ worker'.found = H /\ worker'.kind = worker.kind
  BY <1>1, <1>2, <1>3, WorkerTypes DEF Worker
<1>5. WorkerIsSound'
  BY <1>3, <1>4 DEF WorkerIsSound
<1>6. worker.pc = "render"
  BY DEF Save
<1>7. step # "NONE" /\ Len(queue) \in Nat /\ Len(queue) + 1 <= MaxJobs /\ queue \in Seq(Kinds)
  BY <1>6, NotWaiting, WorkerAtWork
<1>8. stored' \in [Files -> Kinds \cup {"none"}]
  BY <1>1, StoredType, WorkerTypes
<1>9. /\ UNCHANGED <<step, signed, attachment, request, edits, completed, late, moved>>
      /\ faults' \in 0..MaxFaults /\ raced' \subseteq Kinds /\ cut' \subseteq Kinds
      /\ queue' = queue
  BY DEF Save, Basis, Sound, EnrolmentTypeOK, history
<1>10. Len(queue') + (IF worker' = Waiting THEN 0 ELSE 1) <= MaxJobs
  BY <1>7, <1>9, DocumentsAssumption
<1> QED
  BY <1>4, <1>5, <1>7, <1>8, <1>9, <1>10, WorkBasis

\* The worker puts its file into a row.
LEMMA Written ==
  ASSUME Basis, Write
  PROVE  \E a \in Rows, f \in Files :
           /\ worker.files = {f} /\ Puts(a, worker.kind, f)
           /\ \/ a \in NewRow /\ worker.found = {} /\ worker' = Waiting
              \/ /\ \E x \in worker.found : x.row = a /\ attachment[a] # NoRow
                 /\ worker' = [worker EXCEPT !.pc = "clean", !.files = {}]
<1>1. PICK f \in Files : worker.files = {f}
  BY DEF Write, Basis, Sound, WorkerIsSound
<1>2. (CHOOSE g \in worker.files : TRUE) = f
  BY <1>1
<1>3. CASE worker.found = {}
  <2>1. /\ \E a \in NewRow : attachment' = NewAttachment(a, worker.kind, worker.files)
        /\ worker' = Waiting
    BY <1>3 DEF Write
  <2>2. PICK a \in NewRow : attachment' = NewAttachment(a, worker.kind, worker.files)
    BY <2>1
  <2>3. Puts(a, worker.kind, f) /\ a \in Rows
    BY <1>2, <2>2, FreeRow DEF NewAttachment, Puts
  <2> QED
    BY <1>1, <1>3, <2>1, <2>3
<1>4. CASE worker.found # {}
  <2>1. PICK x \in worker.found :
          /\ attachment[x.row] # NoRow
          /\ attachment' = NewAttachment(x.row, worker.kind, worker.files)
          /\ worker' = [worker EXCEPT !.pc = "clean", !.files = {}]
    BY <1>4 DEF Write
  <2>2. Puts(x.row, worker.kind, f) /\ x.row \in Rows
    BY <1>2, <2>1, WorkerTypes, FoundFields DEF NewAttachment, Puts
  <2> QED
    BY <1>1, <2>1, <2>2
<1> QED
  BY <1>3, <1>4

LEMMA WriteBasis ==
  ASSUME Basis, Write
  PROVE  Basis'
<1>1. PICK a \in Rows, f \in Files :
        /\ Puts(a, worker.kind, f)
        /\ worker' = Waiting \/ worker' = [worker EXCEPT !.pc = "clean", !.files = {}]
  BY Written
<1>2. /\ attachment' \in [Rows -> Attachment]
      /\ \A b \in Attached' : attachment'[b].file \in Files
  BY <1>1, WorkerTypes, PutRow DEF Basis, Sound
<1>3. worker' \in Worker /\ WorkerIsSound'
  <2>1. CASE worker' = Waiting
    BY <2>1, EmptyHands DEF WorkerIsSound
  <2>2. CASE worker' = [worker EXCEPT !.pc = "clean", !.files = {}]
    <3>1. /\ worker' \in Worker /\ worker'.pc = "clean" /\ worker'.files = {}
          /\ worker'.found = worker.found /\ worker'.kind = worker.kind
      BY <2>2, WorkerTypes DEF Worker
    <3> QED
      BY <3>1 DEF WorkerIsSound, Basis, Sound
  <2> QED
    BY <1>1, <2>1, <2>2
<1>4. step # "NONE" /\ Len(queue) \in Nat /\ Len(queue) + 1 <= MaxJobs /\ queue \in Seq(Kinds)
  BY NotWaiting, WorkerAtWork DEF Write
<1>5. /\ UNCHANGED <<step, signed, request, completed, late, moved, edits>>
      /\ faults' \in 0..MaxFaults /\ cut' \subseteq Kinds /\ queue' = queue /\ Exists
      /\ stored' \in [Files -> Kinds \cup {"none"}]
  BY DEF Write, Basis, Sound, EnrolmentTypeOK
<1>6. raced' \subseteq Kinds
  BY WorkerTypes DEF Write, Meets, Basis, Sound, EnrolmentTypeOK
<1>7. Len(queue') + (IF worker' = Waiting THEN 0 ELSE 1) <= MaxJobs
  BY <1>4, <1>5, DocumentsAssumption
<1>8. /\ step = "NONE" => worker' = Waiting
      /\ ~Exists => attachment' = attachment
  BY <1>4, <1>5
<1> QED
  BY <1>2, <1>3, <1>4, <1>5, <1>6, <1>7, <1>8, WorkerBasis

\* The worker has done with a job, which may go back into the queue.
LEMMA WaitBasis ==
  ASSUME Basis, worker # Waiting, worker' = Waiting,
         UNCHANGED <<step, signed, attachment, request, edits, completed, late, moved, raced>>,
         queue' = queue \/ queue' = <<worker.kind>> \o queue,
         stored' \in [Files -> Kinds \cup {"none"}],
         faults' \in 0..MaxFaults, cut' \subseteq Kinds
  PROVE  Basis'
<1>1. Len(queue) \in Nat /\ Len(queue) + 1 <= MaxJobs /\ queue \in Seq(Kinds)
  BY WorkerAtWork
<1>2. queue' \in Seq(Kinds) /\ Len(queue') <= MaxJobs /\ Len(queue') \in Nat
  <2>1. worker.kind \in Kinds /\ MaxJobs \in Nat
    BY WorkerTypes, DocumentsAssumption
  <2>2. <<worker.kind>> \in Seq(Kinds) /\ Len(<<worker.kind>>) = 1
    BY <2>1
  <2>3. /\ <<worker.kind>> \o queue \in Seq(Kinds)
        /\ Len(<<worker.kind>> \o queue) = 1 + Len(queue)
    BY <1>1, <2>2
  <2>4. CASE queue' = queue
    BY <1>1, <2>1, <2>4
  <2>5. CASE queue' = <<worker.kind>> \o queue
    <3>1. queue' \in Seq(Kinds) /\ Len(queue') = 1 + Len(queue)
      BY <2>3, <2>5
    <3> QED
      BY <1>1, <2>1, <3>1
  <2> QED
    BY <2>4, <2>5
<1>3. Len(queue') + (IF worker' = Waiting THEN 0 ELSE 1) <= MaxJobs
  BY <1>2
<1>4. worker' \in Worker /\ WorkerIsSound' /\ raced' \subseteq Kinds
  BY EmptyHands DEF WorkerIsSound, Basis, Sound, EnrolmentTypeOK
<1>5. /\ UNCHANGED <<step, signed, attachment, request, edits, completed, late, moved>>
      /\ step = "NONE" => worker' = Waiting
  OBVIOUS
<1> QED
  BY <1>2, <1>3, <1>4, <1>5, WorkBasis

LEMMA CleanBasis ==
  ASSUME Basis, Clean
  PROVE  Basis'
<1>1. worker # Waiting /\ worker' = Waiting /\ stored' \in [Files -> Kinds \cup {"none"}]
  BY NotWaiting, StoredType DEF Clean
<1>2. /\ UNCHANGED <<step, signed, attachment, request, edits, completed, late, moved, raced>>
      /\ queue' = queue /\ faults' \in 0..MaxFaults /\ cut' \subseteq Kinds
  BY DEF Clean, Basis, Sound, EnrolmentTypeOK, history
<1> QED
  BY <1>1, <1>2, WaitBasis

LEMMA JobThrowsBasis ==
  ASSUME Basis, JobThrows
  PROVE  Basis'
<1>1. worker # Waiting /\ worker' = Waiting /\ cut' \subseteq Kinds
  BY NotWaiting, WorkerTypes DEF JobThrows, Basis, Sound, EnrolmentTypeOK
<1>2. /\ UNCHANGED <<step, signed, attachment, request, edits, completed, late, moved, raced>>
      /\ queue' = queue /\ faults' \in 0..MaxFaults /\ stored' \in [Files -> Kinds \cup {"none"}]
  BY DEF JobThrows, Basis, Sound, EnrolmentTypeOK
<1> QED
  BY <1>1, <1>2, WaitBasis

LEMMA JobFailsBasis ==
  ASSUME Basis, NEW again \in BOOLEAN, JobFails(again)
  PROVE  Basis'
<1>1. worker # Waiting /\ worker' = Waiting /\ faults' \in 0..MaxFaults
  BY FaultsFit DEF JobFails
<1>2. cut' \subseteq Kinds
  BY WorkerTypes DEF JobFails, Basis, Sound, EnrolmentTypeOK
<1>3. /\ UNCHANGED <<step, signed, attachment, request, edits, completed, late, moved, raced>>
      /\ queue' = queue \/ queue' = <<worker.kind>> \o queue
      /\ stored' \in [Files -> Kinds \cup {"none"}]
  BY DEF JobFails, Basis, Sound, EnrolmentTypeOK
<1> QED
  BY <1>1, <1>2, <1>3, WaitBasis

-----------------------------------------------------------------------------
(* Steps that leave the rows: w puts the files N, deletes the files D, reads *)

Stores(w, N, D) ==
  /\ attachment' = attachment /\ raced \subseteq raced' /\ cut \subseteq cut'
  /\ \A f \in N : Free(f) /\ stored'[f] # "none" /\ f \in Actor(w)'.files
  /\ \A f \in Files \ N : stored'[f] = IF f \in D THEN "none" ELSE stored[f]
  /\ \A f \in D : \E x \in Actor(w).found : x.file = f
  /\ \A v \in People \ {w} : Actor(v)' = Actor(v)
  /\ \A f \in Actor(w)'.files : f \in Actor(w).files \/ f \in N
  /\ \A x \in Actor(w)'.found : x \in Actor(w).found \/ x \in Read(Attached)

Has(w, f) == f \in Actor(w).files \/ \E x \in Actor(w).found : x.file = f

Excuses(w, a) ==
  /\ w \in Requests
  /\ \/ request[w].pc = "delete"
     \/ /\ request[w].pc = "save" /\ request[w].kind = attachment[a].kind
        /\ \E x \in request[w].found : x.kind = attachment[a].kind /\ x.row = a

\* A file that is missing after the step is missed with a reason.
MissesWithReason(w, D) ==
  \A a \in Attached :
    Excuses(w, a) \/ attachment[a].file \in D =>
      Excuses(w, a)' \/ attachment[a].kind \in cut'

\* What w lets go is deleted, attached, or of a document two worked on or one cut.
LetsGo(w, D) ==
  \A f \in Stored : Has(w, f) =>
    \/ f \in D \/ Has(w, f)'
    \/ \E a \in Attached : attachment[a].file = f
    \/ stored[f] \in raced' \cup cut'

LEMMA MissingByExcuses ==
  MissingIsReplaced <=>
    \A a \in Attached :
      \/ attachment[a].file \in Stored \/ attachment[a].kind \in cut
      \/ \E w \in People : Excuses(w, a)
BY WorkerAlone DEF MissingIsReplaced, Excuses

LEMMA LeftByHas ==
  NothingIsLeft <=>
    \A f \in Stored :
      \/ \E w \in People : Has(w, f)
      \/ \E a \in Attached : attachment[a].file = f
      \/ stored[f] \in raced \cup cut
BY DEF NothingIsLeft, Has

LEMMA HeldHas ==
  ASSUME NEW w \in People, NEW f, Has(w, f)
  PROVE  f \in Held
BY HeldBy DEF Has

LEMMA StoredAfter ==
  ASSUME Basis, NEW w \in People, NEW N, NEW D, Stores(w, N, D)
  PROVE  /\ \A f \in Stored' :
              f \in Files /\ (f \in N \/ (f \in Stored /\ f \notin D /\ stored'[f] = stored[f]))
         /\ \A f \in Stored : f \notin N /\ (f \notin D => f \in Stored' /\ stored'[f] = stored[f])
         /\ \A f \in N : f \in Stored' /\ f \notin D
         /\ \A f \in D : f \in Held /\ f \notin N /\ f \notin Stored'
         /\ Attached' = Attached
<1>1. \A f \in D : f \in Held /\ f \in Files
  <2> SUFFICES ASSUME NEW f \in D PROVE f \in Held /\ f \in Files
    OBVIOUS
  <2>1. PICK x \in Actor(w).found : x.file = f
    BY DEF Stores
  <2>2. Actor(w).found \subseteq Found
    BY ActorType DEF Basis, Sound
  <2> QED
    BY <2>1, <2>2, FoundFields, HeldHas DEF Has
<1>2. \A f \in N : f \in Files /\ f \notin Stored /\ f \notin Held /\ stored'[f] # "none"
  BY DEF Stores, Free
<1>3. \A f \in Files \ N : stored'[f] = IF f \in D THEN "none" ELSE stored[f]
  BY DEF Stores
<1>4. Attached' = Attached
  BY DEF Stores, Attached
<1>5. Stored \subseteq Files /\ \A f \in Files : f \in Stored <=> stored[f] # "none"
  BY DEF Stored
<1>6. \A f \in Files : f \in Stored' <=> stored'[f] # "none"
  BY DEF Stored
<1>7. Stored' \subseteq Files
  BY DEF Stored
<1>8. ASSUME NEW f \in Stored', f \notin N
      PROVE  f \in Files /\ f \in Stored /\ f \notin D /\ stored'[f] = stored[f]
  <2>1. f \in Files /\ stored'[f] # "none"
    BY <1>6, <1>7, <1>8
  <2>2. f \notin D /\ stored'[f] = stored[f]
    BY <1>3, <1>8, <2>1
  <2> QED
    BY <1>5, <2>1, <2>2
<1>9. \A f \in Stored : f \notin N /\ (f \notin D => f \in Stored' /\ stored'[f] = stored[f])
  BY <1>2, <1>3, <1>5, <1>6
<1>10. \A f \in N : f \in Stored' /\ f \notin D
  BY <1>1, <1>2, <1>6
<1>11. \A f \in D : f \in Held /\ f \notin N /\ f \notin Stored'
  BY <1>1, <1>2, <1>3, <1>6
<1>12. Stored' \subseteq Files
  BY <1>7
<1> QED
  BY <1>4, <1>8, <1>9, <1>10, <1>11, <1>12

LEMMA StoringKeepsApart ==
  ASSUME Basis, FilesApart, \A v \in People : Owns(v) /\ Remembers(v),
         NEW w \in People, NEW N, NEW D, Stores(w, N, D)
  PROVE  FilesApart' /\ \A v \in People : Owns(v)' /\ Remembers(v)'
<1>1. /\ \A f \in Stored' :
           f \in Files /\ (f \in N \/ (f \in Stored /\ f \notin D /\ stored'[f] = stored[f]))
      /\ \A f \in Stored : f \notin N /\ (f \notin D => f \in Stored' /\ stored'[f] = stored[f])
      /\ \A f \in N : f \in Stored' /\ f \notin D
      /\ Attached' = Attached
  BY StoredAfter
<1>2. attachment' = attachment
  BY DEF Stores
<1>3. \A f \in Files : f \notin N => stored'[f] \in {stored[f], "none"}
  BY DEF Stores
<1>4. \A f \in N : f \notin Held /\ \A a \in Attached : attachment[a].file # f
  BY DEF Stores, Free
<1>5. \A a \in Attached : attachment[a].file \in Files
  BY DEF Basis, Sound
<1>6. FilesApart'
  BY <1>1, <1>2, <1>3, <1>4, <1>5 DEF FilesApart
<1>7. ASSUME NEW v \in People
      PROVE  /\ \A f \in Actor(v)'.files : f \in Actor(v).files \/ (f \in N /\ v = w)
             /\ \A x \in Actor(v)'.found : x \in Actor(v).found \/ x \in Read(Attached)
  BY DEF Stores
<1>8. \A x \in Read(Attached) :
        /\ x \in Found /\ x.row \in Attached
        /\ attachment[x.row].kind = x.kind /\ attachment[x.row].file = x.file
  <2> SUFFICES ASSUME NEW x \in Read(Attached)
               PROVE  /\ x \in Found /\ x.row \in Attached
                      /\ attachment[x.row].kind = x.kind /\ attachment[x.row].file = x.file
    OBVIOUS
  <2>1. x \in Found /\ x.row \in Attached /\ attachment[x.row] = [kind |-> x.kind, file |-> x.file]
    BY ReadRows DEF Basis, Sound
  <2> QED
    BY <2>1
<1>9. ASSUME NEW v \in People, NEW f \in Actor(v)'.files
      PROVE  /\ f \in Stored' /\ \A a \in Attached : attachment[a].file # f
             /\ \A u \in People : \A x \in Actor(u)'.found : x.file # f
             /\ \A u \in People : u # v => f \notin Actor(u)'.files
  <2>1. CASE f \in N /\ v = w
    <3>1. \A u \in People : f \notin Actor(u).files /\ \A x \in Actor(u).found : x.file # f
      BY <1>4, <2>1, HeldHas DEF Has
    <3>2. \A x \in Read(Attached) : x.file # f
      BY <1>4, <1>8, <2>1
    <3> QED
      BY <1>1, <1>4, <1>7, <2>1, <3>1, <3>2
  <2>2. CASE f \in Actor(v).files
    <3>1. /\ f \in Stored /\ \A a \in Attached : attachment[a].file # f
          /\ \A u \in People : \A x \in Actor(u).found : x.file # f
          /\ \A u \in People : u # v => f \notin Actor(u).files
      BY <2>2 DEF Owns
    <3>2. f \notin D /\ f \notin N
      BY <1>1, <3>1 DEF Stores
    <3>3. \A x \in Read(Attached) : x.file # f
      BY <1>8, <3>1
    <3> QED
      BY <1>1, <1>7, <3>1, <3>2, <3>3
  <2> QED
    BY <1>7, <1>9, <2>1, <2>2
<1>10. ASSUME NEW v \in People
       PROVE  Owns(v)'
  BY <1>1, <1>2, <1>9, <1>10 DEF Owns
<1>11. ASSUME NEW v \in People
       PROVE  Remembers(v)'
  <2> SUFFICES ASSUME NEW x \in Actor(v)'.found
               PROVE  /\ \A a \in Attached : attachment[a].file = x.file => a = x.row
                      /\ attachment[x.row] # NoRow => attachment[x.row].kind = x.kind
                      /\ stored'[x.file] \in {x.kind, "none"}
    BY <1>1, <1>2 DEF Remembers
  <2>1. CASE x \in Actor(v).found
    <3>1. /\ \A a \in Attached : attachment[a].file = x.file => a = x.row
          /\ attachment[x.row] # NoRow => attachment[x.row].kind = x.kind
          /\ stored[x.file] \in {x.kind, "none"}
      BY <2>1 DEF Remembers
    <3>2. x.file \notin N /\ x.file \in Files
      BY <1>4, <2>1, HeldHas, ActorType, FoundFields DEF Has, Basis, Sound
    <3> QED
      BY <1>3, <3>1, <3>2
  <2>2. CASE x \in Read(Attached)
    <3>1. /\ x \in Found /\ x.row \in Attached
          /\ attachment[x.row].kind = x.kind /\ attachment[x.row].file = x.file
      BY <1>8, <2>2
    <3>2. /\ \A a \in Attached : attachment[a].file = x.file => a = x.row
          /\ stored[x.file] \in {x.kind, "none"}
      BY <3>1 DEF FilesApart
    <3>3. x.file \notin N /\ x.file \in Files
      BY <1>4, <3>1, FoundFields
    <3> QED
      BY <1>3, <3>1, <3>2, <3>3
  <2> QED
    BY <1>7, <2>1, <2>2
<1> QED
  BY <1>6, <1>10, <1>11

\* Those who are not w know what they knew.
LEMMA StoringKeepsKnowledge ==
  ASSUME Basis, \A v \in People : Owns(v), NEW w \in People, NEW N, NEW D, Stores(w, N, D)
  PROVE  /\ \A r \in Requests : r # w /\ RequestKnows(r) => RequestKnows(r)'
         /\ w # "worker" /\ WorkerKnows => WorkerKnows'
<1>1. /\ \A f \in Stored : f \notin N /\ (f \notin D => f \in Stored' /\ stored'[f] = stored[f])
      /\ \A f \in N : f \notin D
      /\ \A f \in Stored' : f \in N \/ f \in Stored
      /\ Attached' = Attached /\ attachment' = attachment /\ raced \subseteq raced'
  <2>1. Attached' = Attached /\ attachment' = attachment /\ raced \subseteq raced'
    BY StoredAfter DEF Stores
  <2> QED
    BY <2>1, StoredAfter
<1>2. \A k, F : Knows(k, F) => Knows(k, F)'
  BY <1>1 DEF Knows, RowsOf
<1>3. ASSUME NEW v \in People, NEW f \in Actor(v).files
      PROVE  f \in Stored' /\ stored'[f] = stored[f]
  <2>1. f \in Stored /\ \A x \in Actor(w).found : x.file # f
    BY <1>3 DEF Owns
  <2>2. f \notin D
    BY <2>1 DEF Stores
  <2> QED
    BY <1>1, <2>1, <2>2
<1>4. ASSUME NEW v \in People, NEW x \in Actor(v).found, x.file \notin Stored
      PROVE  x.file \notin Stored'
  <2>1. x.file \in Held
    BY <1>4, HeldHas DEF Has
  <2>2. x.file \notin N
    BY <2>1 DEF Stores, Free
  <2> QED
    BY <1>1, <1>4, <2>2
<1>5. ASSUME NEW r \in Requests, r # w, RequestKnows(r)
      PROVE  RequestKnows(r)'
  <2>1. r \in People /\ Actor(r) = request[r] /\ Actor(r)' = request'[r] /\ Actor(r)' = Actor(r)
    BY <1>5, WorkerAlone DEF Stores, Actor
  <2>2. PICK q : q = request[r] /\ q = request'[r]
    BY <2>1
  <2>3. \A f \in q.files : stored'[f] = stored[f]
    BY <1>3, <2>1, <2>2
  <2>4. \A x \in q.found : x.file \notin Stored => x.file \notin Stored'
    BY <1>4, <2>1, <2>2
  <2>5. q.pc = "make" =>
          \E f, g \in Files : q.files = {f, g} /\ stored'[f] = "rules" /\ stored'[g] = "contract"
    BY <1>5, <2>2, <2>3 DEF RequestKnows
  <2>6. q.pc \in {"edit", "save", "files", "delete"} =>
          \A k \in q.todo \ raced' : Knows(k, q.found)'
    <3>1. q.pc \in {"edit", "save", "files", "delete"} =>
            \A k \in q.todo \ raced : Knows(k, q.found)
      BY <1>5, <2>2 DEF RequestKnows
    <3> QED
      BY <1>1, <1>2, <3>1
  <2>7. q.pc = "save" =>
          /\ \A f \in q.files : stored'[f] = q.kind
          /\ \A x \in q.found : x.kind = q.kind => x.file \notin Stored'
    BY <1>5, <2>2, <2>3, <2>4 DEF RequestKnows
  <2>8. q.pc = "delete" => \A x \in q.found : x.file \notin Stored'
    BY <1>5, <2>2, <2>4 DEF RequestKnows
  <2> QED
    BY <2>2, <2>5, <2>6, <2>7, <2>8 DEF RequestKnows, Knows
<1>6. ASSUME w # "worker", WorkerKnows
      PROVE  WorkerKnows'
  <2>1. Actor("worker") = worker /\ Actor("worker")' = worker' /\ worker' = worker
    BY <1>6, WorkerAlone DEF Stores, Actor
  <2>2. \A f \in worker.files : stored'[f] = stored[f]
    BY <1>3, <2>1, WorkerAlone
  <2> QED
    BY <1>1, <1>6, <2>1, <2>2 DEF WorkerKnows, Knows, RowsOf
<1> QED
  BY <1>5, <1>6

LEMMA StoringKeepsMissing ==
  ASSUME Basis, MissingIsReplaced, NEW w \in People, NEW N, NEW D, Stores(w, N, D),
         MissesWithReason(w, D)
  PROVE  MissingIsReplaced'
<1>1. /\ \A f \in Stored : f \notin D => f \in Stored'
      /\ Attached' = Attached /\ attachment' = attachment /\ cut \subseteq cut'
  <2>1. Attached' = Attached /\ attachment' = attachment /\ cut \subseteq cut'
    BY StoredAfter DEF Stores
  <2> QED
    BY <2>1, StoredAfter
<1>2. ASSUME NEW v \in People, v # w, NEW a \in Attached, Excuses(v, a)
      PROVE  Excuses(v, a)'
  <2>1. v \in Requests /\ Actor(v)' = Actor(v)
    BY <1>2 DEF Stores, Excuses
  <2>2. request'[v] = request[v]
    BY <2>1, WorkerAlone DEF Actor
  <2> QED
    BY <1>1, <1>2, <2>1, <2>2 DEF Excuses
<1>3. ASSUME NEW a \in Attached
      PROVE  \/ attachment'[a].file \in Stored' \/ attachment'[a].kind \in cut'
             \/ \E v \in People : Excuses(v, a)'
  <2>1. CASE attachment[a].file \in D \/ Excuses(w, a)
    BY <1>1, <2>1 DEF MissesWithReason
  <2>2. CASE attachment[a].file \notin D /\ ~Excuses(w, a)
    <3>1. \/ attachment[a].file \in Stored \/ attachment[a].kind \in cut
          \/ \E v \in People : v # w /\ Excuses(v, a)
      BY <2>2, MissingByExcuses
    <3> QED
      BY <1>1, <1>2, <2>2, <3>1
  <2> QED
    BY <2>1, <2>2
<1> QED
  BY <1>1, <1>3, WorkerAlone DEF MissingIsReplaced, Excuses

LEMMA StoringLeavesNothing ==
  ASSUME Basis, NothingIsLeft, NEW w \in People, NEW N, NEW D, Stores(w, N, D), LetsGo(w, D)
  PROVE  NothingIsLeft'
<1>1. /\ \A f \in Stored' : f \in N \/ (f \in Stored /\ f \notin D /\ stored'[f] = stored[f])
      /\ Attached' = Attached /\ attachment' = attachment
      /\ raced \subseteq raced' /\ cut \subseteq cut'
  <2>1. /\ Attached' = Attached /\ attachment' = attachment
        /\ raced \subseteq raced' /\ cut \subseteq cut'
    BY StoredAfter DEF Stores
  <2> QED
    BY <2>1, StoredAfter
<1>2. ASSUME NEW f \in Stored'
      PROVE  \/ \E v \in People : Has(v, f)'
             \/ \E a \in Attached : attachment[a].file = f
             \/ stored'[f] \in raced' \cup cut'
  <2>1. CASE f \in N
    BY <2>1 DEF Stores, Has
  <2>2. CASE f \in Stored /\ f \notin D /\ stored'[f] = stored[f]
    <3>1. \A v \in People \ {w} : Has(v, f) => Has(v, f)'
      BY DEF Stores, Has
    <3>2. Has(w, f) => \/ Has(w, f)'
                       \/ \E a \in Attached : attachment[a].file = f
                       \/ stored'[f] \in raced' \cup cut'
      BY <2>2 DEF LetsGo
    <3>3. \/ \E v \in People : Has(v, f)
          \/ \E a \in Attached : attachment[a].file = f
          \/ stored[f] \in raced \cup cut
      BY <2>2, LeftByHas
    <3> QED
      BY <1>1, <2>2, <3>1, <3>2, <3>3
  <2> QED
    BY <1>1, <1>2, <2>1, <2>2
<1> QED
  BY <1>1, <1>2 DEF NothingIsLeft, Has

LEMMA OneDocumentByRows ==
  OneDocument <=>
    \A a, b \in Attached :
      attachment[a].kind = attachment[b].kind =>
        attachment[a].kind \in raced \/ a = b
<1> DEFINE x(a) == [row |-> a, kind |-> attachment[a].kind, file |-> attachment[a].file]
<1>1. EnrollmentDetails = {x(a) : a \in Attached}
  BY DEF EnrollmentDetails, Read
<1>2. \A a : x(a).row = a /\ x(a).kind = attachment[a].kind
  OBVIOUS
<1> HIDE DEF x
<1>3. ASSUME OneDocument, NEW a \in Attached, NEW b \in Attached,
             attachment[a].kind = attachment[b].kind, attachment[a].kind \notin raced
      PROVE  a = b
  <2>1. x(a) = x(b)
    BY <1>1, <1>2, <1>3 DEF OneDocument
  <2> QED
    BY <1>2, <2>1
<1>4. ASSUME \A a, b \in Attached :
               attachment[a].kind = attachment[b].kind => attachment[a].kind \in raced \/ a = b
      PROVE  OneDocument
  BY <1>1, <1>2, <1>4 DEF OneDocument
<1> QED
  BY <1>3, <1>4

LEMMA OneDocumentStays ==
  ASSUME OneDocument, attachment' = attachment, raced \subseteq raced'
  PROVE  OneDocument'
BY DEF OneDocument, EnrollmentDetails, Read, Attached

\* All of it, for a step that leaves the rows.
LEMMA StoringStep ==
  ASSUME EnrolmentInv, Basis', NEW w \in People, NEW N, NEW D, Stores(w, N, D),
         MissesWithReason(w, D), LetsGo(w, D),
         w \in Requests => RequestKnows(w)', w = "worker" => WorkerKnows'
  PROVE  EnrolmentInv'
<1>1. Basis /\ FilesApart /\ OneDocument /\ MissingIsReplaced /\ NothingIsLeft
  BY DEF EnrolmentInv, Basis
<1>2. /\ \A v \in People : Owns(v) /\ Remembers(v)
      /\ \A r \in Requests : RequestKnows(r)
      /\ WorkerKnows
  BY DEF EnrolmentInv
<1>3. OneDocument'
  BY <1>1, OneDocumentStays DEF Stores
<1>4. FilesApart' /\ \A v \in People : Owns(v)' /\ Remembers(v)'
  BY <1>1, <1>2, StoringKeepsApart
<1>5. (\A r \in Requests : RequestKnows(r)') /\ WorkerKnows'
  BY <1>1, <1>2, StoringKeepsKnowledge, WorkerAlone
<1>6. MissingIsReplaced' /\ NothingIsLeft'
  BY <1>1, StoringKeepsMissing, StoringLeavesNothing
<1> QED
  BY <1>3, <1>4, <1>5, <1>6 DEF EnrolmentInv, Basis

LEMMA Undisturbed ==
  ASSUME EnrolmentInv, Basis', UNCHANGED <<attachment, stored, worker, request, raced, cut>>
  PROVE  EnrolmentInv'
<1>1. Attached' = Attached /\ Stored' = Stored
  BY DEF Attached, Stored
<1>2. OneDocument'
  BY OneDocumentStays DEF EnrolmentInv
<1>3. FilesApart'
  BY <1>1 DEF EnrolmentInv, FilesApart
<1>4. \A w \in People : Actor(w)' = Actor(w)
  BY DEF Actor
<1>5. \A w \in People : Owns(w)' /\ Remembers(w)'
  BY <1>1, <1>4 DEF EnrolmentInv, Owns, Remembers
<1>6. \A r \in Requests : RequestKnows(r)'
  BY <1>1 DEF EnrolmentInv, RequestKnows, Knows, RowsOf
<1>7. WorkerKnows'
  BY <1>1 DEF EnrolmentInv, WorkerKnows, Knows, RowsOf
<1>8. MissingIsReplaced' /\ NothingIsLeft'
  BY <1>1, <1>4 DEF EnrolmentInv, MissingIsReplaced, NothingIsLeft
<1> QED
  BY <1>2, <1>3, <1>5, <1>6, <1>7, <1>8 DEF EnrolmentInv, Basis

\* A request begins to sign, or is over.
LEMMA QuietStep ==
  ASSUME EnrolmentInv, Basis', NEW r \in Requests,
         \A q \in Requests : q # r => request'[q] = request[q],
         request'[r].pc \in {"idle", "sign"}, request'[r].files = {}, request'[r].found = {},
         UNCHANGED <<attachment, stored, worker, raced>>, cut \subseteq cut',
         \A a \in Attached : Excuses(r, a) => attachment[a].kind \in cut',
         LetsGo(r, {})
  PROVE  EnrolmentInv'
<1>1. r \in People /\ r # "worker"
  BY WorkerAlone
<1>2. \A v \in People \ {r} : Actor(v)' = Actor(v)
  BY WorkerAlone DEF Actor
<1>3. Actor(r)' = request'[r]
  BY WorkerAlone DEF Actor
<1>4. Stores(r, {}, {})
  BY <1>2, <1>3 DEF Stores
<1>5. MissesWithReason(r, {})
  BY DEF MissesWithReason
<1>6. RequestKnows(r)'
  BY DEF RequestKnows
<1> QED
  BY <1>1, <1>4, <1>5, <1>6, StoringStep

LEMMA InvParts ==
  ASSUME EnrolmentInv
  PROVE  /\ Basis /\ FilesApart /\ OneDocument /\ MissingIsReplaced /\ NothingIsLeft
         /\ \A v \in People : Owns(v) /\ Remembers(v)
         /\ \A r \in Requests : RequestKnows(r) /\ RequestIsSound(r)
         /\ WorkerKnows /\ WorkerIsSound /\ EnrolmentTypeOK
         /\ \A a \in Attached : attachment[a].file \in Files
BY DEF EnrolmentInv, Basis, Sound

LEMMA FillStep ==
  ASSUME EnrolmentInv, Fill
  PROVE  EnrolmentInv'
<1>1. UNCHANGED <<attachment, stored, worker, request, raced, cut>>
  BY DEF Fill, history
<1> QED
  BY <1>1, FillBasis, Undisturbed, InvParts

LEMMA PaymentStep ==
  ASSUME EnrolmentInv, NEW last \in BOOLEAN, Payment(last)
  PROVE  EnrolmentInv'
<1>1. UNCHANGED <<attachment, stored, worker, request, raced, cut>>
  BY DEF Payment
<1> QED
  BY <1>1, PaymentBasis, Undisturbed, InvParts

LEMMA ViewStep ==
  ASSUME EnrolmentInv, View
  PROVE  EnrolmentInv'
<1>1. UNCHANGED <<attachment, stored, worker, request, raced, cut>>
  BY DEF View
<1> QED
  BY <1>1, ViewBasis, Undisturbed, InvParts

LEMMA ChangesOne ==
  ASSUME EnrolmentTypeOK, NEW r \in Requests, NEW q, request' = [request EXCEPT ![r] = q]
  PROVE  request'[r] = q /\ \A p \in Requests : p # r => request'[p] = request[p]
BY DEF EnrolmentTypeOK

\* Who has nothing lets nothing go.
LEMMA EmptyHanded ==
  ASSUME NEW w \in People, Actor(w).files = {}, Actor(w).found = {}, NEW D
  PROVE  LetsGo(w, D)
BY DEF LetsGo, Has

LEMMA ReadSignStep ==
  ASSUME EnrolmentInv, NEW r \in Requests, NEW k \in Kinds, ReadSign(r, k)
  PROVE  EnrolmentInv'
<1>1. /\ request[r] = Idle
      /\ request' = [request EXCEPT ![r] = [Idle EXCEPT !.pc = "sign", !.kind = k]]
      /\ UNCHANGED <<attachment, stored, worker, raced, cut>>
  BY DEF ReadSign, Start, history
<1>2. /\ request'[r] = [Idle EXCEPT !.pc = "sign", !.kind = k]
      /\ \A q \in Requests : q # r => request'[q] = request[q]
  BY <1>1, ChangesOne, InvParts
<1>3. request'[r].pc = "sign" /\ request'[r].files = {} /\ request'[r].found = {}
  BY <1>2 DEF Idle
<1>4. LetsGo(r, {})
  BY <1>1, EmptyHands, EmptyHanded, WorkerAlone
<1>5. \A a \in Attached : ~Excuses(r, a)
  BY <1>1, EmptyHands DEF Excuses
<1>6. Basis'
  BY ReadSignBasis, InvParts
<1> QED
  BY <1>1, <1>2, <1>3, <1>4, <1>5, <1>6, QuietStep

LEMMA EndStep ==
  ASSUME EnrolmentInv, Basis', NEW r \in Requests, End(r),
         UNCHANGED <<attachment, stored, worker, raced>>, cut \subseteq cut',
         \A a \in Attached : Excuses(r, a) => attachment[a].kind \in cut',
         LetsGo(r, {})
  PROVE  EnrolmentInv'
<1>1. request' = [request EXCEPT ![r] = Idle]
  BY DEF End
<1>2. request'[r] = Idle /\ \A q \in Requests : q # r => request'[q] = request[q]
  BY <1>1, ChangesOne, InvParts
<1> QED
  BY <1>2, EmptyHands, QuietStep

LEMMA SignStep ==
  ASSUME EnrolmentInv, NEW r \in Requests, Sign(r)
  PROVE  EnrolmentInv'
<1>1. /\ request[r].pc = "sign" /\ End(r)
      /\ UNCHANGED <<attachment, stored, worker, raced, cut>>
  BY DEF Sign
<1>2. request[r].files = {} /\ request[r].found = {}
  BY <1>1, InvParts DEF RequestIsSound
<1>3. LetsGo(r, {})
  BY <1>2, EmptyHanded, WorkerAlone
<1>4. \A a \in Attached : ~Excuses(r, a)
  BY <1>1 DEF Excuses
<1> QED
  BY <1>1, <1>3, <1>4, SignBasis, InvParts, EndStep

LEMMA CommitEditStep ==
  ASSUME EnrolmentInv, NEW r \in Requests, CommitEdit(r)
  PROVE  EnrolmentInv'
<1>1. /\ request[r].pc = "edit" /\ request[r].todo = {} /\ End(r)
      /\ UNCHANGED <<attachment, stored, worker, raced, cut>>
  BY DEF CommitEdit
<1>2. request[r].files = {} /\ request[r].found = {}
  BY <1>1, InvParts DEF RequestIsSound
<1>3. LetsGo(r, {})
  BY <1>2, EmptyHanded, WorkerAlone
<1>4. \A a \in Attached : ~Excuses(r, a)
  BY <1>1 DEF Excuses
<1> QED
  BY <1>1, <1>3, <1>4, CommitEditBasis, InvParts, EndStep

\* Who knows a document alone knows its file to be attached.
LEMMA KnownIsAttached ==
  ASSUME EnrolmentInv, NEW F \in SUBSET Found, NEW x \in F, x.kind \notin raced,
         Knows(x.kind, F)
  PROVE  x.row \in Attached /\ attachment[x.row].file = x.file
<1>1. x.row \in Rows /\ x.file \in Files
  BY FoundFields
<1>2. attachment[x.row] = [kind |-> x.kind, file |-> x.file]
  BY DEF Knows
<1>3. attachment[x.row].file = x.file /\ attachment[x.row] # NoRow
  BY <1>1, <1>2, EmptyHands
<1> QED
  BY <1>1, <1>3 DEF Attached

\* Nothing is left by a request that stops which is not noted in cut.
LEMMA StopLetsGo ==
  ASSUME EnrolmentInv, NEW r \in Requests, Stop(r)
  PROVE  LetsGo(r, {})
<1> DEFINE q == request[r]
<1>1. /\ cut' = (CASE q.pc = "save" -> cut \cup {q.kind}
                   [] q.pc \in {"delete", "make"} -> Kinds
                   [] OTHER -> cut)
      /\ raced' = raced
  BY DEF Stop
<1>2. q.found \subseteq Found /\ Actor(r) = q /\ r \in People /\ q \in Request
  BY RequestTypes, InvParts, WorkerAlone
<1>3. RequestIsSound(r) /\ RequestKnows(r) /\ Owns(r) /\ Remembers(r)
  BY <1>2, InvParts
<1>4. \A f \in Stored : stored[f] \in Kinds
  BY InvParts DEF EnrolmentTypeOK, Stored
<1> SUFFICES ASSUME NEW f \in Stored, Has(r, f)
             PROVE  \/ \E a \in Attached : attachment[a].file = f
                    \/ stored[f] \in raced' \cup cut'
  BY DEF LetsGo
<1>5. f \in q.files \/ \E x \in q.found : x.file = f
  BY <1>2 DEF Has
<1>6. CASE q.pc \in {"delete", "make"}
  BY <1>1, <1>4, <1>6
<1>7. CASE q.pc \in {"idle", "sign"}
  BY <1>3, <1>5, <1>7 DEF RequestIsSound
<1>8. CASE q.pc = "save" /\ f \in q.files
  BY <1>1, <1>3, <1>8 DEF RequestKnows
<1>9. CASE q.pc \in {"edit", "save", "files"} /\ \E x \in q.found : x.file = f
  <2>1. PICK x \in q.found : x.file = f
    BY <1>9
  <2>2. stored[f] = x.kind /\ x.kind \in Kinds
    BY <1>2, <1>3, <2>1, FoundFields DEF Remembers, Stored
  <2>3. x.kind \in q.todo
    BY <1>3, <1>9, <2>2 DEF RequestIsSound
  <2>4. CASE x.kind \in raced
    BY <1>1, <2>2, <2>4
  <2>5. CASE x.kind \notin raced
    <3>1. Knows(x.kind, q.found)
      BY <1>3, <1>9, <2>3, <2>5 DEF RequestKnows
    <3> QED
      BY <1>2, <2>1, <2>5, <3>1, KnownIsAttached
  <2> QED
    BY <2>4, <2>5
<1>10. q.pc \in {"idle", "sign", "edit", "save", "files", "delete", "make"}
  BY <1>2 DEF Request
<1>11. q.pc \in {"edit", "files"} => q.files = {}
  BY <1>3 DEF RequestIsSound
<1> QED
  BY <1>5, <1>6, <1>7, <1>8, <1>9, <1>10, <1>11

LEMMA StopStep ==
  ASSUME EnrolmentInv, Basis', NEW r \in Requests, Stop(r)
  PROVE  EnrolmentInv'
<1>1. End(r) /\ UNCHANGED <<attachment, stored, worker, raced>>
  BY DEF Stop
<1>2. /\ cut \subseteq cut'
      /\ request[r].pc = "delete" => cut' = Kinds
      /\ request[r].pc = "save" => request[r].kind \in cut'
  BY InvParts DEF Stop, EnrolmentTypeOK
<1>3. ASSUME NEW a \in Attached, Excuses(r, a)
      PROVE  attachment[a].kind \in cut'
  BY <1>2, <1>3, InvParts DEF Excuses, EnrolmentTypeOK, Attachment, Attached
<1> QED
  BY <1>1, <1>2, <1>3, StopLetsGo, EndStep

LEMMA RequestThrowsStep ==
  ASSUME EnrolmentInv, NEW r \in Requests, RequestThrows(r)
  PROVE  EnrolmentInv'
<1>1. Stop(r)
  BY DEF RequestThrows
<1> QED
  BY <1>1, RequestThrowsBasis, InvParts, StopStep

LEMMA RequestFailsStep ==
  ASSUME EnrolmentInv, NEW r \in Requests, RequestFails(r)
  PROVE  EnrolmentInv'
<1>1. Stop(r)
  BY DEF RequestFails
<1> QED
  BY <1>1, RequestFailsBasis, InvParts, StopStep

LEMMA OthersStay ==
  ASSUME EnrolmentTypeOK, NEW r \in Requests, NEW q,
         request' = [request EXCEPT ![r] = q], worker' = worker
  PROVE  /\ request'[r] = q /\ Actor(r) = request[r] /\ Actor(r)' = q
         /\ \A v \in People \ {r} : Actor(v)' = Actor(v)
         /\ r \in People /\ r # "worker"
<1>1. request'[r] = q /\ \A p \in Requests : p # r => request'[p] = request[p]
  BY ChangesOne
<1> QED
  BY <1>1, WorkerAlone DEF Actor

LEMMA KnowsStays ==
  ASSUME attachment' = attachment, NEW k, NEW F, Knows(k, F)
  PROVE  Knows(k, F)'
BY DEF Knows, RowsOf, Attached

LEMMA FirstIsKnown ==
  ASSUME EnrolmentInv, NEW k \in Kinds, k \notin raced, NEW F \in First(k)
  PROVE  Knows(k, F)
<1>1. /\ F = {} <=> RowsOf(k) = {}
      /\ \A x \in F : /\ x.kind = k /\ x.row \in RowsOf(k)
                      /\ attachment[x.row] = [kind |-> k, file |-> x.file]
  BY InvParts, FirstIsOne
<1>2. \A a, b \in RowsOf(k) : a = b
  BY InvParts, OneDocumentByRows DEF RowsOf
<1>3. \A x \in F : x.kind = k => attachment[x.row] = [kind |-> k, file |-> x.file]
  BY <1>1
<1>4. ASSUME NEW a \in RowsOf(k)
      PROVE  \E x \in F : x.kind = k /\ x.row = a
  <2>1. PICK x \in F : x.kind = k /\ x.row \in RowsOf(k)
    BY <1>1, <1>4
  <2> QED
    BY <1>2, <1>4, <2>1
<1> QED
  BY <1>3, <1>4 DEF Knows

LEMMA ReadMakeStep ==
  ASSUME EnrolmentInv, NEW r \in Requests, ReadMake(r)
  PROVE  EnrolmentInv'
<1>1. PICK F \in NewFiles(2) :
        /\ request[r] = Idle
        /\ request' = [request EXCEPT ![r] = [Idle EXCEPT !.pc = "make", !.files = F]]
        /\ stored' = [f \in Files |-> IF f \notin F THEN stored[f]
                       ELSE IF \A g \in F : f <= g THEN "rules" ELSE "contract"]
  BY DEF ReadMake, Start
<1>2. PICK f, g \in Files : F = {f, g} /\ f # g /\ Free(f) /\ Free(g)
  BY TwoFreeFiles
<1>3. UNCHANGED <<attachment, worker, raced, cut>>
  BY DEF ReadMake, history
<1> DEFINE q == [Idle EXCEPT !.pc = "make", !.files = F]
<1>4. q.pc = "make" /\ q.files = F /\ q.found = {}
  BY DEF Idle
<1>5. request' = [request EXCEPT ![r] = q]
  BY <1>1
<1> HIDE DEF q
<1>6. /\ request'[r] = q /\ Actor(r) = Idle /\ Actor(r)' = q
      /\ \A v \in People \ {r} : Actor(v)' = Actor(v)
      /\ r \in People /\ r # "worker"
  BY <1>1, <1>3, <1>5, InvParts, OthersStay
<1>7. \/ stored'[f] = "rules" /\ stored'[g] = "contract"
      \/ stored'[g] = "rules" /\ stored'[f] = "contract"
  <2>1. f \in Int /\ g \in Int
    BY DocumentsAssumption DEF Files
  <2>2. (\A h \in F : f <= h) <=> f <= g
    BY <1>2, <2>1
  <2>3. (\A h \in F : g <= h) <=> g <= f
    BY <1>2, <2>1
  <2>4. /\ stored'[f] = IF f <= g THEN "rules" ELSE "contract"
        /\ stored'[g] = IF g <= f THEN "rules" ELSE "contract"
    BY <1>1, <1>2, <2>2, <2>3
  <2> QED
    BY <1>2, <2>1, <2>4
<1>8. RequestKnows(r)'
  <2>1. \E x, y \in Files :
          request'[r].files = {x, y} /\ stored'[x] = "rules" /\ stored'[y] = "contract"
    <3>1. request'[r].files = {f, g} /\ request'[r].files = {g, f}
      BY <1>2, <1>4, <1>6
    <3> QED
      BY <1>7, <3>1
  <2> QED
    BY <1>4, <1>6, <2>1 DEF RequestKnows
<1>9. Stores(r, F, {})
  <2>1. \A h \in F : Free(h) /\ stored'[h] # "none"
    BY <1>2, <1>7
  <2>2. \A h \in Files \ F : stored'[h] = stored[h]
    BY <1>1
  <2> QED
    BY <1>3, <1>4, <1>6, <2>1, <2>2 DEF Stores
<1>10. MissesWithReason(r, {})
  BY <1>1, EmptyHands DEF MissesWithReason, Excuses
<1>11. LetsGo(r, {})
  BY <1>6, EmptyHands, EmptyHanded
<1>12. Basis'
  BY ReadMakeBasis, InvParts
<1> QED
  BY <1>6, <1>8, <1>9, <1>10, <1>11, <1>12, StoringStep

LEMMA ReadEditStep ==
  ASSUME EnrolmentInv, NEW r \in Requests, NEW K \in SUBSET Kinds,
         NEW s \in EditSteps \cup {"NONE"}, ReadEdit(r, K, s)
  PROVE  EnrolmentInv'
<1>1. PICK F \in First("rules"), G \in First("contract") :
        /\ request[r] = Idle
        /\ request' = [request EXCEPT ![r] =
             [Idle EXCEPT !.pc = "edit", !.todo = K, !.step = s,
                          !.found = {z \in F \cup G : z.kind \in K}]]
  BY DEF ReadEdit, Start
<1> DEFINE H == {z \in F \cup G : z.kind \in K}
           q == [Idle EXCEPT !.pc = "edit", !.todo = K, !.step = s, !.found = H]
<1>2. request' = [request EXCEPT ![r] = q]
  BY <1>1
<1>3. q.pc = "edit" /\ q.todo = K /\ q.found = H /\ q.files = {}
  BY DEF Idle
<1> HIDE DEF q
<1>4. UNCHANGED <<attachment, stored, worker, raced, cut>>
  BY DEF ReadEdit, history
<1>5. /\ request'[r] = q /\ Actor(r) = Idle /\ Actor(r)' = q
      /\ \A v \in People \ {r} : Actor(v)' = Actor(v)
      /\ r \in People /\ r # "worker"
  BY <1>1, <1>2, <1>4, InvParts, OthersStay
<1>6. "rules" \in Kinds /\ "contract" \in Kinds /\ \A k \in Kinds : k \in {"rules", "contract"}
  BY DEF Kinds
<1>7. /\ \A x \in F : x.kind = "rules" /\ x.row \in Attached
           /\ attachment[x.row] = [kind |-> x.kind, file |-> x.file]
      /\ \A x \in G : x.kind = "contract" /\ x.row \in Attached
           /\ attachment[x.row] = [kind |-> x.kind, file |-> x.file]
      /\ F \cup G \subseteq Found
  <2>1. EnrolmentTypeOK /\ \A a \in Attached : attachment[a].file \in Files
    BY InvParts
  <2>2. ASSUME NEW k \in Kinds, NEW E \in First(k)
        PROVE  /\ E \subseteq Found
               /\ \A x \in E : /\ x.kind = k /\ x.row \in RowsOf(k)
                               /\ attachment[x.row] = [kind |-> k, file |-> x.file]
    BY <2>1, <2>2, FirstIsOne
  <2>3. \A k : RowsOf(k) \subseteq Attached
    BY DEF RowsOf
  <2>4. /\ F \subseteq Found
        /\ \A x \in F : /\ x.kind = "rules" /\ x.row \in RowsOf("rules")
                        /\ attachment[x.row] = [kind |-> "rules", file |-> x.file]
    BY <1>6, <2>2
  <2>5. /\ G \subseteq Found
        /\ \A x \in G : /\ x.kind = "contract" /\ x.row \in RowsOf("contract")
                        /\ attachment[x.row] = [kind |-> "contract", file |-> x.file]
    BY <1>6, <2>2
  <2> QED
    BY <2>3, <2>4, <2>5
<1>8. ASSUME NEW k \in K, k \notin raced
      PROVE  Knows(k, H)'
  <2>1. CASE k = "rules"
    <3>1. Knows(k, F)
      BY <1>6, <1>8, <2>1, FirstIsKnown
    <3>2. \A x : x \in F <=> x \in H /\ x.kind = k
      BY <1>7, <1>8, <2>1
    <3>3. Knows(k, H)
      BY <3>1, <3>2 DEF Knows
    <3> HIDE DEF H
    <3> QED
      BY <1>4, <3>3 DEF Knows, RowsOf, Attached
  <2>2. CASE k = "contract"
    <3>1. Knows(k, G)
      BY <1>6, <1>8, <2>2, FirstIsKnown
    <3>2. \A x : x \in G <=> x \in H /\ x.kind = k
      BY <1>7, <1>8, <2>2
    <3>3. Knows(k, H)
      BY <3>1, <3>2 DEF Knows
    <3> QED
      BY <1>4, <3>3, KnowsStays
  <2> QED
    BY <1>6, <1>8, <2>1, <2>2
<1>9. RequestKnows(r)'
  BY <1>3, <1>4, <1>5, <1>8 DEF RequestKnows
<1>10. Stores(r, {}, {})
  <2>1. \A x \in H : x \in Read(Attached)
    <3> SUFFICES ASSUME NEW x \in H PROVE x \in Read(Attached)
      OBVIOUS
    <3>1. /\ x \in Found /\ x.row \in Attached
          /\ attachment[x.row] = [kind |-> x.kind, file |-> x.file]
      BY <1>7
    <3>2. x = [row |-> x.row, kind |-> attachment[x.row].kind, file |-> attachment[x.row].file]
      BY <3>1, FoundFields
    <3> QED
      BY <3>1, <3>2 DEF Read
  <2> HIDE DEF H
  <2> QED
    BY <1>3, <1>4, <1>5, <2>1 DEF Stores
<1>11. MissesWithReason(r, {})
  BY <1>1, EmptyHands DEF MissesWithReason, Excuses
<1>12. LetsGo(r, {})
  BY <1>5, EmptyHands, EmptyHanded
<1>13. Basis'
  BY ReadEditBasis, InvParts
<1> QED
  BY <1>5, <1>9, <1>10, <1>11, <1>12, <1>13, StoringStep

LEMMA ReadDeleteStep ==
  ASSUME EnrolmentInv, NEW r \in Requests, ReadDelete(r)
  PROVE  EnrolmentInv'
<1> PICK H : H = Read(Attached)
  OBVIOUS
<1> DEFINE q == [Idle EXCEPT !.pc = "files", !.todo = Kinds, !.found = H]
<1>1. request[r] = Idle /\ request' = [request EXCEPT ![r] = q]
  BY DEF ReadDelete, Start
<1>2. q.pc = "files" /\ q.todo = Kinds /\ q.found = H /\ q.files = {}
  BY DEF Idle
<1> HIDE DEF q
<1>3. UNCHANGED <<attachment, stored, worker, raced, cut>>
  BY DEF ReadDelete, history
<1>4. /\ request'[r] = q /\ Actor(r) = Idle /\ Actor(r)' = q
      /\ \A v \in People \ {r} : Actor(v)' = Actor(v)
      /\ r \in People /\ r # "worker"
  BY <1>1, <1>3, InvParts, OthersStay
<1>5. ASSUME NEW k \in Kinds
      PROVE  Knows(k, H)
  <2>1. \A x \in H : attachment[x.row] = [kind |-> x.kind, file |-> x.file]
    BY InvParts, ReadRows
  <2>2. ASSUME NEW a \in RowsOf(k)
        PROVE  \E x \in H : x.kind = k /\ x.row = a
    <3>1. a \in Attached /\ attachment[a].kind = k
      BY DEF RowsOf
    <3>2. [row |-> a, kind |-> attachment[a].kind, file |-> attachment[a].file] \in H
      BY <3>1 DEF Read
    <3> QED
      BY <3>1, <3>2
  <2> QED
    BY <2>1, <2>2 DEF Knows
<1>6. RequestKnows(r)'
  <2>1. \A k \in Kinds : Knows(k, H)'
    BY <1>3, <1>5, KnowsStays
  <2> QED
    BY <1>2, <1>4, <2>1 DEF RequestKnows
<1>7. Stores(r, {}, {})
  BY <1>2, <1>3, <1>4 DEF Stores
<1>8. MissesWithReason(r, {})
  BY <1>1, EmptyHands DEF MissesWithReason, Excuses
<1>9. LetsGo(r, {})
  BY <1>4, EmptyHands, EmptyHanded
<1>10. Basis'
  BY ReadDeleteBasis, InvParts
<1> QED
  BY <1>4, <1>6, <1>7, <1>8, <1>9, <1>10, StoringStep

LEMMA DeleteFilesStep ==
  ASSUME EnrolmentInv, NEW r \in Requests, DeleteFiles(r)
  PROVE  EnrolmentInv'
<1> PICK q : q = [request[r] EXCEPT !.pc = "delete"]
  OBVIOUS
<1> PICK D : D = FilesOf(request[r].found)
  OBVIOUS
<1>1. /\ request[r].pc = "files" /\ stored' = Without(D)
      /\ UNCHANGED <<attachment, worker, raced, cut>>
  BY DEF DeleteFiles, history
<1>2. /\ request' = [request EXCEPT ![r] = q] /\ q.pc = "delete" /\ q.todo = request[r].todo
      /\ q.found = request[r].found /\ q.files = request[r].files
  BY RequestTypes, InvParts DEF DeleteFiles, EnrolmentTypeOK, Request
<1>3. /\ request'[r] = q /\ Actor(r) = request[r] /\ Actor(r)' = q
      /\ \A v \in People \ {r} : Actor(v)' = Actor(v)
      /\ r \in People /\ r # "worker"
  BY <1>1, <1>2, InvParts, OthersStay
<1>4. \A f \in Files : stored'[f] = IF f \in D THEN "none" ELSE stored[f]
  BY <1>1, InvParts, StoredType
<1>5. \A f \in D : \E x \in Actor(r).found : x.file = f
  BY <1>3 DEF FilesOf
<1>6. RequestKnows(r)'
  <2>1. \A k \in q.todo \ raced : Knows(k, q.found)'
    <3>1. \A k \in q.todo \ raced : Knows(k, q.found)
      BY <1>1, <1>2, InvParts DEF RequestKnows
    <3> QED
      BY <1>1, <3>1, KnowsStays
  <2>2. \A x \in q.found : x.file \notin Stored'
    <3>1. \A x \in q.found : x.file \in D
      BY <1>2 DEF FilesOf
    <3> QED
      BY <1>4, <3>1 DEF Stored
  <2> QED
    BY <1>1, <1>2, <1>3, <2>1, <2>2 DEF RequestKnows
<1>7. Stores(r, {}, D)
  BY <1>1, <1>2, <1>3, <1>4, <1>5 DEF Stores
<1>8. MissesWithReason(r, D)
  BY <1>2, <1>3 DEF MissesWithReason, Excuses
<1>9. LetsGo(r, D)
  BY <1>2, <1>3 DEF LetsGo, Has
<1>10. Basis'
  BY DeleteFilesBasis, InvParts
<1> QED
  BY <1>3, <1>6, <1>7, <1>8, <1>9, <1>10, StoringStep

LEMMA ReplaceStep ==
  ASSUME EnrolmentInv, NEW r \in Requests, Replace(r)
  PROVE  EnrolmentInv'
<1> PICK k : k = (IF "rules" \in request[r].todo THEN "rules" ELSE "contract")
  OBVIOUS
<1> PICK D : D = FilesOf(Of(k, request[r].found))
  OBVIOUS
<1>1. k \in Kinds /\ k \in request[r].todo /\ request[r].pc = "edit"
  BY RequestTypes, InvParts DEF Replace, Kinds
<1>2. PICK F \in NewFiles(1) :
        /\ stored' = [f \in Files |-> IF f \in F THEN k ELSE Without(D)[f]]
        /\ request' = [request EXCEPT ![r].pc = "save", ![r].kind = k, ![r].files = F]
  BY DEF Replace
<1>3. PICK f \in Files : F = {f} /\ Free(f)
  BY OneFreeFile
<1> PICK q : q = [request[r] EXCEPT !.pc = "save", !.kind = k, !.files = F]
  OBVIOUS
<1>4. /\ request' = [request EXCEPT ![r] = q] /\ q.pc = "save" /\ q.kind = k /\ q.files = {f}
      /\ q.todo = request[r].todo /\ q.found = request[r].found
  BY <1>2, <1>3, RequestTypes, InvParts DEF EnrolmentTypeOK, Request
<1>5. UNCHANGED <<attachment, worker, raced, cut>>
  BY DEF Replace, history
<1>6. /\ request'[r] = q /\ Actor(r) = request[r] /\ Actor(r)' = q
      /\ \A v \in People \ {r} : Actor(v)' = Actor(v)
      /\ r \in People /\ r # "worker"
  BY <1>4, <1>5, InvParts, OthersStay
<1>7. /\ stored'[f] = k
      /\ \A g \in Files \ {f} : stored'[g] = IF g \in D THEN "none" ELSE stored[g]
  BY <1>2, <1>3, InvParts, StoredType
<1>8. request[r].files = {} /\ request[r].found \subseteq Found /\ k # "none"
  BY <1>1, RequestTypes, InvParts DEF RequestIsSound, Kinds
<1>9. \A g : g \in D <=> \E x \in request[r].found : x.kind = k /\ x.file = g
  BY DEF FilesOf, Of
<1>10. Stores(r, {f}, D)
  BY <1>3, <1>4, <1>5, <1>6, <1>7, <1>8, <1>9 DEF Stores
<1>11. RequestKnows(r)'
  <2>1. \A j \in q.todo \ raced : Knows(j, q.found)'
    <3>1. \A j \in q.todo \ raced : Knows(j, q.found)
      BY <1>1, <1>4, InvParts DEF RequestKnows
    <3> QED
      BY <1>5, <3>1, KnowsStays
  <2>2. \A x \in q.found : x.kind = k => x.file \notin Stored'
    <3>1. \A x \in q.found : x.kind = k => x.file \in D
      BY <1>4, <1>9
    <3> QED
      BY <1>10, <3>1, <1>6, StoredAfter, InvParts
  <2> QED
    BY <1>4, <1>5, <1>6, <1>7, <2>1, <2>2 DEF RequestKnows
<1>12. MissesWithReason(r, D)
  <2>1. ASSUME NEW a \in Attached, attachment[a].file \in D
        PROVE  Excuses(r, a)'
    <3>1. PICK x \in request[r].found : x.kind = k /\ x.file = attachment[a].file
      BY <1>9, <2>1
    <3>2. a = x.row
      BY <1>6, <3>1, InvParts DEF Remembers
    <3>3. attachment[a].kind = k
      BY <1>6, <3>1, <3>2, InvParts DEF Remembers, Attached
    <3> QED
      BY <1>4, <1>5, <1>6, <3>1, <3>2, <3>3 DEF Excuses
  <2>2. \A a \in Attached : ~Excuses(r, a)
    BY <1>1 DEF Excuses
  <2> QED
    BY <2>1, <2>2 DEF MissesWithReason
<1>13. LetsGo(r, D)
  BY <1>4, <1>6, <1>8 DEF LetsGo, Has
<1>14. Basis'
  BY ReplaceBasis, InvParts
<1> QED
  BY <1>6, <1>10, <1>11, <1>12, <1>13, <1>14, StoringStep

LEMMA WorkerMoves ==
  ASSUME request' = request
  PROVE  /\ Actor("worker") = worker /\ Actor("worker")' = worker'
         /\ \A v \in People \ {"worker"} : Actor(v)' = Actor(v)
         /\ "worker" \in People /\ "worker" \notin Requests
BY DocumentsAssumption DEF Actor, People

LEMMA WorkerExcusesNothing ==
  ASSUME NEW D, \A a \in Attached : attachment[a].file \notin D
  PROVE  MissesWithReason("worker", D)
BY DocumentsAssumption DEF MissesWithReason, Excuses

LEMMA RenderStep ==
  ASSUME EnrolmentInv, Render
  PROVE  EnrolmentInv'
<1>1. /\ worker = Waiting
      /\ worker' \in {Waiting, [Waiting EXCEPT !.pc = "render", !.kind = Head(queue)]}
      /\ UNCHANGED <<attachment, stored, request, raced, cut>>
  BY DEF Render, history
<1>2. /\ worker'.pc \in {"idle", "render"}
      /\ worker'.found = {} /\ worker'.files = {}
  <2>1. CASE worker' = Waiting
    BY <2>1, EmptyHands
  <2>2. CASE worker' = [Waiting EXCEPT !.pc = "render", !.kind = Head(queue)]
    BY <2>2 DEF Waiting
  <2> QED
    BY <1>1, <2>1, <2>2
<1>3. Stores("worker", {}, {})
  BY <1>1, <1>2, WorkerMoves DEF Stores
<1>4. WorkerKnows'
  BY <1>2 DEF WorkerKnows
<1>5. LetsGo("worker", {})
  BY <1>1, EmptyHands, EmptyHanded, WorkerAlone
<1>6. Basis'
  BY RenderBasis, InvParts
<1> QED
  BY <1>1, <1>3, <1>4, <1>5, <1>6, WorkerMoves, WorkerExcusesNothing, StoringStep

LEMMA SaveStep ==
  ASSUME EnrolmentInv, Save
  PROVE  EnrolmentInv'
<1>1. PICK F \in NewFiles(1), H \in First(worker.kind) :
        /\ worker' = [worker EXCEPT !.pc = "write", !.files = F, !.found = H]
        /\ stored' = [f \in Files |-> IF f \in F THEN worker.kind ELSE stored[f]]
  BY DEF Save
<1>2. PICK f \in Files : F = {f} /\ Free(f)
  BY OneFreeFile
<1>3. /\ worker.pc = "render" /\ worker.found = {} /\ worker.files = {}
      /\ UNCHANGED <<attachment, request, raced, cut>>
  BY InvParts DEF Save, history, WorkerIsSound
<1>4. worker \in Worker /\ worker.kind \in Kinds
  BY WorkerTypes, InvParts
<1>5. /\ worker'.pc = "write" /\ worker'.files = {f} /\ worker'.found = H
      /\ worker'.kind = worker.kind
  BY <1>1, <1>2, <1>4 DEF Worker
<1>6. /\ \A x \in H : x.kind = worker.kind /\ x.row \in Attached /\ x \in Found
           /\ attachment[x.row] = [kind |-> x.kind, file |-> x.file]
  BY <1>4, InvParts, FirstIsOne DEF RowsOf
<1>7. \A x \in H : x \in Read(Attached)
  <2> SUFFICES ASSUME NEW x \in H PROVE x \in Read(Attached)
    OBVIOUS
  <2>1. /\ x \in Found /\ x.row \in Attached
        /\ attachment[x.row] = [kind |-> x.kind, file |-> x.file]
    BY <1>6
  <2>2. x = [row |-> x.row, kind |-> attachment[x.row].kind, file |-> attachment[x.row].file]
    BY <2>1, FoundFields
  <2> QED
    BY <2>1, <2>2 DEF Read
<1>8. Stores("worker", {f}, {})
  <2>1. stored'[f] # "none"
    BY <1>1, <1>2, <1>4 DEF Kinds
  <2>2. \A g \in Files \ {f} : stored'[g] = stored[g]
    BY <1>1, <1>2
  <2> QED
    BY <1>2, <1>3, <1>5, <1>7, <2>1, <2>2, WorkerMoves DEF Stores
<1>9. WorkerKnows'
  <2>1. worker.kind \notin raced => Knows(worker.kind, H)
    BY <1>4, FirstIsKnown
  <2>2. PICK k : k = worker.kind
    OBVIOUS
  <2>3. k \notin raced => Knows(k, H)'
    BY <1>3, <2>1, <2>2, KnowsStays
  <2>4. \A g \in worker'.files : stored'[g] = worker'.kind
    BY <1>1, <1>2, <1>5
  <2> QED
    BY <1>3, <1>5, <2>2, <2>3, <2>4 DEF WorkerKnows, Knows
<1>10. LetsGo("worker", {})
  BY <1>3, EmptyHanded, WorkerAlone
<1>11. Basis'
  BY SaveBasis, InvParts
<1> QED
  BY <1>3, <1>8, <1>9, <1>10, <1>11, WorkerMoves, WorkerExcusesNothing, StoringStep

\* The worker has done with a job.
LEMMA WaitStep ==
  ASSUME EnrolmentInv, Basis', worker' = Waiting, NEW D,
         UNCHANGED <<attachment, request, raced>>, cut \subseteq cut',
         \A f \in Files : stored'[f] = IF f \in D THEN "none" ELSE stored[f],
         \A f \in D : \E x \in worker.found : x.file = f,
         \A a \in Attached : attachment[a].file \notin D,
         LetsGo("worker", D)
  PROVE  EnrolmentInv'
<1>1. Stores("worker", {}, D)
  BY EmptyHands, WorkerMoves DEF Stores
<1>2. WorkerKnows'
  BY EmptyHands DEF WorkerKnows
<1> QED
  BY <1>1, <1>2, WorkerMoves, WorkerExcusesNothing, StoringStep

LEMMA CleanStep ==
  ASSUME EnrolmentInv, Clean
  PROVE  EnrolmentInv'
<1> PICK D : D = FilesOf(worker.found)
  OBVIOUS
<1>1. /\ worker.pc = "clean" /\ worker' = Waiting /\ stored' = Without(D)
      /\ UNCHANGED <<attachment, request, raced, cut>>
  BY DEF Clean, history
<1>2. worker.files = {} /\ \A x \in worker.found, a \in Attached : attachment[a].file # x.file
  BY <1>1, InvParts DEF WorkerIsSound, WorkerKnows
<1>3. \A f : f \in D <=> \E x \in worker.found : x.file = f
  BY DEF FilesOf
<1>4. LetsGo("worker", D)
  BY <1>2, <1>3, WorkerAlone DEF LetsGo, Has
<1>5. \A f \in Files : stored'[f] = IF f \in D THEN "none" ELSE stored[f]
  BY <1>1, InvParts, StoredType
<1>6. \A a \in Attached : attachment[a].file \notin D
  BY <1>2, <1>3
<1>7. Basis'
  BY CleanBasis, InvParts
<1> QED
  BY <1>1, <1>3, <1>4, <1>5, <1>6, <1>7, WaitStep

\* What the worker has is of the document in hand.
LEMMA WorkersDocument ==
  ASSUME EnrolmentInv, NEW f \in Stored, Has("worker", f)
  PROVE  worker.pc \in {"write", "clean"} /\ stored[f] = worker.kind
<1>1. f \in worker.files \/ \E x \in worker.found : x.file = f
  BY WorkerAlone DEF Has
<1>2. worker.pc \in {"write", "clean"}
  BY <1>1, EmptyHands, WorkerTypes, InvParts DEF WorkerIsSound, Worker
<1>3. CASE f \in worker.files
  BY <1>2, <1>3, InvParts DEF WorkerIsSound, WorkerKnows
<1>4. CASE \E x \in worker.found : x.file = f
  <2>1. PICK x \in worker.found : x.file = f
    BY <1>4
  <2>2. x.kind = worker.kind
    BY <2>1, InvParts DEF WorkerIsSound
  <2>3. stored[f] \in {x.kind, "none"}
    BY <2>1, WorkerAlone, InvParts DEF Remembers
  <2> QED
    BY <1>2, <2>2, <2>3 DEF Stored
<1> QED
  BY <1>1, <1>2, <1>3, <1>4

LEMMA DropStep ==
  ASSUME EnrolmentInv, Basis', worker' = Waiting,
         UNCHANGED <<attachment, stored, request, raced>>, cut \subseteq cut',
         worker.pc \in {"write", "clean"} => worker.kind \in cut'
  PROVE  EnrolmentInv'
<1>1. LetsGo("worker", {})
  BY WorkersDocument DEF LetsGo
<1>2. /\ \A f \in Files : stored'[f] = IF f \in {} THEN "none" ELSE stored[f]
      /\ \A f \in {} : \E x \in worker.found : x.file = f
      /\ \A a \in Attached : attachment[a].file \notin {}
      /\ UNCHANGED <<attachment, request, raced>>
  OBVIOUS
<1> QED
  BY <1>1, <1>2, WaitStep

LEMMA JobThrowsStep ==
  ASSUME EnrolmentInv, JobThrows
  PROVE  EnrolmentInv'
<1>1. /\ worker' = Waiting /\ UNCHANGED <<attachment, stored, request, raced>>
      /\ cut \subseteq cut' /\ worker.kind \in cut'
  BY DEF JobThrows
<1> QED
  BY <1>1, JobThrowsBasis, InvParts, DropStep

LEMMA JobFailsStep ==
  ASSUME EnrolmentInv, NEW again \in BOOLEAN, JobFails(again)
  PROVE  EnrolmentInv'
<1>1. /\ worker' = Waiting /\ UNCHANGED <<attachment, stored, request, raced>>
      /\ cut \subseteq cut' /\ (worker.pc \in {"write", "clean"} => worker.kind \in cut')
  BY DEF JobFails
<1> QED
  BY <1>1, JobFailsBasis, InvParts, DropStep

-----------------------------------------------------------------------------
(* Steps that attach: w puts its file f of document k into the row a *)

Attaches(w, a, k, f) ==
  /\ stored' = stored /\ cut' = cut /\ Meets(w, {k})
  /\ Puts(a, k, f) /\ Actor(w).files = {f} /\ stored[f] = k
  /\ \A v \in People \ {w} : Actor(v)' = Actor(v)
  /\ Actor(w)'.files = {} /\ Actor(w)'.found \subseteq Actor(w).found
  /\ \/ attachment[a] = NoRow /\ \A v \in People : \A x \in Actor(v).found : x.row # a
     \/ attachment[a] # NoRow /\ attachment[a].kind = k

LEMMA AttachedAfter ==
  ASSUME EnrolmentInv, NEW w \in People, NEW a \in Rows, NEW k \in Kinds, NEW f \in Files,
         Attaches(w, a, k, f)
  PROVE  /\ Attached' = Attached \cup {a}
         /\ attachment'[a].kind = k /\ attachment'[a].file = f
         /\ \A b \in Rows : b # a => attachment'[b] = attachment[b]
         /\ Stored' = Stored /\ f \in Stored
         /\ \A b \in Attached : attachment[b].file # f
         /\ \A v \in People : \A x \in Actor(v).found : x.file # f
         /\ raced \subseteq raced' /\ raced' \subseteq raced \cup {k}
<1>1. EnrolmentTypeOK /\ \A b \in Attached : attachment[b].file \in Files
  BY InvParts
<1>2. /\ Attached' = Attached \cup {a}
      /\ \A b \in Rows :
           attachment'[b] = IF b = a THEN [kind |-> k, file |-> f] ELSE attachment[b]
  BY <1>1, PutRow DEF Attaches
<1>3. /\ f \in Stored /\ \A b \in Attached : attachment[b].file # f
      /\ \A v \in People : \A x \in Actor(v).found : x.file # f
  <2>1. f \in Actor(w).files /\ Owns(w)
    BY InvParts DEF Attaches
  <2> QED
    BY <2>1 DEF Owns
<1>4. Stored' = Stored
  BY DEF Attaches, Stored
<1>5. raced \subseteq raced' /\ raced' \subseteq raced \cup {k}
  BY DEF Attaches, Meets
<1>6. attachment'[a].kind = k /\ attachment'[a].file = f
  BY <1>2
<1>7. \A b \in Rows : b # a => attachment'[b] = attachment[b]
  BY <1>2
<1> QED
  BY <1>2, <1>3, <1>4, <1>5, <1>6, <1>7

LEMMA AttachingKeepsApart ==
  ASSUME EnrolmentInv, NEW w \in People, NEW a \in Rows, NEW k \in Kinds, NEW f \in Files,
         Attaches(w, a, k, f)
  PROVE  FilesApart' /\ \A v \in People : Owns(v)' /\ Remembers(v)'
<1>1. /\ Attached' = Attached \cup {a} /\ Attached \subseteq Rows
      /\ attachment'[a].kind = k /\ attachment'[a].file = f
      /\ \A b \in Rows : b # a => attachment'[b] = attachment[b]
      /\ Stored' = Stored /\ stored' = stored /\ stored[f] = k
      /\ \A b \in Attached : attachment[b].file # f
      /\ \A v \in People : \A x \in Actor(v).found : x.file # f
  <2>1. Attached \subseteq Rows /\ stored' = stored /\ stored[f] = k
    BY DEF Attached, Attaches
  <2> QED
    BY <2>1, AttachedAfter
<1>2. FilesApart'
  <2>1. FilesApart
    BY InvParts
  <2> QED
    BY <1>1, <2>1 DEF FilesApart
<1>3. ASSUME NEW v \in People
      PROVE  /\ \A g \in Actor(v)'.files : g \in Actor(v).files /\ v # w
             /\ \A x \in Actor(v)'.found : x \in Actor(v).found
  BY DEF Attaches
<1>4. ASSUME NEW v \in People
      PROVE  Owns(v)'
  <2> SUFFICES ASSUME NEW g \in Actor(v)'.files
               PROVE  /\ g \in Stored /\ \A b \in Attached' : attachment'[b].file # g
                      /\ \A u \in People :
                           /\ \A x \in Actor(u)'.found : x.file # g
                           /\ u # v => g \notin Actor(u)'.files
    BY <1>1 DEF Owns
  <2>1. g \in Actor(v).files /\ v # w
    BY <1>3
  <2>2. /\ g \in Stored /\ \A b \in Attached : attachment[b].file # g
        /\ \A u \in People : (\A x \in Actor(u).found : x.file # g)
                             /\ (u # v => g \notin Actor(u).files)
    BY <2>1, InvParts DEF Owns
  <2>3. g # f
    BY <2>1, <2>2 DEF Attaches
  <2> QED
    BY <1>1, <1>3, <2>2, <2>3
<1>5. ASSUME NEW v \in People
      PROVE  Remembers(v)'
  <2> SUFFICES ASSUME NEW x \in Actor(v)'.found
               PROVE  /\ \A b \in Attached' : attachment'[b].file = x.file => b = x.row
                      /\ attachment'[x.row] # NoRow => attachment'[x.row].kind = x.kind
                      /\ stored[x.file] \in {x.kind, "none"}
    BY <1>1 DEF Remembers
  <2>1. x \in Actor(v).found
    BY <1>3
  <2>2. /\ \A b \in Attached : attachment[b].file = x.file => b = x.row
        /\ attachment[x.row] # NoRow => attachment[x.row].kind = x.kind
        /\ stored[x.file] \in {x.kind, "none"}
    BY <2>1, InvParts DEF Remembers
  <2>3. x.file # f /\ x.row \in Rows
    BY <1>1, <2>1, InvParts, ActorType, FoundFields
  <2>4. x.row = a => x.kind = k
    BY <2>1, <2>2 DEF Attaches
  <2> QED
    BY <1>1, <2>2, <2>3, <2>4
<1> QED
  BY <1>2, <1>4, <1>5

\* Who knows another document, or no longer writes this one alone, is not disturbed.
LEMMA AttachingKeepsKnown ==
  ASSUME EnrolmentInv, NEW w \in People, NEW a \in Rows, NEW k \in Kinds, NEW f \in Files,
         Attaches(w, a, k, f),
         NEW v \in People, NEW j \in Kinds, j # k, NEW F \in SUBSET Actor(v).found, Knows(j, F)
  PROVE  Knows(j, F)'
<1>1. /\ Attached' = Attached \cup {a} /\ Attached \subseteq Rows
      /\ attachment'[a].kind = k
      /\ \A b \in Rows : b # a => attachment'[b] = attachment[b]
  <2>1. Attached \subseteq Rows
    BY DEF Attached
  <2> QED
    BY <2>1, AttachedAfter
<1>2. ASSUME NEW x \in F, x.kind = j
      PROVE  x.row # a /\ x.row \in Rows /\ attachment'[x.row] = [kind |-> j, file |-> x.file]
  <2>1. x \in Found /\ x.row \in Rows /\ x.file \in Files
    BY <1>2, InvParts, ActorType, FoundFields
  <2>2. attachment[x.row] = [kind |-> j, file |-> x.file]
    BY <1>2 DEF Knows
  <2>3. attachment[x.row] # NoRow /\ attachment[x.row].kind = j
    BY <2>1, <2>2, EmptyHands
  <2>4. x.row # a
    BY <2>3 DEF Attaches
  <2> QED
    BY <1>1, <2>1, <2>2, <2>4
<1>3. RowsOf(j)' \subseteq RowsOf(j)
  BY <1>1 DEF RowsOf
<1> QED
  BY <1>2, <1>3 DEF Knows

LEMMA AttachingKeepsKnowledge ==
  ASSUME EnrolmentInv, NEW w \in People, NEW a \in Rows, NEW k \in Kinds, NEW f \in Files,
         Attaches(w, a, k, f)
  PROVE  /\ \A r \in Requests : r # w => RequestKnows(r)'
         /\ w # "worker" => WorkerKnows'
<1>1. /\ stored' = stored /\ Stored' = Stored
      /\ raced' = raced \cup {j \in {k} : Writers(j) \ {w} # {}}
      /\ raced \subseteq raced'
  BY AttachedAfter DEF Attaches, Meets
<1>2. ASSUME NEW r \in Requests, r # w
      PROVE  RequestKnows(r)'
  <2>1. r \in People /\ Actor(r) = request[r] /\ request'[r] = request[r] /\ RequestKnows(r)
    BY <1>2, InvParts, WorkerAlone DEF Attaches, Actor
  <2>2. PICK q : q = request[r] /\ q = request'[r]
    BY <2>1
  <2>3. q.todo \subseteq Kinds /\ q.found \subseteq Found
    BY <2>2, InvParts, RequestTypes
  <2>4. q.pc \in {"edit", "save", "files", "delete"} =>
          \A j \in q.todo \ raced' : Knows(j, q.found)'
    <3> SUFFICES ASSUME q.pc \in {"edit", "save", "files", "delete"}, NEW j \in q.todo \ raced'
                 PROVE  Knows(j, q.found)'
      OBVIOUS
    <3>1. j # k
      <4> SUFFICES ASSUME j = k PROVE FALSE
        OBVIOUS
      <4>1. r \in Writers(k)
        BY <2>2 DEF Writers
      <4> QED
        BY <1>1, <1>2, <4>1
    <3>2. Knows(j, q.found)
      BY <1>1, <2>1, <2>2 DEF RequestKnows
    <3>3. q.found \in SUBSET Actor(r).found /\ j \in Kinds
      BY <2>1, <2>2, <2>3
    <3> QED
      BY <2>1, <3>1, <3>2, <3>3, AttachingKeepsKnown
  <2> QED
    BY <1>1, <2>1, <2>2, <2>4 DEF RequestKnows
<1>3. ASSUME w # "worker"
      PROVE  WorkerKnows'
  <2>1. /\ "worker" \in People /\ Actor("worker") = worker /\ worker' = worker
        /\ WorkerKnows /\ WorkerIsSound /\ worker.kind \in Kinds
    BY <1>3, InvParts, WorkerTypes, WorkerAlone DEF Attaches, Actor
  <2>2. PICK v : v = worker /\ v = worker'
    BY <2>1
  <2>3. v.pc = "write" /\ v.kind \notin raced' => Knows(v.kind, v.found)'
    <3> SUFFICES ASSUME v.pc = "write", v.kind \notin raced' PROVE Knows(v.kind, v.found)'
      OBVIOUS
    <3>1. v.kind # k
      <4> SUFFICES ASSUME v.kind = k PROVE FALSE
        OBVIOUS
      <4>1. "worker" \in Writers(k)
        BY <2>2 DEF Writers
      <4> QED
        BY <1>1, <1>3, <4>1
    <3>2. Knows(v.kind, v.found)
      BY <1>1, <2>1, <2>2 DEF WorkerKnows
    <3>3. v.found \in SUBSET Actor("worker").found /\ v.kind \in Kinds
      BY <2>1, <2>2
    <3> QED
      BY <2>1, <3>1, <3>2, <3>3, AttachingKeepsKnown
  <2>4. v.pc = "clean" => \A x \in v.found, b \in Attached' : attachment'[b].file # x.file
    <3> SUFFICES ASSUME v.pc = "clean", NEW x \in v.found, NEW b \in Attached'
                 PROVE  attachment'[b].file # x.file
      OBVIOUS
    <3>1. x.file # f /\ \A c \in Attached : attachment[c].file # x.file
      BY <2>1, <2>2, AttachedAfter DEF WorkerKnows
    <3>2. attachment'[a].file = f /\ (b # a => b \in Attached /\ attachment'[b] = attachment[b])
      BY AttachedAfter DEF Attached
    <3> QED
      BY <3>1, <3>2
  <2> QED
    BY <1>1, <2>1, <2>2, <2>3, <2>4 DEF WorkerKnows
<1> QED
  BY <1>2, <1>3

\* All of it, for a step that attaches.
LEMMA AttachingStep ==
  ASSUME EnrolmentInv, Basis', NEW w \in People, NEW a \in Rows, NEW k \in Kinds,
         NEW f \in Files, Attaches(w, a, k, f),
         k \notin raced' => \A b \in RowsOf(k) : b = a,
         k \notin raced' /\ a \in Attached =>
           \/ attachment[a].file \notin Stored
           \/ \E x \in Actor(w)'.found : x.file = attachment[a].file,
         \A b \in Attached : Excuses(w, b) => b = a,
         \A x \in Actor(w).found : x \in Actor(w)'.found \/ x.file \notin Stored,
         w \in Requests => RequestKnows(w)', w = "worker" => WorkerKnows'
  PROVE  EnrolmentInv'
<1>1. /\ Attached' = Attached \cup {a}
      /\ attachment'[a].kind = k /\ attachment'[a].file = f
      /\ \A b \in Rows : b # a => attachment'[b] = attachment[b]
      /\ Stored' = Stored /\ f \in Stored
      /\ raced \subseteq raced' /\ raced' \subseteq raced \cup {k}
  BY AttachedAfter
<1>2. Attached \subseteq Rows
  BY DEF Attached
<1>3. /\ stored' = stored /\ cut' = cut
      /\ \A v \in People \ {w} : Actor(v)' = Actor(v)
      /\ Actor(w).files = {f}
  BY DEF Attaches
<1>4. OneDocument'
  <2>1. ASSUME NEW b \in Attached', NEW c \in Attached', attachment'[b].kind = attachment'[c].kind
        PROVE  attachment'[b].kind \in raced' \/ b = c
    <3>1. CASE attachment'[b].kind = k
      <4>1. ASSUME NEW d \in Attached', attachment'[d].kind = k, k \notin raced'
            PROVE  d = a
        BY <1>1, <1>2, <4>1 DEF RowsOf
      <4> QED
        BY <2>1, <3>1, <4>1
    <3>2. CASE attachment'[b].kind # k
      <4>1. /\ b \in Attached /\ c \in Attached
            /\ attachment'[b] = attachment[b] /\ attachment'[c] = attachment[c]
        BY <1>1, <1>2, <2>1, <3>2
      <4> QED
        BY <1>1, <2>1, <4>1, InvParts, OneDocumentByRows
    <3> QED
      BY <3>1, <3>2
  <2>2. EnrollmentDetails' =
          {[row |-> b, kind |-> attachment'[b].kind, file |-> attachment'[b].file] :
             b \in Attached'}
    BY DEF EnrollmentDetails, Read
  <2> QED
    BY <2>1, <2>2 DEF OneDocument
<1>5. MissingIsReplaced'
  <2>1. ASSUME NEW b \in Attached'
        PROVE  \/ attachment'[b].file \in Stored' \/ attachment'[b].kind \in cut'
               \/ \E v \in People : Excuses(v, b)'
    <3>1. CASE b = a
      BY <1>1, <3>1
    <3>2. CASE b # a
      <4>1. b \in Attached /\ attachment'[b] = attachment[b]
        BY <1>1, <1>2, <3>2
      <4>2. \/ attachment[b].file \in Stored \/ attachment[b].kind \in cut
            \/ \E v \in People \ {w} : Excuses(v, b)
        BY <3>2, <4>1, InvParts, MissingByExcuses
      <4>3. ASSUME NEW v \in People \ {w}, Excuses(v, b)
            PROVE  Excuses(v, b)'
        <5>1. v \in Requests /\ request'[v] = request[v]
          BY <1>3, <4>3, WorkerAlone DEF Excuses, Actor
        <5> QED
          BY <4>1, <4>3, <5>1 DEF Excuses
      <4> QED
        BY <1>1, <1>3, <4>1, <4>2, <4>3
    <3> QED
      BY <3>1, <3>2
  <2> QED
    BY <2>1, WorkerAlone DEF MissingIsReplaced, Excuses
<1>6. NothingIsLeft'
  <2>1. ASSUME NEW g \in Stored
        PROVE  \/ \E v \in People : Has(v, g)'
               \/ \E b \in Attached' : attachment'[b].file = g
               \/ stored[g] \in raced' \cup cut
    <3>1. \/ \E v \in People \ {w} : Has(v, g)
          \/ Has(w, g)
          \/ \E b \in Attached : attachment[b].file = g
          \/ stored[g] \in raced \cup cut
      BY InvParts, LeftByHas
    <3>2. \A v \in People \ {w} : Has(v, g) => Has(v, g)'
      BY <1>3 DEF Has
    <3>3. Has(w, g) => g = f \/ Has(w, g)'
      BY <1>3 DEF Has
    <3>4. ASSUME NEW b \in Attached, attachment[b].file = g
          PROVE  \/ Has(w, g)' \/ stored[g] \in raced'
                 \/ \E c \in Attached' : attachment'[c].file = g
      <4>1. CASE b # a
        BY <1>1, <1>2, <3>4, <4>1
      <4>2. CASE b = a
        <5>1. attachment[a].kind = k
          BY <3>4, <4>2 DEF Attaches, Attached
        <5>2. stored[g] = k
          BY <3>4, <4>2, <5>1, InvParts DEF FilesApart, Stored
        <5>3. k \notin raced' => Has(w, g)'
          BY <3>4, <4>2 DEF Has
        <5> QED
          BY <5>2, <5>3
      <4> QED
        BY <4>1, <4>2
    <3> QED
      BY <1>1, <3>1, <3>2, <3>3, <3>4
  <2> QED
    BY <1>1, <1>3, <2>1 DEF NothingIsLeft, Has
<1>7. FilesApart' /\ \A v \in People : Owns(v)' /\ Remembers(v)'
  BY AttachingKeepsApart
<1>8. (\A r \in Requests : RequestKnows(r)') /\ WorkerKnows'
  BY AttachingKeepsKnowledge, WorkerAlone
<1> QED
  BY <1>4, <1>5, <1>6, <1>7, <1>8 DEF EnrolmentInv, Basis

LEMMA WriteStep ==
  ASSUME EnrolmentInv, Write
  PROVE  EnrolmentInv'
<1> PICK k : k = worker.kind
  OBVIOUS
<1>1. PICK a \in Rows, f \in Files :
        /\ worker.files = {f} /\ Puts(a, k, f)
        /\ \/ a \in NewRow /\ worker.found = {} /\ worker' = Waiting
           \/ /\ \E x \in worker.found : x.row = a /\ attachment[a] # NoRow
              /\ worker' = [worker EXCEPT !.pc = "clean", !.files = {}]
  BY Written, InvParts
<1>2. /\ worker.pc = "write" /\ Meets("worker", {k})
      /\ stored' = stored /\ cut' = cut /\ request' = request
  BY DEF Write
<1>3. /\ stored[f] = k /\ (k \notin raced => Knows(k, worker.found)) /\ k \in Kinds
      /\ \A x, y \in worker.found : x = y /\ x.kind = k
      /\ worker \in Worker /\ worker.found \subseteq Found
  BY <1>1, <1>2, InvParts, WorkerTypes DEF WorkerKnows, WorkerIsSound
<1>4. /\ Actor("worker") = worker /\ Actor("worker")' = worker'
      /\ \A v \in People \ {"worker"} : Actor(v)' = Actor(v)
      /\ "worker" \in People /\ "worker" \notin Requests
  BY <1>2, WorkerMoves
<1>5. raced \subseteq raced'
  BY <1>2 DEF Meets
<1>6. \A b \in Attached : ~Excuses("worker", b)
  BY <1>4 DEF Excuses
<1>7. Basis'
  BY WriteBasis, InvParts
<1>8. CASE a \in NewRow /\ worker.found = {} /\ worker' = Waiting
  <2>1. Attaches("worker", a, k, f)
    BY <1>1, <1>2, <1>3, <1>4, <1>8, EmptyHands, FreeRow DEF Attaches
  <2>2. k \notin raced' => \A b \in RowsOf(k) : b = a
    BY <1>3, <1>5, <1>8 DEF Knows
  <2>3. a \notin Attached
    BY <1>8, FreeRow DEF Attached
  <2>4. WorkerKnows'
    BY <1>8, EmptyHands DEF WorkerKnows
  <2> QED
    BY <1>3, <1>4, <1>6, <1>7, <1>8, <2>1, <2>2, <2>3, <2>4, AttachingStep
<1>9. CASE /\ \E x \in worker.found : x.row = a /\ attachment[a] # NoRow
           /\ worker' = [worker EXCEPT !.pc = "clean", !.files = {}]
  <2>1. PICK x \in worker.found : x.row = a /\ attachment[a] # NoRow
    BY <1>9
  <2>2. x.kind = k /\ \A y \in worker.found : y = x
    BY <1>3
  <2>3. /\ worker'.pc = "clean" /\ worker'.files = {} /\ worker'.found = worker.found
    BY <1>3, <1>9 DEF Worker
  <2>4. Remembers("worker")
    BY <1>4, InvParts
  <2>5. attachment[a].kind = k
    BY <1>4, <2>1, <2>2, <2>4 DEF Remembers
  <2>6. Attaches("worker", a, k, f)
    BY <1>1, <1>2, <1>3, <1>4, <2>1, <2>3, <2>5 DEF Attaches
  <2>7. k \notin raced' => /\ \A b \in RowsOf(k) : b = a
                           /\ attachment[a].file = x.file
    <3> SUFFICES ASSUME k \notin raced'
                 PROVE  (\A b \in RowsOf(k) : b = a) /\ attachment[a].file = x.file
      OBVIOUS
    <3>1. Knows(k, worker.found)
      BY <1>3, <1>5
    <3>2. attachment[x.row] = [kind |-> k, file |-> x.file]
      BY <2>1, <2>2, <3>1 DEF Knows
    <3>3. \A b \in RowsOf(k) : \E y \in worker.found : y.row = b
      BY <3>1 DEF Knows
    <3> QED
      BY <2>1, <2>2, <3>2, <3>3
  <2>8. WorkerKnows'
    <3> SUFFICES ASSUME NEW y \in worker'.found, NEW b \in Attached'
                 PROVE  attachment'[b].file # y.file
      BY <2>3 DEF WorkerKnows
    <3>1. y = x /\ y \in worker.found
      BY <2>2, <2>3
    <3>2. x.file # f /\ attachment'[a].file = f
      BY <1>3, <1>4, <2>6, AttachedAfter
    <3>3. b # a => b \in Attached /\ attachment'[b] = attachment[b]
      BY <1>3, <1>4, <2>6, AttachedAfter DEF Attached
    <3>4. \A c \in Attached : attachment[c].file = x.file => c = a
      BY <1>4, <2>1, <2>4 DEF Remembers
    <3> QED
      BY <3>1, <3>2, <3>3, <3>4
  <2> QED
    BY <1>3, <1>4, <1>6, <1>7, <2>1, <2>3, <2>6, <2>7, <2>8, AttachingStep
<1> QED
  BY <1>1, <1>8, <1>9

LEMMA UpsertStep ==
  ASSUME EnrolmentInv, NEW r \in Requests, Upsert(r)
  PROVE  EnrolmentInv'
<1> PICK k : k = request[r].kind
  OBVIOUS
<1> PICK H : H = request[r].found
  OBVIOUS
<1>1. PICK a \in Rows, f \in Files :
        /\ request[r].files = {f} /\ Puts(a, k, f)
        /\ \/ a \in NewRow /\ \A x \in H : x.kind = k => attachment[x.row] = NoRow
           \/ \E x \in H : x.kind = k /\ x.row = a /\ attachment[a] # NoRow
  BY Upserted, InvParts
<1>2. /\ request[r].pc = "save" /\ Meets(r, {k})
      /\ stored' = stored /\ cut' = cut /\ worker' = worker
  BY DEF Upsert
<1>3. /\ k \in Kinds /\ k \in request[r].todo
      /\ H \subseteq Found /\ request[r].todo \subseteq Kinds
      /\ \A x, y \in H : x.kind = y.kind => x = y
      /\ stored[f] = k /\ \A x \in H : x.kind = k => x.file \notin Stored
      /\ \A j \in request[r].todo \ raced : Knows(j, H)
  BY <1>1, <1>2, InvParts, RequestTypes DEF RequestIsSound, RequestKnows
<1> PICK q : q = [request[r] EXCEPT !.pc = "edit", !.todo = @ \ {k},
                                    !.found = @ \ Of(k, H), !.files = {}]
  OBVIOUS
<1>4. /\ q.pc = "edit" /\ q.files = {} /\ q.todo = request[r].todo \ {k}
      /\ q.found = {x \in H : x.kind # k}
  BY InvParts, RequestTypes DEF Request, Of
<1>5. request' = [request EXCEPT ![r] = q]
  BY InvParts DEF Upsert, EnrolmentTypeOK, Request
<1>6. /\ request'[r] = q /\ Actor(r) = request[r] /\ Actor(r)' = q
      /\ \A v \in People \ {r} : Actor(v)' = Actor(v)
      /\ r \in People /\ r # "worker"
  BY <1>2, <1>5, InvParts, OthersStay
<1>7. raced \subseteq raced'
  BY <1>2 DEF Meets
<1>8. Attaches(r, a, k, f)
  <2>1. \/ attachment[a] = NoRow /\ \A v \in People : \A x \in Actor(v).found : x.row # a
        \/ attachment[a] # NoRow /\ attachment[a].kind = k
    <3>1. CASE a \in NewRow
      BY <3>1, FreeRow
    <3>2. CASE \E x \in H : x.kind = k /\ x.row = a /\ attachment[a] # NoRow
      <4>1. Remembers(r)
        BY <1>6, InvParts
      <4> QED
        BY <1>6, <3>2, <4>1 DEF Remembers
    <3> QED
      BY <1>1, <3>1, <3>2
  <2>2. Actor(r)'.files = {} /\ Actor(r)'.found \subseteq Actor(r).found
    BY <1>4, <1>6
  <2> QED
    BY <1>1, <1>2, <1>3, <1>6, <2>1, <2>2 DEF Attaches
<1>9. ASSUME k \notin raced
      PROVE  /\ \A b \in RowsOf(k) : b = a
             /\ a \in Attached => attachment[a].file \notin Stored
  <2>1. /\ \A x \in H : x.kind = k => attachment[x.row] = [kind |-> k, file |-> x.file]
        /\ \A b \in RowsOf(k) : \E x \in H : x.kind = k /\ x.row = b
    BY <1>3, <1>9 DEF Knows
  <2>2. \A x \in H : x.kind = k => attachment[x.row] # NoRow /\ attachment[x.row].file = x.file
    <3> SUFFICES ASSUME NEW x \in H, x.kind = k
                 PROVE  attachment[x.row] # NoRow /\ attachment[x.row].file = x.file
      OBVIOUS
    <3>1. x.file \in Files /\ attachment[x.row] = [kind |-> k, file |-> x.file]
      BY <1>3, <2>1, FoundFields
    <3> QED
      BY <3>1, EmptyHands
  <2>3. CASE a \in NewRow /\ \A x \in H : x.kind = k => attachment[x.row] = NoRow
    <3>1. a \notin Attached
      BY <2>3, FreeRow DEF Attached
    <3> QED
      BY <2>1, <2>2, <2>3, <3>1
  <2>4. CASE \E x \in H : x.kind = k /\ x.row = a /\ attachment[a] # NoRow
    <3>1. PICK x \in H : x.kind = k /\ x.row = a
      BY <2>4
    <3>2. \A b \in RowsOf(k) : b = a
      BY <1>3, <2>1, <3>1
    <3>3. attachment[a].file \notin Stored
      BY <1>3, <2>2, <3>1
    <3> QED
      BY <3>2, <3>3
  <2> QED
    BY <1>1, <2>3, <2>4
<1>10. ASSUME NEW b \in Attached, Excuses(r, b)
       PROVE  b = a
  <2>1. PICK y \in H : y.kind = k /\ y.row = b /\ attachment[b].kind = k
    BY <1>2, <1>10 DEF Excuses
  <2>2. attachment[b] # NoRow
    BY DEF Attached
  <2> QED
    BY <1>1, <1>3, <2>1, <2>2
<1>11. \A x \in Actor(r).found : x \in Actor(r)'.found \/ x.file \notin Stored
  BY <1>3, <1>4, <1>6
<1>12. RequestKnows(r)'
  <2>1. ASSUME NEW j \in q.todo \ raced'
        PROVE  Knows(j, q.found)'
    <3>1. j \in Kinds /\ j # k /\ Knows(j, H)
      BY <1>3, <1>4, <1>7
    <3>2. Knows(j, q.found)
      BY <1>4, <3>1 DEF Knows
    <3>3. q.found \in SUBSET Actor(r).found
      BY <1>4, <1>6
    <3> QED
      BY <1>3, <1>6, <1>8, <3>1, <3>2, <3>3, AttachingKeepsKnown
  <2> QED
    BY <1>4, <1>6, <2>1 DEF RequestKnows, Knows
<1>13. Basis'
  BY UpsertBasis, InvParts
<1> QED
  BY <1>3, <1>6, <1>7, <1>8, <1>9, <1>10, <1>11, <1>12, <1>13, AttachingStep

\* Nobody knows of an attachment before the enrollment.
LEMMA CommitMakeStep ==
  ASSUME EnrolmentInv, NEW r \in Requests, NEW free \in BOOLEAN, CommitMake(r, free)
  PROVE  EnrolmentInv'
<1>1. /\ step = "NONE" /\ request[r].pc = "make"
      /\ request' = [request EXCEPT ![r] = Idle]
      /\ UNCHANGED <<stored, worker, raced, cut>>
  BY DEF CommitMake, End
<1>2. PICK f, g \in Files :
        /\ request[r].files = {f, g} /\ f # g
        /\ stored[f] = "rules" /\ stored[g] = "contract"
        /\ 1 \in Rows /\ 2 \in Rows /\ Attached' = {1, 2}
        /\ attachment' \in [Rows -> Attachment]
        /\ attachment'[1] = [kind |-> "rules", file |-> f]
        /\ attachment'[2] = [kind |-> "contract", file |-> g]
  <2>1. Basis /\ RequestKnows(r)
    BY InvParts
  <2> QED
    BY <2>1, Made
<1>3. Attached = {}
  <2>1. Basis /\ RequestKnows(r)
    BY InvParts
  <2> QED
    BY <2>1, Made
<1>4. /\ request'[r] = Idle /\ Actor(r) = request[r] /\ Actor(r)' = Idle
      /\ \A v \in People \ {r} : Actor(v)' = Actor(v)
      /\ r \in People /\ r # "worker"
  BY <1>1, InvParts, OthersStay
<1>5. /\ worker = Waiting /\ \A p \in Requests : request[p].pc \in {"idle", "make"}
  BY <1>1, InvParts DEF Basis, Sound, NothingBefore
<1>6. \A v \in People : Actor(v).found = {}
  BY <1>5, EmptyHands, InvParts, WorkerAlone DEF RequestIsSound
<1>7. \A v \in People : Actor(v)'.found = {}
  BY <1>4, <1>6, EmptyHands
<1>8. Stored' = Stored /\ f \in Stored /\ g \in Stored
  BY <1>1, <1>2 DEF Stored
<1>9. OneDocument'
  <2>1. \A b, c \in Attached' : attachment'[b].kind = attachment'[c].kind => b = c
    BY <1>2
  <2>2. EnrollmentDetails' =
          {[row |-> b, kind |-> attachment'[b].kind, file |-> attachment'[b].file] :
             b \in Attached'}
    BY DEF EnrollmentDetails, Read
  <2> QED
    BY <2>1, <2>2 DEF OneDocument
<1>10. FilesApart'
  BY <1>1, <1>2 DEF FilesApart
<1>11. \A v \in People : Owns(v)' /\ Remembers(v)'
  <2>1. \A v \in People : Remembers(v)'
    BY <1>7 DEF Remembers
  <2>2. ASSUME NEW v \in People
        PROVE  Owns(v)'
    <3>1. CASE v = r
      BY <1>4, <3>1, EmptyHands DEF Owns
    <3>2. CASE v # r
      <4>1. Owns(v) /\ Actor(v)' = Actor(v) /\ Actor(r).files = {f, g}
        BY <1>2, <1>4, <3>2, InvParts
      <4>2. \A h \in Actor(v).files : h \in Stored /\ h # f /\ h # g
        BY <1>4, <3>2, <4>1 DEF Owns
      <4>3. \A u \in People \ {v} : \A h \in Actor(v).files : h \notin Actor(u).files
        BY <4>1 DEF Owns
      <4>4. \A u \in People \ {v} : \A h \in Actor(v).files : h \notin Actor(u)'.files
        BY <1>4, <4>3, EmptyHands
      <4> QED
        BY <1>2, <1>7, <1>8, <4>1, <4>2, <4>4 DEF Owns
    <3> QED
      BY <3>1, <3>2
  <2> QED
    BY <2>1, <2>2
<1>12. ASSUME NEW p \in Requests
       PROVE  RequestKnows(p)'
  <2>1. CASE p = r
    BY <1>4, <2>1, EmptyHands DEF RequestKnows
  <2>2. CASE p # r
    <3>1. request'[p] = request[p] /\ RequestKnows(p)
      BY <1>4, <2>2, InvParts, WorkerAlone DEF Actor
    <3> QED
      BY <1>1, <1>5, <3>1 DEF RequestKnows
  <2> QED
    BY <2>1, <2>2
<1>13. WorkerKnows'
  BY <1>1, <1>5, EmptyHands DEF WorkerKnows
<1>14. MissingIsReplaced'
  BY <1>2, <1>8 DEF MissingIsReplaced
<1>15. NothingIsLeft'
  <2> SUFFICES ASSUME NEW h \in Stored
               PROVE  \/ \E v \in People : Has(v, h)'
                      \/ \E b \in Attached' : attachment'[b].file = h
                      \/ stored[h] \in raced \cup cut
    BY <1>1, <1>8 DEF NothingIsLeft, Has
  <2>1. (\E v \in People : Has(v, h)) \/ stored[h] \in raced \cup cut
    BY <1>3, InvParts, LeftByHas
  <2>2. \A v \in People \ {r} : Has(v, h) => Has(v, h)'
    BY <1>4 DEF Has
  <2>3. Has(r, h) => h \in {f, g}
    BY <1>2, <1>4, <1>6 DEF Has
  <2> QED
    BY <1>2, <2>1, <2>2, <2>3
<1>16. Basis'
  BY InvParts, CommitMakeBasis
<1> QED
  BY <1>9, <1>10, <1>11, <1>12, <1>13, <1>14, <1>15, <1>16 DEF EnrolmentInv, Basis

\* All attachments go; what nobody had in mind is of a document two worked on.
LEMMA CommitDeleteStep ==
  ASSUME EnrolmentInv, NEW r \in Requests, CommitDelete(r)
  PROVE  EnrolmentInv'
<1>1. /\ request[r].pc = "delete" /\ attachment' = [a \in Rows |-> NoRow]
      /\ request' = [request EXCEPT ![r] = Idle] /\ Meets(r, Kinds)
      /\ UNCHANGED <<stored, worker, cut>>
  BY DEF CommitDelete, End
<1>2. Attached' = {} /\ Stored' = Stored
  BY <1>1 DEF Attached, Stored
<1>3. /\ request'[r] = Idle /\ Actor(r) = request[r] /\ Actor(r)' = Idle
      /\ \A v \in People \ {r} : Actor(v)' = Actor(v)
      /\ r \in People /\ r # "worker"
  BY <1>1, InvParts, OthersStay
<1>4. /\ raced \subseteq raced'
      /\ \A k \in Kinds \ raced' : Writers(k) \subseteq {r}
  BY <1>1 DEF Meets
<1>5. OneDocument'
  BY <1>2 DEF OneDocument, EnrollmentDetails, Read
<1>6. FilesApart'
  BY <1>2 DEF FilesApart
<1>7. ASSUME NEW v \in People
      PROVE  Owns(v)' /\ Remembers(v)'
  <2>1. /\ \A u \in People : /\ \A h \in Actor(u)'.files : h \in Actor(u).files
                             /\ \A x \in Actor(u)'.found : x \in Actor(u).found
    BY <1>3, EmptyHands
  <2>2. Owns(v) /\ Remembers(v)
    BY InvParts
  <2>3. Owns(v)'
    BY <1>2, <2>1, <2>2 DEF Owns
  <2>4. Remembers(v)'
    <3>1. \A x \in Actor(v)'.found : x.row \in Rows
      BY <2>1, InvParts, ActorType, FoundFields
    <3> QED
      BY <1>1, <1>2, <2>1, <2>2, <3>1 DEF Remembers
  <2> QED
    BY <2>3, <2>4
<1>8. ASSUME NEW p \in Requests
      PROVE  RequestKnows(p)'
  <2>1. CASE p = r
    BY <1>3, <2>1, EmptyHands DEF RequestKnows
  <2>2. CASE p # r
    <3>1. request'[p] = request[p] /\ RequestKnows(p) /\ request[p].todo \subseteq Kinds
      BY <1>3, <2>2, InvParts, RequestTypes, WorkerAlone DEF Actor
    <3>2. request[p].pc \in {"edit", "save", "files", "delete"} =>
            \A k \in request[p].todo : k \in raced'
      BY <1>4, <2>2, <3>1 DEF Writers
    <3> QED
      BY <1>1, <1>2, <3>1, <3>2 DEF RequestKnows
  <2> QED
    BY <2>1, <2>2
<1>9. WorkerKnows'
  <2>1. worker.pc \in {"write", "clean"} => worker.kind \in raced'
    BY <1>3, <1>4, InvParts, WorkerTypes DEF Writers
  <2> QED
    BY <1>1, <1>2, <2>1, InvParts DEF WorkerKnows
<1>10. MissingIsReplaced'
  BY <1>2 DEF MissingIsReplaced
<1>11. NothingIsLeft'
  <2> SUFFICES ASSUME NEW h \in Stored
               PROVE  \/ \E v \in People : Has(v, h)'
                      \/ stored[h] \in raced' \cup cut
    BY <1>1, <1>2 DEF NothingIsLeft, Has
  <2>1. \/ \E v \in People : Has(v, h)
        \/ \E b \in Attached : attachment[b].file = h
        \/ stored[h] \in raced \cup cut
    BY InvParts, LeftByHas
  <2>2. \A v \in People \ {r} : Has(v, h) => Has(v, h)'
    BY <1>3 DEF Has
  <2>3. /\ \A x \in request[r].found : x.file \notin Stored
        /\ \A k \in Kinds \ raced : Knows(k, request[r].found)
        /\ request[r].files = {}
    BY <1>1, InvParts DEF RequestKnows, RequestIsSound
  <2>4. ~Has(r, h)
    BY <1>3, <2>3 DEF Has
  <2>5. ASSUME NEW b \in Attached, attachment[b].file = h
        PROVE  stored[h] \in raced'
    <3>1. stored[h] = attachment[b].kind /\ attachment[b].kind \in Kinds
      BY <2>5, InvParts DEF FilesApart, Stored, Attached, EnrolmentTypeOK, Attachment
    <3>2. attachment[b].kind \notin raced => FALSE
      <4> SUFFICES ASSUME attachment[b].kind \notin raced PROVE FALSE
        OBVIOUS
      <4>1. Knows(attachment[b].kind, request[r].found) /\ b \in RowsOf(attachment[b].kind)
        BY <2>3, <3>1 DEF RowsOf
      <4>2. PICK x \in request[r].found : x.kind = attachment[b].kind /\ x.row = b
        BY <4>1 DEF Knows
      <4>3. attachment[b] = [kind |-> x.kind, file |-> x.file]
        BY <4>1, <4>2 DEF Knows
      <4>4. x.file = h
        BY <2>5, <4>3
      <4> QED
        BY <2>3, <4>2, <4>4
    <3> QED
      BY <1>4, <3>1, <3>2
  <2> QED
    BY <1>4, <2>1, <2>2, <2>4, <2>5
<1>12. Basis'
  BY InvParts, CommitDeleteBasis
<1> QED
  BY <1>5, <1>6, <1>7, <1>8, <1>9, <1>10, <1>11, <1>12 DEF EnrolmentInv, Basis

-----------------------------------------------------------------------------
(* EnrolmentDocuments: the theorems *)

LEMMA EnrolmentInitInv == EnrolmentInit => EnrolmentInv
<1> SUFFICES ASSUME EnrolmentInit PROVE EnrolmentInv
  OBVIOUS
<1>1. Basis
  BY InitBasis
<1>2. /\ attachment = [a \in Rows |-> NoRow] /\ stored = [f \in Files |-> "none"]
      /\ worker = Waiting /\ request = [r \in Requests |-> Idle]
  BY DEF EnrolmentInit
<1>3. Attached = {} /\ Stored = {}
  BY <1>2 DEF Attached, Stored
<1>4. \A w \in People : Actor(w).files = {} /\ Actor(w).found = {}
  BY <1>2, EmptyHands, WorkerAlone
<1>5. OneDocument
  BY <1>3 DEF OneDocument, EnrollmentDetails, Read
<1>6. FilesApart /\ MissingIsReplaced /\ NothingIsLeft
  BY <1>3 DEF FilesApart, MissingIsReplaced, NothingIsLeft
<1>7. \A w \in People : Owns(w) /\ Remembers(w)
  BY <1>4 DEF Owns, Remembers
<1>8. \A r \in Requests : RequestKnows(r)
  BY <1>2, EmptyHands DEF RequestKnows
<1>9. WorkerKnows
  BY <1>2, EmptyHands DEF WorkerKnows
<1> QED
  BY <1>1, <1>5, <1>6, <1>7, <1>8, <1>9 DEF EnrolmentInv, Basis

LEMMA EnrolmentNextInv ==
  ASSUME EnrolmentInv, EnrolmentNext
  PROVE  EnrolmentInv'
<1>1. CASE StudentStep
  BY <1>1, FillStep, ReadSignStep, SignStep, PaymentStep DEF StudentStep
<1>2. CASE View
  BY <1>2, ViewStep
<1>3. CASE WorkerStep
  BY <1>3, RenderStep, SaveStep, WriteStep, CleanStep, JobThrowsStep DEF WorkerStep
<1>4. ASSUME NEW r \in Requests, StaffStep(r)
      PROVE  EnrolmentInv'
  <2>1. CASE ReadMake(r) \/ \E free \in BOOLEAN : CommitMake(r, free)
    BY <2>1, ReadMakeStep, CommitMakeStep
  <2>2. CASE \E K \in SUBSET Kinds, s \in EditSteps \cup {"NONE"} : ReadEdit(r, K, s)
    BY <2>2, ReadEditStep
  <2>3. CASE Replace(r) \/ Upsert(r) \/ CommitEdit(r)
    BY <2>3, ReplaceStep, UpsertStep, CommitEditStep
  <2>4. CASE ReadDelete(r) \/ DeleteFiles(r) \/ CommitDelete(r)
    BY <2>4, ReadDeleteStep, DeleteFilesStep, CommitDeleteStep
  <2>5. CASE RequestThrows(r)
    BY <2>5, RequestThrowsStep
  <2> QED
    BY <1>4, <2>1, <2>2, <2>3, <2>4, <2>5 DEF StaffStep
<1>5. CASE Fault
  BY <1>5, JobFailsStep, RequestFailsStep DEF Fault
<1> QED
  BY <1>1, <1>2, <1>3, <1>4, <1>5 DEF EnrolmentNext

LEMMA EnrolmentStutter ==
  ASSUME EnrolmentInv, UNCHANGED enrolmentVars
  PROVE  EnrolmentInv'
<1>1. UNCHANGED <<attachment, stored, worker, request, raced, cut>>
  BY DEF enrolmentVars
<1>2. Basis'
  <2>1. /\ UNCHANGED <<step, signed, attachment, stored, queue, worker, request, faults, edits>>
        /\ UNCHANGED <<completed, late, moved, raced, cut>>
    BY DEF enrolmentVars
  <2>2. /\ EnrolmentTypeOK' /\ QueueFits' /\ NothingBefore' /\ WorkerIsSound'
    BY <2>1, InvParts DEF Basis, Sound, EnrolmentTypeOK, QueueFits, NothingBefore,
       WorkerIsSound, Exists, Attached
  <2>3. /\ \A a \in Attached' : attachment'[a].file \in Files
        /\ \A r \in Requests : RequestIsSound(r)'
    BY <2>1, InvParts, RowsKept DEF RequestIsSound
  <2>4. CompletedStays' /\ SignIsLate'
    BY <2>1, InvParts DEF Basis, CompletedStays, SignIsLate, CurrentStep, Exists
  <2> QED
    BY <2>2, <2>3, <2>4 DEF Basis, Sound
<1> QED
  BY <1>1, <1>2, Undisturbed

\* The invariant holds: what every request and the worker know of the documents
\* they read before they write (courses.service.ts, document.processor.ts).
THEOREM EnrolmentInvariance == EnrolmentSpec => []EnrolmentInv
<1>1. EnrolmentInv /\ [EnrolmentNext]_enrolmentVars => EnrolmentInv'
  BY EnrolmentNextInv, EnrolmentStutter
<1> QED
  BY <1>1, EnrolmentInitInv, PTL DEF EnrolmentSpec

\* The step, the documents, the files and the queue have their types, and no
\* attachment is there without its enrollment (onDelete: Cascade).
THEOREM EnrolmentTypeCorrectness == EnrolmentSpec => []EnrolmentTypeOK
<1>1. EnrolmentInv => EnrolmentTypeOK
  BY InvParts
<1> QED
  BY <1>1, EnrolmentInvariance, PTL

\* A student who has paid is not asked to sign or to pay again, unless the staff
\* sets another step or a signature read before the payment is written after it
\* (enrollUser, getCurrentStep).
THEOREM CompletedHolds == EnrolmentSpec => []CompletedStays
<1>1. EnrolmentInv => CompletedStays
  BY DEF EnrolmentInv
<1> QED
  BY <1>1, EnrolmentInvariance, PTL

\* There is one attachment of each document that no two worked on at a time,
\* however often it is ordered (DocumentProcessor.process, updateEnrollment).
THEOREM OneDocumentHolds == EnrolmentSpec => []OneDocument
<1>1. EnrolmentInv => OneDocument
  BY DEF EnrolmentInv
<1> QED
  BY <1>1, EnrolmentInvariance, PTL

\* The files in storage are those of the attachments, but for documents that two
\* worked on or one left half done, also after the enrollment is deleted.
THEOREM FilesMatch == EnrolmentSpec => []FilesMatchAttachments
<1>1. ASSUME EnrolmentInv
      PROVE  FilesMatchAttachments
  <2>1. \A a \in Attached :
          \/ attachment[a].file \in Stored
          \/ attachment[a].kind \in cut
          \/ \E r \in Requests :
               \/ request[r].pc = "save" /\ request[r].kind = attachment[a].kind
               \/ request[r].pc = "delete"
    BY <1>1, InvParts DEF MissingIsReplaced
  <2>2. ASSUME NEW f \in Stored \ Held
        PROVE  \/ \E a \in Attached : attachment[a].file = f
               \/ stored[f] \in raced \cup cut
    <3>1. \A w \in People : ~Has(w, f)
      BY <2>2, HeldHas
    <3> QED
      BY <1>1, <2>2, <3>1, InvParts, LeftByHas
  <2> QED
    BY <2>1, <2>2 DEF FilesMatchAttachments
<1> QED
  BY <1>1, EnrolmentInvariance, PTL
=============================================================================
