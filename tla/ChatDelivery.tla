---------------------------- MODULE ChatDelivery ----------------------------
(***************************************************************************)
(* Presence and receipts of one conversation: the socket handlers of       *)
(* chat/realtime/realtime.gateway.ts and the receipts written by           *)
(* common/repository/chat/chat.repository.ts.                              *)
(*                                                                         *)
(* A handler of a connection goes on while its socket is already closed.   *)
(* A message is numbered when its transaction begins, which is what        *)
(* created_at orders by, and is seen when it commits.  What is emitted to  *)
(* sockets, last_active_at and the payload of messages are left out; the   *)
(* members are fixed and nobody is blocked.                                *)
(***************************************************************************)
EXTENDS Integers, FiniteSets

CONSTANTS
  Members,        \* the members of the conversation
  Sockets,      \* connections there may be at a time
  Sends,        \* messages that may be sent at the same time
  MaxMessages,  \* bound: messages of the conversation
  Nobody          \* a null reference

ASSUME ChatAssumption ==
  /\ IsFiniteSet(Members)
  /\ MaxMessages \in Nat
  /\ Nobody \notin Members

VARIABLES
  online,    \* the gateway's onlineUsers: the sockets of each user
  present,   \* ChatRepository.onlineUsers
  open,      \* sockets that are connected
  handler,   \* of each socket: what handleConnection has come to
  send,      \* the messages being sent
  begun,     \* how many messages have been numbered, by created_at
  sender,    \* of each message, once committed
  receipt,   \* the receipts table: the status of each message for each user
  lastRead,  \* last_read_at of each membership, as the number of a message
  missed,    \* history: SENT receipts no handler will find until the user comes again
  behind     \* history: receipts left unread behind the read mark until the next reading

chatVars ==
  <<online, present, open, handler, send, begun, sender, receipt, lastRead, missed, behind>>

-----------------------------------------------------------------------------
(* Rows and handlers *)

Messages == 1..MaxMessages

ReceiptStatus == {"SENT", "DELIVERED", "READ"}

Handler ==
  [pc    : {"idle", "checking", "active", "finding", "delivering"},
   user  : Members \cup {Nobody},
   found : SUBSET Messages]

Quiet == [pc |-> "idle", user |-> Nobody, found |-> {}]

SendRow ==
  [pc      : {"idle", "created", "listed"},
   message : 0..MaxMessages,
   by      : Members \cup {Nobody},
   online  : SUBSET Members]

NotSending == [pc |-> "idle", message |-> 0, by |-> Nobody, online |-> {}]

Committed == {m \in Messages : sender[m] # Nobody}

Sent(u) == {m \in Messages : receipt[m][u] = "SENT"}

\* The handler of s will set message m of user u to DELIVERED.
Awaits(s, u, m) ==
  /\ handler[s].user = u
  /\ \/ handler[s].pc \in {"active", "finding"}
     \/ handler[s].pc = "delivering" /\ m \in handler[s].found

\* A handler that is done still knows whose socket it served.
Finished(s) == [Quiet EXCEPT !.user = handler[s].user]

Delivering(s, found) == [pc |-> "delivering", user |-> handler[s].user, found |-> found]

Continue(s, pc) == handler' = [handler EXCEPT ![s].pc = pc]

books == <<begun, sender, receipt, lastRead>>

-----------------------------------------------------------------------------
(* Connections *)

\* The handshake of a new socket; userExists has been asked.
Connect(s, u) ==
  /\ s \notin open
  /\ handler[s].pc = "idle"
  /\ \A v \in Members : s \notin online[v]
  /\ open' = open \cup {s}
  /\ handler' = [handler EXCEPT ![s] = [pc |-> "checking", user |-> u, found |-> {}]]
  /\ UNCHANGED <<online, present, send, books, missed, behind>>

\* addUserSocket: the first socket of a user makes him present.  The socket may
\* have been closed in the meantime.
Admit(s) ==
  LET u == handler[s].user
  IN  /\ handler[s].pc = "checking"
      /\ online' = [online EXCEPT ![u] = @ \cup {s}]
      /\ IF online[u] = {}
         THEN /\ present' = present \cup {u}
              /\ missed' = missed \ (Messages \X {u})
              /\ Continue(s, "active")
         ELSE /\ UNCHANGED <<present, missed>>
              /\ handler' = [handler EXCEPT ![s] = Finished(s)]
      /\ UNCHANGED <<open, send, books, behind>>

\* updateLastActive has returned.
Activate(s) ==
  /\ handler[s].pc = "active"
  /\ Continue(s, "finding")
  /\ UNCHANGED <<online, present, open, send, books, missed, behind>>

\* markMessagesAsDelivered: find what is SENT, then update it by id.
Find(s) ==
  LET found == Sent(handler[s].user)
  IN  /\ handler[s].pc = "finding"
      /\ handler' = [handler EXCEPT ![s] =
           IF found = {} THEN Finished(s) ELSE Delivering(s, found)]
      /\ UNCHANGED <<online, present, open, send, books, missed, behind>>

\* Mutant of Deliver: the sender is told, the receipts are not updated.
DeliverByEventOnly(s) ==
  /\ handler[s].pc = "delivering"
  /\ handler' = [handler EXCEPT ![s] = Finished(s)]
  /\ UNCHANGED <<online, present, open, send, books, missed, behind>>

Deliver(s) ==
  LET u == handler[s].user
      found == handler[s].found
  IN  /\ handler[s].pc = "delivering"
      /\ receipt' = [m \in Messages |->
           IF m \in found THEN [receipt[m] EXCEPT ![u] = "DELIVERED"] ELSE receipt[m]]
      /\ behind' = behind \cup {<<m, u>> : m \in {n \in found : receipt[n][u] = "READ"}}
      /\ handler' = [handler EXCEPT ![s] = Finished(s)]
      /\ UNCHANGED <<online, present, open, send, begun, sender, lastRead, missed>>

\* Mutant of Removed: each closed socket takes the user away.
RemovedAtOnce(s) ==
  LET u == handler[s].user
  IN  /\ online' = [online EXCEPT ![u] = @ \ {s}]
      /\ present' = present \ {u}

\* removeUserSocket: without a socket left the user is away.
Removed(s) ==
  LET u == handler[s].user
      left == online[u] \ {s}
  IN  /\ online' = [online EXCEPT ![u] = left]
      /\ present' = IF left = {} THEN present \ {u} ELSE present

\* A socket that was not admitted yet has no user to take away.
Disconnect(s) ==
  /\ s \in open
  /\ open' = open \ {s}
  /\ IF handler[s].pc = "checking"
     THEN UNCHANGED <<online, present>>
     ELSE Removed(s)
  /\ UNCHANGED <<handler, send, books, missed, behind>>

\* A query of the handler throws: the socket is disconnected, if it still is
\* connected, and what only this handler would have delivered is missed.
ConnectionFails(s) ==
  LET u == handler[s].user
  IN  /\ handler[s].pc # "idle"
      /\ open' = open \ {s}
      /\ IF handler[s].pc = "checking" \/ s \notin open
         THEN UNCHANGED <<online, present>>
         ELSE Removed(s)
      /\ missed' = missed \cup
           {<<m, u>> : m \in {n \in Sent(u) :
              Awaits(s, u, n) /\ \A t \in Sockets \ {s} : ~Awaits(t, u, n)}}
      /\ handler' = [handler EXCEPT ![s] = Finished(s)]
      /\ UNCHANGED <<send, books, behind>>

-----------------------------------------------------------------------------
(* Messages *)

\* The transaction creates the message.
BeginSend(r, u) ==
  /\ send[r].pc = "idle"
  /\ begun < MaxMessages
  /\ begun' = begun + 1
  /\ send' = [send EXCEPT ![r] =
       [pc |-> "created", message |-> begun + 1, by |-> u, online |-> {}]]
  /\ UNCHANGED <<online, present, open, handler, sender, receipt, lastRead, missed, behind>>

\* The members are listed and looked up among those present.
ListMembers(r) ==
  /\ send[r].pc = "created"
  /\ send' = [send EXCEPT ![r] =
       [pc |-> "listed", message |-> @.message, by |-> @.by, online |-> present]]
  /\ UNCHANGED <<online, present, open, handler, books, missed, behind>>

\* Who gets a receipt for a message of u.
Receivers(u) == Members \ {u}

\* It commits: the receipts say what was true when the members were listed.
CommitSend(r) ==
  LET q == send[r]
      others == Receivers(q.by)
  IN  /\ q.pc = "listed"
      /\ sender' = [sender EXCEPT ![q.message] = q.by]
      /\ receipt' = [receipt EXCEPT ![q.message] =
           [u \in Members |-> IF u \notin others THEN "NONE"
                            ELSE IF u \in q.online THEN "DELIVERED" ELSE "SENT"]]
      /\ missed' = missed \cup
           {<<q.message, u>> : u \in {v \in (others \cap present) \ q.online :
              \A s \in Sockets : ~Awaits(s, v, q.message)}}
      /\ behind' = behind \cup {<<q.message, u>> : u \in {v \in others : q.message <= lastRead[v]}}
      /\ send' = [send EXCEPT ![r] = NotSending]
      /\ UNCHANGED <<online, present, open, handler, begun, lastRead>>

AbortSend(r) ==
  /\ send[r].pc # "idle"
  /\ send' = [send EXCEPT ![r] = NotSending]
  /\ UNCHANGED <<online, present, open, handler, books, missed, behind>>

\* Mutant of UpTo: the message itself is left out.
UpToBefore(m) == 1..(m - 1)

\* What is read with message m.
UpTo(m) == 1..m

\* The receipts of u for the messages in ms that are not READ become READ.
Read(u, ms) ==
  /\ receipt' = [n \in Messages |->
       IF n \in ms /\ receipt[n][u] \in {"SENT", "DELIVERED"}
       THEN [receipt[n] EXCEPT ![u] = "READ"] ELSE receipt[n]]
  /\ behind' = behind \ (ms \X {u})

\* markAsRead, by request or by the event message:read: the mark only advances.
\* What another handler writes between the two updates, the second overwrites.
MarkAsRead(u, m) ==
  /\ m \in Committed
  /\ lastRead' = [lastRead EXCEPT ![u] = IF @ < m THEN m ELSE @]
  /\ Read(u, UpTo(m))
  /\ UNCHANGED <<online, present, open, handler, send, begun, sender, missed>>

\* clearForMe: the mark becomes the time at which the request was started, n
\* messages having been numbered by then, and everything is read.
ClearForMe(u, n) ==
  /\ n <= begun
  /\ lastRead' = [lastRead EXCEPT ![u] = n]
  /\ Read(u, Messages)
  /\ UNCHANGED <<online, present, open, handler, send, begun, sender, missed>>

-----------------------------------------------------------------------------
(* The specification *)

\* The server restarts: its sets, sockets and handlers are gone.
Restart ==
  /\ online' = [u \in Members |-> {}]
  /\ present' = {}
  /\ open' = {}
  /\ handler' = [s \in Sockets |-> Quiet]
  /\ send' = [r \in Sends |-> NotSending]
  /\ UNCHANGED <<books, missed, behind>>

ChatInit ==
  /\ online = [u \in Members |-> {}]
  /\ present = {}
  /\ open = {}
  /\ handler = [s \in Sockets |-> Quiet]
  /\ send = [r \in Sends |-> NotSending]
  /\ begun = 0
  /\ sender = [m \in Messages |-> Nobody]
  /\ receipt = [m \in Messages |-> [u \in Members |-> "NONE"]]
  /\ lastRead = [u \in Members |-> 0]
  /\ missed = {}
  /\ behind = {}

Handle(s) == Admit(s) \/ Activate(s) \/ Find(s) \/ Deliver(s)

ChatNext ==
  \/ \E s \in Sockets :
       Handle(s) \/ Disconnect(s) \/ ConnectionFails(s) \/ \E u \in Members : Connect(s, u)
  \/ \E r \in Sends :
       ListMembers(r) \/ CommitSend(r) \/ AbortSend(r) \/ \E u \in Members : BeginSend(r, u)
  \/ \E u \in Members, m \in Messages : MarkAsRead(u, m)
  \/ \E u \in Members, n \in 0..MaxMessages : ClearForMe(u, n)
  \/ Restart

ChatSpec == ChatInit /\ [][ChatNext]_chatVars

\* A handler that has not failed goes on.
FairChatSpec == ChatSpec /\ \A s \in Sockets : WF_chatVars(Handle(s))

-----------------------------------------------------------------------------
(* Properties *)

\* Every row and handler has its shape; there is a receipt for a message exactly
\* for the other members.
ChatTypeOK ==
  /\ online \in [Members -> SUBSET Sockets]
  /\ present \in SUBSET Members
  /\ open \in SUBSET Sockets
  /\ handler \in [Sockets -> Handler]
  /\ send \in [Sends -> SendRow]
  /\ begun \in 0..MaxMessages
  /\ sender \in [Messages -> Members \cup {Nobody}]
  /\ receipt \in [Messages -> [Members -> ReceiptStatus \cup {"NONE"}]]
  /\ \A m \in Messages, u \in Members :
       receipt[m][u] # "NONE" <=> m \in Committed /\ sender[m] # u
  /\ lastRead \in [Members -> 0..MaxMessages]
  /\ missed \in SUBSET (Messages \X Members)
  /\ behind \in SUBSET (Messages \X Members)

\* Who has an open connection that was admitted is known to be present, by the
\* gateway and by the code that writes receipts, however his other connections
\* come and go; and the two never disagree about anybody.
PresenceFollowsSockets ==
  /\ present = {u \in Members : online[u] # {}}
  /\ \A s \in open : handler[s].pc # "checking" => s \in online[handler[s].user]

\* What is SENT to a user who is present is about to be delivered by one of his
\* connections, unless, since he came, the message was committed after the last
\* look for it or the delivery failed.
UndeliveredIsAwaited ==
  \A m \in Messages, u \in present :
    receipt[m][u] = "SENT" /\ <<m, u>> \notin missed => \E s \in Sockets : Awaits(s, u, m)

\* Up to last_read_at everything is READ, unless, since the last reading, it was
\* committed behind the mark or a delivery under way has taken it back.
ReadMarkIsTrue ==
  \A m \in Messages, u \in Members :
    m <= lastRead[u] /\ receipt[m][u] \in {"SENT", "DELIVERED"} => <<m, u>> \in behind

\* What a handler has found are receipts of its user.
HandlersKnowTheirUser ==
  \A s \in Sockets :
    /\ s \in open \/ handler[s].pc # "idle" => handler[s].user \in Members
    /\ handler[s].pc = "delivering" =>
         \A m \in handler[s].found : receipt[m][handler[s].user] # "NONE"

\* Messages being sent are numbered, differ and are not seen yet.
SendsAreNumbered ==
  /\ \A r \in Sends : send[r].pc # "idle" =>
       /\ send[r].message \in 1..begun
       /\ send[r].by \in Members
       /\ sender[send[r].message] = Nobody
       /\ \A t \in Sends \ {r} : send[t].pc # "idle" => send[t].message # send[r].message
  /\ \A m \in Messages : m > begun => sender[m] = Nobody

\* The inductive invariant: the properties, with what a handler and a message
\* being sent may rely on between two awaits.
ChatInv ==
  /\ ChatTypeOK
  /\ HandlersKnowTheirUser
  /\ SendsAreNumbered
  /\ PresenceFollowsSockets
  /\ UndeliveredIsAwaited
  /\ ReadMarkIsTrue

\* What waits for a user is delivered once he is there, or he leaves before.
WaitingIsDelivered ==
  \A m \in Messages, u \in Members :
    receipt[m][u] = "SENT" /\ u \in present
      ~> receipt[m][u] # "SENT" \/ u \notin present \/ <<m, u>> \in missed
=============================================================================
