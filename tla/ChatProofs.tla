----------------------------- MODULE ChatProofs -----------------------------
(***************************************************************************)
(* Theorems about the two halves of the chat that share its gateway: Calls *)
(* and ChatDelivery.  Each is a specification of its own, with variables   *)
(* of its own, and no theorem is about both.  They hold for every number   *)
(* of members, requests, calls, participant rows, connections and          *)
(* messages.                                                               *)
(***************************************************************************)
EXTENDS Calls, ChatDelivery, FiniteSetTheorems, TLAPS

-----------------------------------------------------------------------------
(* Counting participants *)

\* A count above one has counted two different rows.
LEMMA MoreThanOne ==
  ASSUME NEW S, ~(Cardinality(S) <= 1)
  PROVE  \E p, q \in S : p # q
<1> SUFFICES ASSUME \A p, q \in S : p = q PROVE FALSE
  OBVIOUS
<1>1. CASE S = {}
  BY <1>1, FS_EmptySet
<1>2. CASE S # {}
  <2>1. PICK p \in S : TRUE
    BY <1>2
  <2>2. S = {p}
    BY <2>1
  <2>3. Cardinality({p}) = 1
    BY FS_Singleton
  <2> QED BY <2>2, <2>3
<1> QED BY <1>1, <1>2

-----------------------------------------------------------------------------
(* The inductive invariant *)

\* It holds in a conversation without calls.
LEMMA InitIInv == Init => IInv
<1> SUFFICES ASSUME Init PROVE IInv
  OBVIOUS
<1> USE DEF Init, Idle
<1>1. TypeOK
  BY CallsAssumption DEF TypeOK, CallRow, MessageStatus, Request, Verdicts, Calls, Participants
<1>2. \A r \in Requests : KnowsItsCall(r) /\ HasDoneItsPart(r)
  BY DEF KnowsItsCall, HasDoneItsPart
<1>3. OnlyStartedCalls /\ EmptyCallIsBeingEnded /\ CardMatchesParticipants
  BY DEF OnlyStartedCalls, EmptyCallIsBeingEnded, CardMatchesParticipants, Of
<1> QED BY <1>1, <1>2, <1>3 DEF IInv

-----------------------------------------------------------------------------
(* Steps of one request *)

\* One request moves and the others stay where they are.
Moves(r) ==
  /\ request' \in [Requests -> Request]
  /\ \A t \in Requests \ {r} : request'[t] = request[t]

\* A request that goes on keeps what it knows.
LEMMA GotoMoves ==
  ASSUME TypeOK, NEW r \in Requests, NEW pc,
         pc \in {"announce", "insert", "remaining", "finish", "count"},
         Goto(r, pc)
  PROVE  /\ Moves(r)
         /\ request'[r].pc = pc
         /\ request'[r].user = request[r].user
         /\ request'[r].call = request[r].call
         /\ request'[r].fresh = request[r].fresh
         /\ request'[r].row = request[r].row
         /\ request'[r].reason = request[r].reason
         /\ request'[r].verdict = request[r].verdict
BY DEF TypeOK, Request, Goto, Moves

\* A request that is done leaves nothing behind.
LEMMA DoneMoves ==
  ASSUME TypeOK, NEW r \in Requests, Done(r)
  PROVE  Moves(r) /\ request'[r] = Idle
<1>1. Idle \in Request
  BY CallsAssumption DEF Idle, Request, Verdicts
<1> QED BY <1>1 DEF TypeOK, Done, Moves

\* The others may rely on what they relied on, as books only grow, the caller of
\* a call that was started stays its caller, and a call once over stays over.
LEMMA OthersStay ==
  ASSUME IInv, NEW r \in Requests, Moves(r),
         rows \subseteq rows',
         \A c \in Calls : call[c].status # "NONE" =>
           /\ call'[c].status # "NONE"
           /\ call'[c].by = call[c].by
           /\ call[c].status = "ENDED" => call'[c].status = "ENDED",
         KnowsItsCall(r)', HasDoneItsPart(r)'
  PROVE  \A s \in Requests : KnowsItsCall(s)' /\ HasDoneItsPart(s)'
<1> SUFFICES ASSUME NEW s \in Requests, s # r
             PROVE  KnowsItsCall(s)' /\ HasDoneItsPart(s)'
  OBVIOUS
<1>1. request'[s] = request[s]
  BY DEF Moves
<1>2. KnowsItsCall(s) /\ HasDoneItsPart(s) /\ request[s] \in Request
  BY DEF IInv, TypeOK
<1>3. KnowsItsCall(s)'
  BY <1>1, <1>2 DEF KnowsItsCall, Mine, OfUser
<1>4. HasDoneItsPart(s)'
  BY <1>1, <1>2 DEF KnowsItsCall, HasDoneItsPart, Of, OfUser, Request
<1> QED BY <1>3, <1>4

\* Calls that are being ended still are, if the request that moves does not let
\* go of a call it has to end.
LEMMA EndingStays ==
  ASSUME TypeOK, NEW r \in Requests, Moves(r), NEW c \in Calls, Ending(c),
         \/ request[r].pc \notin {"remaining", "finish"}
         \/ request[r].call # c
         \/ request'[r].pc \in {"remaining", "finish"} /\ request'[r].call = c
  PROVE  Ending(c)'
BY DEF Moves, Ending

\* A step that only moves one request, which keeps ending the call it is ending.
LEMMA RequestStep ==
  ASSUME IInv, NEW r \in Requests, Moves(r),
         UNCHANGED <<direct, call, rows, inCall, message, dropped>>,
         KnowsItsCall(r)', HasDoneItsPart(r)',
         \/ request[r].pc \notin {"remaining", "finish"}
         \/ request'[r].pc \in {"remaining", "finish"} /\ request'[r].call = request[r].call
         \/ Of(inCall, request[r].call) # {}
  PROVE  IInv'
<1>1. TypeOK'
  BY DEF IInv, TypeOK, Moves
<1>2. \A s \in Requests : KnowsItsCall(s)' /\ HasDoneItsPart(s)'
  BY OthersStay DEF IInv
<1>3. OnlyStartedCalls' /\ CardMatchesParticipants'
  BY DEF IInv, OnlyStartedCalls, CardMatchesParticipants
<1>4. EmptyCallIsBeingEnded'
  <2> SUFFICES ASSUME NEW c \in Calls \ dropped, call[c].status = "ONGOING",
                      Of(rows, c) # {}, Of(inCall, c) = {}
               PROVE  Ending(c)'
    BY DEF EmptyCallIsBeingEnded
  <2>1. Ending(c)
    BY DEF IInv, EmptyCallIsBeingEnded
  <2> QED BY <2>1, EndingStays DEF IInv
<1> QED BY <1>1, <1>2, <1>3, <1>4 DEF IInv

\* A request arrives: it starts, joins, declines, ends or leaves a call.
LEMMA ArriveStep == ASSUME IInv, Arrive PROVE IInv'
<1>1. PICK r \in Requests, u \in Users :
        StartCall(r, u) \/ JoinCall(r, u) \/ DeclineCall(r, u) \/ EndCall(r, u) \/ LeaveCall(r, u)
  BY DEF Arrive
<1>2. PICK c, pc, fresh, reason :
        /\ Enter(r, u, c, pc, fresh, reason)
        /\ fresh \in BOOLEAN /\ reason \in {"ended", "declined", "empty_room"}
        /\ \/ c = 0 /\ pc = "create"
           \/ /\ c \in Active
              /\ (pc = "findActive" /\ ~fresh) \/ pc \in {"finish", "findMine"}
  BY <1>1 DEF StartCall, JoinCall, DeclineCall, EndCall, LeaveCall
<1> DEFINE q == [pc |-> pc, user |-> u, call |-> c, fresh |-> fresh, row |-> None,
                 reason |-> reason, verdict |-> "MISSED"]
<1>3. \A d \in Active : d \in Calls /\ call[d].status # "NONE"
  BY DEF Active, Ongoing
<1>4. c \in 0..MaxCalls
  BY <1>2, <1>3, CallsAssumption DEF Calls
<1>5. q \in Request
  BY <1>2, <1>4 DEF Request, Verdicts
<1>6. /\ request' = [request EXCEPT ![r] = q]
      /\ UNCHANGED <<direct, call, rows, inCall, message, dropped>>
      /\ request[r].pc = "idle"
  BY <1>2 DEF Enter, At
<1>7. Moves(r) /\ request'[r] = q
  BY <1>5, <1>6 DEF IInv, TypeOK, Moves
<1>8. q.pc = pc /\ q.user = u /\ q.call = c /\ q.fresh = fresh
  OBVIOUS
<1> HIDE DEF q
<1>9. KnowsItsCall(r)' /\ HasDoneItsPart(r)'
  BY <1>2, <1>3, <1>6, <1>7, <1>8 DEF KnowsItsCall, HasDoneItsPart
<1> QED BY <1>6, <1>7, <1>9, RequestStep

\* Who has a row in the call is done joining it, or goes on to announce it.
LEMMA JoinedMoves ==
  ASSUME IInv, NEW r \in Requests, Joined(r),
         request[r].pc \in {"findActive", "rejoin", "insert"},
         OfUser(rows', request[r].call, request[r].user) # {},
         call' = call
  PROVE  Moves(r) /\ KnowsItsCall(r)' /\ HasDoneItsPart(r)'
<1>1. KnowsItsCall(r) /\ HasDoneItsPart(r) /\ TypeOK
  BY DEF IInv
<1>2. CASE request[r].fresh
  <2>1. Goto(r, "announce")
    BY <1>2 DEF Joined
  <2> QED BY <1>1, <1>2, <2>1, GotoMoves DEF KnowsItsCall, HasDoneItsPart
<1>3. CASE ~request[r].fresh
  <2>1. Done(r)
    BY <1>3 DEF Joined
  <2> QED BY <1>1, <2>1, DoneMoves DEF KnowsItsCall, HasDoneItsPart, Idle
<1> QED BY <1>2, <1>3

\* A request that finds what it looks for, and one that does not.
LEMMA ReadStep ==
  ASSUME IInv, NEW r \in Requests, FindActive(r) \/ FindPrevious(r) \/ FindMine(r)
  PROVE  IInv'
<1>1. KnowsItsCall(r) /\ HasDoneItsPart(r) /\ TypeOK
  BY DEF IInv
<1>2. /\ UNCHANGED <<direct, call, rows, inCall, message, dropped>>
      /\ request[r].pc \in {"findActive", "findPrevious", "findMine"}
  BY DEF FindActive, FindPrevious, FindMine, At
<1>3. Moves(r) /\ KnowsItsCall(r)' /\ HasDoneItsPart(r)'
  <2>1. CASE Joined(r) /\ FindActive(r) /\ Mine(r, inCall) # {}
    <3>1. OfUser(rows', request[r].call, request[r].user) # {}
      BY <1>1, <1>2, <2>1 DEF TypeOK, Mine, OfUser
    <3>2. request[r].pc = "findActive"
      BY <2>1 DEF FindActive, At
    <3> QED BY <1>2, <2>1, <3>1, <3>2, JoinedMoves
  <2>2. CASE request' = [request EXCEPT ![r].pc = "findPrevious"] /\ FindActive(r)
    <3>1. /\ Moves(r)
          /\ request'[r].pc = "findPrevious" /\ request'[r].user = request[r].user
          /\ request'[r].call = request[r].call /\ request'[r].fresh = request[r].fresh
      BY <1>1, <2>2 DEF TypeOK, Moves, Request
    <3> QED BY <1>1, <1>2, <2>2, <3>1 DEF KnowsItsCall, HasDoneItsPart, FindActive, At
  <2>3. CASE Goto(r, "insert") /\ FindPrevious(r)
    BY <1>1, <1>2, <2>3, GotoMoves DEF KnowsItsCall, HasDoneItsPart, FindPrevious, At
  <2>4. CASE Done(r)
    BY <1>1, <2>4, DoneMoves DEF KnowsItsCall, HasDoneItsPart, Idle
  <2>5. ASSUME NEW pc \in {"rejoin", "leave"}, NEW p \in Mine(r, rows),
               request' = [request EXCEPT ![r].pc = pc, ![r].row = p],
               pc = "rejoin" => request[r].pc = "findPrevious",
               pc = "leave" => request[r].pc = "findMine"
        PROVE  Moves(r) /\ KnowsItsCall(r)' /\ HasDoneItsPart(r)'
    <3>1. p \in Participants
      BY <1>1 DEF TypeOK, Mine, OfUser
    <3> DEFINE q == [request[r] EXCEPT !.pc = pc, !.row = p]
    <3>2. request' = [request EXCEPT ![r] = q]
      BY <2>5
    <3>3. /\ q \in Request
          /\ q.pc = pc /\ q.row = p /\ q.user = request[r].user
          /\ q.call = request[r].call /\ q.fresh = request[r].fresh
      <4>1. request[r] \in Request
        BY <1>1 DEF TypeOK
      <4> QED BY <2>5, <3>1, <4>1 DEF Request
    <3> HIDE DEF q
    <3>4. Moves(r) /\ request'[r] = q
      BY <1>1, <3>2, <3>3 DEF TypeOK, Moves
    <3> QED BY <1>1, <1>2, <2>5, <3>3, <3>4 DEF KnowsItsCall, HasDoneItsPart, Mine
  <2>6. Mine(r, inCall) \subseteq Mine(r, rows)
    BY <1>1 DEF TypeOK, Mine, OfUser
  <2> QED BY <2>1, <2>2, <2>3, <2>4, <2>5, <2>6
          DEF FindActive, FindPrevious, FindMine, Goto, At
<1> QED BY <1>2, <1>3, RequestStep

\* The session is created for a call that nobody knows of yet.
LEMMA CreateStep == ASSUME IInv, NEW r \in Requests, CreateSession(r) PROVE IInv'
<1>1. PICK c \in Unused :
        /\ request[r].pc = "create"
        /\ call' = [call EXCEPT ![c] = [status |-> "ONGOING", by |-> request[r].user]]
        /\ request' = [request EXCEPT ![r].call = c, ![r].pc = "findActive"]
        /\ UNCHANGED <<direct, rows, inCall, message, dropped>>
  BY DEF CreateSession, At
<1>2. KnowsItsCall(r) /\ TypeOK /\ request[r] \in Request
  BY DEF IInv, TypeOK
<1>3. c \in Calls /\ call[c].status = "NONE" /\ Of(rows, c) = {} /\ message[c] = "NONE"
  BY DEF IInv, OnlyStartedCalls, Unused
<1>4. /\ Moves(r)
      /\ request'[r].pc = "findActive" /\ request'[r].call = c
      /\ request'[r].user = request[r].user
  BY <1>1, <1>2, <1>3, CallsAssumption DEF TypeOK, Moves, Request, Calls
<1>5. /\ call' \in [Calls -> CallRow]
      /\ call'[c] = [status |-> "ONGOING", by |-> request[r].user]
      /\ \A d \in Calls \ {c} : call'[d] = call[d]
  BY <1>1, <1>2, <1>3 DEF TypeOK, CallRow, Request
<1>6. TypeOK'
  BY <1>1, <1>2, <1>4, <1>5 DEF TypeOK, Moves
<1>7. KnowsItsCall(r)' /\ HasDoneItsPart(r)'
  BY <1>1, <1>2, <1>3, <1>4, <1>5 DEF KnowsItsCall, HasDoneItsPart
<1>8. \A s \in Requests : KnowsItsCall(s)' /\ HasDoneItsPart(s)'
  BY <1>1, <1>3, <1>4, <1>5, <1>7, OthersStay
<1>9. OnlyStartedCalls'
  BY <1>1, <1>5 DEF IInv, OnlyStartedCalls
<1>10. EmptyCallIsBeingEnded'
  <2> SUFFICES ASSUME NEW d \in Calls \ dropped, call'[d].status = "ONGOING",
                      Of(rows, d) # {}, Of(inCall, d) = {}
               PROVE  Ending(d)'
    BY <1>1 DEF EmptyCallIsBeingEnded
  <2>1. d # c /\ call[d].status = "ONGOING"
    BY <1>3, <1>5
  <2>2. Ending(d)
    BY <2>1 DEF IInv, EmptyCallIsBeingEnded
  <2> QED BY <1>1, <1>2, <1>4, <2>2, EndingStays
<1>11. CardMatchesParticipants'
  BY <1>1, <1>3, <1>5 DEF IInv, CardMatchesParticipants
<1> QED BY <1>6, <1>8, <1>9, <1>10, <1>11 DEF IInv

\* A participant comes back or comes in: the books of the call grow.
LEMMA JoinStep == ASSUME IInv, NEW r \in Requests, Rejoin(r) \/ Insert(r) PROVE IInv'
<1>1. KnowsItsCall(r) /\ TypeOK
  BY DEF IInv
<1>2. /\ UNCHANGED <<direct, call, message, dropped>>
      /\ request[r].pc \in {"rejoin", "insert"}
      /\ Joined(r)
  BY DEF Rejoin, Insert, At
<1>3. PICK p \in OfUser(Participants, request[r].call, request[r].user) :
        /\ rows' = rows \cup {p}
        /\ inCall' = inCall \cup {p}
  <2>1. CASE Rejoin(r)
    BY <1>1, <2>1 DEF Rejoin, At, KnowsItsCall, Mine, OfUser, TypeOK
  <2>2. CASE Insert(r)
    <3>1. PICK n \in 1..MaxRows :
            LET p == <<request[r].call, request[r].user, n>>
            IN  rows' = rows \cup {p} /\ inCall' = inCall \cup {p}
      BY <2>2 DEF Insert
    <3>2. request[r].call \in Calls /\ request[r].user \in Users
      BY <1>1, <1>2 DEF KnowsItsCall
    <3> QED BY <3>1, <3>2 DEF OfUser, Participants
  <2> QED BY <2>1, <2>2
<1>4. /\ p \in Participants /\ p \in rows' /\ p \in inCall'
      /\ p[1] = request[r].call /\ p[2] = request[r].user
      /\ request[r].call \in Calls /\ call[request[r].call].status # "NONE"
  BY <1>1, <1>2, <1>3 DEF OfUser, KnowsItsCall
<1>5. Moves(r) /\ KnowsItsCall(r)' /\ HasDoneItsPart(r)'
  <2>1. OfUser(rows', request[r].call, request[r].user) # {}
    BY <1>4 DEF OfUser
  <2> QED BY <1>2, <2>1, JoinedMoves
<1>6. TypeOK'
  BY <1>1, <1>2, <1>3, <1>4, <1>5 DEF TypeOK, Moves
<1>7. \A s \in Requests : KnowsItsCall(s)' /\ HasDoneItsPart(s)'
  BY <1>2, <1>3, <1>5, OthersStay
<1>8. OnlyStartedCalls'
  BY <1>2, <1>3, <1>4 DEF IInv, OnlyStartedCalls, Of
<1>9. EmptyCallIsBeingEnded'
  <2> SUFFICES ASSUME NEW c \in Calls \ dropped, call[c].status = "ONGOING",
                      Of(rows', c) # {}, Of(inCall', c) = {}
               PROVE  Ending(c)'
    BY <1>2 DEF EmptyCallIsBeingEnded
  <2>1. p[1] # c
    BY <1>4 DEF Of
  <2>2. Of(rows, c) # {} /\ Of(inCall, c) = {}
    BY <1>3, <2>1 DEF Of
  <2>3. Ending(c)
    BY <2>2 DEF IInv, EmptyCallIsBeingEnded
  <2> QED BY <1>1, <1>2, <1>5, <2>3, EndingStays
<1>10. CardMatchesParticipants'
  BY <1>2, <1>3 DEF IInv, CardMatchesParticipants, Of, OfUser
<1> QED BY <1>6, <1>7, <1>8, <1>9, <1>10 DEF IInv

\* The card of a call is written: it is announced, or finalized.
LEMMA CardStep == ASSUME IInv, NEW r \in Requests, Announce(r) \/ Finalize(r) PROVE IInv'
<1> DEFINE c == request[r].call
<1>1. KnowsItsCall(r) /\ HasDoneItsPart(r) /\ TypeOK
  BY DEF IInv
<1>2. /\ UNCHANGED <<direct, call, rows, inCall, dropped>>
      /\ request[r].pc \in {"announce", "finalize"}
      /\ c \in Calls /\ call[c].status # "NONE"
      /\ Done(r)
  BY <1>1 DEF Announce, Finalize, At, KnowsItsCall
<1>3. /\ Moves(r) /\ KnowsItsCall(r)' /\ HasDoneItsPart(r)'
  BY <1>1, <1>2, DoneMoves DEF KnowsItsCall, HasDoneItsPart, Idle
<1>4. /\ message' \in [Calls -> MessageStatus]
      /\ \A d \in Calls \ {c} : message'[d] = message[d]
      /\ message'[c] # "NONE" => OfUser(rows, c, call[c].by) # {}
      /\ message'[c] = "ENDED" => \E p, q \in Of(rows, c) : p # q
  <2>1. CASE Announce(r)
    <3>1. message' = [message EXCEPT ![c] = IF @ = "NONE" THEN "ONGOING" ELSE @]
      BY <2>1 DEF Announce
    <3>2. OfUser(rows, c, call[c].by) # {}
      BY <1>1, <2>1 DEF Announce, At, HasDoneItsPart
    <3>3. message'[c] = "ENDED" => message[c] = "ENDED"
      BY <1>1, <1>2, <3>1 DEF TypeOK
    <3> QED BY <1>1, <1>2, <3>1, <3>2, <3>3
            DEF IInv, CardMatchesParticipants, TypeOK, MessageStatus
  <2>2. CASE Finalize(r)
    <3>1. message' = [message EXCEPT ![c] = IF @ = "NONE" THEN @ ELSE request[r].verdict]
      BY <2>2 DEF Finalize
    <3>2. request[r].verdict \in Verdicts
      BY <1>1 DEF TypeOK, Request
    <3>3. message'[c] # "NONE" => message[c] # "NONE" /\ message'[c] = request[r].verdict
      BY <1>1, <1>2, <3>1 DEF TypeOK
    <3>4. request[r].verdict = "ENDED" => \E p, q \in Of(rows, c) : p # q
      BY <1>1, <2>2 DEF Finalize, At, HasDoneItsPart
    <3> QED BY <1>1, <1>2, <3>1, <3>2, <3>3, <3>4
            DEF IInv, CardMatchesParticipants, TypeOK, MessageStatus, Verdicts
  <2> QED BY <2>1, <2>2
<1> HIDE DEF c
<1>5. TypeOK'
  BY <1>1, <1>2, <1>3, <1>4 DEF TypeOK, Moves
<1>6. \A s \in Requests : KnowsItsCall(s)' /\ HasDoneItsPart(s)'
  BY <1>2, <1>3, OthersStay
<1>7. OnlyStartedCalls' /\ CardMatchesParticipants'
  BY <1>2, <1>4 DEF IInv, OnlyStartedCalls, CardMatchesParticipants
<1>8. EmptyCallIsBeingEnded'
  BY <1>1, <1>2, <1>3, EndingStays DEF IInv, EmptyCallIsBeingEnded
<1> QED BY <1>5, <1>6, <1>7, <1>8 DEF IInv

\* A participant leaves, and his request now looks who remains.
LEMMA LeaveStep == ASSUME IInv, NEW r \in Requests, Leave(r) PROVE IInv'
<1>1. KnowsItsCall(r) /\ TypeOK
  BY DEF IInv
<1>2. /\ UNCHANGED <<direct, call, rows, message, dropped>>
      /\ request[r].pc = "leave"
      /\ inCall' = inCall \ {request[r].row}
      /\ Goto(r, "remaining")
  BY DEF Leave, At
<1>3. /\ Moves(r)
      /\ request'[r].pc = "remaining" /\ request'[r].call = request[r].call
      /\ request'[r].user = request[r].user
  BY <1>1, <1>2, GotoMoves
<1>4. KnowsItsCall(r)' /\ HasDoneItsPart(r)'
  BY <1>1, <1>2, <1>3 DEF KnowsItsCall, HasDoneItsPart
<1>5. TypeOK'
  BY <1>1, <1>2, <1>3 DEF TypeOK, Moves
<1>6. \A s \in Requests : KnowsItsCall(s)' /\ HasDoneItsPart(s)'
  BY <1>2, <1>3, <1>4, OthersStay
<1>7. OnlyStartedCalls' /\ CardMatchesParticipants'
  BY <1>2 DEF IInv, OnlyStartedCalls, CardMatchesParticipants
<1>8. EmptyCallIsBeingEnded'
  <2> SUFFICES ASSUME NEW c \in Calls \ dropped, call[c].status = "ONGOING",
                      Of(rows, c) # {}, Of(inCall', c) = {}
               PROVE  Ending(c)'
    BY <1>2 DEF EmptyCallIsBeingEnded
  <2>1. CASE request[r].call = c
    BY <1>3, <2>1 DEF Ending
  <2>2. CASE request[r].call # c
    <3>1. request[r].row[1] # c
      BY <1>1, <1>2, <2>2 DEF KnowsItsCall, Mine, OfUser
    <3>2. Of(inCall, c) = {}
      BY <1>2, <3>1 DEF Of
    <3>3. Ending(c)
      BY <3>2 DEF IInv, EmptyCallIsBeingEnded
    <3> QED BY <1>1, <1>2, <1>3, <3>3, EndingStays
  <2> QED BY <2>1, <2>2
<1> QED BY <1>5, <1>6, <1>7, <1>8 DEF IInv

\* Somebody remains, or the call is ended.
LEMMA RemainingStep == ASSUME IInv, NEW r \in Requests, CountRemaining(r) PROVE IInv'
<1>1. KnowsItsCall(r) /\ TypeOK
  BY DEF IInv
<1>2. /\ UNCHANGED <<direct, call, rows, inCall, message, dropped>>
      /\ request[r].pc = "remaining"
      /\ \/ Of(inCall, request[r].call) # {} /\ Done(r)
         \/ Goto(r, "finish")
  BY DEF CountRemaining, At
<1>3. CASE Of(inCall, request[r].call) # {} /\ Done(r)
  <2>1. Moves(r) /\ KnowsItsCall(r)' /\ HasDoneItsPart(r)'
    BY <1>1, <1>3, DoneMoves DEF KnowsItsCall, HasDoneItsPart, Idle
  <2> QED BY <1>2, <1>3, <2>1, RequestStep
<1>4. CASE Goto(r, "finish")
  <2>1. /\ Moves(r)
        /\ request'[r].pc = "finish" /\ request'[r].call = request[r].call
        /\ request'[r].user = request[r].user
    BY <1>1, <1>4, GotoMoves
  <2>2. KnowsItsCall(r)' /\ HasDoneItsPart(r)'
    BY <1>1, <1>2, <2>1 DEF KnowsItsCall, HasDoneItsPart
  <2> QED BY <1>2, <2>1, <2>2, RequestStep
<1> QED BY <1>2, <1>3, <1>4

\* Everybody is put out and the call is over.
LEMMA FinishStep == ASSUME IInv, NEW r \in Requests, Finish(r) PROVE IInv'
<1> DEFINE c == request[r].call
<1>1. KnowsItsCall(r) /\ TypeOK
  BY DEF IInv
<1>2. /\ UNCHANGED <<direct, rows, message, dropped>>
      /\ request[r].pc = "finish"
      /\ inCall' = inCall \ Of(inCall, c)
      /\ call' = [call EXCEPT ![c].status = "ENDED"]
      /\ Goto(r, "count")
      /\ c \in Calls
  BY <1>1 DEF Finish, At, KnowsItsCall
<1>3. /\ Moves(r)
      /\ request'[r].pc = "count" /\ request'[r].call = c
      /\ request'[r].user = request[r].user
  BY <1>1, <1>2, GotoMoves
<1>4. /\ call' \in [Calls -> CallRow]
      /\ call'[c].status = "ENDED" /\ call'[c].by = call[c].by
      /\ \A d \in Calls \ {c} : call'[d] = call[d]
  BY <1>1, <1>2 DEF TypeOK, CallRow
<1> HIDE DEF c
<1>5. KnowsItsCall(r)' /\ HasDoneItsPart(r)'
  BY <1>1, <1>2, <1>3, <1>4 DEF KnowsItsCall, HasDoneItsPart
<1>6. TypeOK'
  BY <1>1, <1>2, <1>3, <1>4 DEF TypeOK, Moves
<1>7. \A s \in Requests : KnowsItsCall(s)' /\ HasDoneItsPart(s)'
  BY <1>2, <1>3, <1>4, <1>5, OthersStay
<1>8. OnlyStartedCalls' /\ CardMatchesParticipants'
  BY <1>2, <1>4 DEF IInv, OnlyStartedCalls, CardMatchesParticipants
<1>9. EmptyCallIsBeingEnded'
  <2> SUFFICES ASSUME NEW d \in Calls \ dropped, call'[d].status = "ONGOING",
                      Of(rows, d) # {}, Of(inCall', d) = {}
               PROVE  Ending(d)'
    BY <1>2 DEF EmptyCallIsBeingEnded
  <2>1. d # c /\ call[d].status = "ONGOING"
    BY <1>4
  <2>2. Of(inCall, d) = {}
    BY <1>2, <2>1 DEF Of
  <2>3. Ending(d)
    BY <2>1, <2>2 DEF IInv, EmptyCallIsBeingEnded
  <2>4. request[r].call # d
    BY <2>1 DEF c
  <2> QED BY <1>1, <1>3, <2>3, <2>4, EndingStays
<1> QED BY <1>6, <1>7, <1>8, <1>9 DEF IInv

\* ENDED is only said of a call in which more than one participant was counted.
LEMMA CountEverStep == ASSUME IInv, NEW r \in Requests, CountEver(r) PROVE IInv'
<1> DEFINE v == IF \/ request[r].reason = "declined"
                   \/ Cardinality(Of(rows, request[r].call)) <= 1
                THEN "MISSED" ELSE "ENDED"
<1>1. KnowsItsCall(r) /\ HasDoneItsPart(r) /\ TypeOK
  BY DEF IInv
<1>2. /\ UNCHANGED <<direct, call, rows, inCall, message, dropped>>
      /\ request[r].pc = "count"
      /\ request' = [request EXCEPT ![r].pc = "finalize", ![r].verdict = v]
  BY DEF CountEver, At
<1>3. v \in Verdicts
  BY DEF Verdicts
<1>4. v = "ENDED" => \E p, q \in Of(rows, request[r].call) : p # q
  BY MoreThanOne
<1> HIDE DEF v
<1> DEFINE q == [request[r] EXCEPT !.pc = "finalize", !.verdict = v]
<1>5. request' = [request EXCEPT ![r] = q]
  BY <1>2
<1>6. /\ q \in Request
      /\ q.pc = "finalize" /\ q.verdict = v /\ q.user = request[r].user
      /\ q.call = request[r].call
  <2>1. request[r] \in Request
    BY <1>1 DEF TypeOK
  <2> QED BY <1>3, <2>1 DEF Request
<1> HIDE DEF q
<1>7. Moves(r) /\ request'[r] = q
  BY <1>1, <1>5, <1>6 DEF TypeOK, Moves
<1>8. KnowsItsCall(r)' /\ HasDoneItsPart(r)'
  BY <1>1, <1>2, <1>4, <1>6, <1>7 DEF KnowsItsCall, HasDoneItsPart
<1> QED BY <1>2, <1>7, <1>8, RequestStep

\* A request that fails leaves its call to nobody.
LEMMA DropStep == ASSUME IInv, NEW r \in Requests, Drop(r) PROVE IInv'
<1>1. KnowsItsCall(r) /\ TypeOK
  BY DEF IInv
<1>2. /\ UNCHANGED <<direct, call, rows, inCall, message>>
      /\ dropped' = dropped \cup ({request[r].call} \cap Calls)
      /\ Done(r)
  BY DEF Drop
<1>3. Moves(r) /\ KnowsItsCall(r)' /\ HasDoneItsPart(r)'
  BY <1>1, <1>2, DoneMoves DEF KnowsItsCall, HasDoneItsPart, Idle
<1>4. TypeOK'
  BY <1>1, <1>2, <1>3 DEF TypeOK, Moves
<1>5. \A s \in Requests : KnowsItsCall(s)' /\ HasDoneItsPart(s)'
  BY <1>2, <1>3, OthersStay
<1>6. OnlyStartedCalls' /\ CardMatchesParticipants'
  BY <1>2 DEF IInv, OnlyStartedCalls, CardMatchesParticipants
<1>7. EmptyCallIsBeingEnded'
  <2> SUFFICES ASSUME NEW c \in Calls \ dropped', call[c].status = "ONGOING",
                      Of(rows, c) # {}, Of(inCall, c) = {}
               PROVE  Ending(c)'
    BY <1>2 DEF EmptyCallIsBeingEnded
  <2>1. c \notin dropped /\ request[r].call # c
    BY <1>2
  <2>2. Ending(c)
    BY <2>1 DEF IInv, EmptyCallIsBeingEnded
  <2> QED BY <1>1, <1>3, <2>1, <2>2, EndingStays
<1> QED BY <1>4, <1>5, <1>6, <1>7 DEF IInv

\* No step breaks it.
LEMMA NextIInv == IInv /\ [Next]_vars => IInv'
<1> SUFFICES ASSUME IInv, [Next]_vars PROVE IInv'
  OBVIOUS
<1>1. CASE Arrive
  BY <1>1, ArriveStep
<1>2. ASSUME NEW r \in Requests, Proceed(r) \/ Drop(r) PROVE IInv'
  BY <1>2, CreateStep, ReadStep, JoinStep, CardStep, LeaveStep, RemainingStep,
     FinishStep, CountEverStep, DropStep DEF Proceed
<1>3. CASE UNCHANGED vars
  <2>1. /\ UNCHANGED <<direct, call, rows, inCall, message, dropped>>
        /\ request' = request
    BY <1>3 DEF vars
  <2>2. TypeOK' /\ OnlyStartedCalls' /\ CardMatchesParticipants'
    BY <2>1 DEF IInv, TypeOK, OnlyStartedCalls, CardMatchesParticipants
  <2>3. EmptyCallIsBeingEnded'
    BY <2>1 DEF IInv, EmptyCallIsBeingEnded, Ending
  <2>4. \A r \in Requests : KnowsItsCall(r)' /\ HasDoneItsPart(r)'
    BY <2>1 DEF IInv, KnowsItsCall, HasDoneItsPart, Mine
  <2> QED BY <2>2, <2>3, <2>4 DEF IInv
<1> QED BY <1>1, <1>2, <1>3 DEF Next

-----------------------------------------------------------------------------
(* The theorems *)

\* The inductive invariant holds in every state the handlers reach.
THEOREM Invariance == Spec => []IInv
BY InitIInv, NextIInv, PTL DEF Spec

\* Every row, message and request keeps its type.
THEOREM TypeCorrectness == Spec => []TypeOK
<1>1. IInv => TypeOK
  BY DEF IInv
<1> QED BY <1>1, Invariance, PTL

\* However many leave at the same time, one of them ends the empty call.
THEOREM LastOneEndsTheCall == Spec => []EmptyCallIsBeingEnded
<1>1. IInv => EmptyCallIsBeingEnded
  BY DEF IInv
<1> QED BY <1>1, Invariance, PTL

\* A card is shown with the caller in the books, and as ENDED with two in them.
THEOREM CardsMatch == Spec => []CardMatchesParticipants
<1>1. IInv => CardMatchesParticipants
  BY DEF IInv
<1> QED BY <1>1, Invariance, PTL

\* Every step of the handlers is a step of CallLifecycle or changes nothing the
\* members see.
LEMMA StepOfLifecycle == IInv /\ [Next]_vars => [Lifecycle!Next]_(Lifecycle!vars)
<1> DEFINE st == [c \in Calls |-> call[c].status]
<1> SUFFICES ASSUME IInv, Next PROVE Lifecycle!Next \/ UNCHANGED <<st, message>>
  BY DEF vars, Lifecycle!vars
<1>1. TypeOK /\ \A r \in Requests : KnowsItsCall(r) /\ HasDoneItsPart(r)
  BY DEF IInv
<1>2. CASE UNCHANGED <<call, message>>
  BY <1>2
<1>3. ASSUME NEW r \in Requests, CreateSession(r) PROVE Lifecycle!Next
  <2>1. PICK c \in Unused :
          /\ call' = [call EXCEPT ![c] = [status |-> "ONGOING", by |-> request[r].user]]
          /\ message' = message
    BY <1>3 DEF CreateSession
  <2>2. c \in Calls /\ call[c].status = "NONE"
    BY DEF Unused
  <2>3. st' = [st EXCEPT ![c] = "ONGOING"]
    BY <1>1, <2>1, <2>2 DEF TypeOK
  <2>4. Lifecycle!Begin(c)
    BY <2>1, <2>2, <2>3 DEF Lifecycle!Begin
  <2> QED BY <2>2, <2>4 DEF Lifecycle!Next
<1>4. ASSUME NEW r \in Requests, Announce(r)
      PROVE  Lifecycle!Next \/ UNCHANGED <<st, message>>
  <2>0. PICK c \in Calls : c = request[r].call
    BY <1>1, <1>4 DEF KnowsItsCall, Announce, Finish, Finalize, At
  <2>1. /\ call' = call
        /\ message' = [message EXCEPT ![c] = IF @ = "NONE" THEN "ONGOING" ELSE @]
        /\ c \in Calls /\ call[c].status # "NONE"
    BY <1>1, <1>4, <2>0 DEF Announce, At, KnowsItsCall
  <2>2. CASE message[c] = "NONE"
    <3>1. Lifecycle!Announce(c)
      BY <2>1, <2>2 DEF Lifecycle!Announce
    <3> QED BY <3>1 DEF Lifecycle!Next
  <2>3. CASE message[c] # "NONE"
    BY <1>1, <2>1, <2>3 DEF TypeOK
  <2> QED BY <2>2, <2>3
<1>5. ASSUME NEW r \in Requests, Finish(r)
      PROVE  Lifecycle!Next \/ UNCHANGED <<st, message>>
  <2>0. PICK c \in Calls : c = request[r].call
    BY <1>1, <1>5 DEF KnowsItsCall, Announce, Finish, Finalize, At
  <2>1. /\ call' = [call EXCEPT ![c].status = "ENDED"]
        /\ message' = message
        /\ c \in Calls /\ call[c].status # "NONE"
    BY <1>1, <1>5, <2>0 DEF Finish, At, KnowsItsCall
  <2>2. st' = [st EXCEPT ![c] = "ENDED"]
    BY <1>1, <2>1 DEF TypeOK, CallRow
  <2>3. call[c].status \in {"ONGOING", "ENDED"}
    BY <1>1, <2>1 DEF TypeOK, CallRow
  <2>4. CASE call[c].status = "ONGOING"
    <3>1. Lifecycle!End(c)
      BY <2>1, <2>2, <2>4 DEF Lifecycle!End
    <3> QED BY <3>1 DEF Lifecycle!Next
  <2>5. CASE call[c].status = "ENDED"
    BY <2>1, <2>2, <2>5
  <2> QED BY <2>3, <2>4, <2>5
<1>6. ASSUME NEW r \in Requests, Finalize(r)
      PROVE  Lifecycle!Next \/ UNCHANGED <<st, message>>
  <2>0. PICK c \in Calls : c = request[r].call
    BY <1>1, <1>6 DEF KnowsItsCall, Announce, Finish, Finalize, At
  <2>1. /\ call' = call
        /\ message' = [message EXCEPT ![c] = IF @ = "NONE" THEN @ ELSE request[r].verdict]
        /\ c \in Calls /\ call[c].status = "ENDED"
        /\ request[r].verdict \in {"ENDED", "MISSED"}
    BY <1>1, <1>6, <2>0 DEF Finalize, At, KnowsItsCall, HasDoneItsPart, TypeOK, Request, Verdicts
  <2>2. CASE message[c] # "NONE"
    <3>1. Lifecycle!Close(c, request[r].verdict)
      BY <2>1, <2>2 DEF Lifecycle!Close
    <3>2. \E verdict \in {"ENDED", "MISSED"} : Lifecycle!Close(c, verdict)
      BY <2>1, <3>1
    <3> QED BY <3>2 DEF Lifecycle!Next
  <2>3. CASE message[c] = "NONE"
    BY <1>1, <2>1, <2>3 DEF TypeOK
  <2> QED BY <2>2, <2>3
<1>7. \/ UNCHANGED <<call, message>>
      \/ \E r \in Requests :
           CreateSession(r) \/ Announce(r) \/ Finish(r) \/ Finalize(r)
  <2>1. Arrive => UNCHANGED <<call, message>>
    BY DEF Arrive, StartCall, JoinCall, DeclineCall, EndCall, LeaveCall, Enter
  <2>2. ASSUME NEW r \in Requests, Proceed(r)
        PROVE  \/ UNCHANGED <<call, message>>
               \/ CreateSession(r) \/ Announce(r) \/ Finish(r) \/ Finalize(r)
    BY <2>2 DEF Proceed, FindActive, FindPrevious, Rejoin, Insert, FindMine, Leave,
                CountRemaining, CountEver
  <2>3. \A r \in Requests : Drop(r) => UNCHANGED <<call, message>>
    BY DEF Drop
  <2> QED BY <2>1, <2>2, <2>3 DEF Next
<1> QED BY <1>2, <1>3, <1>4, <1>5, <1>6, <1>7

\* Calls and their cards only go forward: the handlers implement CallLifecycle.
THEOREM CallsImplementLifecycle == Spec => FollowsLifecycle
<1>1. Init => Lifecycle!Init
  BY DEF Init, Lifecycle!Init
<1> QED BY <1>1, StepOfLifecycle, Invariance, PTL DEF Spec, FollowsLifecycle, Lifecycle!Spec

-----------------------------------------------------------------------------
(* The inductive invariant *)

\* It holds when the server has just started and nothing was written.
LEMMA ChatInitInv == ChatInit => ChatInv
<1> SUFFICES ASSUME ChatInit PROVE ChatInv
  OBVIOUS
<1> USE DEF ChatInit, Quiet, NotSending
<1>1. ChatTypeOK
  BY ChatAssumption DEF ChatTypeOK, Handler, SendRow, ReceiptStatus, Messages, Committed
<1>2. HandlersKnowTheirUser /\ SendsAreNumbered
  BY DEF HandlersKnowTheirUser, SendsAreNumbered
<1>3. PresenceFollowsSockets /\ UndeliveredIsAwaited /\ ReadMarkIsTrue
  BY DEF PresenceFollowsSockets, UndeliveredIsAwaited, ReadMarkIsTrue
<1> QED BY <1>1, <1>2, <1>3 DEF ChatInv

-----------------------------------------------------------------------------
(* Steps of connections *)

\* The messages and their receipts stay as they are.
Stored == UNCHANGED <<send, begun, sender, receipt, lastRead, behind>>

\* The handler of s becomes h, the others stay where they are.
HandlerMoves(s, h) ==
  /\ h \in Handler
  /\ handler' \in [Sockets -> Handler]
  /\ handler'[s] = h
  /\ \A t \in Sockets \ {s} : handler'[t] = handler[t]

LEMMA SetHandlerMoves ==
  ASSUME ChatTypeOK, NEW s \in Sockets, NEW h \in Handler,
         handler' = [handler EXCEPT ![s] = h]
  PROVE  HandlerMoves(s, h)
BY DEF ChatTypeOK, HandlerMoves

\* A handler that is done keeps its user and nothing else.
LEMMA FinishedIsQuiet ==
  ASSUME ChatTypeOK, NEW s \in Sockets
  PROVE  /\ Finished(s) \in Handler
         /\ Finished(s).pc = "idle"
         /\ Finished(s).user = handler[s].user
<1>1. handler[s] \in Handler
  BY DEF ChatTypeOK
<1>2. Finished(s) = [pc |-> "idle", user |-> handler[s].user, found |-> {}]
  BY DEF Finished, Quiet
<1> QED BY <1>1, <1>2 DEF Handler

\* Going on changes only where the handler is.
LEMMA ContinueMoves ==
  ASSUME ChatTypeOK, NEW s \in Sockets, NEW pc \in {"active", "finding"}, Continue(s, pc)
  PROVE  /\ HandlerMoves(s, handler'[s])
         /\ handler'[s].pc = pc
         /\ handler'[s].user = handler[s].user
<1> DEFINE h == [handler[s] EXCEPT !.pc = pc]
<1>1. handler[s] \in Handler
  BY DEF ChatTypeOK
<1>2. h \in Handler /\ h.pc = pc /\ h.user = handler[s].user
  BY <1>1 DEF Handler
<1>3. handler' = [handler EXCEPT ![s] = h]
  BY DEF Continue
<1>4. HandlerMoves(s, h)
  BY <1>2, <1>3, SetHandlerMoves
<1> QED BY <1>2, <1>4 DEF HandlerMoves

\* A handler that starts, goes on or stops for the user it serves: the rows stay,
\* so only presence and what is awaited remain to be shown.
LEMMA ConnectionStep ==
  ASSUME ChatInv, Stored, NEW s \in Sockets, HandlerMoves(s, handler'[s]),
         online' \in [Members -> SUBSET Sockets],
         present' \in SUBSET Members,
         open' \in SUBSET Sockets,
         open' \subseteq open \cup {s},
         missed' \in SUBSET (Messages \X Members),
         s \in open' \/ handler'[s].pc # "idle" => handler'[s].user \in Members,
         handler'[s].pc = "delivering" =>
           \A m \in handler'[s].found : receipt[m][handler'[s].user] # "NONE",
         PresenceFollowsSockets', UndeliveredIsAwaited'
  PROVE  ChatInv'
<1> USE DEF ChatInv, Stored
<1>1. ChatTypeOK'
  BY DEF ChatTypeOK, HandlerMoves, Committed
<1>2. HandlersKnowTheirUser'
  <2> SUFFICES ASSUME NEW t \in Sockets
               PROVE  /\ t \in open' \/ handler'[t].pc # "idle" => handler'[t].user \in Members
                      /\ handler'[t].pc = "delivering" =>
                           \A m \in handler'[t].found : receipt'[m][handler'[t].user] # "NONE"
    BY DEF HandlersKnowTheirUser
  <2>1. CASE t = s
    BY <2>1
  <2>2. CASE t # s
    BY <2>2 DEF HandlersKnowTheirUser, HandlerMoves
  <2> QED BY <2>1, <2>2
<1>3. SendsAreNumbered'
  BY DEF SendsAreNumbered
<1>4. ReadMarkIsTrue'
  BY DEF ReadMarkIsTrue
<1> QED BY <1>1, <1>2, <1>3, <1>4

\* What was awaited still is, if the handler that moves did not await it or
\* goes on awaiting it.
LEMMA AwaitedStays ==
  ASSUME NEW s \in Sockets, HandlerMoves(s, handler'[s]), NEW u, NEW m,
         Awaits(s, u, m) => Awaits(s, u, m)',
         NEW t \in Sockets, Awaits(t, u, m)
  PROVE  \E x \in Sockets : Awaits(x, u, m)'
<1>1. CASE t = s
  BY <1>1
<1>2. CASE t # s
  BY <1>2 DEF HandlerMoves, Awaits
<1> QED BY <1>1, <1>2

\* The same for all receipts, when nobody comes and no receipt changes.
LEMMA UndeliveredStays ==
  ASSUME ChatInv, Stored, NEW s \in Sockets, HandlerMoves(s, handler'[s]),
         present' \subseteq present,
         missed \subseteq missed',
         \A m \in Messages, u \in Members :
           receipt[m][u] = "SENT" /\ Awaits(s, u, m) =>
             Awaits(s, u, m)' \/ <<m, u>> \in missed' \/ \E t \in Sockets \ {s} : Awaits(t, u, m)
  PROVE  UndeliveredIsAwaited'
<1> SUFFICES ASSUME NEW m \in Messages, NEW u \in present',
                    receipt[m][u] = "SENT", <<m, u>> \notin missed'
             PROVE  \E t \in Sockets : Awaits(t, u, m)'
  BY DEF Stored, UndeliveredIsAwaited
<1>1. u \in present /\ u \in Members /\ <<m, u>> \notin missed
  BY DEF ChatInv, ChatTypeOK
<1>2. PICK t \in Sockets : Awaits(t, u, m)
  BY <1>1 DEF ChatInv, UndeliveredIsAwaited
<1>3. CASE Awaits(s, u, m)'
  BY <1>3
<1>4. CASE ~Awaits(s, u, m)'
  <2>1. PICK x \in Sockets \ {s} : Awaits(x, u, m)
    BY <1>1, <1>2, <1>4
  <2> QED BY <2>1 DEF HandlerMoves, Awaits
<1> QED BY <1>3, <1>4

\* A handshake: nobody is admitted yet.
LEMMA ConnectStep ==
  ASSUME ChatInv, NEW s \in Sockets, NEW u \in Members, Connect(s, u) PROVE ChatInv'
<1> USE DEF Connect, ChatInv
<1> DEFINE h == [pc |-> "checking", user |-> u, found |-> {}]
<1>1. h \in Handler
  BY DEF Handler
<1>2. HandlerMoves(s, h) /\ HandlerMoves(s, handler'[s]) /\ handler'[s] = h
  BY <1>1, SetHandlerMoves DEF HandlerMoves
<1> HIDE DEF h
<1>7. handler'[s].user = u /\ handler'[s].pc = "checking"
  BY <1>2 DEF h
<1>3. Stored
  BY DEF Stored, books
<1>4. PresenceFollowsSockets'
  BY <1>2 DEF PresenceFollowsSockets, HandlerMoves
<1>5. UndeliveredIsAwaited'
  <2>1. \A m \in Messages, v \in Members : ~Awaits(s, v, m)
    BY DEF Awaits
  <2> QED BY <1>2, <1>3, <2>1, UndeliveredStays
<1>6. /\ online' \in [Members -> SUBSET Sockets] /\ present' \in SUBSET Members
      /\ open' \in SUBSET Sockets /\ missed' \in SUBSET (Messages \X Members)
  BY DEF ChatTypeOK
<1> QED BY <1>2, <1>3, <1>4, <1>5, <1>6, <1>7, ConnectionStep

\* The connection is admitted; the first one of a user will look for everything
\* that is SENT to him.
LEMMA AdmitStep ==
  ASSUME ChatInv, NEW s \in Sockets, Admit(s) PROVE ChatInv'
<1> USE DEF Admit, ChatInv
<1> DEFINE u == handler[s].user
<1>1. u \in Members /\ handler[s].pc = "checking"
  BY DEF HandlersKnowTheirUser
<1>2. /\ HandlerMoves(s, handler'[s]) /\ handler'[s].user = u
      /\ handler'[s].pc \in {"active", "idle"}
      /\ online[u] = {} => handler'[s].pc = "active"
  <2>1. CASE online[u] = {}
    BY <2>1, ContinueMoves
  <2>2. CASE online[u] # {}
    BY <2>2, FinishedIsQuiet, SetHandlerMoves DEF HandlerMoves
  <2> QED BY <2>1, <2>2
<1>3. Stored
  BY DEF Stored, books
<1>4. /\ online' \in [Members -> SUBSET Sockets]
      /\ online'[u] = online[u] \cup {s}
      /\ \A v \in Members \ {u} : online'[v] = online[v]
  BY <1>1 DEF ChatTypeOK
<1>5. present' = present \cup {u}
  BY <1>1 DEF PresenceFollowsSockets
<1>6. present' \in SUBSET Members /\ open' \in SUBSET Sockets /\ missed' \in SUBSET (Messages \X Members)
  BY <1>1, <1>5 DEF ChatTypeOK
<1>7. PresenceFollowsSockets'
  <2>1. present' = {v \in Members : online'[v] # {}}
    BY <1>1, <1>4, <1>5 DEF PresenceFollowsSockets
  <2>2. ASSUME NEW t \in open', handler'[t].pc # "checking"
        PROVE  t \in online'[handler'[t].user]
    <3>1. CASE t = s
      BY <1>2, <1>4, <3>1
    <3>2. CASE t # s
      <4>1. t \in Sockets /\ handler'[t] = handler[t]
        BY <1>2, <3>2 DEF ChatTypeOK, HandlerMoves
      <4>2. t \in online[handler[t].user] /\ handler[t].user \in Members
        BY <2>2, <4>1 DEF PresenceFollowsSockets, HandlersKnowTheirUser
      <4> QED BY <1>4, <4>1, <4>2
    <3> QED BY <3>1, <3>2
  <2> QED BY <2>1, <2>2 DEF PresenceFollowsSockets
<1>8. UndeliveredIsAwaited'
  <2>1. CASE online[u] # {}
    <3>1. present' = present /\ missed' = missed
      BY <2>1
    <3>2. \A m \in Messages, v \in Members : ~Awaits(s, v, m)
      BY DEF Awaits
    <3> QED BY <1>2, <1>3, <3>1, <3>2, UndeliveredStays
  <2>2. CASE online[u] = {}
    <3> SUFFICES ASSUME NEW m \in Messages, NEW v \in present',
                        receipt[m][v] = "SENT", <<m, v>> \notin missed'
                 PROVE  \E t \in Sockets : Awaits(t, v, m)'
      BY <1>3 DEF Stored, UndeliveredIsAwaited
    <3>1. CASE v = u
      BY <1>2, <2>2, <3>1 DEF Awaits
    <3>2. CASE v # u
      <4>1. v \in present /\ <<m, v>> \notin missed
        BY <1>5, <2>2, <3>2
      <4>2. PICK t \in Sockets : Awaits(t, v, m)
        BY <4>1 DEF UndeliveredIsAwaited
      <4>3. t # s
        BY <1>1, <4>2 DEF Awaits
      <4> QED BY <1>2, <4>2, <4>3 DEF HandlerMoves, Awaits
    <3> QED BY <3>1, <3>2
  <2> QED BY <2>1, <2>2
<1> QED BY <1>1, <1>2, <1>3, <1>4, <1>6, <1>7, <1>8, ConnectionStep

\* last_active_at was written; the handler goes on to look for messages.
LEMMA ActivateStep ==
  ASSUME ChatInv, NEW s \in Sockets, Activate(s) PROVE ChatInv'
<1> USE DEF Activate, ChatInv
<1>1. /\ HandlerMoves(s, handler'[s]) /\ handler'[s].pc = "finding"
      /\ handler'[s].user = handler[s].user /\ handler[s].user \in Members
  BY ContinueMoves DEF HandlersKnowTheirUser
<1>2. Stored
  BY DEF Stored, books
<1>3. PresenceFollowsSockets'
  BY <1>1 DEF PresenceFollowsSockets, ChatTypeOK, HandlerMoves
<1>4. UndeliveredIsAwaited'
  <2>1. \A m \in Messages, v \in Members : Awaits(s, v, m) => Awaits(s, v, m)'
    BY <1>1 DEF Awaits
  <2> QED BY <1>1, <1>2, <2>1, UndeliveredStays
<1>5. /\ online' \in [Members -> SUBSET Sockets] /\ present' \in SUBSET Members
      /\ open' \in SUBSET Sockets /\ missed' \in SUBSET (Messages \X Members)
  BY DEF ChatTypeOK
<1> QED BY <1>1, <1>2, <1>3, <1>4, <1>5, ConnectionStep

\* All that is SENT is found, so all of it will be updated.
LEMMA FindStep ==
  ASSUME ChatInv, NEW s \in Sockets, Find(s) PROVE ChatInv'
<1> USE DEF Find, ChatInv
<1> DEFINE u == handler[s].user
           h == IF Sent(u) = {} THEN Finished(s) ELSE Delivering(s, Sent(u))
<1>1. u \in Members /\ Sent(u) \in SUBSET Messages
  BY DEF HandlersKnowTheirUser, Sent
<1>2. h \in Handler /\ h.user = u /\ h.pc \in {"idle", "delivering"}
  <2>1. Delivering(s, Sent(u)) \in Handler
    BY <1>1 DEF Delivering, Handler
  <2> QED BY <2>1, FinishedIsQuiet DEF Delivering
<1>3. handler' = [handler EXCEPT ![s] = h]
  BY DEF Delivering
<1>4. HandlerMoves(s, handler'[s]) /\ handler'[s] = h
  BY <1>2, <1>3, SetHandlerMoves DEF HandlerMoves
<1>5. Stored
  BY DEF Stored, books
<1>6. h.pc = "delivering" => h = Delivering(s, Sent(u)) /\ \A m \in h.found : receipt[m][u] # "NONE"
  BY FinishedIsQuiet DEF Delivering, Sent
<1>7. PresenceFollowsSockets'
  BY <1>2, <1>4 DEF PresenceFollowsSockets, ChatTypeOK, HandlerMoves
<1>8. UndeliveredIsAwaited'
  <2>1. ASSUME NEW m \in Messages, NEW v \in Members, receipt[m][v] = "SENT", Awaits(s, v, m)
        PROVE  Awaits(s, v, m)'
    <3>1. v = u /\ m \in Sent(u)
      BY <2>1 DEF Awaits, Sent
    <3> QED BY <1>4, <3>1 DEF Awaits, Delivering
  <2> QED BY <1>4, <1>5, <2>1, UndeliveredStays
<1>9. /\ online' \in [Members -> SUBSET Sockets] /\ present' \in SUBSET Members
      /\ open' \in SUBSET Sockets /\ missed' \in SUBSET (Messages \X Members)
  BY DEF ChatTypeOK
<1> QED BY <1>1, <1>2, <1>4, <1>5, <1>6, <1>7, <1>8, <1>9, ConnectionStep

\* What was found is DELIVERED; a READ taken back is behind the mark.
LEMMA DeliverStep ==
  ASSUME ChatInv, NEW s \in Sockets, Deliver(s) PROVE ChatInv'
<1> USE DEF Deliver, ChatInv
<1> DEFINE u == handler[s].user
           found == handler[s].found
<1>1. u \in Members /\ found \in SUBSET Messages /\ \A m \in found : receipt[m][u] # "NONE"
  BY DEF HandlersKnowTheirUser, ChatTypeOK, Handler
<1>2. /\ HandlerMoves(s, handler'[s]) /\ handler'[s].user = u /\ handler'[s].pc = "idle"
  BY FinishedIsQuiet, SetHandlerMoves DEF HandlerMoves
<1>3. /\ receipt' \in [Messages -> [Members -> ReceiptStatus \cup {"NONE"}]]
      /\ \A m \in Messages, v \in Members :
           receipt'[m][v] = IF m \in found /\ v = u THEN "DELIVERED" ELSE receipt[m][v]
  BY <1>1 DEF ChatTypeOK, ReceiptStatus
<1>4. \A m \in Messages, v \in Members : receipt'[m][v] = "NONE" <=> receipt[m][v] = "NONE"
  BY <1>1, <1>3
<1>5. ChatTypeOK'
  <2>1. behind' \in SUBSET (Messages \X Members)
    BY <1>1 DEF ChatTypeOK
  <2>2. UNCHANGED <<online, present, open, send, begun, sender, lastRead, missed>>
    OBVIOUS
  <2> QED BY <1>2, <1>3, <1>4, <2>1, <2>2 DEF ChatTypeOK, HandlerMoves, Committed
<1>6. HandlersKnowTheirUser'
  <2> SUFFICES ASSUME NEW t \in Sockets
               PROVE  /\ t \in open' \/ handler'[t].pc # "idle" => handler'[t].user \in Members
                      /\ handler'[t].pc = "delivering" =>
                           \A m \in handler'[t].found : receipt'[m][handler'[t].user] # "NONE"
    BY DEF HandlersKnowTheirUser
  <2>1. CASE t = s
    BY <1>1, <1>2, <2>1
  <2>2. CASE t # s
    <3>1. handler'[t] = handler[t] /\ handler[t] \in Handler
      BY <1>2, <2>2 DEF HandlerMoves, ChatTypeOK
    <3> QED BY <1>4, <3>1 DEF HandlersKnowTheirUser, Handler
  <2> QED BY <2>1, <2>2
<1>7. SendsAreNumbered'
  BY DEF SendsAreNumbered
<1>8. PresenceFollowsSockets'
  BY <1>2 DEF PresenceFollowsSockets, ChatTypeOK, HandlerMoves
<1>9. UndeliveredIsAwaited'
  <2> SUFFICES ASSUME NEW m \in Messages, NEW v \in present,
                      receipt'[m][v] = "SENT", <<m, v>> \notin missed
               PROVE  \E t \in Sockets : Awaits(t, v, m)'
    BY DEF UndeliveredIsAwaited
  <2>1. v \in Members /\ receipt[m][v] = "SENT" /\ ~(m \in found /\ v = u)
    BY <1>3 DEF ChatTypeOK
  <2>2. PICK t \in Sockets : Awaits(t, v, m)
    BY <2>1 DEF UndeliveredIsAwaited
  <2>3. t # s
    BY <2>1, <2>2 DEF Awaits
  <2> QED BY <1>2, <2>2, <2>3 DEF HandlerMoves, Awaits
<1>10. ReadMarkIsTrue'
  <2> SUFFICES ASSUME NEW m \in Messages, NEW v \in Members,
                      m <= lastRead[v], receipt'[m][v] \in {"SENT", "DELIVERED"}
               PROVE  <<m, v>> \in behind'
    BY DEF ReadMarkIsTrue
  <2>1. CASE m \in found /\ v = u /\ receipt[m][u] = "READ"
    BY <2>1
  <2>2. CASE ~(m \in found /\ v = u /\ receipt[m][u] = "READ")
    <3>1. receipt[m][v] \in {"SENT", "DELIVERED"}
      BY <1>1, <1>3, <2>2 DEF ChatTypeOK, ReceiptStatus
    <3> QED BY <3>1 DEF ReadMarkIsTrue
  <2> QED BY <2>1, <2>2
<1> QED BY <1>5, <1>6, <1>7, <1>8, <1>9, <1>10

\* Taking a closed connection away leaves the others of its user, and takes the
\* user away with the last.
LEMMA RemovedKeepsOthers ==
  ASSUME ChatInv, NEW s \in Sockets, s \in open, handler[s].user \in Members,
         Removed(s), open' = open \ {s},
         \A t \in Sockets \ {s} : handler'[t] = handler[t]
  PROVE  /\ online' \in [Members -> SUBSET Sockets]
         /\ present' \in SUBSET Members
         /\ present' \subseteq present
         /\ PresenceFollowsSockets'
<1> USE DEF Removed, ChatInv
<1> DEFINE u == handler[s].user
<1>1. /\ online' \in [Members -> SUBSET Sockets]
      /\ online'[u] = online[u] \ {s}
      /\ \A v \in Members \ {u} : online'[v] = online[v]
  BY DEF ChatTypeOK
<1>2. present' = {v \in Members : online'[v] # {}}
  <2>1. present = {v \in Members : online[v] # {}}
    BY DEF PresenceFollowsSockets
  <2>2. CASE online'[u] = {}
    BY <1>1, <2>1, <2>2
  <2>3. CASE online'[u] # {}
    BY <1>1, <2>1, <2>3
  <2> QED BY <2>2, <2>3
<1>3. present' \subseteq present
  BY DEF ChatTypeOK
<1>4. ASSUME NEW t \in open', handler'[t].pc # "checking"
      PROVE  t \in online'[handler'[t].user]
  <2>1. t \in Sockets /\ t \in open /\ t # s /\ handler'[t] = handler[t]
    BY DEF ChatTypeOK
  <2>2. t \in online[handler[t].user] /\ handler[t].user \in Members
    BY <1>4, <2>1 DEF PresenceFollowsSockets, HandlersKnowTheirUser
  <2> QED BY <1>1, <2>1, <2>2
<1>5. present' \in SUBSET Members
  BY <1>3 DEF ChatTypeOK
<1> QED BY <1>1, <1>2, <1>3, <1>4, <1>5 DEF PresenceFollowsSockets

\* A connection closes; its handler, if there is one, goes on.
LEMMA DisconnectStep ==
  ASSUME ChatInv, NEW s \in Sockets, Disconnect(s) PROVE ChatInv'
<1> USE DEF Disconnect, ChatInv
<1>1. handler[s].user \in Members
  BY DEF HandlersKnowTheirUser
<1>2. handler' = handler /\ HandlerMoves(s, handler'[s])
  BY DEF ChatTypeOK, HandlerMoves
<1>3. Stored
  BY DEF Stored, books
<1>4. /\ online' \in [Members -> SUBSET Sockets] /\ present' \in SUBSET Members
      /\ present' \subseteq present /\ PresenceFollowsSockets'
  <2>1. CASE handler[s].pc = "checking"
    BY <2>1 DEF PresenceFollowsSockets, ChatTypeOK
  <2>2. CASE handler[s].pc # "checking"
    BY <1>1, <1>2, <2>2, RemovedKeepsOthers
  <2> QED BY <2>1, <2>2
<1>5. UndeliveredIsAwaited'
  <2>1. \A m \in Messages, v \in Members : Awaits(s, v, m) => Awaits(s, v, m)'
    BY <1>2 DEF Awaits
  <2> QED BY <1>2, <1>3, <1>4, <2>1, UndeliveredStays
<1>6. open' \in SUBSET Sockets /\ missed' \in SUBSET (Messages \X Members)
  BY DEF ChatTypeOK
<1>7. handler[s].pc = "delivering" =>
        \A m \in handler[s].found : receipt[m][handler[s].user] # "NONE"
  BY DEF HandlersKnowTheirUser
<1> QED BY <1>1, <1>2, <1>3, <1>4, <1>5, <1>6, <1>7, ConnectionStep

\* The handler fails: what nobody else awaits is missed.
LEMMA ConnectionFailsStep ==
  ASSUME ChatInv, NEW s \in Sockets, ConnectionFails(s) PROVE ChatInv'
<1> USE DEF ConnectionFails, ChatInv
<1> DEFINE u == handler[s].user
<1>1. u \in Members
  BY DEF HandlersKnowTheirUser
<1>2. /\ HandlerMoves(s, handler'[s]) /\ handler'[s].user = u /\ handler'[s].pc = "idle"
  BY FinishedIsQuiet, SetHandlerMoves DEF HandlerMoves
<1>3. Stored
  BY DEF Stored, books
<1>4. /\ online' \in [Members -> SUBSET Sockets] /\ present' \in SUBSET Members
      /\ present' \subseteq present /\ PresenceFollowsSockets'
  <2>1. CASE handler[s].pc = "checking" \/ s \notin open
    BY <1>2, <2>1 DEF PresenceFollowsSockets, ChatTypeOK, HandlerMoves
  <2>2. CASE ~(handler[s].pc = "checking" \/ s \notin open)
    BY <1>1, <1>2, <2>2, RemovedKeepsOthers DEF HandlerMoves
  <2> QED BY <2>1, <2>2
<1>5. /\ missed' \in SUBSET (Messages \X Members)
      /\ missed \subseteq missed'
  BY <1>1 DEF ChatTypeOK, Sent
<1>6. UndeliveredIsAwaited'
  <2>1. ASSUME NEW m \in Messages, NEW v \in Members, receipt[m][v] = "SENT", Awaits(s, v, m)
        PROVE  <<m, v>> \in missed' \/ \E t \in Sockets \ {s} : Awaits(t, v, m)
    <3>1. v = u /\ m \in Sent(u)
      BY <2>1 DEF Awaits, Sent
    <3> QED BY <2>1, <3>1
  <2> QED BY <1>2, <1>3, <1>4, <1>5, <2>1, UndeliveredStays
<1>7. open' \in SUBSET Sockets /\ open' \subseteq open \cup {s}
  BY DEF ChatTypeOK
<1> QED BY <1>1, <1>2, <1>3, <1>4, <1>5, <1>6, <1>7, ConnectionStep

-----------------------------------------------------------------------------
(* Steps of messages *)

\* Connections stay as they are.
Connected == UNCHANGED <<online, present, open, handler>>

\* A message that is being sent changes, and nothing else but how many there are.
LEMMA SendStep ==
  ASSUME ChatInv, Connected, UNCHANGED <<sender, receipt, lastRead, missed, behind>>,
         begun' \in 0..MaxMessages, send' \in [Sends -> SendRow], SendsAreNumbered'
  PROVE  ChatInv'
<1> USE DEF ChatInv, Connected
<1>1. ChatTypeOK'
  BY DEF ChatTypeOK, Committed
<1>2. HandlersKnowTheirUser' /\ PresenceFollowsSockets' /\ ReadMarkIsTrue'
  BY DEF HandlersKnowTheirUser, PresenceFollowsSockets, ReadMarkIsTrue
<1>3. UndeliveredIsAwaited'
  BY DEF UndeliveredIsAwaited, Awaits
<1> QED BY <1>1, <1>2, <1>3

LEMMA BeginSendStep ==
  ASSUME ChatInv, NEW r \in Sends, NEW u \in Members, BeginSend(r, u) PROVE ChatInv'
<1> USE DEF BeginSend, ChatInv
<1> DEFINE q == [pc |-> "created", message |-> begun + 1, by |-> u, online |-> {}]
<1>1. begun \in Nat /\ MaxMessages \in Nat /\ begun + 1 \in 1..MaxMessages
  BY ChatAssumption DEF ChatTypeOK
<1>2. q \in SendRow
  BY <1>1 DEF SendRow
<1>3. /\ send' \in [Sends -> SendRow] /\ send'[r] = q
      /\ \A t \in Sends \ {r} : send'[t] = send[t] /\ send[t] \in SendRow
  BY <1>2 DEF ChatTypeOK
<1>4. SendsAreNumbered'
  <2>1. ASSUME NEW t \in Sends, send'[t].pc # "idle"
        PROVE  /\ send'[t].message \in 1..begun'
               /\ send'[t].by \in Members
               /\ sender[send'[t].message] = Nobody
               /\ \A x \in Sends \ {t} : send'[x].pc # "idle" => send'[x].message # send'[t].message
    <3>1. \A x \in Sends \ {r} : send[x].pc # "idle" => send[x].message \in 1..begun
      BY DEF SendsAreNumbered
    <3>2. sender[begun + 1] = Nobody
      BY <1>1 DEF SendsAreNumbered, Messages
    <3>3. CASE t = r
      BY <1>1, <1>3, <3>1, <3>2, <3>3
    <3>4. CASE t # r
      BY <1>1, <1>3, <2>1, <3>1, <3>4 DEF SendsAreNumbered
    <3> QED BY <3>3, <3>4
  <2>2. \A m \in Messages : m > begun' => sender[m] = Nobody
    BY <1>1 DEF SendsAreNumbered, Messages
  <2> QED BY <2>1, <2>2 DEF SendsAreNumbered
<1>5. Connected /\ UNCHANGED <<sender, receipt, lastRead, missed, behind>>
  BY DEF Connected
<1> QED BY <1>1, <1>3, <1>4, <1>5, SendStep

LEMMA ListMembersStep ==
  ASSUME ChatInv, NEW r \in Sends, ListMembers(r) PROVE ChatInv'
<1> USE DEF ListMembers, ChatInv
<1> DEFINE q == [pc |-> "listed", message |-> send[r].message, by |-> send[r].by,
                 online |-> present]
<1>1. q \in SendRow
  BY DEF ChatTypeOK, SendRow
<1>2. /\ send' \in [Sends -> SendRow] /\ send'[r] = q
      /\ \A t \in Sends \ {r} : send'[t] = send[t]
  BY <1>1 DEF ChatTypeOK
<1>3. \A t \in Sends : /\ send'[t].message = send[t].message
                       /\ send'[t].by = send[t].by
                       /\ send'[t].pc # "idle" => send[t].pc # "idle"
  BY <1>2
<1>4. SendsAreNumbered'
  BY <1>3 DEF SendsAreNumbered, books
<1>5. Connected /\ UNCHANGED <<sender, receipt, lastRead, missed, behind>> /\ begun' = begun
  BY DEF Connected, books
<1> QED BY <1>2, <1>4, <1>5, SendStep DEF ChatTypeOK

LEMMA AbortSendStep ==
  ASSUME ChatInv, NEW r \in Sends, AbortSend(r) PROVE ChatInv'
<1> USE DEF AbortSend, ChatInv
<1>1. NotSending \in SendRow
  BY ChatAssumption DEF NotSending, SendRow
<1>2. /\ send' \in [Sends -> SendRow] /\ send'[r] = NotSending
      /\ \A t \in Sends \ {r} : send'[t] = send[t]
  BY <1>1 DEF ChatTypeOK
<1>3. SendsAreNumbered'
  BY <1>2 DEF SendsAreNumbered, NotSending, books
<1>4. Connected /\ UNCHANGED <<sender, receipt, lastRead, missed, behind>> /\ begun' = begun
  BY DEF Connected, books
<1> QED BY <1>2, <1>3, <1>4, SendStep DEF ChatTypeOK

\* Seen with its receipts, those of who was listed as away are SENT.
LEMMA CommitSendStep ==
  ASSUME ChatInv, NEW r \in Sends, CommitSend(r) PROVE ChatInv'
<1> USE DEF CommitSend, ChatInv
<1> DEFINE q == send[r]
           k == q.message
           new == [u \in Members |-> IF u \notin Receivers(q.by) THEN "NONE"
                                  ELSE IF u \in q.online THEN "DELIVERED" ELSE "SENT"]
<1>1. /\ k \in Messages /\ k \in 1..begun /\ q.by \in Members /\ sender[k] = Nobody
      /\ q \in SendRow /\ q.by # Nobody
  BY ChatAssumption DEF SendsAreNumbered, ChatTypeOK, SendRow, Messages
<1>2. /\ receipt' \in [Messages -> [Members -> ReceiptStatus \cup {"NONE"}]]
      /\ receipt'[k] = new
      /\ \A m \in Messages \ {k} : receipt'[m] = receipt[m]
  <2>1. new \in [Members -> ReceiptStatus \cup {"NONE"}]
    BY DEF ReceiptStatus
  <2> QED BY <1>1, <2>1 DEF ChatTypeOK
<1>3. /\ sender' \in [Messages -> Members \cup {Nobody}]
      /\ sender'[k] = q.by
      /\ \A m \in Messages \ {k} : sender'[m] = sender[m]
  BY <1>1 DEF ChatTypeOK
<1>4. /\ send' \in [Sends -> SendRow] /\ send'[r] = NotSending
      /\ \A t \in Sends \ {r} : send'[t] = send[t]
  <2>1. NotSending \in SendRow
    BY ChatAssumption DEF NotSending, SendRow
  <2> QED BY <2>1 DEF ChatTypeOK
<1>5. Receivers(q.by) = Members \ {q.by}
  BY DEF Receivers
<1>6. ChatTypeOK'
  <2>1. \A m \in Messages, u \in Members :
          receipt'[m][u] # "NONE" <=> m \in Committed' /\ sender'[m] # u
    <3> SUFFICES ASSUME NEW m \in Messages, NEW u \in Members
                 PROVE  receipt'[m][u] # "NONE" <=> sender'[m] # Nobody /\ sender'[m] # u
      BY DEF Committed
    <3>1. CASE m = k
      BY <1>1, <1>2, <1>3, <1>5, <3>1
    <3>2. CASE m # k
      BY <1>2, <1>3, <3>2 DEF ChatTypeOK, Committed
    <3> QED BY <3>1, <3>2
  <2>2. missed' \in SUBSET (Messages \X Members) /\ behind' \in SUBSET (Messages \X Members)
    BY <1>1, <1>5 DEF ChatTypeOK
  <2>3. UNCHANGED <<online, present, open, handler, begun, lastRead>>
    OBVIOUS
  <2> QED BY <1>2, <1>3, <1>4, <2>1, <2>2, <2>3 DEF ChatTypeOK
<1>7. \A u \in Members : receipt[k][u] = "NONE"
  BY <1>1 DEF ChatTypeOK, Committed
<1>8. HandlersKnowTheirUser'
  <2> SUFFICES ASSUME NEW t \in Sockets
               PROVE  /\ t \in open \/ handler[t].pc # "idle" => handler[t].user \in Members
                      /\ handler[t].pc = "delivering" =>
                           \A m \in handler[t].found : receipt'[m][handler[t].user] # "NONE"
    BY DEF HandlersKnowTheirUser
  <2>1. handler[t] \in Handler
    BY DEF ChatTypeOK
  <2> QED BY <1>2, <1>7, <2>1 DEF HandlersKnowTheirUser, Handler
<1>9. SendsAreNumbered'
  <2>1. ASSUME NEW t \in Sends, send'[t].pc # "idle"
        PROVE  /\ send'[t].message \in 1..begun
               /\ send'[t].by \in Members
               /\ sender'[send'[t].message] = Nobody
               /\ \A x \in Sends \ {t} : send'[x].pc # "idle" => send'[x].message # send'[t].message
    <3>1. t # r /\ send'[t] = send[t]
      BY <1>4, <2>1 DEF NotSending
    <3>2. send[t].message # k
      BY <2>1, <3>1 DEF SendsAreNumbered
    <3>3. send[t].message \in Messages
      BY <2>1, <3>1, ChatAssumption DEF SendsAreNumbered, ChatTypeOK, Messages
    <3>4. \A x \in Sends \ {t} : send'[x].pc # "idle" => send'[x].message # send'[t].message
      BY <1>4, <2>1, <3>1 DEF SendsAreNumbered, NotSending
    <3> QED BY <1>3, <2>1, <3>1, <3>2, <3>3, <3>4 DEF SendsAreNumbered
  <2>2. \A m \in Messages : m > begun => sender'[m] = Nobody
    BY <1>1, <1>3 DEF SendsAreNumbered, ChatTypeOK, Messages
  <2> QED BY <2>1, <2>2 DEF SendsAreNumbered
<1>10. PresenceFollowsSockets'
  BY DEF PresenceFollowsSockets
<1>11. UndeliveredIsAwaited'
  <2> SUFFICES ASSUME NEW m \in Messages, NEW u \in present,
                      receipt'[m][u] = "SENT", <<m, u>> \notin missed'
               PROVE  \E s \in Sockets : Awaits(s, u, m)
    BY DEF UndeliveredIsAwaited, Awaits
  <2>1. u \in Members
    BY DEF ChatTypeOK
  <2>2. CASE m = k
    <3>1. u \in Receivers(q.by) /\ u \notin q.online
      BY <1>2, <2>1, <2>2
    <3> QED BY <2>2, <3>1
  <2>3. CASE m # k
    BY <1>2, <2>3 DEF UndeliveredIsAwaited
  <2> QED BY <2>2, <2>3
<1>12. ReadMarkIsTrue'
  <2> SUFFICES ASSUME NEW m \in Messages, NEW u \in Members,
                      m <= lastRead[u], receipt'[m][u] \in {"SENT", "DELIVERED"}
               PROVE  <<m, u>> \in behind'
    BY DEF ReadMarkIsTrue
  <2>1. CASE m = k
    <3>1. u \in Receivers(q.by)
      BY <1>2, <2>1
    <3> QED BY <2>1, <3>1
  <2>2. CASE m # k
    BY <1>2, <2>2 DEF ReadMarkIsTrue
  <2> QED BY <2>1, <2>2
<1> QED BY <1>6, <1>8, <1>9, <1>10, <1>11, <1>12

\* Reading: nothing becomes SENT, and what is read is no longer behind the mark.
LEMMA ReadMessagesStep ==
  ASSUME ChatInv, NEW u \in Members, NEW ms \in SUBSET Messages, Read(u, ms),
         Connected, UNCHANGED <<send, begun, sender, missed>>,
         lastRead' \in [Members -> 0..MaxMessages],
         \A v \in Members \ {u} : lastRead'[v] = lastRead[v],
         \A m \in Messages \ ms : m <= lastRead'[u] => m <= lastRead[u]
  PROVE  ChatInv'
<1> USE DEF Read, Connected, ChatInv
<1>1. /\ receipt' \in [Messages -> [Members -> ReceiptStatus \cup {"NONE"}]]
      /\ \A m \in Messages, v \in Members :
           receipt'[m][v] = IF m \in ms /\ v = u /\ receipt[m][u] \in {"SENT", "DELIVERED"}
                            THEN "READ" ELSE receipt[m][v]
  BY DEF ChatTypeOK, ReceiptStatus
<1>2. \A m \in Messages, v \in Members : receipt'[m][v] = "NONE" <=> receipt[m][v] = "NONE"
  BY <1>1
<1>3. ChatTypeOK'
  <2>1. behind' \in SUBSET (Messages \X Members)
    BY DEF ChatTypeOK
  <2> QED BY <1>1, <1>2, <2>1 DEF ChatTypeOK, Committed
<1>4. HandlersKnowTheirUser'
  <2> SUFFICES ASSUME NEW t \in Sockets
               PROVE  /\ t \in open \/ handler[t].pc # "idle" => handler[t].user \in Members
                      /\ handler[t].pc = "delivering" =>
                           \A m \in handler[t].found : receipt'[m][handler[t].user] # "NONE"
    BY DEF HandlersKnowTheirUser
  <2>1. handler[t] \in Handler
    BY DEF ChatTypeOK
  <2> QED BY <1>2, <2>1 DEF HandlersKnowTheirUser, Handler
<1>5. SendsAreNumbered' /\ PresenceFollowsSockets'
  BY DEF SendsAreNumbered, PresenceFollowsSockets
<1>6. UndeliveredIsAwaited'
  <2> SUFFICES ASSUME NEW m \in Messages, NEW v \in present,
                      receipt'[m][v] = "SENT", <<m, v>> \notin missed
               PROVE  \E s \in Sockets : Awaits(s, v, m)
    BY DEF UndeliveredIsAwaited, Awaits
  <2>1. v \in Members
    BY DEF ChatTypeOK
  <2>2. receipt[m][v] = "SENT"
    BY <1>1, <2>1
  <2> QED BY <2>2 DEF UndeliveredIsAwaited
<1>7. ReadMarkIsTrue'
  <2> SUFFICES ASSUME NEW m \in Messages, NEW v \in Members,
                      m <= lastRead'[v], receipt'[m][v] \in {"SENT", "DELIVERED"}
               PROVE  <<m, v>> \in behind'
    BY DEF ReadMarkIsTrue
  <2>1. ~(m \in ms /\ v = u) /\ receipt[m][v] \in {"SENT", "DELIVERED"}
    BY <1>1
  <2>2. m <= lastRead[v]
    BY <2>1
  <2> QED BY <2>1, <2>2 DEF ReadMarkIsTrue
<1> QED BY <1>3, <1>4, <1>5, <1>6, <1>7

LEMMA MarkAsReadStep ==
  ASSUME ChatInv, NEW u \in Members, NEW m \in Messages, MarkAsRead(u, m) PROVE ChatInv'
<1> USE DEF MarkAsRead
<1>1. m \in 1..MaxMessages /\ MaxMessages \in Nat /\ lastRead \in [Members -> 0..MaxMessages]
  BY ChatAssumption DEF ChatInv, ChatTypeOK, Messages
<1>2. UpTo(m) \in SUBSET Messages
  BY <1>1 DEF UpTo, Messages
<1>3. /\ lastRead' \in [Members -> 0..MaxMessages]
      /\ \A v \in Members \ {u} : lastRead'[v] = lastRead[v]
      /\ lastRead'[u] = IF lastRead[u] < m THEN m ELSE lastRead[u]
  BY <1>1
<1>4. \A n \in Messages \ UpTo(m) : n <= lastRead'[u] => n <= lastRead[u]
  BY <1>1, <1>3 DEF UpTo, Messages
<1>5. Connected /\ UNCHANGED <<send, begun, sender, missed>>
  BY DEF Connected
<1> QED BY <1>2, <1>3, <1>4, <1>5, ReadMessagesStep

LEMMA ClearForMeStep ==
  ASSUME ChatInv, NEW u \in Members, NEW n \in 0..MaxMessages, ClearForMe(u, n) PROVE ChatInv'
<1> USE DEF ClearForMe
<1>1. /\ lastRead' \in [Members -> 0..MaxMessages]
      /\ \A v \in Members \ {u} : lastRead'[v] = lastRead[v]
  BY DEF ChatInv, ChatTypeOK
<1>2. Connected /\ UNCHANGED <<send, begun, sender, missed>>
  BY DEF Connected
<1> QED BY <1>1, <1>2, ReadMessagesStep

-----------------------------------------------------------------------------
(* The server restarts *)

LEMMA RestartStep == ASSUME ChatInv, Restart PROVE ChatInv'
<1> USE DEF Restart, ChatInv, books
<1>1. Quiet \in Handler /\ NotSending \in SendRow
  BY ChatAssumption DEF Quiet, Handler, NotSending, SendRow
<1>2. ChatTypeOK'
  BY <1>1 DEF ChatTypeOK, Committed
<1>3. HandlersKnowTheirUser' /\ SendsAreNumbered'
  BY DEF HandlersKnowTheirUser, SendsAreNumbered, Quiet, NotSending
<1>4. PresenceFollowsSockets' /\ UndeliveredIsAwaited' /\ ReadMarkIsTrue'
  BY DEF PresenceFollowsSockets, UndeliveredIsAwaited, ReadMarkIsTrue
<1> QED BY <1>2, <1>3, <1>4

-----------------------------------------------------------------------------
(* The theorems *)

LEMMA ChatNextInv == ChatInv /\ [ChatNext]_chatVars => ChatInv'
<1> SUFFICES ASSUME ChatInv, [ChatNext]_chatVars PROVE ChatInv'
  OBVIOUS
<1>1. ASSUME NEW s \in Sockets,
             Handle(s) \/ Disconnect(s) \/ ConnectionFails(s) \/ \E u \in Members : Connect(s, u)
      PROVE  ChatInv'
  BY <1>1, AdmitStep, ActivateStep, FindStep, DeliverStep, DisconnectStep, ConnectionFailsStep,
     ConnectStep DEF Handle
<1>2. ASSUME NEW r \in Sends,
             ListMembers(r) \/ CommitSend(r) \/ AbortSend(r) \/ \E u \in Members : BeginSend(r, u)
      PROVE  ChatInv'
  BY <1>2, ListMembersStep, CommitSendStep, AbortSendStep, BeginSendStep
<1>3. ASSUME NEW u \in Members, NEW m \in Messages, MarkAsRead(u, m) PROVE ChatInv'
  BY <1>3, MarkAsReadStep
<1>4. ASSUME NEW u \in Members, NEW n \in 0..MaxMessages, ClearForMe(u, n) PROVE ChatInv'
  BY <1>4, ClearForMeStep
<1>5. CASE Restart
  BY <1>5, RestartStep
<1>6. CASE UNCHANGED chatVars
  BY <1>6 DEF chatVars, ChatInv, ChatTypeOK, Committed, HandlersKnowTheirUser, SendsAreNumbered,
     PresenceFollowsSockets, UndeliveredIsAwaited, Awaits, ReadMarkIsTrue
<1> QED BY <1>1, <1>2, <1>3, <1>4, <1>5, <1>6 DEF ChatNext

\* The inductive invariant holds for any members, connections and messages: what
\* handleConnection, sendMessage, markAsRead and clearForMe rely on between awaits.
THEOREM ChatInvariance == ChatSpec => []ChatInv
BY ChatInitInv, ChatNextInv, PTL DEF ChatSpec

\* Every handler and row keeps its shape, and a message has a receipt for exactly
\* the members its sender wrote to.
THEOREM ChatTypeCorrectness == ChatSpec => []ChatTypeOK
<1>1. ChatInv => ChatTypeOK
  BY DEF ChatInv
<1> QED BY <1>1, ChatInvariance, PTL

\* However the connections of a user come and go, addUserSocket and
\* removeUserSocket keep the two presence sets together and an admitted
\* connection's user present.
THEOREM PresenceIsRight == ChatSpec => []PresenceFollowsSockets
<1>1. ChatInv => PresenceFollowsSockets
  BY DEF ChatInv
<1> QED BY <1>1, ChatInvariance, PTL

\* What handleConnection should deliver is never forgotten: SENT to a present
\* user is awaited, or was missed in one of the two ways the property names.
THEOREM NothingIsForgotten == ChatSpec => []UndeliveredIsAwaited
<1>1. ChatInv => UndeliveredIsAwaited
  BY DEF ChatInv
<1> QED BY <1>1, ChatInvariance, PTL

\* last_read_at is true of the receipts, apart from messages committed behind it
\* and deliveries that overlap a reading.
THEOREM ReadMarkHolds == ChatSpec => []ReadMarkIsTrue
<1>1. ChatInv => ReadMarkIsTrue
  BY DEF ChatInv
<1> QED BY <1>1, ChatInvariance, PTL
=============================================================================
