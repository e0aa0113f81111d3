------------------------------- MODULE Calls -------------------------------
(***************************************************************************)
(* The voice and video calls of one conversation: chat/rtc/rtc.service.ts. *)
(*                                                                         *)
(* The handlers startCall, joinCall, issueCallToken, declineCall,          *)
(* leaveCall and endCall run against each other with every await in        *)
(* between; only finishCallSession uses a transaction, for its first two   *)
(* updates.  A request is a program counter and what it has read.  What a  *)
(* handler emits to the sockets changes no state and is left out, and so   *)
(* are LiveKit's tokens and the media flags.  The members are fixed.       *)
(***************************************************************************)
EXTENDS Integers, FiniteSets

CONSTANTS
  Users,      \* the members of the conversation
  Admins,     \* those of them with the role ADMIN
  Requests,   \* requests that may be in flight together
  MaxCalls,   \* bound: calls started in the conversation
  MaxRows,    \* bound: participant rows of a user in a call
  None        \* a null reference

ASSUME CallsAssumption ==
  /\ IsFiniteSet(Users)
  /\ Admins \subseteq Users
  /\ MaxCalls \in Nat
  /\ MaxRows \in Nat
  /\ None \notin Users

VARIABLES
  direct,     \* the type of the conversation is DM, not GROUP
  call,       \* the call_sessions table
  rows,       \* the call_participants table: call, user and which row of his
  inCall,     \* the rows with left_at null
  message,    \* the status in the content of a call's CALL message
  request,    \* the requests in flight
  dropped     \* history: calls a request on which failed half way

vars == <<direct, call, rows, inCall, message, request, dropped>>

-----------------------------------------------------------------------------
(* Rows and requests *)

Calls == 1..MaxCalls     \* in the order of started_at

Participants == Calls \X Users \X (1..MaxRows)

CallRow == [status : {"NONE", "ONGOING", "ENDED"}, by : Users \cup {None}]

MessageStatus == {"NONE", "ONGOING", "ENDED", "MISSED"}

Verdicts == {"ENDED", "MISSED"}

\* fresh: the request created the call; verdict: what the card will say.
Request ==
  [pc      : {"idle", "create", "findActive", "findPrevious", "rejoin", "insert",
              "announce", "findMine", "leave", "remaining", "finish", "count",
              "finalize"},
   user    : Users \cup {None},
   call    : 0..MaxCalls,
   fresh   : BOOLEAN,
   row     : Participants \cup {None},
   reason  : {"ended", "declined", "empty_room"},
   verdict : Verdicts]

Idle ==
  [pc |-> "idle", user |-> None, call |-> 0, fresh |-> FALSE, row |-> None,
   reason |-> "ended", verdict |-> "MISSED"]

Of(table, c) == {p \in table : p[1] = c}

OfUser(table, c, u) == {p \in table : p[1] = c /\ p[2] = u}

Ongoing == {c \in Calls : call[c].status = "ONGOING"}

\* getActiveSession: the last ONGOING call started, if there is one.
Active == {c \in Ongoing : \A d \in Ongoing : d <= c}

Unused == {c \in Calls : call[c].status = "NONE"}

At(r, pc) == request[r].pc = pc

Goto(r, pc) == request' = [request EXCEPT ![r].pc = pc]

Done(r) == request' = [request EXCEPT ![r] = Idle]

\* A request of user u begins with the call it has looked up.
Enter(r, u, c, pc, fresh, reason) ==
  /\ At(r, "idle")
  /\ request' = [request EXCEPT ![r] =
       [pc |-> pc, user |-> u, call |-> c, fresh |-> fresh, row |-> None,
        reason |-> reason, verdict |-> "MISSED"]]
  /\ UNCHANGED <<direct, call, rows, inCall, message, dropped>>

-----------------------------------------------------------------------------
(* startCall and joinCall *)

\* An active call is joined, else one is created.
StartCall(r, u) ==
  \/ Active = {} /\ Enter(r, u, 0, "create", TRUE, "ended")
  \/ \E c \in Active : Enter(r, u, c, "findActive", FALSE, "ended")

CreateSession(r) ==
  \E c \in Unused :
    /\ At(r, "create")
    /\ \A d \in Unused : c <= d
    /\ call' = [call EXCEPT ![c] = [status |-> "ONGOING", by |-> request[r].user]]
    /\ request' = [request EXCEPT ![r].call = c, ![r].pc = "findActive"]
    /\ UNCHANGED <<direct, rows, inCall, message, dropped>>

\* joinCall, and issueCallToken, which does the same.
JoinCall(r, u) == \E c \in Active : Enter(r, u, c, "findActive", FALSE, "ended")

Mine(r, table) == OfUser(table, request[r].call, request[r].user)

\* upsertParticipant: who is in the call already stays as he is.
Joined(r) ==
  IF request[r].fresh THEN Goto(r, "announce") ELSE Done(r)

FindActive(r) ==
  /\ At(r, "findActive")
  /\ IF Mine(r, inCall) # {} THEN Joined(r) ELSE Goto(r, "findPrevious")
  /\ UNCHANGED <<direct, call, rows, inCall, message, dropped>>

FindPrevious(r) ==
  /\ At(r, "findPrevious")
  /\ \/ Mine(r, rows) = {} /\ Goto(r, "insert")
     \/ \E p \in Mine(r, rows) :
          request' = [request EXCEPT ![r].pc = "rejoin", ![r].row = p]
  /\ UNCHANGED <<direct, call, rows, inCall, message, dropped>>

Rejoin(r) ==
  /\ At(r, "rejoin")
  /\ inCall' = inCall \cup {request[r].row}
  /\ Joined(r)
  /\ UNCHANGED <<direct, call, rows, message, dropped>>

\* No unique index keeps a second row of the same user out.
Insert(r) ==
  \E n \in 1..MaxRows :
    LET p == <<request[r].call, request[r].user, n>>
    IN  /\ At(r, "insert")
        /\ n = Cardinality(Mine(r, rows)) + 1
        /\ rows' = rows \cup {p}
        /\ inCall' = inCall \cup {p}
        /\ Joined(r)
        /\ UNCHANGED <<direct, call, message, dropped>>

\* createCallMessage, by the request that created the call.
Announce(r) ==
  /\ At(r, "announce")
  /\ message' = [message EXCEPT ![request[r].call] = IF @ = "NONE" THEN "ONGOING" ELSE @]
  /\ Done(r)
  /\ UNCHANGED <<direct, call, rows, inCall, dropped>>

-----------------------------------------------------------------------------
(* declineCall, leaveCall and endCall *)

\* In a group a decline is only emitted.
DeclineCall(r, u) ==
  /\ direct
  /\ \E c \in Active : Enter(r, u, c, "finish", FALSE, "declined")

EndCall(r, u) ==
  \E c \in Active :
    /\ direct \/ call[c].by = u \/ u \in Admins
    /\ Enter(r, u, c, "finish", FALSE, "ended")

LeaveCall(r, u) == \E c \in Active : Enter(r, u, c, "findMine", FALSE, "empty_room")

\* markParticipantLeft
FindMine(r) ==
  /\ At(r, "findMine")
  /\ \/ Mine(r, inCall) = {} /\ Done(r)
     \/ \E p \in Mine(r, inCall) :
          request' = [request EXCEPT ![r].pc = "leave", ![r].row = p]
  /\ UNCHANGED <<direct, call, rows, inCall, message, dropped>>

Leave(r) ==
  /\ At(r, "leave")
  /\ inCall' = inCall \ {request[r].row}
  /\ Goto(r, "remaining")
  /\ UNCHANGED <<direct, call, rows, message, dropped>>

\* Who remains is read after the leave: if nobody does, the call is finished.
CountRemaining(r) ==
  /\ At(r, "remaining")
  /\ IF Of(inCall, request[r].call) = {} THEN Goto(r, "finish") ELSE Done(r)
  /\ UNCHANGED <<direct, call, rows, inCall, message, dropped>>

-----------------------------------------------------------------------------
(* finishCallSession and finalizeCallMessage *)

\* Mutant of Finish: everybody is out of a session that goes on.
FinishKeepingSession(r) ==
  /\ At(r, "finish")
  /\ inCall' = inCall \ Of(inCall, request[r].call)
  /\ Goto(r, "count")
  /\ UNCHANGED <<direct, call, rows, message, dropped>>

\* Everybody is out and the call is over, whether it was already or not.
Finish(r) ==
  LET c == request[r].call
  IN  /\ At(r, "finish")
      /\ inCall' = inCall \ Of(inCall, c)
      /\ call' = [call EXCEPT ![c].status = "ENDED"]
      /\ Goto(r, "count")
      /\ UNCHANGED <<direct, rows, message, dropped>>

\* Mutant of CountEver: off by one, a caller alone does not count as missed.
CountEverFromZero(r) ==
  LET missed == \/ request[r].reason = "declined"
                \/ Cardinality(Of(rows, request[r].call)) <= 0
  IN  /\ At(r, "count")
      /\ request' = [request EXCEPT ![r].pc = "finalize",
                       ![r].verdict = IF missed THEN "MISSED" ELSE "ENDED"]
      /\ UNCHANGED <<direct, call, rows, inCall, message, dropped>>

\* The participant rows are counted, those of the same user one by one.
CountEver(r) ==
  LET missed == \/ request[r].reason = "declined"
                \/ Cardinality(Of(rows, request[r].call)) <= 1
  IN  /\ At(r, "count")
      /\ request' = [request EXCEPT ![r].pc = "finalize",
                       ![r].verdict = IF missed THEN "MISSED" ELSE "ENDED"]
      /\ UNCHANGED <<direct, call, rows, inCall, message, dropped>>

\* Mutant of Finalize: an upsert, which creates the message of the call.
FinalizeUpserting(r) ==
  /\ At(r, "finalize")
  /\ message' = [message EXCEPT ![request[r].call] = request[r].verdict]
  /\ Done(r)
  /\ UNCHANGED <<direct, call, rows, inCall, dropped>>

\* A message that does not exist yet is not finalized.
Finalize(r) ==
  /\ At(r, "finalize")
  /\ message' = [message EXCEPT ![request[r].call] =
                   IF @ = "NONE" THEN @ ELSE request[r].verdict]
  /\ Done(r)
  /\ UNCHANGED <<direct, call, rows, inCall, dropped>>

\* A query throws or the server restarts.
Drop(r) ==
  /\ ~At(r, "idle")
  /\ dropped' = dropped \cup ({request[r].call} \cap Calls)
  /\ Done(r)
  /\ UNCHANGED <<direct, call, rows, inCall, message>>

-----------------------------------------------------------------------------
(* The specification *)

\* A direct conversation has two members.
Init ==
  /\ direct \in {d \in BOOLEAN : d => Cardinality(Users) = 2}
  /\ call = [c \in Calls |-> [status |-> "NONE", by |-> None]]
  /\ rows = {}
  /\ inCall = {}
  /\ message = [c \in Calls |-> "NONE"]
  /\ request = [r \in Requests |-> Idle]
  /\ dropped = {}

Arrive ==
  \E r \in Requests, u \in Users :
    StartCall(r, u) \/ JoinCall(r, u) \/ DeclineCall(r, u) \/ EndCall(r, u) \/ LeaveCall(r, u)

Proceed(r) ==
  \/ CreateSession(r) \/ FindActive(r) \/ FindPrevious(r) \/ Rejoin(r) \/ Insert(r)
  \/ Announce(r) \/ FindMine(r) \/ Leave(r) \/ CountRemaining(r)
  \/ Finish(r) \/ CountEver(r) \/ Finalize(r)

Next == Arrive \/ \E r \in Requests : Proceed(r) \/ Drop(r)

Spec == Init /\ [][Next]_vars

\* A handler that does not fail goes on.
FairSpec == Spec /\ \A r \in Requests : WF_vars(Proceed(r))

-----------------------------------------------------------------------------
(* Properties *)

\* Every row, message and request has the shape of the schema and the code.
TypeOK ==
  /\ direct \in BOOLEAN
  /\ call \in [Calls -> CallRow]
  /\ rows \in SUBSET Participants
  /\ inCall \in SUBSET rows
  /\ message \in [Calls -> MessageStatus]
  /\ request \in [Requests -> Request]
  /\ dropped \in SUBSET Calls

Ending(c) ==
  \E r \in Requests : request[r].call = c /\ request[r].pc \in {"remaining", "finish"}

\* A call everybody has left is being ended: the last two who leave at the same
\* time never both see the other one, unless a request failed half way.
EmptyCallIsBeingEnded ==
  \A c \in Calls \ dropped :
    call[c].status = "ONGOING" /\ Of(rows, c) # {} /\ Of(inCall, c) = {} => Ending(c)

\* The card of a call appears after its caller is in the call's books, and says
\* ENDED only when two participants are in them: late finishes and announcements
\* do not change that.
CardMatchesParticipants ==
  \A c \in Calls :
    /\ message[c] # "NONE" => OfUser(rows, c, call[c].by) # {}
    /\ message[c] = "ENDED" => \E p, q \in Of(rows, c) : p # q

\* A request under way knows its user and, once it has one, its call, which has
\* been started; the row it is about to write is a row of that user and call.
KnowsItsCall(r) ==
  LET q == request[r]
  IN  /\ q.pc # "idle" => q.user \in Users
      /\ q.pc \notin {"idle", "create"} => q.call \in Calls /\ call[q.call].status # "NONE"
      /\ q.pc \in {"rejoin", "leave"} => q.row \in Mine(r, rows)

\* Who announces a call has started it and is in its books; who counts its
\* participants has ended it, and has seen two of them before it says ENDED.
HasDoneItsPart(r) ==
  LET q == request[r]
  IN  /\ q.pc \in {"findActive", "findPrevious", "rejoin", "insert"} /\ q.fresh
           => call[q.call].by = q.user
      /\ q.pc = "announce" => OfUser(rows, q.call, call[q.call].by) # {}
      /\ q.pc \in {"count", "finalize"} => call[q.call].status = "ENDED"
      /\ q.pc = "finalize" /\ q.verdict = "ENDED"
           => \E p, s \in Of(rows, q.call) : p # s

\* A call that was not started has no participants and no card.
OnlyStartedCalls ==
  \A c \in Calls :
    call[c].status = "NONE" => Of(rows, c) = {} /\ message[c] = "NONE"

\* The inductive invariant of the proofs: the three properties above, and what
\* each request may rely on between two of its steps.
IInv ==
  /\ TypeOK
  /\ \A r \in Requests : KnowsItsCall(r) /\ HasDoneItsPart(r)
  /\ OnlyStartedCalls
  /\ EmptyCallIsBeingEnded
  /\ CardMatchesParticipants

Lifecycle == INSTANCE CallLifecycle WITH
  status <- [c \in Calls |-> call[c].status],
  card   <- message

\* Calls and their cards only go forward, however the handlers interleave.
FollowsLifecycle == Lifecycle!Spec

\* When the last participant leaves, the call ends, unless somebody joins first
\* or a request fails half way.
EmptyCallEnds ==
  \A c \in Calls :
    call[c].status = "ONGOING" /\ Of(rows, c) # {} /\ Of(inCall, c) = {}
      ~> call[c].status = "ENDED" \/ Of(inCall, c) # {} \/ c \in dropped
=============================================================================
