---------------------------- MODULE GroupMembership ----------------------------
(***************************************************************************)
(* Who belongs to a conversation and who governs it: creating, editing and *)
(* deleting conversations, adding, removing and promoting members, and     *)
(* leaving (chat/conversations/conversations.service.ts).                  *)
(*                                                                         *)
(* A request reads the membership of the one who asks, then decides, then  *)
(* writes: three steps, between which other requests run.  removeMember    *)
(* and leaveConversation do the last two in a transaction, at the          *)
(* database's default isolation, where a read sees what is committed when  *)
(* it runs.  Until it commits, removeMember holds the row it has marked,   *)
(* and whoever would write that row waits.  A refused request changes      *)
(* nothing and is no step.  Titles are left out: no two groups ask for the *)
(* same one.                                                               *)
(***************************************************************************)
EXTENDS Naturals, FiniteSets

CONSTANTS
  Conversations,  \* identifiers of conversation rows
  Users,
  Files,          \* names of avatar files
  Requests,       \* requests that may be in flight together
  MaxRequests,    \* bound on the requests of a behaviour
  None            \* no user, no file, no conversation

ASSUME GroupMembershipAssumption ==
  /\ MaxRequests \in Nat
  /\ IsFiniteSet(Users)
  /\ None \notin Conversations \cup Users \cup Files

VARIABLES
  type,     \* the type of a conversation, "NONE" without a row
  member,   \* the memberships table
  before,   \* joined_at: <<u, v>> when u joined the conversation before v
  avatar,   \* the avatar a conversation row names
  stored,   \* the avatar files in storage
  request,  \* the requests in flight
  handled,  \* the number of requests so far
  raced,    \* history: conversations written on the strength of an old read
  demoted,  \* history: conversations where a role was taken away
  edited,   \* history: direct conversations whose members were changed
  cut       \* history: conversations whose new avatar did not get stored

table == <<type, member, before>>
files == <<avatar, stored>>
history == <<raced, demoted, edited, cut>>
vars == <<type, member, before, avatar, stored, request, handled,
          raced, demoted, edited, cut>>

-----------------------------------------------------------------------------
(* Rows and requests *)

MemberRole == {"MEMBER", "ADMIN"}

\* A row with left_at stays in the table and keeps its role.
Membership == [at : {"none", "in", "left"}, role : MemberRole]

NoRow == [at |-> "none", role |-> "MEMBER"]
Joined == [at |-> "in", role |-> "MEMBER"]

\* What a request has read and will write: "to" the users it names, "new"
\* those of them without a row, "role" the role it read or gives, "heir" whom
\* it will promote, "old" the avatar it read and "file" the one it will write.
\* "fresh" until another request writes what it has read.
Request ==
  [pc    : {"idle", "create", "avatar", "update", "delete", "rejoin", "join",
            "role", "remove", "removing", "leave", "leaving"},
   row   : Conversations \cup {None},
   kind  : {"NONE", "DM", "GROUP"},
   by    : Users \cup {None},
   to    : SUBSET Users,
   new   : SUBSET Users,
   role  : MemberRole,
   heir  : Users \cup {None},
   old   : Files \cup {None},
   file  : Files \cup {None},
   fresh : BOOLEAN]

Idle ==
  [pc |-> "idle", row |-> None, kind |-> "NONE", by |-> None, to |-> {},
   new |-> {}, role |-> "MEMBER", heir |-> None, old |-> None, file |-> None,
   fresh |-> TRUE]

Rows(c) == {u \in Users : member[c][u].at # "none"}
Active(c) == {u \in Users : member[c][u].at = "in"}
\* getGroupMembers, asked for a role.
Members(c, role) == {u \in Active(c) : member[c][u].role = role}

\* Those of a set with the earliest joined_at; members added together tie.
Earliest(c, U) == {u \in U : \A v \in U : <<v, u>> \notin before[c]}

\* promoteNextGroupAdmin's choice: an active member who is not excluded.
Heirs(c, excluded) ==
  LET U == Active(c) \ excluded
  IN  IF U = {} THEN {None} ELSE Earliest(c, U)

\* A new file's name is in no row, no request and not in storage.
IsNew(f) ==
  /\ f \notin stored
  /\ \A c \in Conversations : avatar[c] # f
  /\ \A q \in Requests : f \notin {request[q].old, request[q].file}

\* A removal has marked the row and its transaction is open.
Held(c, u) ==
  \E q \in Requests :
    request[q].pc = "removing" /\ request[q].row = c /\ u \in request[q].to

Start(r, req) ==
  /\ request[r] = Idle /\ handled < MaxRequests
  /\ request' = [request EXCEPT ![r] = req]
  /\ handled' = handled + 1

GoesOn(r, req) ==
  /\ request' = [request EXCEPT ![r] = req]
  /\ UNCHANGED handled

\* Request r writes conversation c and goes on as "next": what the others have
\* read of c, or of all conversations, is old from now on.
Writes(r, c, next) ==
  /\ request' = [q \in Requests |->
       IF q = r THEN next
       ELSE IF request[q] # Idle /\ request[q].row \in {c, None}
            THEN [request[q] EXCEPT !.fresh = FALSE]
            ELSE request[q]]
  /\ raced' = IF request[r].fresh THEN raced ELSE raced \cup {c}
  /\ UNCHANGED handled

\* A query throws, a row it needs is gone, or the server restarts.
Abort(r) ==
  /\ request[r] # Idle
  /\ GoesOn(r, Idle)
  /\ cut' = IF request[r].pc = "update" THEN cut \cup {request[r].row} ELSE cut
  /\ UNCHANGED <<table, files, raced, demoted, edited>>

-----------------------------------------------------------------------------
(* Creating, editing and deleting *)

\* Mutant of Direct: only those that the one who asks has opened.
DirectOfOwn(u, v) ==
  {c \in Conversations : type[c] = "DM" /\ u \in Members(c, "ADMIN") /\ v \in Active(c)}

\* createConversation's search for a direct conversation of the two.
Direct(u, v) ==
  {c \in Conversations : type[c] = "DM" /\ {u, v} \subseteq Active(c)}

ReadCreate(r, u, U, kind) ==
  /\ U # {} /\ u \notin U
  /\ kind = "DM" => \E v \in Users : U = {v} /\ Direct(u, v) = {}
  /\ Start(r, [Idle EXCEPT !.pc = "create", !.by = u, !.to = U, !.kind = kind])
  /\ UNCHANGED <<table, files, history>>

\* The avatar f of a group, if any, was stored before the search.
Create(r, c, f) ==
  LET u == request[r].by
      U == request[r].to
  IN  /\ request[r].pc = "create"
      /\ type[c] = "NONE" /\ \A q \in Requests : request[q].row # c
      /\ f # None => request[r].kind = "GROUP" /\ IsNew(f)
      /\ type' = [type EXCEPT ![c] = request[r].kind]
      /\ member' = [member EXCEPT ![c] =
           [v \in Users |-> IF v = u THEN [Joined EXCEPT !.role = "ADMIN"]
                            ELSE IF v \in U THEN Joined ELSE NoRow]]
      /\ avatar' = [avatar EXCEPT ![c] = f]
      /\ stored' = stored \cup ({f} \ {None})
      /\ Writes(r, c, Idle)
      /\ UNCHANGED <<before, demoted, edited, cut>>

\* updateConversation, by any active member; f is the new avatar, if any.
ReadUpdate(r, c, u, f) ==
  /\ type[c] = "GROUP" /\ u \in Active(c)
  /\ f # None => IsNew(f)
  /\ Start(r, [Idle EXCEPT !.pc = IF f = None THEN "update" ELSE "avatar",
                           !.row = c, !.old = IF f = None THEN None ELSE avatar[c],
                           !.file = IF f = None THEN avatar[c] ELSE f])
  /\ UNCHANGED <<table, files, history>>

\* The old file goes before the new one is put; when that fails the request
\* is refused, and the row still names the old file.
ReplaceAvatar(r) ==
  /\ request[r].pc = "avatar"
  /\ \/ /\ stored' = (stored \ {request[r].old}) \cup {request[r].file}
        /\ GoesOn(r, [request[r] EXCEPT !.pc = "update", !.old = None])
        /\ UNCHANGED cut
     \/ /\ stored' = stored \ {request[r].old}
        /\ GoesOn(r, Idle)
        /\ cut' = cut \cup {request[r].row}
  /\ UNCHANGED <<table, avatar, raced, demoted, edited>>

\* Mutant of Update: the row keeps the avatar it has.
UpdateTitleOnly(r) ==
  LET c == request[r].row
  IN  /\ request[r].pc = "update" /\ type[c] # "NONE"
      /\ Writes(r, c, Idle)
      /\ UNCHANGED <<table, files, demoted, edited, cut>>

Update(r) ==
  LET c == request[r].row
  IN  /\ request[r].pc = "update" /\ type[c] # "NONE"
      /\ avatar' = [avatar EXCEPT ![c] = request[r].file]
      /\ Writes(r, c, Idle)
      /\ UNCHANGED <<table, stored, demoted, edited, cut>>

\* The memberships go with the row; the avatar's file stays in storage.
Drop(r, c) ==
  /\ type' = [type EXCEPT ![c] = "NONE"]
  /\ member' = [member EXCEPT ![c] = [u \in Users |-> NoRow]]
  /\ before' = [before EXCEPT ![c] = {}]
  /\ avatar' = [avatar EXCEPT ![c] = None]
  /\ GoesOn(r, Idle)
  /\ raced' = raced \ {c} /\ demoted' = demoted \ {c}
  /\ edited' = edited \ {c} /\ cut' = cut \ {c}
  /\ UNCHANGED stored

ReadDelete(r, c, u) ==
  /\ u \in Active(c)
  /\ type[c] = "GROUP" => u \in Members(c, "ADMIN")
  /\ Start(r, [Idle EXCEPT !.pc = "delete", !.row = c, !.by = u])
  /\ UNCHANGED <<table, files, history>>

Delete(r) ==
  LET c == request[r].row
  IN  /\ request[r].pc = "delete" /\ type[c] # "NONE"
      /\ \A u \in Users : ~Held(c, u)
      /\ Drop(r, c)

-----------------------------------------------------------------------------
(* Adding members and giving roles *)

\* addMembers reads which of U have a row: those who left are to return,
\* those without one to join; members are passed over.
ReadAdd(r, c, u, U) ==
  LET back == {v \in U : member[c][v].at = "left"}
      new == U \ Rows(c)
  IN  /\ u \in Members(c, "ADMIN") /\ u \notin U
      /\ back \cup new # {}
      /\ Start(r, [Idle EXCEPT !.pc = IF back = {} THEN "join" ELSE "rejoin",
                               !.row = c, !.to = back, !.new = new])
      /\ UNCHANGED <<table, files, history>>

Edits(c) ==
  edited' = IF type[c] = "DM" THEN edited \cup {c} ELSE edited

\* updateMany, by the ids of the rows it read, whatever has become of them.
Rejoin(r) ==
  LET c == request[r].row
      U == request[r].to
  IN  /\ request[r].pc = "rejoin" /\ type[c] # "NONE"
      /\ \A u \in U : ~Held(c, u)
      /\ member' = [member EXCEPT ![c] =
           [u \in Users |-> IF u \in U THEN Joined ELSE @[u]]]
      /\ before' = [before EXCEPT ![c] =
           {p \in @ : p[1] \notin U /\ p[2] \notin U} \cup ((Rows(c) \ U) \X U)]
      /\ Edits(c)
      /\ Writes(r, c, IF request[r].new = {} THEN Idle ELSE [request[r] EXCEPT !.pc = "join", !.to = {}])
      /\ UNCHANGED <<type, files, demoted, cut>>

\* createMany with skipDuplicates.
Join(r) ==
  LET c == request[r].row
      U == request[r].new \ Rows(c)
  IN  /\ request[r].pc = "join" /\ type[c] # "NONE"
      /\ member' = [member EXCEPT ![c] =
           [u \in Users |-> IF u \in U THEN Joined ELSE @[u]]]
      /\ before' = [before EXCEPT ![c] = @ \cup (Rows(c) \X U)]
      /\ Edits(c)
      /\ Writes(r, c, Idle)
      /\ UNCHANGED <<type, files, demoted, cut>>

\* updateMemberRole: the row may be one's own, or of someone who has left.
ReadRole(r, c, u, v, role) ==
  /\ u \in Members(c, "ADMIN") /\ v \in Rows(c)
  /\ Start(r, [Idle EXCEPT !.pc = "role", !.row = c, !.to = {v}, !.role = role])
  /\ UNCHANGED <<table, files, history>>

WriteRole(r) ==
  LET c == request[r].row
  IN  /\ request[r].pc = "role" /\ type[c] # "NONE"
      /\ \A v \in request[r].to :
           /\ ~Held(c, v)
           /\ member' = [member EXCEPT ![c][v].role = request[r].role]
           /\ demoted' = IF v \in Members(c, "ADMIN") /\ request[r].role = "MEMBER"
                         THEN demoted \cup {c} ELSE demoted
      /\ Writes(r, c, Idle)
      /\ UNCHANGED <<type, before, files, edited, cut>>

-----------------------------------------------------------------------------
(* Removing members and leaving *)

\* Mutant of Successors: whoever goes, an admin is looked for among all.
SuccessorsOfAnyone(c, role, excluded) ==
  IF role = "MEMBER" THEN Heirs(c, {}) ELSE {None}

\* When an admin goes and no other one is seen, the earliest member takes over.
Successors(c, role, excluded) ==
  IF role = "ADMIN" /\ Members(c, "ADMIN") \subseteq excluded
  THEN Heirs(c, excluded) ELSE {None}

Promoted(M, heir) ==
  IF heir = None THEN M ELSE [M EXCEPT ![heir].role = "ADMIN"]

Gone(M, U) == [u \in Users |-> IF u \in U THEN [M[u] EXCEPT !.at = "left"] ELSE M[u]]

\* removeMember reads the two memberships,
ReadRemove(r, c, u, v) ==
  /\ u \in Members(c, "ADMIN") /\ v \in Active(c) /\ u # v
  /\ Start(r, [Idle EXCEPT !.pc = "remove", !.row = c, !.by = u, !.to = {v},
                           !.role = member[c][v].role])
  /\ UNCHANGED <<table, files, history>>

\* marks the row and looks who takes over, the one who asks left out,
FindSuccessor(r) ==
  LET c == request[r].row
      U == request[r].to
  IN  /\ request[r].pc = "remove" /\ type[c] # "NONE"
      /\ \A v \in U : ~Held(c, v)
      /\ \E heir \in Successors(c, request[r].role, U \cup {request[r].by}) :
           GoesOn(r, [request[r] EXCEPT !.pc = "removing", !.role = "MEMBER", !.heir = heir])
      /\ UNCHANGED <<table, files, history>>

\* and commits.
Remove(r) ==
  LET c == request[r].row
  IN  /\ request[r].pc = "removing" /\ type[c] # "NONE"
      /\ member' = [member EXCEPT ![c] =
           Gone(Promoted(@, request[r].heir), request[r].to)]
      /\ Edits(c)
      /\ Writes(r, c, Idle)
      /\ UNCHANGED <<type, before, files, demoted, cut>>

\* leaveConversation reads one's own membership,
ReadLeave(r, c, u) ==
  /\ type[c] = "GROUP" /\ u \in Active(c)
  /\ Start(r, [Idle EXCEPT !.pc = "leave", !.row = c, !.by = u, !.role = member[c][u].role])
  /\ UNCHANGED <<table, files, history>>

\* Mutant of LeaveLast: the one who leaves is not counted.
LeaveLastOfTwo(r) ==
  LET c == request[r].row
  IN  /\ request[r].pc = "leave" /\ type[c] # "NONE"
      /\ Cardinality(Active(c)) - 1 <= 1
      /\ \A u \in Users : ~Held(c, u)
      /\ Drop(r, c)

\* deletes the conversation of the last member, whoever that is by now,
LeaveLast(r) ==
  LET c == request[r].row
  IN  /\ request[r].pc = "leave" /\ type[c] # "NONE"
      /\ Cardinality(Active(c)) <= 1
      /\ \A u \in Users : ~Held(c, u)
      /\ Drop(r, c)

\* or looks who takes over
FindHeir(r) ==
  LET c == request[r].row
  IN  /\ request[r].pc = "leave" /\ type[c] # "NONE"
      /\ Cardinality(Active(c)) > 1
      /\ \E heir \in Successors(c, request[r].role, {request[r].by}) :
           GoesOn(r, [request[r] EXCEPT !.pc = "leaving", !.role = "MEMBER", !.heir = heir])
      /\ UNCHANGED <<table, files, history>>

\* and commits.
Leave(r) ==
  LET c == request[r].row
      u == request[r].by
  IN  /\ request[r].pc = "leaving" /\ type[c] # "NONE"
      /\ ~Held(c, u)
      /\ member' = [member EXCEPT ![c] = Gone(Promoted(@, request[r].heir), {u})]
      /\ Writes(r, c, Idle)
      /\ UNCHANGED <<type, before, files, demoted, edited, cut>>

-----------------------------------------------------------------------------
(* What is shown *)

\* getMyConversations: the list of the conversations a user is in.
MyConversations(u) == {c \in Conversations : u \in Active(c)}

\* getConversation: the other member whose name a direct conversation bears,
\* any of them when there are several.
Participants(c, u) ==
  IF Active(c) = {u} THEN {None} ELSE Active(c) \ {u}

-----------------------------------------------------------------------------
(* The system *)

Init ==
  /\ type = [c \in Conversations |-> "NONE"]
  /\ member = [c \in Conversations |-> [u \in Users |-> NoRow]]
  /\ before = [c \in Conversations |-> {}]
  /\ avatar = [c \in Conversations |-> None]
  /\ stored = {}
  /\ request = [r \in Requests |-> Idle]
  /\ handled = 0
  /\ raced = {} /\ demoted = {} /\ edited = {} /\ cut = {}

Read(r) ==
  \/ \E u \in Users, U \in SUBSET Users, kind \in {"DM", "GROUP"} :
       ReadCreate(r, u, U, kind)
  \/ \E c \in Conversations, u \in Users :
       \/ \E f \in Files \cup {None} : ReadUpdate(r, c, u, f)
       \/ ReadDelete(r, c, u)
       \/ \E U \in SUBSET Users : ReadAdd(r, c, u, U)
       \/ \E v \in Users, role \in MemberRole : ReadRole(r, c, u, v, role)
       \/ \E v \in Users : ReadRemove(r, c, u, v)
       \/ ReadLeave(r, c, u)

Proceed(r) ==
  \/ \E c \in Conversations, f \in Files \cup {None} : Create(r, c, f)
  \/ ReplaceAvatar(r)
  \/ Update(r)
  \/ Delete(r)
  \/ Rejoin(r)
  \/ Join(r)
  \/ WriteRole(r)
  \/ FindSuccessor(r)
  \/ Remove(r)
  \/ LeaveLast(r)
  \/ FindHeir(r)
  \/ Leave(r)

Next == \E r \in Requests : Read(r) \/ Proceed(r) \/ Abort(r)

Spec == Init /\ [][Next]_vars

-----------------------------------------------------------------------------
(* Properties *)

\* The type invariant; a membership's conversation exists, and who has no
\* membership has no joined_at.
TypeOK ==
  /\ type \in [Conversations -> {"NONE", "DM", "GROUP"}]
  /\ member \in [Conversations -> [Users -> Membership]]
  /\ before \in [Conversations -> SUBSET (Users \X Users)]
  /\ \A c \in Conversations :
       /\ before[c] \subseteq Rows(c) \X Rows(c)
       /\ type[c] = "NONE" => Rows(c) = {}
  /\ avatar \in [Conversations -> Files \cup {None}]
  /\ stored \subseteq Files
  /\ request \in [Requests -> Request]
  /\ handled \in 0..MaxRequests
  /\ \A H \in {raced, demoted, edited, cut} : H \subseteq Conversations

\* A conversation has an active admin through any sequence of additions,
\* removals, departures and returns, unless someone took the role from an
\* admin (updateMemberRole asks nothing about the last one) or a request
\* wrote what another had overtaken: two admins who leave together, an admin
\* made by a departure who leaves as the member he was, a returning member
\* who is added again after he became an admin.
AdminRemains ==
  \A c \in Conversations \ (raced \cup demoted) :
    type[c] # "NONE" => Members(c, "ADMIN") # {}

\* A group goes only when an admin deletes it or its last member leaves it;
\* leaveConversation deletes it from under another member only when that
\* departure was overtaken by the removal of the one who leaves.
NobodyLosesTheGroup ==
  [][\A c \in Conversations : type[c] = "GROUP" /\ type'[c] = "NONE" =>
       \E r \in Requests :
         /\ request[r].row = c /\ request'[r] = Idle
         /\ \/ Active(c) \subseteq {request[r].by}
            \/ request[r].pc = "delete" /\ request[r].by \in Members(c, "ADMIN")
            \/ ~request[r].fresh]_vars

\* A user finds one direct conversation with each other user, and who it is
\* with, however often it is asked for, unless it was asked for twice at the
\* same time (the unique dm_key is never set) or members were added to or
\* removed from a direct conversation, which addMembers and removeMember allow.
OneDirectPerPair ==
  \A u \in Users :
    LET mine == {c \in MyConversations(u) \ (raced \cup edited) : type[c] = "DM"}
    IN  /\ \A c \in mine : Cardinality(Participants(c, u) \cap Users) = 1
        /\ \A c, d \in mine : Participants(c, u) = Participants(d, u) => c = d

\* The avatar a conversation names is in storage, unless a new one could not
\* be stored, or a request that had read the old name wrote it back.
AvatarIsStored ==
  \A c \in Conversations \ (raced \cup cut) :
    avatar[c] \in stored \cup {None}
    \/ \E r \in Requests : request[r].row = c /\ request[r].pc = "update"
-----------------------------------------------------------------------------
(* The inductive invariant of the proofs *)

\* A request has what it asks for, and a departure is one from a group.
RequestIsSound(r) ==
  LET q == request[r]
  IN  /\ q.pc = "idle" => q = Idle
      /\ q.pc \notin {"idle", "create"} => q.row \in Conversations
      /\ q.pc = "create" => /\ q.row = None /\ q.kind # "NONE"
                            /\ q.by \in Users \ q.to
                            /\ q.kind = "DM" => \E v \in Users : q.to = {v}
      /\ q.pc \in {"role", "remove", "removing"} => \E v \in Users : q.to = {v}
      /\ q.pc \in {"remove", "removing"} => q.by \in Users \ q.to
      /\ q.pc \in {"leave", "leaving"} => /\ q.by \in Users
                                          /\ type[q.row] \in {"NONE", "GROUP"}
      /\ q.pc = "avatar" => q.file # None
      /\ q.pc \notin {"avatar", "update"} => {q.old, q.file} = {None}

\* What a request that is still fresh has read is still so: no direct
\* conversation of the two, an admin who asks, members who left, a role.
KnowsTheTable(r) ==
  LET q == request[r]
      c == q.row
  IN  q.fresh =>
        /\ q.pc = "create" /\ q.kind = "DM" => \A v \in q.to : Direct(q.by, v) = {}
        /\ q.pc # "idle" /\ q.pc # "create" /\ type[c] # "NONE" =>
             /\ q.pc = "delete" /\ type[c] = "GROUP" => q.by \in Members(c, "ADMIN")
             /\ q.pc = "rejoin" => \A u \in q.to : member[c][u].at = "left"
             /\ q.pc \in {"remove", "removing"} => q.by \in Members(c, "ADMIN")
             /\ q.pc = "leave" => q.by \in Active(c) /\ member[c][q.by].role = q.role
             /\ q.pc = "leaving" /\ c \notin raced \cup demoted =>
                  \E u \in Active(c) \ {q.by} : u = q.heir \/ u \in Members(c, "ADMIN")

\* Another request is about to write a new avatar's name into c.
Renaming(c, r) ==
  \E q \in Requests \ {r} : request[q].pc = "update" /\ request[q].row = c

\* The name a fresh update will write is that of a stored file, or another
\* update comes to write after it.
KnowsItsFile(r) ==
  LET c == request[r].row
  IN  request[r].pc = "update" /\ request[r].fresh /\ type[c] # "NONE"
        /\ c \notin raced \cup cut =>
      request[r].file \in stored \cup {None} \/ Renaming(c, r)

\* No file is named by two conversations, or by the requests of two.
FilesAreOwn ==
  /\ \A c, d \in Conversations : c # d /\ avatar[c] # None => avatar[c] # avatar[d]
  /\ \A r \in Requests, c \in Conversations :
       request[r].row # c /\ avatar[c] # None =>
         avatar[c] \notin {request[r].old, request[r].file}
  /\ \A r, q \in Requests :
       request[r].row # request[q].row =>
         {request[r].old, request[r].file} \cap {request[q].old, request[q].file} \subseteq {None}

\* Two users are in a direct conversation whose members nobody changed,
DirectsHaveTwo ==
  \A c \in Conversations \ edited : type[c] = "DM" =>
    \E u, v \in Users : u # v /\ Active(c) = {u, v}

\* and no other two have the same.
DirectsDiffer ==
  \A c, d \in Conversations \ (raced \cup edited) :
    type[c] = "DM" /\ type[d] = "DM" /\ Active(c) = Active(d) => c = d

IInv ==
  /\ TypeOK
  /\ AdminRemains
  /\ DirectsHaveTwo
  /\ DirectsDiffer
  /\ FilesAreOwn
  /\ AvatarIsStored
  /\ \A r \in Requests : RequestIsSound(r) /\ KnowsTheTable(r) /\ KnowsItsFile(r)
=============================================================================
