------------------------- MODULE GroupMembershipProofs -------------------------
(***************************************************************************)
(* Proofs about GroupMembership, for any conversations, users, files and   *)
(* requests.  IInv says what a request that is still fresh knows; a write  *)
(* to a conversation makes the others on it stale, so that what the rest   *)
(* know is about rows the write leaves alone.                              *)
(***************************************************************************)
EXTENDS GroupMembership, FiniteSetTheorems, TLAPS

\* The fields of a request in flight have their types.
LEMMA RequestFields ==
  ASSUME TypeOK, NEW r \in Requests
  PROVE  /\ request[r] \in Request
         /\ request[r].row \in Conversations \cup {None}
         /\ request[r].by \in Users \cup {None}
         /\ request[r].to \in SUBSET Users
         /\ request[r].new \in SUBSET Users
         /\ request[r].role \in MemberRole
         /\ request[r].heir \in Users \cup {None}
         /\ request[r].old \in Files \cup {None}
         /\ request[r].file \in Files \cup {None}
         /\ request[r].fresh \in BOOLEAN
<1>1. request[r] \in Request
  BY DEF TypeOK
<1> QED
  BY <1>1 DEF Request

\* The request that starts or goes on is replaced, and no other.
LEMMA OneRequest ==
  ASSUME TypeOK, NEW r \in Requests, NEW req, request' = [request EXCEPT ![r] = req]
  PROVE  /\ request'[r] = req
         /\ \A q \in Requests \ {r} : request'[q] = request[q]
BY DEF TypeOK

\* A write to c makes the others stale that know c, or all conversations.
LEMMA OthersStay ==
  ASSUME TypeOK, NEW r \in Requests, NEW c \in Conversations, NEW next \in Request,
         Writes(r, c, next)
  PROVE  /\ request' \in [Requests -> Request]
         /\ request'[r] = next
         /\ \A q \in Requests \ {r} :
              /\ request'[q].pc = request[q].pc /\ request'[q].row = request[q].row
              /\ request'[q].kind = request[q].kind /\ request'[q].by = request[q].by
              /\ request'[q].to = request[q].to /\ request'[q].role = request[q].role
              /\ request'[q].heir = request[q].heir /\ request'[q].old = request[q].old
              /\ request'[q].file = request[q].file
              /\ request[q] = Idle => request'[q] = Idle
              /\ request'[q].fresh /\ request[q] # Idle =>
                   request[q].fresh /\ request[q].row \notin {c, None}
         /\ raced \subseteq raced' /\ raced' \subseteq raced \cup {c}
         /\ ~request[r].fresh => c \in raced'
         /\ handled' = handled
<1>1. \A q \in Requests : request[q] \in Request
  BY DEF TypeOK
<1>2. \A q \in Requests : request'[q] =
        IF q = r THEN next
        ELSE IF request[q] # Idle /\ request[q].row \in {c, None}
             THEN [request[q] EXCEPT !.fresh = FALSE]
             ELSE request[q]
  BY DEF Writes
<1>3. \A q \in Requests : [request[q] EXCEPT !.fresh = FALSE] \in Request
  <2>1. \A req \in Request : [req EXCEPT !.fresh = FALSE] \in Request
    BY DEF Request
  <2> QED
    BY <1>1, <2>1
<1>4. request' \in [Requests -> Request]
  <2>1. \A q \in Requests : request'[q] \in Request
    BY <1>1, <1>2, <1>3
  <2>2. request' = [q \in Requests |-> request'[q]]
    BY DEF Writes
  <2> QED
    BY <2>1, <2>2
<1>5. request'[r] = next
  BY <1>2
<1>6. ASSUME NEW q \in Requests \ {r}
      PROVE  /\ request'[q].pc = request[q].pc /\ request'[q].row = request[q].row
             /\ request'[q].kind = request[q].kind /\ request'[q].by = request[q].by
             /\ request'[q].to = request[q].to /\ request'[q].role = request[q].role
             /\ request'[q].heir = request[q].heir /\ request'[q].old = request[q].old
             /\ request'[q].file = request[q].file
             /\ request[q] = Idle => request'[q] = Idle
             /\ request'[q].fresh /\ request[q] # Idle =>
                  request[q].fresh /\ request[q].row \notin {c, None}
  <2>1. CASE request[q] # Idle /\ request[q].row \in {c, None}
    <3>1. request'[q] = [request[q] EXCEPT !.fresh = FALSE]
      BY <1>2, <2>1
    <3> QED
      BY <1>1, <2>1, <3>1 DEF Request
  <2>2. CASE ~(request[q] # Idle /\ request[q].row \in {c, None})
    BY <1>2, <2>2
  <2> QED
    BY <2>1, <2>2
<1>7. raced \subseteq raced' /\ raced' \subseteq raced \cup {c} /\ (~request[r].fresh => c \in raced')
  BY DEF Writes
<1>8. handled' = handled
  BY DEF Writes
<1> QED
  BY <1>4, <1>5, <1>6, <1>7, <1>8

-----------------------------------------------------------------------------
(* Steps that change a request only *)

\* What a request knows stays true while neither it nor the table changes.
LEMMA TheTableIsKept ==
  ASSUME UNCHANGED <<table, raced, demoted>>, NEW q \in Requests,
         request'[q] = request[q], KnowsTheTable(q)
  PROVE  KnowsTheTable(q)'
<1> USE DEF table
<1>1. \A u, v : Direct(u, v)' = Direct(u, v)
  BY DEF Direct, Active
<1>2. \A c : Active(c)' = Active(c) /\ Members(c, "ADMIN")' = Members(c, "ADMIN")
  BY DEF Members, Active
<1> QED
  BY <1>1, <1>2 DEF KnowsTheTable

\* Reads, and looking for a successor: what the others know is untouched.
LEMMA OnlyTheRequest ==
  ASSUME IInv, NEW r \in Requests, NEW req \in Request,
         request' = [request EXCEPT ![r] = req], handled' \in 0..MaxRequests,
         UNCHANGED <<table, files, history>>, request[r].pc # "update",
         RequestIsSound(r)', KnowsTheTable(r)', KnowsItsFile(r)', FilesAreOwn'
  PROVE  IInv'
<1> USE DEF table, files, history
<1>1. /\ request'[r] = req
      /\ \A q \in Requests \ {r} : request'[q] = request[q]
  BY OneRequest DEF IInv
<1>2. TypeOK'
  BY DEF IInv, TypeOK, Rows
<1>3. AdminRemains' /\ DirectsHaveTwo' /\ DirectsDiffer'
  BY DEF IInv, AdminRemains, DirectsHaveTwo, DirectsDiffer, Members, Active
<1>4. AvatarIsStored'
  BY <1>1 DEF IInv, AvatarIsStored
<1>5. ASSUME NEW q \in Requests
      PROVE  RequestIsSound(q)' /\ KnowsTheTable(q)' /\ KnowsItsFile(q)'
  <2>1. CASE q = r
    BY <2>1
  <2>2. CASE q # r
    <3>1. request'[q] = request[q]
      BY <1>1, <2>2
    <3>2. RequestIsSound(q)'
      BY <3>1 DEF IInv, RequestIsSound
    <3>3. KnowsTheTable(q)'
      BY <3>1, TheTableIsKept DEF IInv
    <3>4. KnowsItsFile(q)'
      BY <1>1, <3>1 DEF IInv, KnowsItsFile, Renaming
    <3> QED
      BY <3>2, <3>3, <3>4
  <2> QED
    BY <2>1, <2>2
<1> QED
  BY <1>2, <1>3, <1>4, <1>5 DEF IInv

\* A request without files of its own takes none from the others.
LEMMA FilesOfNone ==
  ASSUME IInv, NEW r \in Requests, NEW req \in Request,
         request' = [request EXCEPT ![r] = req], req.old = None, req.file = None,
         UNCHANGED avatar
  PROVE  FilesAreOwn'
<1>1. /\ request'[r] = req
      /\ \A q \in Requests \ {r} : request'[q] = request[q]
  BY OneRequest DEF IInv
<1> QED
  BY <1>1 DEF IInv, FilesAreOwn

LEMMA ReadCreateStep ==
  ASSUME IInv, NEW r \in Requests, NEW u \in Users, NEW U \in SUBSET Users,
         NEW kind \in {"DM", "GROUP"}, ReadCreate(r, u, U, kind)
  PROVE  IInv'
<1> DEFINE req == [Idle EXCEPT !.pc = "create", !.by = u, !.to = U, !.kind = kind]
<1>1. req \in Request
  BY DEF Idle, Request, MemberRole
<1>2. /\ request' = [request EXCEPT ![r] = req] /\ handled' \in 0..MaxRequests
      /\ request[r].pc # "update" /\ UNCHANGED <<table, files, history>>
  BY GroupMembershipAssumption DEF ReadCreate, Start, Idle, IInv, TypeOK
<1>3. request'[r] = req
  BY <1>2 DEF IInv, TypeOK
<1>4. /\ req.pc = "create" /\ req.row = None /\ req.kind = kind /\ req.by = u /\ req.to = U
      /\ req.old = None /\ req.file = None
  BY DEF Idle
<1> HIDE DEF req
<1>5. RequestIsSound(r)'
  BY <1>3, <1>4 DEF RequestIsSound, ReadCreate
<1>6. KnowsTheTable(r)'
  BY <1>2, <1>3, <1>4 DEF KnowsTheTable, ReadCreate, Direct, Active, table
<1>7. KnowsItsFile(r)'
  BY <1>3, <1>4 DEF KnowsItsFile
<1>8. FilesAreOwn'
  BY FilesOfNone, <1>1, <1>2, <1>4 DEF files
<1> QED
  BY OnlyTheRequest, <1>1, <1>2, <1>5, <1>6, <1>7, <1>8

\* The other reads, of a conversation, that touch no file.
LEMMA PlainReading ==
  ASSUME IInv, NEW r \in Requests, NEW c \in Conversations, NEW req \in Request,
         request' = [request EXCEPT ![r] = req], handled' \in 0..MaxRequests,
         UNCHANGED <<table, files, history>>, request[r].pc # "update",
         req.row = c, req.old = None, req.file = None,
         req.pc \in {"delete", "rejoin", "join", "role", "remove", "removing", "leave", "leaving"},
         req.pc \in {"role", "remove", "removing"} => \E v \in Users : req.to = {v},
         req.pc \in {"remove", "removing"} => req.by \in Users \ req.to,
         req.pc \in {"leave", "leaving"} => req.by \in Users /\ type[c] = "GROUP",
         req.fresh /\ type[c] # "NONE" =>
             /\ req.pc = "delete" /\ type[c] = "GROUP" => req.by \in Members(c, "ADMIN")
             /\ req.pc = "rejoin" => \A u \in req.to : member[c][u].at = "left"
             /\ req.pc \in {"remove", "removing"} => req.by \in Members(c, "ADMIN")
             /\ req.pc = "leave" => req.by \in Active(c) /\ member[c][req.by].role = req.role
             /\ req.pc = "leaving" /\ c \notin raced \cup demoted =>
                  \E u \in Active(c) \ {req.by} : u = req.heir \/ u \in Members(c, "ADMIN")
  PROVE  IInv'
<1>1. request'[r] = req
  BY OneRequest DEF IInv
<1>2. RequestIsSound(r)'
  BY <1>1 DEF RequestIsSound, table
<1>3. KnowsTheTable(r)'
  <2>1. type' = type /\ member' = member /\ raced' = raced /\ demoted' = demoted
    BY DEF table, history
  <2> QED
    BY <1>1, <2>1 DEF KnowsTheTable, Members, Active
<1>4. KnowsItsFile(r)'
  BY <1>1 DEF KnowsItsFile
<1>5. FilesAreOwn'
  BY FilesOfNone DEF files
<1> QED
  BY OnlyTheRequest, <1>2, <1>3, <1>4, <1>5

\* What every Start has in common.
LEMMA Started ==
  ASSUME IInv, NEW r \in Requests, NEW req, Start(r, req)
  PROVE  /\ request' = [request EXCEPT ![r] = req]
         /\ handled' \in 0..MaxRequests
         /\ request[r] = Idle /\ request[r].pc # "update"
BY GroupMembershipAssumption DEF Start, Idle, IInv, TypeOK

LEMMA ReadDeleteStep ==
  ASSUME IInv, NEW r \in Requests, NEW c \in Conversations, NEW u \in Users,
         ReadDelete(r, c, u)
  PROVE  IInv'
<1> DEFINE req == [Idle EXCEPT !.pc = "delete", !.row = c, !.by = u]
<1>1. req \in Request
  BY DEF Idle, Request, MemberRole
<1>2. UNCHANGED <<table, files, history>> /\ Start(r, req)
  BY DEF ReadDelete
<1>3. /\ req.pc = "delete" /\ req.row = c /\ req.by = u
      /\ req.old = None /\ req.file = None
  BY DEF Idle
<1> HIDE DEF req
<1> QED
  BY PlainReading, Started, <1>1, <1>2, <1>3 DEF ReadDelete

LEMMA ReadAddStep ==
  ASSUME IInv, NEW r \in Requests, NEW c \in Conversations, NEW u \in Users,
         NEW U \in SUBSET Users, ReadAdd(r, c, u, U)
  PROVE  IInv'
<1> DEFINE back == {v \in U : member[c][v].at = "left"}
           new == U \ Rows(c)
           req == [Idle EXCEPT !.pc = IF back = {} THEN "join" ELSE "rejoin",
                               !.row = c, !.to = back, !.new = new]
<1>1. req \in Request
  BY DEF Idle, Request, MemberRole
<1>2. UNCHANGED <<table, files, history>> /\ Start(r, req)
  BY DEF ReadAdd
<1>3. /\ req.pc \in {"join", "rejoin"} /\ req.row = c /\ req.to = back
      /\ req.old = None /\ req.file = None
  BY DEF Idle
<1>4. \A v \in back : member[c][v].at = "left"
  OBVIOUS
<1> HIDE DEF req, back
<1> QED
  BY PlainReading, Started, <1>1, <1>2, <1>3, <1>4

LEMMA ReadRoleStep ==
  ASSUME IInv, NEW r \in Requests, NEW c \in Conversations, NEW u \in Users,
         NEW v \in Users, NEW role \in MemberRole, ReadRole(r, c, u, v, role)
  PROVE  IInv'
<1> DEFINE req == [Idle EXCEPT !.pc = "role", !.row = c, !.to = {v}, !.role = role]
<1>1. req \in Request
  BY DEF Idle, Request, MemberRole
<1>2. UNCHANGED <<table, files, history>> /\ Start(r, req)
  BY DEF ReadRole
<1>3. /\ req.pc = "role" /\ req.row = c /\ req.to = {v}
      /\ req.old = None /\ req.file = None
  BY DEF Idle
<1> HIDE DEF req
<1> QED
  BY PlainReading, Started, <1>1, <1>2, <1>3

LEMMA ReadRemoveStep ==
  ASSUME IInv, NEW r \in Requests, NEW c \in Conversations, NEW u \in Users,
         NEW v \in Users, ReadRemove(r, c, u, v)
  PROVE  IInv'
<1> DEFINE req == [Idle EXCEPT !.pc = "remove", !.row = c, !.by = u, !.to = {v},
                               !.role = member[c][v].role]
<1>1. req \in Request
  <2>1. member[c][v].role \in MemberRole
    BY DEF IInv, TypeOK, Membership
  <2> QED
    BY <2>1 DEF Idle, Request
<1>2. UNCHANGED <<table, files, history>> /\ Start(r, req)
  BY DEF ReadRemove
<1>3. /\ req.pc = "remove" /\ req.row = c /\ req.to = {v} /\ req.by = u
      /\ req.old = None /\ req.file = None
  BY DEF Idle
<1>4. u \in Members(c, "ADMIN") /\ u # v
  BY DEF ReadRemove
<1> HIDE DEF req
<1> QED
  BY PlainReading, Started, <1>1, <1>2, <1>3, <1>4

LEMMA ReadLeaveStep ==
  ASSUME IInv, NEW r \in Requests, NEW c \in Conversations, NEW u \in Users,
         ReadLeave(r, c, u)
  PROVE  IInv'
<1> DEFINE req == [Idle EXCEPT !.pc = "leave", !.row = c, !.by = u,
                               !.role = member[c][u].role]
<1>1. req \in Request
  <2>1. member[c][u].role \in MemberRole
    BY DEF IInv, TypeOK, Membership
  <2> QED
    BY <2>1 DEF Idle, Request
<1>2. UNCHANGED <<table, files, history>> /\ Start(r, req)
  BY DEF ReadLeave
<1>3. /\ req.pc = "leave" /\ req.row = c /\ req.by = u /\ req.role = member[c][u].role
      /\ req.old = None /\ req.file = None
  BY DEF Idle
<1>4. type[c] = "GROUP" /\ u \in Active(c)
  BY DEF ReadLeave
<1> HIDE DEF req
<1> QED
  BY PlainReading, Started, <1>1, <1>2, <1>3, <1>4

\* An update has a name to write: the one the row has, or a new one.
LEMMA ReadUpdateStep ==
  ASSUME IInv, NEW r \in Requests, NEW c \in Conversations, NEW u \in Users,
         NEW f \in Files \cup {None}, ReadUpdate(r, c, u, f)
  PROVE  IInv'
<1> DEFINE req == [Idle EXCEPT !.pc = IF f = None THEN "update" ELSE "avatar",
                               !.row = c, !.old = IF f = None THEN None ELSE avatar[c],
                               !.file = IF f = None THEN avatar[c] ELSE f]
<1>1. req \in Request
  <2>1. avatar[c] \in Files \cup {None}
    BY DEF IInv, TypeOK
  <2> QED
    BY <2>1 DEF Idle, Request, MemberRole
<1>2. UNCHANGED <<table, files, history>> /\ Start(r, req)
  BY DEF ReadUpdate
<1>3. /\ req.pc = IF f = None THEN "update" ELSE "avatar"
      /\ req.row = c /\ req.old = (IF f = None THEN None ELSE avatar[c])
      /\ req.file = (IF f = None THEN avatar[c] ELSE f)
  BY DEF Idle
<1> HIDE DEF req
<1>4. /\ request' = [request EXCEPT ![r] = req] /\ handled' \in 0..MaxRequests
      /\ request[r] = Idle /\ request[r].pc # "update"
  BY Started, <1>2
<1>5. /\ request'[r] = req
      /\ \A q \in Requests \ {r} : request'[q] = request[q]
  BY <1>4, OneRequest DEF IInv
<1>6. RequestIsSound(r)'
  BY <1>3, <1>5 DEF RequestIsSound
<1>7. KnowsTheTable(r)'
  BY <1>3, <1>5 DEF KnowsTheTable
<1>8. KnowsItsFile(r)'
  <2>1. CASE f # None
    BY <1>3, <1>5, <2>1 DEF KnowsItsFile
  <2>2. CASE f = None
    <3>1. /\ request'[r].row = c /\ request'[r].file = avatar[c]
      BY <1>3, <1>5, <2>2
    <3>2. stored' = stored /\ raced' = raced /\ cut' = cut
      BY <1>2 DEF files, history
    <3>3. SUFFICES ASSUME c \notin raced \cup cut, avatar[c] \notin stored \cup {None}
                   PROVE  Renaming(c, r)'
      BY <3>1, <3>2 DEF KnowsItsFile
    <3>4. PICK q \in Requests : request[q].row = c /\ request[q].pc = "update"
      BY <3>3 DEF IInv, AvatarIsStored
    <3> QED
      BY <1>4, <1>5, <3>4 DEF Renaming
  <2> QED
    BY <2>1, <2>2
<1>9. FilesAreOwn'
  <2>1. avatar' = avatar
    BY <1>2 DEF files
  <2>2. FilesAreOwn
    BY DEF IInv
  <2>3. f # None => IsNew(f)
    BY DEF ReadUpdate
  <2>4. {request'[r].old, request'[r].file} \subseteq {f, None, avatar[c]}
    BY <1>3, <1>5
  <2>5. \A d \in Conversations \ {c} : avatar[d] # None =>
          avatar[d] \notin {request'[r].old, request'[r].file}
    BY <2>2, <2>3, <2>4 DEF FilesAreOwn, IsNew
  <2>6. \A q \in Requests \ {r} : request[q].row # c =>
          {request'[r].old, request'[r].file} \cap {request[q].old, request[q].file} \subseteq {None}
    BY <2>2, <2>3, <2>4 DEF FilesAreOwn, IsNew
  <2>7. request'[r].row = c
    BY <1>3, <1>5
  <2> QED
    BY <1>5, <2>1, <2>2, <2>5, <2>6, <2>7 DEF FilesAreOwn
<1> QED
  BY OnlyTheRequest, <1>1, <1>2, <1>4, <1>6, <1>7, <1>8, <1>9

\* While nothing was written to the conversation the admin who removes is one,
\* and the one who leaves has the role that was read.
LEMMA FindSuccessorStep ==
  ASSUME IInv, NEW r \in Requests, FindSuccessor(r)
  PROVE  IInv'
<1> DEFINE c == request[r].row
           q == request[r]
<1>1. PICK heir \in Successors(c, q.role, q.to \cup {q.by}) :
        request' = [request EXCEPT ![r] =
          [q EXCEPT !.pc = "removing", !.role = "MEMBER", !.heir = heir]]
  BY DEF FindSuccessor, GoesOn
<1> DEFINE req == [q EXCEPT !.pc = "removing", !.role = "MEMBER", !.heir = heir]
<1>2. heir \in Users \cup {None}
  BY <1>1 DEF Successors, Heirs, Earliest, Active
<1>3. /\ q \in Request /\ c \in Conversations
      /\ q.pc = "remove" /\ q.by \in Users \ q.to /\ q.old = None /\ q.file = None
      /\ \E v \in Users : q.to = {v}
      /\ q.fresh /\ type[c] # "NONE" => q.by \in Members(c, "ADMIN")
  <2>1. RequestIsSound(r) /\ KnowsTheTable(r) /\ TypeOK
    BY DEF IInv
  <2>2. q \in Request
    BY <2>1 DEF TypeOK
  <2>3. q.pc = "remove" /\ type[c] # "NONE"
    BY DEF FindSuccessor
  <2>4. q.old = None /\ q.file = None
    BY <2>1, <2>3 DEF RequestIsSound
  <2> QED
    BY <2>1, <2>2, <2>3, <2>4 DEF RequestIsSound, KnowsTheTable
<1>4. /\ req.pc = "removing" /\ req.row = c /\ req.by = q.by /\ req.to = q.to
      /\ req.old = q.old /\ req.file = q.file /\ req.fresh = q.fresh /\ req \in Request
  BY <1>2, <1>3 DEF Request, MemberRole
<1>5. handled' \in 0..MaxRequests /\ UNCHANGED <<table, files, history>>
  BY DEF FindSuccessor, GoesOn, IInv, TypeOK
<1> HIDE DEF req, q, c
<1>6. request' = [request EXCEPT ![r] = req]
  BY <1>1 DEF req, q, c
<1>7. request[r].pc # "update"
  BY <1>3 DEF q
<1> QED
  BY PlainReading, <1>3, <1>4, <1>5, <1>6, <1>7

LEMMA FindHeirStep ==
  ASSUME IInv, NEW r \in Requests, FindHeir(r)
  PROVE  IInv'
<1> DEFINE c == request[r].row
           q == request[r]
<1>1. PICK heir \in Successors(c, q.role, {q.by}) :
        request' = [request EXCEPT ![r] =
          [q EXCEPT !.pc = "leaving", !.role = "MEMBER", !.heir = heir]]
  BY DEF FindHeir, GoesOn
<1> DEFINE req == [q EXCEPT !.pc = "leaving", !.role = "MEMBER", !.heir = heir]
<1>2. heir \in Users \cup {None}
  BY <1>1 DEF Successors, Heirs, Earliest, Active
<1>3. /\ q \in Request /\ c \in Conversations
      /\ q.pc = "leave" /\ q.by \in Users /\ q.old = None /\ q.file = None
      /\ type[c] = "GROUP"
      /\ q.fresh => q.by \in Active(c) /\ member[c][q.by].role = q.role
  <2>1. RequestIsSound(r) /\ KnowsTheTable(r) /\ TypeOK
    BY DEF IInv
  <2>2. q \in Request
    BY <2>1 DEF TypeOK
  <2>3. q.pc = "leave" /\ type[c] # "NONE"
    BY DEF FindHeir
  <2>4. q.old = None /\ q.file = None
    BY <2>1, <2>3 DEF RequestIsSound
  <2> QED
    BY <2>1, <2>2, <2>3, <2>4 DEF RequestIsSound, KnowsTheTable
<1>4. /\ req.pc = "leaving" /\ req.row = c /\ req.by = q.by /\ req.heir = heir
      /\ req.old = q.old /\ req.file = q.file /\ req.fresh = q.fresh /\ req \in Request
  BY <1>2, <1>3 DEF Request, MemberRole
<1>5. handled' \in 0..MaxRequests /\ UNCHANGED <<table, files, history>>
  BY DEF FindHeir, GoesOn, IInv, TypeOK
<1>6. ASSUME q.fresh, c \notin raced \cup demoted
      PROVE  \E u \in Active(c) \ {q.by} : u = heir \/ u \in Members(c, "ADMIN")
  <2>1. Members(c, "ADMIN") # {}
    BY <1>3, <1>6 DEF IInv, AdminRemains
  <2>2. CASE q.role = "ADMIN" /\ Members(c, "ADMIN") \subseteq {q.by}
    <3>1. Active(c) \ {q.by} # {}
      <4>1. Cardinality(Active(c)) > 1
        BY DEF FindHeir
      <4>2. Active(c) \subseteq {q.by} => Active(c) = {} \/ Active(c) = {q.by}
        OBVIOUS
      <4>3. Cardinality({}) = 0 /\ Cardinality({q.by}) = 1
        BY FS_EmptySet, FS_Singleton
      <4> QED
        BY <4>1, <4>2, <4>3
    <3>2. heir \in Earliest(c, Active(c) \ {q.by})
      BY <1>1, <2>2, <3>1 DEF Successors, Heirs
    <3> QED
      BY <3>2 DEF Earliest
  <2>3. CASE ~(q.role = "ADMIN" /\ Members(c, "ADMIN") \subseteq {q.by})
    <3>1. q.role = "ADMIN" => ~(Members(c, "ADMIN") \subseteq {q.by})
      BY <2>3
    <3>2. q.role # "ADMIN" => q.by \notin Members(c, "ADMIN")
      BY <1>3, <1>6 DEF Members
    <3> QED
      BY <2>1, <3>1, <3>2 DEF Members
  <2> QED
    BY <2>2, <2>3
<1> HIDE DEF req, q, c
<1>7. request' = [request EXCEPT ![r] = req]
  BY <1>1 DEF req, q, c
<1>8. request[r].pc # "update"
  BY <1>3 DEF q
<1>9. /\ req \in Request /\ c \in Conversations
      /\ req.row = c /\ req.old = None /\ req.file = None
      /\ req.pc = "leaving" /\ req.by \in Users /\ type[c] = "GROUP"
  BY <1>3, <1>4
<1>10. req.fresh /\ c \notin raced \cup demoted =>
         \E u \in Active(c) \ {req.by} : u = req.heir \/ u \in Members(c, "ADMIN")
  BY <1>4, <1>6
<1> QED
  BY PlainReading, <1>5, <1>7, <1>8, <1>9, <1>10

\* A request that stops leaves what the others know as it was, but for files:
\* what hung on its update is cut.
LEMMA Stopped ==
  ASSUME IInv, NEW r \in Requests, request' = [request EXCEPT ![r] = Idle],
         handled' = handled, UNCHANGED <<table, avatar, raced, demoted, edited>>
  PROVE  /\ request' \in [Requests -> Request] /\ request'[r] = Idle
         /\ \A q \in Requests \ {r} : request'[q] = request[q]
         /\ AdminRemains' /\ DirectsHaveTwo' /\ DirectsDiffer' /\ FilesAreOwn'
         /\ \A q \in Requests : RequestIsSound(q)' /\ KnowsTheTable(q)'
<1> USE DEF table
<1>1. Idle \in Request /\ Idle.row = None /\ Idle.old = None /\ Idle.file = None /\ Idle.pc = "idle"
  BY DEF Idle, Request, MemberRole
<1>2. /\ request' \in [Requests -> Request] /\ request'[r] = Idle
      /\ \A q \in Requests \ {r} : request'[q] = request[q]
  BY <1>1 DEF IInv, TypeOK
<1>3. AdminRemains' /\ DirectsHaveTwo' /\ DirectsDiffer'
  BY DEF IInv, AdminRemains, DirectsHaveTwo, DirectsDiffer, Members, Active
<1>4. FilesAreOwn'
  BY FilesOfNone, <1>1
<1>5. ASSUME NEW q \in Requests
      PROVE  RequestIsSound(q)' /\ KnowsTheTable(q)'
  <2>1. CASE q = r
    BY <1>1, <1>2, <2>1 DEF RequestIsSound, KnowsTheTable
  <2>2. CASE q # r
    <3>1. request'[q] = request[q] /\ RequestIsSound(q) /\ KnowsTheTable(q)
      BY <1>2, <2>2 DEF IInv
    <3>2. RequestIsSound(q)'
      BY <3>1 DEF RequestIsSound
    <3>3. KnowsTheTable(q)'
      BY <3>1, TheTableIsKept
    <3> QED
      BY <3>2, <3>3
  <2> QED
    BY <2>1, <2>2
<1> QED
  BY <1>2, <1>3, <1>4, <1>5

LEMMA AbortStep ==
  ASSUME IInv, NEW r \in Requests, Abort(r)
  PROVE  IInv'
<1>1. /\ request' = [request EXCEPT ![r] = Idle] /\ handled' = handled
      /\ UNCHANGED <<table, files, raced, demoted, edited>>
  BY DEF Abort, GoesOn
<1>2. /\ request' \in [Requests -> Request] /\ request'[r] = Idle
      /\ \A q \in Requests \ {r} : request'[q] = request[q]
      /\ AdminRemains' /\ DirectsHaveTwo' /\ DirectsDiffer' /\ FilesAreOwn'
      /\ \A q \in Requests : RequestIsSound(q)' /\ KnowsTheTable(q)'
  BY Stopped, <1>1 DEF files
<1>3. cut \subseteq cut' /\ (request[r].pc = "update" => request[r].row \in cut')
  BY DEF Abort
<1>4. cut' \subseteq Conversations
  <2>1. request[r].pc = "update" => request[r].row \in Conversations
    BY DEF IInv, RequestIsSound
  <2> QED
    BY <2>1 DEF Abort, IInv, TypeOK
<1>5. TypeOK'
  BY <1>1, <1>2, <1>4 DEF IInv, TypeOK, Rows, table, files
<1>6. AvatarIsStored'
  BY <1>1, <1>2, <1>3 DEF IInv, AvatarIsStored, files
<1>7. ASSUME NEW q \in Requests
      PROVE  KnowsItsFile(q)'
  <2>1. CASE q = r
    BY <1>2, <2>1 DEF KnowsItsFile, Idle
  <2>2. CASE q # r
    BY <1>1, <1>2, <1>3, <2>2 DEF IInv, KnowsItsFile, Renaming, files, table
  <2> QED
    BY <2>1, <2>2
<1> QED
  BY <1>2, <1>5, <1>6, <1>7 DEF IInv

\* The old file is named by the request's own conversation only; it goes when
\* the request is about to write the new name, or the conversation is cut.
LEMMA ReplaceAvatarStep ==
  ASSUME IInv, NEW r \in Requests, ReplaceAvatar(r)
  PROVE  IInv'
<1> DEFINE c == request[r].row
           old == request[r].old
           file == request[r].file
<1>1. /\ request[r] \in Request /\ request[r].pc = "avatar" /\ c \in Conversations
      /\ old \in Files \cup {None} /\ file \in Files
  <2>1. RequestIsSound(r) /\ request[r].pc = "avatar"
    BY DEF IInv, ReplaceAvatar
  <2> QED
    BY <2>1, RequestFields DEF IInv, RequestIsSound
<1>2. UNCHANGED <<table, avatar, raced, demoted, edited, handled>>
  BY DEF ReplaceAvatar, GoesOn
<1>3. \A d \in Conversations \ {c} : avatar[d] # None => avatar[d] # old
  BY DEF IInv, FilesAreOwn
<1>4. \A q \in Requests : request[q].row # c => request[q].file # old \/ old = None
  <2>1. \A q \in Requests : request[r].row # request[q].row =>
          {request[r].old, request[r].file} \cap {request[q].old, request[q].file} \subseteq {None}
    BY DEF IInv, FilesAreOwn
  <2>2. ASSUME NEW q \in Requests, request[q].row # c, request[q].file = old
        PROVE  old = None
    <3>1. old \in {request[r].old, request[r].file} \cap {request[q].old, request[q].file}
      BY <2>2
    <3>2. {request[r].old, request[r].file} \cap {request[q].old, request[q].file} \subseteq {None}
      BY <2>1, <2>2
    <3> QED
      BY <3>1, <3>2
  <2> QED
    BY <2>2
<1>5. CASE /\ stored' = (stored \ {old}) \cup {file}
           /\ GoesOn(r, [request[r] EXCEPT !.pc = "update", !.old = None])
           /\ UNCHANGED cut
  <2> DEFINE req == [request[r] EXCEPT !.pc = "update", !.old = None]
  <2>1. /\ req \in Request /\ req.pc = "update" /\ req.row = c /\ req.old = None
        /\ req.file = file
    BY <1>1 DEF Request
  <2>2. request' = [request EXCEPT ![r] = req]
    BY <1>5 DEF GoesOn
  <2> HIDE DEF req
  <2>3. /\ request' \in [Requests -> Request] /\ request'[r] = req
        /\ \A q \in Requests \ {r} : request'[q] = request[q]
    BY <2>1, <2>2 DEF IInv, TypeOK
  <2>4. TypeOK'
    BY <1>1, <1>2, <1>5, <2>3 DEF IInv, TypeOK, Rows, table
  <2>5. AdminRemains' /\ DirectsHaveTwo' /\ DirectsDiffer'
    BY <1>2 DEF IInv, AdminRemains, DirectsHaveTwo, DirectsDiffer, Members, Active, table
  <2>6. FilesAreOwn'
    <3>1. {req.old, req.file} \subseteq {request[r].old, request[r].file, None}
      BY <2>1
    <3> QED
      BY <1>2, <2>1, <2>3, <3>1 DEF IInv, FilesAreOwn
  <2>7. AvatarIsStored'
    <3>1. SUFFICES ASSUME NEW d \in Conversations, d \notin raced \cup cut,
                          avatar[d] \notin stored' \cup {None}
                   PROVE  \E q \in Requests : request'[q].row = d /\ request'[q].pc = "update"
      BY <1>2, <1>5 DEF AvatarIsStored
    <3>2. CASE avatar[d] \in stored
      BY <1>3, <1>5, <2>1, <2>3, <3>1, <3>2
    <3>3. CASE avatar[d] \notin stored
      <4>1. PICK q \in Requests : request[q].row = d /\ request[q].pc = "update"
        BY <3>1, <3>3 DEF IInv, AvatarIsStored
      <4> QED
        BY <1>1, <2>3, <4>1
    <3> QED
      BY <3>2, <3>3
  <2>8. ASSUME NEW q \in Requests
        PROVE  RequestIsSound(q)' /\ KnowsTheTable(q)' /\ KnowsItsFile(q)'
    <3>1. CASE q = r
      BY <1>1, <1>5, <2>1, <2>3, <3>1 DEF RequestIsSound, KnowsTheTable, KnowsItsFile
    <3>2. CASE q # r
      <4>1. request'[q] = request[q]
        BY <2>3, <3>2
      <4>2. RequestIsSound(q)' /\ KnowsTheTable(q)'
        <5>1. RequestIsSound(q) /\ KnowsTheTable(q)
          BY DEF IInv
        <5>2. RequestIsSound(q)'
          BY <1>2, <4>1, <5>1 DEF RequestIsSound, table
        <5> QED
          BY <1>2, <4>1, <5>1, <5>2, TheTableIsKept DEF table
      <4>3. KnowsItsFile(q)'
        <5> DEFINE d == request[q].row
        <5>1. SUFFICES ASSUME request[q].pc = "update", request[q].fresh, type[d] # "NONE",
                              d \notin raced \cup cut,
                              request[q].file \notin stored' \cup {None}
                       PROVE  Renaming(d, q)'
          BY <1>2, <1>5, <4>1 DEF KnowsItsFile, table
        <5>2. CASE request[q].file \in stored
          <6>1. request[q].file = old /\ old # None
            BY <1>5, <5>1, <5>2
          <6> QED
            BY <1>4, <2>1, <2>3, <3>2, <4>1, <6>1 DEF Renaming
        <5>3. CASE request[q].file \notin stored
          <6>1. Renaming(d, q)
            BY <5>1, <5>3 DEF IInv, KnowsItsFile
          <6> QED
            BY <1>1, <2>3, <4>1, <6>1 DEF Renaming
        <5> QED
          BY <5>2, <5>3
      <4> QED
        BY <4>2, <4>3
    <3> QED
      BY <3>1, <3>2
  <2> QED
    BY <2>4, <2>5, <2>6, <2>7, <2>8 DEF IInv
<1>6. CASE /\ stored' = stored \ {old}
           /\ GoesOn(r, Idle)
           /\ cut' = cut \cup {c}
  <2>1. request' = [request EXCEPT ![r] = Idle] /\ handled' = handled
    BY <1>6 DEF GoesOn
  <2>2. /\ request' \in [Requests -> Request] /\ request'[r] = Idle
        /\ \A q \in Requests \ {r} : request'[q] = request[q]
        /\ AdminRemains' /\ DirectsHaveTwo' /\ DirectsDiffer' /\ FilesAreOwn'
        /\ \A q \in Requests : RequestIsSound(q)' /\ KnowsTheTable(q)'
    BY Stopped, <1>2, <2>1
  <2>3. TypeOK'
    BY <1>1, <1>2, <1>6, <2>2 DEF IInv, TypeOK, Rows, table
  <2>4. AvatarIsStored'
    BY <1>1, <1>2, <1>3, <1>6, <2>2 DEF IInv, AvatarIsStored
  <2>5. ASSUME NEW q \in Requests
        PROVE  KnowsItsFile(q)'
    <3>1. CASE q = r
      BY <2>2, <3>1 DEF KnowsItsFile, Idle
    <3>2. CASE q # r
      BY <1>1, <1>2, <1>4, <1>6, <2>2, <3>2 DEF IInv, KnowsItsFile, Renaming, table
    <3> QED
      BY <3>1, <3>2
  <2> QED
    BY <2>2, <2>3, <2>4, <2>5 DEF IInv
<1> QED
  BY <1>5, <1>6 DEF ReplaceAvatar

-----------------------------------------------------------------------------
(* Steps that write a conversation *)

\* What the others know survives a write to c: those who know c are stale.
LEMMA OthersStillKnow ==
  ASSUME IInv, NEW r \in Requests, NEW c \in Conversations, NEW next \in Request,
         Writes(r, c, next), NEW q \in Requests \ {r},
         \A d \in Conversations \ {c} : type'[d] = type[d] /\ member'[d] = member[d],
         request[q].row = c => type'[c] = type[c],
         demoted \subseteq demoted'
  PROVE  RequestIsSound(q)' /\ KnowsTheTable(q)'
<1>1. /\ request'[q].pc = request[q].pc /\ request'[q].row = request[q].row
      /\ request'[q].kind = request[q].kind /\ request'[q].by = request[q].by
      /\ request'[q].to = request[q].to /\ request'[q].role = request[q].role
      /\ request'[q].heir = request[q].heir /\ request'[q].old = request[q].old
      /\ request'[q].file = request[q].file
      /\ request[q] = Idle => request'[q] = Idle
      /\ request'[q].fresh /\ request[q] # Idle =>
           request[q].fresh /\ request[q].row \notin {c, None}
      /\ raced \subseteq raced'
  BY OthersStay DEF IInv
<1>2. RequestIsSound(q) /\ KnowsTheTable(q)
  BY DEF IInv
<1>3. RequestIsSound(q)'
  <2>1. request[q].pc = "idle" => request'[q] = Idle
    BY <1>1, <1>2 DEF RequestIsSound
  <2>2. request[q].pc \in {"leave", "leaving"} => type'[request[q].row] = type[request[q].row]
    BY <1>2 DEF RequestIsSound
  <2> QED
    BY <1>1, <1>2, <2>1, <2>2 DEF RequestIsSound
<1>4. KnowsTheTable(q)'
  <2> DEFINE d == request[q].row
  <2>1. CASE request[q] = Idle
    BY <1>1, <2>1 DEF KnowsTheTable, Idle
  <2>2. CASE request[q] # Idle
    <3>1. SUFFICES ASSUME request'[q].fresh
                   PROVE  KnowsTheTable(q)'
      BY DEF KnowsTheTable
    <3>2. request[q].fresh /\ d # c /\ d # None
      BY <1>1, <2>2, <3>1
    <3>3. request[q].pc # "create" /\ (request[q].pc # "idle" => d \in Conversations)
      BY <1>2, <3>2 DEF RequestIsSound
    <3>4. request[q].pc # "idle" =>
            type'[d] = type[d] /\ member'[d] = member[d] /\
            (d \notin raced' \cup demoted' => d \notin raced \cup demoted)
      BY <1>1, <3>2, <3>3
    <3>5. request[q].pc # "idle" =>
            Active(d)' = Active(d) /\ Members(d, "ADMIN")' = Members(d, "ADMIN")
      BY <1>1, <3>4 DEF Members, Active
    <3> HIDE DEF d
    <3> QED
      BY <1>1, <1>2, <3>2, <3>3, <3>4, <3>5 DEF KnowsTheTable, d
  <2> QED
    BY <2>1, <2>2
<1> QED
  BY <1>3, <1>4

\* A write that touches no file, by a request that has none.
LEMMA FilesAreLeft ==
  ASSUME IInv, NEW r \in Requests, NEW c \in Conversations, NEW next \in Request,
         Writes(r, c, next), request[r].pc # "update",
         next.pc # "update", next.old = None, next.file = None,
         \A q \in Requests : request[q].row \in Conversations =>
            type'[request[q].row] = type[request[q].row],
         UNCHANGED <<avatar, stored, cut>>
  PROVE  FilesAreOwn' /\ AvatarIsStored' /\ \A q \in Requests : KnowsItsFile(q)'
<1>1. /\ request'[r] = next /\ raced \subseteq raced'
      /\ \A q \in Requests \ {r} :
           /\ request'[q].pc = request[q].pc /\ request'[q].row = request[q].row
           /\ request'[q].old = request[q].old /\ request'[q].file = request[q].file
           /\ request[q] = Idle => request'[q] = Idle
           /\ request'[q].fresh /\ request[q] # Idle => request[q].fresh
  BY OthersStay DEF IInv
<1>2. FilesAreOwn'
  <2>1. FilesAreOwn
    BY DEF IInv
  <2> QED
    BY <1>1, <2>1 DEF FilesAreOwn
<1>3. AvatarIsStored'
  <2>1. AvatarIsStored
    BY DEF IInv
  <2> QED
    BY <1>1, <2>1 DEF AvatarIsStored
<1>4. ASSUME NEW q \in Requests
      PROVE  KnowsItsFile(q)'
  <2>1. CASE q = r
    BY <1>1, <2>1 DEF KnowsItsFile
  <2>2. CASE q # r
    <3>1. KnowsItsFile(q) /\ RequestIsSound(q)
      BY DEF IInv
    <3>2. request[q].pc = "update" =>
            /\ request[q] # Idle /\ request[q].row \in Conversations
            /\ type'[request[q].row] = type[request[q].row]
      BY <3>1 DEF Idle, RequestIsSound
    <3>3. Renaming(request[q].row, q) => Renaming(request[q].row, q)'
      BY <1>1, <2>2 DEF Renaming
    <3> QED
      BY <1>1, <2>2, <3>1, <3>2, <3>3 DEF KnowsItsFile
  <2> QED
    BY <2>1, <2>2
<1> QED
  BY <1>2, <1>3, <1>4

\* What a write of memberships has to show of the conversation it writes.
LEMMA MembersWritten ==
  ASSUME IInv, NEW r \in Requests, NEW c \in Conversations, NEW next \in Request,
         Writes(r, c, next), type[c] # "NONE", UNCHANGED <<type, files, cut>>,
         NEW M \in [Users -> Membership], member' = [member EXCEPT ![c] = M],
         before' \in [Conversations -> SUBSET (Users \X Users)],
         \A d \in Conversations \ {c} : before'[d] = before[d],
         \A p \in before'[c] : M[p[1]].at # "none" /\ M[p[2]].at # "none",
         demoted \subseteq demoted', demoted' \subseteq demoted \cup {c},
         edited \subseteq edited', edited' \subseteq edited \cup {c},
         request[r].pc # "update",
         next.pc # "update", next.old = None, next.file = None,
         RequestIsSound(r)', KnowsTheTable(r)',
         c \notin raced' \cup demoted' =>
           \E u \in Users : M[u].at = "in" /\ M[u].role = "ADMIN",
         type[c] = "DM" /\ c \notin edited' => Active(c) = {u \in Users : M[u].at = "in"}
  PROVE  IInv'
<1>1. TypeOK /\ request' \in [Requests -> Request] /\ handled' = handled
      /\ raced \subseteq raced' /\ raced' \subseteq raced \cup {c}
  BY OthersStay DEF IInv
<1>2. /\ member' \in [Conversations -> [Users -> Membership]] /\ member'[c] = M
      /\ \A d \in Conversations \ {c} : member'[d] = member[d]
  BY <1>1 DEF TypeOK
<1>3. TypeOK'
  <2>1. \A d \in Conversations :
          /\ before'[d] \subseteq Rows(d)' \X Rows(d)'
          /\ type[d] = "NONE" => Rows(d)' = {}
    <3>1. ASSUME NEW d \in Conversations, d # c
          PROVE  /\ before'[d] \subseteq Rows(d)' \X Rows(d)'
                 /\ type[d] = "NONE" => Rows(d)' = {}
      BY <1>1, <1>2, <3>1 DEF TypeOK, Rows
    <3>2. before'[c] \subseteq Rows(c)' \X Rows(c)'
      BY <1>2 DEF Rows
    <3> QED
      BY <3>1, <3>2
  <2>2. \A H \in {raced', demoted', edited', cut'} : H \subseteq Conversations
    BY <1>1 DEF TypeOK
  <2> QED
    BY <1>1, <1>2, <2>1, <2>2 DEF TypeOK, files
<1>4. AdminRemains'
  <2>1. ASSUME NEW d \in Conversations, d \notin raced' \cup demoted', type[d] # "NONE", d # c
        PROVE  Members(d, "ADMIN")' # {}
    BY <1>1, <1>2, <2>1 DEF IInv, AdminRemains, Members, Active
  <2>2. c \notin raced' \cup demoted' => Members(c, "ADMIN")' # {}
    BY <1>2 DEF Members, Active
  <2> QED
    BY <2>1, <2>2 DEF AdminRemains
<1>5. \A d \in Conversations : type[d] = "DM" /\ d \notin edited' => Active(d)' = Active(d)
  BY <1>2 DEF Active
<1>6. DirectsHaveTwo' /\ DirectsDiffer'
  <2>1. DirectsHaveTwo /\ DirectsDiffer
    BY DEF IInv
  <2>2. DirectsHaveTwo'
    BY <1>5, <2>1 DEF DirectsHaveTwo
  <2>3. DirectsDiffer'
    BY <1>1, <1>5, <2>1 DEF DirectsDiffer
  <2> QED
    BY <2>2, <2>3
<1>7. FilesAreOwn' /\ AvatarIsStored' /\ \A q \in Requests : KnowsItsFile(q)'
  BY FilesAreLeft DEF files
<1>8. \A q \in Requests : RequestIsSound(q)' /\ KnowsTheTable(q)'
  <2>1. ASSUME NEW q \in Requests \ {r}
        PROVE  RequestIsSound(q)' /\ KnowsTheTable(q)'
    BY OthersStillKnow, <1>2
  <2> QED
    BY <2>1
<1> QED
  BY <1>3, <1>4, <1>6, <1>7, <1>8 DEF IInv

\* A request that is done knows and needs nothing.
LEMMA IdleKnows ==
  ASSUME NEW r \in Requests, request'[r] = Idle
  PROVE  RequestIsSound(r)' /\ KnowsTheTable(r)' /\ KnowsItsFile(r)'
BY DEF RequestIsSound, KnowsTheTable, KnowsItsFile, Idle

LEMMA IdleIsARequest == /\ Idle \in Request /\ Idle.row = None /\ Idle.pc = "idle"
                        /\ Idle.old = None /\ Idle.file = None
BY DEF Idle, Request, MemberRole

LEMMA EditsGrow ==
  ASSUME NEW c, Edits(c)
  PROVE  /\ edited \subseteq edited' /\ edited' \subseteq edited \cup {c}
         /\ type[c] = "DM" => c \in edited'
BY DEF Edits

\* Those who return were not active, so they take no admin away.
LEMMA RejoinStep ==
  ASSUME IInv, NEW r \in Requests, Rejoin(r)
  PROVE  IInv'
<1> DEFINE c == request[r].row
           U == request[r].to
           M == [u \in Users |-> IF u \in U THEN Joined ELSE member[c][u]]
           next == IF request[r].new = {} THEN Idle
                   ELSE [request[r] EXCEPT !.pc = "join", !.to = {}]
<1>1. /\ TypeOK /\ RequestIsSound(r) /\ KnowsTheTable(r) /\ AdminRemains
      /\ request[r].pc = "rejoin" /\ type[c] # "NONE"
  BY DEF IInv, Rejoin
<1>2. c \in Conversations /\ U \in SUBSET Users /\ request[r] \in Request
      /\ request[r].old = None /\ request[r].file = None
  BY <1>1, RequestFields DEF RequestIsSound
<1>3. M \in [Users -> Membership]
  BY <1>1, <1>2 DEF TypeOK, Joined, Membership, MemberRole
<1>4. member' = [member EXCEPT ![c] = M]
  BY DEF Rejoin
<1>5. /\ next \in Request /\ next.pc \in {"idle", "join"} /\ next.old = None /\ next.file = None
      /\ next.pc = "idle" => next = Idle
      /\ next.pc = "join" => next.row = c
  <2>1. CASE request[r].new = {}
    BY <2>1, IdleIsARequest
  <2>2. CASE request[r].new # {}
    BY <1>2, <2>2 DEF Request
  <2> QED
    BY <2>1, <2>2
<1>6. Writes(r, c, next) /\ Edits(c) /\ UNCHANGED <<type, files, demoted, cut>>
  BY DEF Rejoin
<1> HIDE DEF M, next
<1>7. request'[r] = next
  BY <1>1, <1>2, <1>5, <1>6, OthersStay
<1>8. RequestIsSound(r)' /\ KnowsTheTable(r)'
  BY <1>2, <1>5, <1>7 DEF RequestIsSound, KnowsTheTable, Idle
<1>9. /\ before' \in [Conversations -> SUBSET (Users \X Users)]
      /\ \A d \in Conversations \ {c} : before'[d] = before[d]
      /\ \A p \in before'[c] : M[p[1]].at # "none" /\ M[p[2]].at # "none"
  <2>1. before[c] \subseteq Rows(c) \X Rows(c) /\ before \in [Conversations -> SUBSET (Users \X Users)]
    BY <1>1, <1>2 DEF TypeOK
  <2> DEFINE B == {p \in before[c] : p[1] \notin U /\ p[2] \notin U} \cup ((Rows(c) \ U) \X U)
  <2>2. before' = [before EXCEPT ![c] = B]
    BY DEF Rejoin
  <2>3. B \subseteq Users \X Users
    BY <1>2, <2>1 DEF Rows
  <2>4. \A p \in B : M[p[1]].at # "none" /\ M[p[2]].at # "none"
    BY <1>2, <2>1 DEF Rows, M, Joined
  <2> HIDE DEF B
  <2> QED
    BY <1>2, <2>1, <2>2, <2>3, <2>4
<1>10. c \notin raced' \cup demoted' =>
         \E u \in Users : M[u].at = "in" /\ M[u].role = "ADMIN"
  <2>1. SUFFICES ASSUME c \notin raced' \cup demoted'
                 PROVE  \E u \in Users : M[u].at = "in" /\ M[u].role = "ADMIN"
    OBVIOUS
  <2>2. request[r].fresh /\ c \notin raced \cup demoted
    BY <1>1, <1>2, <1>5, <1>6, <2>1, OthersStay
  <2>3. \A u \in U : member[c][u].at = "left"
    BY <1>1, <2>2 DEF KnowsTheTable
  <2>4. PICK u \in Users : member[c][u].at = "in" /\ member[c][u].role = "ADMIN"
    BY <1>1, <1>2, <2>2 DEF AdminRemains, Members, Active
  <2> QED
    BY <2>3, <2>4 DEF M
<1>11. request[r].pc # "update" /\ UNCHANGED <<type, files, cut>>
       /\ demoted' \subseteq demoted \cup {c} /\ demoted \subseteq demoted'
       /\ type[c] = "DM" /\ c \notin edited' => Active(c) = {u \in Users : M[u].at = "in"}
  BY <1>1, <1>6, EditsGrow
<1>12. edited \subseteq edited' /\ edited' \subseteq edited \cup {c}
  BY <1>6, EditsGrow
<1> HIDE DEF c, U
<1> QED
  BY MembersWritten, <1>1, <1>2, <1>3, <1>4, <1>5, <1>6, <1>8, <1>9, <1>10, <1>11, <1>12

LEMMA JoinStep ==
  ASSUME IInv, NEW r \in Requests, Join(r)
  PROVE  IInv'
<1> DEFINE c == request[r].row
           U == request[r].new \ Rows(c)
           M == [u \in Users |-> IF u \in U THEN Joined ELSE member[c][u]]
<1>1. /\ TypeOK /\ RequestIsSound(r) /\ AdminRemains
      /\ request[r].pc = "join" /\ type[c] # "NONE"
  BY DEF IInv, Join
<1>2. c \in Conversations /\ U \in SUBSET Users
  BY <1>1, RequestFields DEF RequestIsSound
<1>3. M \in [Users -> Membership]
  BY <1>1, <1>2 DEF TypeOK, Joined, Membership, MemberRole
<1>4. member' = [member EXCEPT ![c] = M]
  BY DEF Join
<1>5. Writes(r, c, Idle) /\ Edits(c) /\ UNCHANGED <<type, files, demoted, cut>>
  BY DEF Join
<1>6. request'[r] = Idle /\ raced \subseteq raced'
  BY <1>1, <1>2, <1>5, OthersStay, IdleIsARequest
<1>7. RequestIsSound(r)' /\ KnowsTheTable(r)'
  BY <1>6, IdleKnows
<1>8. /\ before' \in [Conversations -> SUBSET (Users \X Users)]
      /\ \A d \in Conversations \ {c} : before'[d] = before[d]
      /\ \A p \in before'[c] : M[p[1]].at # "none" /\ M[p[2]].at # "none"
  <2>1. before[c] \subseteq Rows(c) \X Rows(c) /\ before \in [Conversations -> SUBSET (Users \X Users)]
    BY <1>1, <1>2 DEF TypeOK
  <2> DEFINE B == before[c] \cup (Rows(c) \X U)
  <2>2. before' = [before EXCEPT ![c] = B]
    BY DEF Join
  <2>3. B \subseteq Users \X Users
    BY <1>2, <2>1 DEF Rows
  <2>4. \A p \in B : M[p[1]].at # "none" /\ M[p[2]].at # "none"
    BY <1>2, <2>1 DEF Rows, Joined
  <2> HIDE DEF B
  <2> QED
    BY <1>2, <2>1, <2>2, <2>3, <2>4
<1>9. c \notin raced' \cup demoted' =>
        \E u \in Users : M[u].at = "in" /\ M[u].role = "ADMIN"
  <2>1. SUFFICES ASSUME c \notin raced' \cup demoted'
                 PROVE  \E u \in Users : M[u].at = "in" /\ M[u].role = "ADMIN"
    OBVIOUS
  <2>2. PICK u \in Users : member[c][u].at = "in" /\ member[c][u].role = "ADMIN"
    BY <1>1, <1>2, <1>5, <1>6, <2>1 DEF AdminRemains, Members, Active
  <2> QED
    BY <2>2 DEF Rows
<1>10. /\ edited \subseteq edited' /\ edited' \subseteq edited \cup {c}
       /\ type[c] = "DM" => c \in edited'
  BY <1>5, EditsGrow
<1>11. request[r].pc # "update" /\ UNCHANGED <<type, files, cut>>
       /\ demoted' \subseteq demoted \cup {c} /\ demoted \subseteq demoted'
       /\ type[c] = "DM" /\ c \notin edited' => Active(c) = {u \in Users : M[u].at = "in"}
  BY <1>1, <1>5, <1>10
<1> HIDE DEF c, U, M
<1> QED
  BY MembersWritten, IdleIsARequest, <1>1, <1>2, <1>3, <1>4, <1>5, <1>7, <1>8, <1>9, <1>10, <1>11

\* Who loses the role to another's decision is in "demoted".
LEMMA WriteRoleStep ==
  ASSUME IInv, NEW r \in Requests, WriteRole(r)
  PROVE  IInv'
<1> DEFINE c == request[r].row
           role == request[r].role
<1>1. /\ TypeOK /\ RequestIsSound(r) /\ AdminRemains
      /\ request[r].pc = "role" /\ type[c] # "NONE"
  BY DEF IInv, WriteRole
<1>2. c \in Conversations /\ role \in MemberRole
  BY <1>1, RequestFields DEF RequestIsSound
<1>3. PICK v \in Users : request[r].to = {v}
  BY <1>1 DEF RequestIsSound
<1> DEFINE M == [member[c] EXCEPT ![v].role = role]
<1>4. /\ member' = [member EXCEPT ![c] = M]
      /\ demoted' = IF v \in Members(c, "ADMIN") /\ role = "MEMBER"
                    THEN demoted \cup {c} ELSE demoted
  BY <1>3 DEF WriteRole
<1>5. member[c] \in [Users -> Membership]
  BY <1>1, <1>2 DEF TypeOK
<1>6. /\ M \in [Users -> Membership]
      /\ \A u \in Users : M[u].at = member[c][u].at
      /\ \A u \in Users : u # v => M[u].role = member[c][u].role
      /\ M[v].role = role
  BY <1>2, <1>5 DEF Membership
<1>7. Writes(r, c, Idle) /\ UNCHANGED <<type, before, files, edited, cut>>
  BY DEF WriteRole
<1>8. request'[r] = Idle /\ raced \subseteq raced'
  BY <1>1, <1>2, <1>7, OthersStay, IdleIsARequest
<1>9. RequestIsSound(r)' /\ KnowsTheTable(r)'
  BY <1>8, IdleKnows
<1> HIDE DEF M
<1>10. /\ before' \in [Conversations -> SUBSET (Users \X Users)]
       /\ \A d \in Conversations \ {c} : before'[d] = before[d]
       /\ \A p \in before'[c] : M[p[1]].at # "none" /\ M[p[2]].at # "none"
  <2>1. before' = before /\ before \in [Conversations -> SUBSET (Users \X Users)]
    BY <1>1, <1>7 DEF TypeOK
  <2>2. before[c] \subseteq Rows(c) \X Rows(c)
    BY <1>1, <1>2 DEF TypeOK
  <2>3. \A u \in Rows(c) : M[u].at # "none"
    BY <1>6 DEF Rows
  <2> QED
    BY <2>1, <2>2, <2>3
<1>11. c \notin raced' \cup demoted' =>
         \E u \in Users : M[u].at = "in" /\ M[u].role = "ADMIN"
  <2>1. SUFFICES ASSUME c \notin raced' \cup demoted'
                 PROVE  \E u \in Users : M[u].at = "in" /\ M[u].role = "ADMIN"
    OBVIOUS
  <2>2. c \notin raced \cup demoted /\ ~(v \in Members(c, "ADMIN") /\ role = "MEMBER")
    BY <1>4, <1>8, <2>1
  <2>3. PICK u \in Users : member[c][u].at = "in" /\ member[c][u].role = "ADMIN"
    BY <1>1, <1>2, <2>2 DEF AdminRemains, Members, Active
  <2>4. u = v => role = "ADMIN"
    BY <1>2, <2>2, <2>3 DEF Members, Active, MemberRole
  <2> QED
    BY <1>6, <2>3, <2>4
<1>12. request[r].pc # "update" /\ UNCHANGED <<type, files, cut>>
       /\ demoted' \subseteq demoted \cup {c} /\ demoted \subseteq demoted'
       /\ edited' \subseteq edited \cup {c} /\ edited \subseteq edited'
  BY <1>1, <1>4, <1>7
<1>13. Active(c) = {u \in Users : M[u].at = "in"}
  BY <1>6 DEF Active
<1> HIDE DEF c, role
<1> QED
  BY MembersWritten, IdleIsARequest, <1>1, <1>2, <1>4, <1>6, <1>7, <1>9, <1>10, <1>11, <1>12, <1>13

\* The memberships after a departure: who goes is marked, the heir promoted.
LEMMA Departed ==
  ASSUME NEW M \in [Users -> Membership], NEW heir \in Users \cup {None},
         NEW U \in SUBSET Users, NEW N, N = Gone(Promoted(M, heir), U),
         None \notin Users
  PROVE  /\ N \in [Users -> Membership]
         /\ \A u \in Users : M[u].at # "none" => N[u].at # "none"
         /\ \A u \in Users \ U : N[u].at = M[u].at
         /\ \A u \in Users : M[u].role = "ADMIN" \/ u = heir => N[u].role = "ADMIN"
<1> DEFINE P == Promoted(M, heir)
<1>1. /\ P \in [Users -> Membership]
      /\ \A u \in Users : P[u].at = M[u].at
      /\ \A u \in Users : M[u].role = "ADMIN" \/ u = heir => P[u].role = "ADMIN"
  <2>1. CASE heir = None
    BY <2>1 DEF Promoted
  <2>2. CASE heir # None
    BY <2>2 DEF Promoted, Membership, MemberRole
  <2> QED
    BY <2>1, <2>2
<1> HIDE DEF P
<1>2. N = [u \in Users |-> IF u \in U THEN [P[u] EXCEPT !.at = "left"] ELSE P[u]]
  BY DEF Gone, P
<1>3. \A u \in Users : /\ [P[u] EXCEPT !.at = "left"] \in Membership
                       /\ [P[u] EXCEPT !.at = "left"].at = "left"
                       /\ [P[u] EXCEPT !.at = "left"].role = P[u].role
  BY <1>1 DEF Membership
<1> QED
  BY <1>1, <1>2, <1>3

\* Unless something was written since, the admin who removes is still one.
LEMMA RemoveStep ==
  ASSUME IInv, NEW r \in Requests, Remove(r)
  PROVE  IInv'
<1> DEFINE c == request[r].row
           U == request[r].to
           heir == request[r].heir
           M == Gone(Promoted(member[c], heir), U)
<1>1. /\ TypeOK /\ RequestIsSound(r) /\ KnowsTheTable(r)
      /\ request[r].pc = "removing" /\ type[c] # "NONE"
  BY DEF IInv, Remove
<1>2. c \in Conversations /\ heir \in Users \cup {None} /\ U \in SUBSET Users
  BY <1>1, RequestFields DEF RequestIsSound
<1>3. member[c] \in [Users -> Membership]
  BY <1>1, <1>2 DEF TypeOK
<1>4. member' = [member EXCEPT ![c] = M] /\ Writes(r, c, Idle) /\ Edits(c)
      /\ UNCHANGED <<type, before, files, demoted, cut>>
  BY DEF Remove
<1>5. /\ M \in [Users -> Membership]
      /\ \A u \in Users : member[c][u].at # "none" => M[u].at # "none"
      /\ \A u \in Users \ U : M[u].at = member[c][u].at
      /\ \A u \in Users : member[c][u].role = "ADMIN" \/ u = heir => M[u].role = "ADMIN"
  BY <1>2, <1>3, Departed, GroupMembershipAssumption
<1> HIDE DEF M
<1>6. request'[r] = Idle /\ raced \subseteq raced' /\ (~request[r].fresh => c \in raced')
  BY <1>1, <1>2, <1>4, OthersStay, IdleIsARequest
<1>7. RequestIsSound(r)' /\ KnowsTheTable(r)'
  BY <1>6, IdleKnows
<1>8. /\ before' \in [Conversations -> SUBSET (Users \X Users)]
      /\ \A d \in Conversations \ {c} : before'[d] = before[d]
      /\ \A p \in before'[c] : M[p[1]].at # "none" /\ M[p[2]].at # "none"
  <2>1. before' = before /\ before \in [Conversations -> SUBSET (Users \X Users)]
    BY <1>1, <1>4 DEF TypeOK
  <2>2. before[c] \subseteq Rows(c) \X Rows(c)
    BY <1>1, <1>2 DEF TypeOK
  <2>3. \A u \in Rows(c) : M[u].at # "none"
    BY <1>5 DEF Rows
  <2> QED
    BY <2>1, <2>2, <2>3
<1>9. c \notin raced' \cup demoted' =>
        \E u \in Users : M[u].at = "in" /\ M[u].role = "ADMIN"
  <2>1. SUFFICES ASSUME c \notin raced' \cup demoted'
                 PROVE  \E u \in Users : M[u].at = "in" /\ M[u].role = "ADMIN"
    OBVIOUS
  <2>2. request[r].by \in Users \ U /\ request[r].by \in Members(c, "ADMIN")
    BY <1>1, <1>6, <2>1 DEF RequestIsSound, KnowsTheTable
  <2> QED
    BY <1>5, <2>2 DEF Members, Active
<1>10. /\ edited \subseteq edited' /\ edited' \subseteq edited \cup {c}
       /\ type[c] = "DM" => c \in edited'
  BY <1>4, EditsGrow
<1>11. request[r].pc # "update" /\ UNCHANGED <<type, files, cut>>
       /\ demoted' \subseteq demoted \cup {c} /\ demoted \subseteq demoted'
       /\ type[c] = "DM" /\ c \notin edited' => Active(c) = {u \in Users : M[u].at = "in"}
  BY <1>1, <1>4, <1>10
<1> HIDE DEF c, U, heir
<1> QED
  BY MembersWritten, IdleIsARequest, <1>1, <1>2, <1>4, <1>5, <1>7, <1>8, <1>9, <1>10, <1>11

\* Unless something was written since, another admin is there or the heir is.
LEMMA LeaveStep ==
  ASSUME IInv, NEW r \in Requests, Leave(r)
  PROVE  IInv'
<1> DEFINE c == request[r].row
           U == {request[r].by}
           heir == request[r].heir
           M == Gone(Promoted(member[c], heir), U)
<1>1. /\ TypeOK /\ RequestIsSound(r) /\ KnowsTheTable(r)
      /\ request[r].pc = "leaving" /\ type[c] # "NONE"
  BY DEF IInv, Leave
<1>2. c \in Conversations /\ heir \in Users \cup {None} /\ U \in SUBSET Users /\ type[c] = "GROUP"
  BY <1>1, RequestFields DEF RequestIsSound
<1>3. member[c] \in [Users -> Membership]
  BY <1>1, <1>2 DEF TypeOK
<1>4. member' = [member EXCEPT ![c] = M] /\ Writes(r, c, Idle)
      /\ UNCHANGED <<type, before, files, demoted, edited, cut>>
  BY DEF Leave
<1>5. /\ M \in [Users -> Membership]
      /\ \A u \in Users : member[c][u].at # "none" => M[u].at # "none"
      /\ \A u \in Users \ U : M[u].at = member[c][u].at
      /\ \A u \in Users : member[c][u].role = "ADMIN" \/ u = heir => M[u].role = "ADMIN"
  BY <1>2, <1>3, Departed, GroupMembershipAssumption
<1> HIDE DEF M
<1>6. request'[r] = Idle /\ raced \subseteq raced' /\ (~request[r].fresh => c \in raced')
  BY <1>1, <1>2, <1>4, OthersStay, IdleIsARequest
<1>7. RequestIsSound(r)' /\ KnowsTheTable(r)'
  BY <1>6, IdleKnows
<1>8. /\ before' \in [Conversations -> SUBSET (Users \X Users)]
      /\ \A d \in Conversations \ {c} : before'[d] = before[d]
      /\ \A p \in before'[c] : M[p[1]].at # "none" /\ M[p[2]].at # "none"
  <2>1. before' = before /\ before \in [Conversations -> SUBSET (Users \X Users)]
    BY <1>1, <1>4 DEF TypeOK
  <2>2. before[c] \subseteq Rows(c) \X Rows(c)
    BY <1>1, <1>2 DEF TypeOK
  <2>3. \A u \in Rows(c) : M[u].at # "none"
    BY <1>5 DEF Rows
  <2> QED
    BY <2>1, <2>2, <2>3
<1>9. c \notin raced' \cup demoted' =>
        \E u \in Users : M[u].at = "in" /\ M[u].role = "ADMIN"
  <2>1. SUFFICES ASSUME c \notin raced' \cup demoted'
                 PROVE  \E u \in Users : M[u].at = "in" /\ M[u].role = "ADMIN"
    OBVIOUS
  <2>2. request[r].fresh /\ c \notin raced \cup demoted
    BY <1>4, <1>6, <2>1
  <2>3. PICK u \in Active(c) \ U : u = heir \/ u \in Members(c, "ADMIN")
    BY <1>1, <2>2 DEF KnowsTheTable
  <2> QED
    BY <1>5, <2>3 DEF Members, Active
<1>10. request[r].pc # "update" /\ UNCHANGED <<type, files, cut>>
       /\ demoted' \subseteq demoted \cup {c} /\ demoted \subseteq demoted'
       /\ edited \subseteq edited' /\ edited' \subseteq edited \cup {c}
       /\ type[c] = "DM" /\ c \notin edited' => Active(c) = {u \in Users : M[u].at = "in"}
  BY <1>1, <1>2, <1>4
<1> HIDE DEF c, U, heir
<1> QED
  BY MembersWritten, IdleIsARequest, <1>1, <1>2, <1>4, <1>5, <1>7, <1>8, <1>9, <1>10

\* The search of a fresh creation found no direct conversation of the two, and
\* none was made since.
LEMMA CreateStep ==
  ASSUME IInv, NEW r \in Requests, NEW c \in Conversations,
         NEW f \in Files \cup {None}, Create(r, c, f)
  PROVE  IInv'
<1> DEFINE u == request[r].by
           U == request[r].to
           kind == request[r].kind
           M == [v \in Users |-> IF v = u THEN [Joined EXCEPT !.role = "ADMIN"]
                                 ELSE IF v \in U THEN Joined ELSE NoRow]
<1>1. /\ TypeOK /\ RequestIsSound(r) /\ KnowsTheTable(r)
      /\ request[r].pc = "create" /\ type[c] = "NONE"
      /\ \A q \in Requests : request[q].row # c
      /\ f # None => IsNew(f)
  BY DEF IInv, Create
<1>2. /\ u \in Users \ U /\ U \in SUBSET Users /\ kind \in {"DM", "GROUP"}
      /\ request[r].row = None
      /\ kind = "DM" => \E v \in Users : U = {v}
  <2>1. request[r] \in Request
    BY <1>1, RequestFields
  <2> QED
    BY <1>1, <2>1 DEF RequestIsSound, Request
<1>3. /\ M \in [Users -> Membership] /\ M[u].at = "in" /\ M[u].role = "ADMIN"
      /\ \A v \in Users : M[v].at = IF v = u \/ v \in U THEN "in" ELSE "none"
  BY <1>2 DEF Membership, MemberRole, Joined, NoRow
<1>4. /\ type' = [type EXCEPT ![c] = kind] /\ member' = [member EXCEPT ![c] = M]
      /\ avatar' = [avatar EXCEPT ![c] = f] /\ stored' = stored \cup ({f} \ {None})
      /\ Writes(r, c, Idle) /\ UNCHANGED <<before, demoted, edited, cut>>
  BY DEF Create
<1> HIDE DEF M
<1>5. /\ type'[c] = kind /\ member'[c] = M /\ avatar'[c] = f
      /\ \A d \in Conversations \ {c} :
           type'[d] = type[d] /\ member'[d] = member[d] /\ avatar'[d] = avatar[d]
      /\ type' \in [Conversations -> {"NONE", "DM", "GROUP"}]
      /\ member' \in [Conversations -> [Users -> Membership]]
      /\ avatar' \in [Conversations -> Files \cup {None}]
  BY <1>1, <1>2, <1>3, <1>4 DEF TypeOK
<1>6. /\ request' \in [Requests -> Request] /\ request'[r] = Idle
      /\ \A q \in Requests \ {r} :
           /\ request'[q].pc = request[q].pc /\ request'[q].row = request[q].row
           /\ request'[q].old = request[q].old /\ request'[q].file = request[q].file
           /\ request[q] = Idle => request'[q] = Idle
           /\ request'[q].fresh /\ request[q] # Idle => request[q].fresh
      /\ raced \subseteq raced' /\ raced' \subseteq raced \cup {c}
      /\ (~request[r].fresh => c \in raced') /\ handled' = handled
  BY <1>1, <1>4, OthersStay, IdleIsARequest
<1>7. TypeOK'
  <2>1. ASSUME NEW d \in Conversations
        PROVE  /\ before'[d] \subseteq Rows(d)' \X Rows(d)'
               /\ type'[d] = "NONE" => Rows(d)' = {}
    <3>1. CASE d = c
      <4>1. before[c] = {}
        BY <1>1 DEF TypeOK
      <4> QED
        BY <1>2, <1>4, <1>5, <3>1, <4>1
    <3>2. CASE d # c
      BY <1>1, <1>4, <1>5, <3>2 DEF TypeOK, Rows
    <3> QED
      BY <3>1, <3>2
  <2>2. \A H \in {raced', demoted', edited', cut'} : H \subseteq Conversations
    BY <1>1, <1>4, <1>6 DEF TypeOK
  <2>3. stored' \subseteq Files /\ before' \in [Conversations -> SUBSET (Users \X Users)]
    BY <1>1, <1>4 DEF TypeOK
  <2>4. handled' \in 0..MaxRequests
    BY <1>1, <1>6 DEF TypeOK
  <2> QED
    BY <1>5, <1>6, <2>1, <2>2, <2>3, <2>4 DEF TypeOK
<1>8. Active(c)' = {u} \cup U /\ \A d \in Conversations \ {c} : Active(d)' = Active(d)
  <2>1. Active(c)' = {v \in Users : M[v].at = "in"}
    BY <1>5 DEF Active
  <2> QED
    BY <1>2, <1>3, <1>5, <2>1 DEF Active
<1>9. AdminRemains'
  <2>1. u \in Members(c, "ADMIN")'
    BY <1>2, <1>3, <1>5 DEF Members, Active
  <2>2. ASSUME NEW d \in Conversations \ {c}, d \notin raced' \cup demoted', type'[d] # "NONE"
        PROVE  Members(d, "ADMIN")' # {}
    BY <1>4, <1>5, <1>6, <2>2 DEF IInv, AdminRemains, Members, Active
  <2> QED
    BY <2>1, <2>2 DEF AdminRemains
<1>10. DirectsHaveTwo'
  <2>1. ASSUME NEW d \in Conversations \ {c}, d \notin edited', type'[d] = "DM"
        PROVE  \E v, w \in Users : v # w /\ Active(d)' = {v, w}
    BY <1>4, <1>5, <1>8, <2>1 DEF IInv, DirectsHaveTwo
  <2>2. ASSUME kind = "DM"
        PROVE  \E v, w \in Users : v # w /\ Active(c)' = {v, w}
    <3>1. PICK v \in Users : U = {v}
      BY <1>2, <2>2
    <3> QED
      BY <1>2, <1>8, <3>1
  <2> QED
    BY <1>5, <2>1, <2>2 DEF DirectsHaveTwo
<1>11. DirectsDiffer'
  <2>1. ASSUME NEW d \in Conversations \ {c}, NEW e \in Conversations \ {c},
               {d, e} \cap (raced' \cup edited') = {},
               type'[d] = "DM", type'[e] = "DM", Active(d)' = Active(e)'
        PROVE  d = e
    BY <1>4, <1>5, <1>6, <1>8, <2>1 DEF IInv, DirectsDiffer
  <2>2. ASSUME NEW d \in Conversations \ {c}, c \notin raced',
               kind = "DM", type'[d] = "DM", Active(d)' = Active(c)'
        PROVE  FALSE
    <3>1. PICK v \in Users : U = {v}
      BY <1>2, <2>2
    <3>2. Direct(u, v) = {}
      BY <1>1, <1>6, <2>2, <3>1 DEF KnowsTheTable
    <3>3. d \in Direct(u, v)
      BY <1>5, <1>8, <2>2, <3>1 DEF Direct
    <3> QED
      BY <3>2, <3>3
  <2> QED
    BY <1>5, <2>1, <2>2 DEF DirectsDiffer
<1>12. FilesAreOwn'
  <2>1. FilesAreOwn /\ (f # None => IsNew(f))
    BY <1>1 DEF IInv
  <2>2. Idle.old = None /\ Idle.file = None
    BY IdleIsARequest
  <2>3. \A d, e \in Conversations : d # e /\ avatar'[d] # None => avatar'[d] # avatar'[e]
    BY <1>5, <2>1 DEF FilesAreOwn, IsNew
  <2>4. \A q \in Requests, d \in Conversations :
          request'[q].row # d /\ avatar'[d] # None =>
            avatar'[d] \notin {request'[q].old, request'[q].file}
    BY <1>5, <1>6, <2>1, <2>2 DEF FilesAreOwn, IsNew
  <2>5. \A q, p \in Requests :
          request'[q].row # request'[p].row =>
            {request'[q].old, request'[q].file} \cap {request'[p].old, request'[p].file} \subseteq {None}
    BY <1>6, <2>1, <2>2 DEF FilesAreOwn
  <2> QED
    BY <2>3, <2>4, <2>5 DEF FilesAreOwn
<1>13. AvatarIsStored'
  <2>1. avatar'[c] \in stored' \cup {None}
    BY <1>4, <1>5
  <2>2. ASSUME NEW d \in Conversations \ {c}, d \notin raced' \cup cut'
        PROVE  \/ avatar'[d] \in stored' \cup {None}
               \/ \E q \in Requests : request'[q].row = d /\ request'[q].pc = "update"
    BY <1>1, <1>4, <1>5, <1>6, <2>2 DEF IInv, AvatarIsStored
  <2> QED
    BY <2>1, <2>2 DEF AvatarIsStored
<1>14. ASSUME NEW q \in Requests
       PROVE  RequestIsSound(q)' /\ KnowsTheTable(q)' /\ KnowsItsFile(q)'
  <2>1. CASE q = r
    BY <1>6, <2>1, IdleKnows
  <2>2. CASE q # r
    <3>1. RequestIsSound(q)' /\ KnowsTheTable(q)'
      BY OthersStillKnow, IdleIsARequest, <1>1, <1>4, <1>5, <2>2
    <3>2. KnowsItsFile(q)'
      <4>1. KnowsItsFile(q) /\ RequestIsSound(q)
        BY DEF IInv
      <4>2. request[q].pc = "update" =>
              /\ request[q] # Idle /\ request[q].row \in Conversations \ {c}
              /\ type'[request[q].row] = type[request[q].row]
        BY <1>1, <1>5, <4>1 DEF Idle, RequestIsSound
      <4>3. Renaming(request[q].row, q) => Renaming(request[q].row, q)'
        BY <1>1, <1>6, <2>2 DEF Renaming
      <4> QED
        BY <1>4, <1>6, <2>2, <4>1, <4>2, <4>3 DEF KnowsItsFile
    <3> QED
      BY <3>1, <3>2
  <2> QED
    BY <2>1, <2>2
<1> QED
  BY <1>7, <1>9, <1>10, <1>11, <1>12, <1>13, <1>14 DEF IInv

\* The new name is the request's own; while the request was fresh its file
\* stayed, or another update follows.
LEMMA UpdateStep ==
  ASSUME IInv, NEW r \in Requests, Update(r)
  PROVE  IInv'
<1> DEFINE c == request[r].row
           f == request[r].file
<1>1. /\ TypeOK /\ RequestIsSound(r) /\ KnowsItsFile(r) /\ FilesAreOwn
      /\ request[r].pc = "update" /\ type[c] # "NONE"
  BY DEF IInv, Update
<1>2. c \in Conversations /\ f \in Files \cup {None}
  BY <1>1, RequestFields DEF RequestIsSound
<1>3. /\ avatar' = [avatar EXCEPT ![c] = f] /\ Writes(r, c, Idle)
      /\ UNCHANGED <<type, member, before, stored, demoted, edited, cut>>
  BY DEF Update, table
<1>4. /\ request' \in [Requests -> Request] /\ request'[r] = Idle
      /\ \A q \in Requests \ {r} :
           /\ request'[q].pc = request[q].pc /\ request'[q].row = request[q].row
           /\ request'[q].old = request[q].old /\ request'[q].file = request[q].file
           /\ request[q] = Idle => request'[q] = Idle
           /\ request'[q].fresh /\ request[q] # Idle =>
                request[q].fresh /\ request[q].row \notin {c, None}
      /\ raced \subseteq raced' /\ raced' \subseteq raced \cup {c}
      /\ (~request[r].fresh => c \in raced') /\ handled' = handled
  BY <1>1, <1>2, <1>3, OthersStay, IdleIsARequest
<1>5. /\ avatar'[c] = f /\ \A d \in Conversations \ {c} : avatar'[d] = avatar[d]
      /\ avatar' \in [Conversations -> Files \cup {None}]
  BY <1>1, <1>2, <1>3 DEF TypeOK
<1>6. TypeOK'
  BY <1>1, <1>2, <1>3, <1>4, <1>5 DEF TypeOK, Rows
<1>7. AdminRemains' /\ DirectsHaveTwo' /\ DirectsDiffer'
  <2>1. AdminRemains'
    BY <1>3, <1>4 DEF IInv, AdminRemains, Members, Active
  <2>2. DirectsHaveTwo'
    BY <1>3 DEF IInv, DirectsHaveTwo, Active
  <2>3. DirectsDiffer'
    BY <1>3, <1>4 DEF IInv, DirectsDiffer, Active
  <2> QED
    BY <2>1, <2>2, <2>3
<1>8. FilesAreOwn'
  <2>1. Idle.old = None /\ Idle.file = None
    BY IdleIsARequest
  <2>2. \A d \in Conversations \ {c} : avatar[d] # None => avatar[d] # f
    BY <1>1, <1>2 DEF FilesAreOwn
  <2>3. \A d, e \in Conversations : d # e /\ avatar'[d] # None => avatar'[d] # avatar'[e]
    BY <1>1, <1>5, <2>2 DEF FilesAreOwn
  <2>4. \A q \in Requests : request[q].row # c /\ f # None => f \notin {request[q].old, request[q].file}
    <3>1. ASSUME NEW q \in Requests, request[q].row # c, f \in {request[q].old, request[q].file}
          PROVE  f = None
      <4>1. {request[r].old, request[r].file} \cap {request[q].old, request[q].file} \subseteq {None}
        BY <1>1, <3>1 DEF FilesAreOwn
      <4>2. f \in {request[r].old, request[r].file} \cap {request[q].old, request[q].file}
        BY <3>1
      <4> QED
        BY <4>1, <4>2
    <3> QED
      BY <3>1
  <2>5. \A q \in Requests, d \in Conversations :
          request'[q].row # d /\ avatar'[d] # None =>
            avatar'[d] \notin {request'[q].old, request'[q].file}
    BY <1>1, <1>4, <1>5, <2>1, <2>4 DEF FilesAreOwn
  <2>6. \A q, p \in Requests :
          request'[q].row # request'[p].row =>
            {request'[q].old, request'[q].file} \cap {request'[p].old, request'[p].file} \subseteq {None}
    BY <1>1, <1>4, <2>1 DEF FilesAreOwn
  <2> QED
    BY <2>3, <2>5, <2>6 DEF FilesAreOwn
<1>9. AvatarIsStored'
  <2>1. ASSUME c \notin raced' \cup cut'
        PROVE  \/ avatar'[c] \in stored' \cup {None}
               \/ \E q \in Requests : request'[q].row = c /\ request'[q].pc = "update"
    <3>1. f \in stored \cup {None} \/ Renaming(c, r)
      BY <1>1, <1>3, <1>4, <2>1 DEF KnowsItsFile
    <3> QED
      BY <1>3, <1>4, <1>5, <3>1 DEF Renaming
  <2>2. ASSUME NEW d \in Conversations \ {c}, d \notin raced' \cup cut'
        PROVE  \/ avatar'[d] \in stored' \cup {None}
               \/ \E q \in Requests : request'[q].row = d /\ request'[q].pc = "update"
    BY <1>3, <1>4, <1>5, <2>2 DEF IInv, AvatarIsStored
  <2> QED
    BY <2>1, <2>2 DEF AvatarIsStored
<1>10. ASSUME NEW q \in Requests
       PROVE  RequestIsSound(q)' /\ KnowsTheTable(q)' /\ KnowsItsFile(q)'
  <2>1. CASE q = r
    BY <1>4, <2>1, IdleKnows
  <2>2. CASE q # r
    <3>1. RequestIsSound(q)' /\ KnowsTheTable(q)'
      BY OthersStillKnow, IdleIsARequest, <1>2, <1>3, <2>2
    <3>2. KnowsItsFile(q)'
      <4>1. SUFFICES ASSUME request'[q].pc = "update", request'[q].fresh
                     PROVE  KnowsItsFile(q)'
        BY DEF KnowsItsFile
      <4>2. KnowsItsFile(q)
        BY DEF IInv
      <4>3. request[q] # Idle /\ request[q].pc = "update" /\ request[q].fresh /\ request[q].row # c
        BY <1>4, <2>2, <4>1 DEF Idle
      <4>4. Renaming(request[q].row, q) => Renaming(request[q].row, q)'
        BY <1>4, <2>2, <4>3 DEF Renaming
      <4> QED
        BY <1>3, <1>4, <2>2, <4>2, <4>3, <4>4 DEF KnowsItsFile
    <3> QED
      BY <3>1, <3>2
  <2> QED
    BY <2>1, <2>2
<1> QED
  BY <1>6, <1>7, <1>8, <1>9, <1>10 DEF IInv

\* With the conversation goes what requests know of it.
LEMMA DropStep ==
  ASSUME IInv, NEW r \in Requests, NEW c \in Conversations, Drop(r, c),
         request[r].pc # "update"
  PROVE  IInv'
<1>1. TypeOK
  BY DEF IInv
<1>2. /\ request' = [request EXCEPT ![r] = Idle] /\ handled' = handled
      /\ raced' = raced \ {c} /\ demoted' = demoted \ {c}
      /\ edited' = edited \ {c} /\ cut' = cut \ {c} /\ stored' = stored
  BY DEF Drop, GoesOn
<1>3. /\ request' \in [Requests -> Request] /\ request'[r] = Idle
      /\ \A q \in Requests \ {r} : request'[q] = request[q]
  BY <1>1, <1>2, IdleIsARequest DEF TypeOK
<1>4. NoRow \in Membership /\ NoRow.at = "none"
  BY DEF NoRow, Membership, MemberRole
<1>5. /\ type'[c] = "NONE" /\ avatar'[c] = None /\ before'[c] = {}
      /\ \A u \in Users : member'[c][u] = NoRow
      /\ \A d \in Conversations \ {c} :
           /\ type'[d] = type[d] /\ member'[d] = member[d]
           /\ before'[d] = before[d] /\ avatar'[d] = avatar[d]
      /\ type' \in [Conversations -> {"NONE", "DM", "GROUP"}]
      /\ member' \in [Conversations -> [Users -> Membership]]
      /\ before' \in [Conversations -> SUBSET (Users \X Users)]
      /\ avatar' \in [Conversations -> Files \cup {None}]
  BY <1>1, <1>4 DEF Drop, TypeOK
<1>6. TypeOK'
  <2>1. ASSUME NEW d \in Conversations
        PROVE  /\ before'[d] \subseteq Rows(d)' \X Rows(d)'
               /\ type'[d] = "NONE" => Rows(d)' = {}
    <3>1. CASE d = c
      BY <1>4, <1>5, <3>1 DEF Rows
    <3>2. CASE d # c
      BY <1>1, <1>5, <3>2 DEF TypeOK, Rows
    <3> QED
      BY <3>1, <3>2
  <2>2. \A H \in {raced', demoted', edited', cut'} : H \subseteq Conversations
    BY <1>1, <1>2 DEF TypeOK
  <2>3. stored' \subseteq Files /\ handled' \in 0..MaxRequests
    BY <1>1, <1>2 DEF TypeOK
  <2> QED
    BY <1>3, <1>5, <2>1, <2>2, <2>3 DEF TypeOK
<1>7. \A d \in Conversations \ {c} : Active(d)' = Active(d) /\ Members(d, "ADMIN")' = Members(d, "ADMIN")
  BY <1>5 DEF Active, Members
<1>8. AdminRemains' /\ DirectsHaveTwo' /\ DirectsDiffer'
  <2>1. AdminRemains'
    BY <1>2, <1>5, <1>7 DEF IInv, AdminRemains
  <2>2. DirectsHaveTwo'
    <3>1. DirectsHaveTwo
      BY DEF IInv
    <3>2. ASSUME NEW d \in Conversations \ edited', type'[d] = "DM"
          PROVE  d # c /\ d \notin edited /\ type[d] = "DM"
      BY <1>2, <1>5, <3>2
    <3> QED
      BY <1>7, <3>1, <3>2 DEF DirectsHaveTwo
  <2>3. DirectsDiffer'
    BY <1>2, <1>5, <1>7 DEF IInv, DirectsDiffer
  <2> QED
    BY <2>1, <2>2, <2>3
<1>9. FilesAreOwn'
  <2>1. FilesAreOwn
    BY DEF IInv
  <2> QED
    <3>1. \A d, e \in Conversations : d # e /\ avatar'[d] # None => avatar'[d] # avatar'[e]
      BY <1>5, <2>1 DEF FilesAreOwn
    <3>2. \A q \in Requests, d \in Conversations :
            request'[q].row # d /\ avatar'[d] # None =>
              avatar'[d] \notin {request'[q].old, request'[q].file}
      BY <1>3, <1>5, <2>1, IdleIsARequest DEF FilesAreOwn
    <3>3. \A q, p \in Requests :
            request'[q].row # request'[p].row =>
              {request'[q].old, request'[q].file} \cap {request'[p].old, request'[p].file} \subseteq {None}
      BY <1>3, <2>1, IdleIsARequest DEF FilesAreOwn
    <3> QED
      BY <3>1, <3>2, <3>3 DEF FilesAreOwn
<1>10. AvatarIsStored'
  <2>1. AvatarIsStored
    BY DEF IInv
  <2> QED
    BY <1>2, <1>3, <1>5, <2>1 DEF AvatarIsStored
<1>11. ASSUME NEW q \in Requests
       PROVE  RequestIsSound(q)' /\ KnowsTheTable(q)' /\ KnowsItsFile(q)'
  <2>1. CASE q = r
    BY <1>3, <2>1, IdleKnows
  <2>2. CASE q # r
    <3>1. request'[q] = request[q] /\ RequestIsSound(q) /\ KnowsTheTable(q) /\ KnowsItsFile(q)
      BY <1>3, <2>2 DEF IInv
    <3>2. RequestIsSound(q)'
      <4>1. request[q].pc \in {"leave", "leaving"} =>
              request[q].row \in Conversations /\ type'[request[q].row] \in {"NONE", "GROUP"}
        BY <1>5, <3>1 DEF RequestIsSound
      <4> QED
        BY <3>1, <4>1 DEF RequestIsSound
    <3>3. KnowsTheTable(q)'
      <4>1. \A u, v : Direct(u, v)' \subseteq Direct(u, v)
        BY <1>5, <1>7 DEF Direct
      <4> DEFINE d == request[q].row
      <4>2. CASE request[q].pc = "create"
        BY <3>1, <4>1, <4>2 DEF KnowsTheTable
      <4>3. CASE request[q].pc # "create" /\ request[q].pc # "idle"
        <5>1. d \in Conversations
          BY <3>1, <4>3 DEF RequestIsSound
        <5>2. CASE d = c
          BY <1>5, <3>1, <4>3, <5>2 DEF KnowsTheTable
        <5>3. CASE d # c
          <6>1. /\ type'[d] = type[d] /\ member'[d] = member[d]
                /\ d \notin raced' \cup demoted' => d \notin raced \cup demoted
                /\ Active(d)' = Active(d) /\ Members(d, "ADMIN")' = Members(d, "ADMIN")
            BY <1>2, <1>5, <1>7, <3>1, <5>1, <5>3
          <6> QED
            BY <3>1, <4>3, <6>1 DEF KnowsTheTable
        <5> QED
          BY <5>2, <5>3
      <4>4. CASE request[q].pc = "idle"
        BY <3>1, <4>4 DEF KnowsTheTable
      <4> QED
        BY <4>2, <4>3, <4>4
    <3>4. KnowsItsFile(q)'
      <4>1. SUFFICES ASSUME request[q].pc = "update", type'[request[q].row] # "NONE"
                     PROVE  KnowsItsFile(q)'
        BY <3>1 DEF KnowsItsFile
      <4>2. request[q].row \in Conversations \ {c}
        BY <1>5, <3>1, <4>1 DEF RequestIsSound
      <4>3. Renaming(request[q].row, q) => Renaming(request[q].row, q)'
        BY <1>3, <3>1 DEF Renaming
      <4> QED
        BY <1>2, <1>5, <3>1, <4>2, <4>3 DEF KnowsItsFile
    <3> QED
      BY <3>2, <3>3, <3>4
  <2> QED
    BY <2>1, <2>2
<1> QED
  BY <1>6, <1>8, <1>9, <1>10, <1>11 DEF IInv

-----------------------------------------------------------------------------
(* The theorems *)

LEMMA ReadStep ==
  ASSUME IInv, NEW r \in Requests, Read(r)
  PROVE  IInv'
BY ReadCreateStep, ReadUpdateStep, ReadDeleteStep, ReadAddStep, ReadRoleStep,
   ReadRemoveStep, ReadLeaveStep DEF Read

LEMMA ProceedStep ==
  ASSUME IInv, NEW r \in Requests, Proceed(r)
  PROVE  IInv'
<1>1. request[r].pc \in {"delete", "leave"} => request[r].row \in Conversations
  BY DEF IInv, RequestIsSound
<1>2. CASE Delete(r)
  BY <1>1, <1>2, DropStep DEF Delete
<1>3. CASE LeaveLast(r)
  BY <1>1, <1>3, DropStep DEF LeaveLast
<1> QED
  BY <1>2, <1>3, CreateStep, ReplaceAvatarStep, UpdateStep, RejoinStep, JoinStep,
     WriteRoleStep, FindSuccessorStep, RemoveStep, FindHeirStep, LeaveStep DEF Proceed

LEMMA StutterStep ==
  ASSUME IInv, UNCHANGED vars
  PROVE  IInv'
<1> USE DEF vars
<1>1. TypeOK' /\ AdminRemains' /\ DirectsHaveTwo' /\ DirectsDiffer'
  BY DEF IInv, TypeOK, AdminRemains, DirectsHaveTwo, DirectsDiffer, Members, Active, Rows
<1>2. FilesAreOwn' /\ AvatarIsStored'
  BY DEF IInv, FilesAreOwn, AvatarIsStored
<1>3. ASSUME NEW r \in Requests
      PROVE  RequestIsSound(r)' /\ KnowsTheTable(r)' /\ KnowsItsFile(r)'
  <2>1. RequestIsSound(r) /\ KnowsTheTable(r) /\ KnowsItsFile(r)
    BY DEF IInv
  <2>2. RequestIsSound(r)'
    BY <2>1 DEF RequestIsSound
  <2>3. KnowsTheTable(r)'
    BY <2>1, TheTableIsKept DEF table
  <2>4. KnowsItsFile(r)'
    BY <2>1 DEF KnowsItsFile, Renaming
  <2> QED
    BY <2>2, <2>3, <2>4
<1> QED
  BY <1>1, <1>2, <1>3 DEF IInv

LEMMA InitIInv ==
  ASSUME Init
  PROVE  IInv
<1>1. NoRow \in Membership /\ NoRow.at = "none"
  BY DEF NoRow, Membership, MemberRole
<1>2. TypeOK
  BY <1>1, IdleIsARequest, GroupMembershipAssumption DEF Init, TypeOK, Rows
<1>3. AdminRemains /\ DirectsHaveTwo /\ DirectsDiffer /\ AvatarIsStored
  BY DEF Init, AdminRemains, DirectsHaveTwo, DirectsDiffer, AvatarIsStored
<1>4. FilesAreOwn
  BY IdleIsARequest DEF Init, FilesAreOwn
<1>5. \A r \in Requests : RequestIsSound(r) /\ KnowsTheTable(r) /\ KnowsItsFile(r)
  BY DEF Init, Idle, RequestIsSound, KnowsTheTable, KnowsItsFile
<1> QED
  BY <1>2, <1>3, <1>4, <1>5 DEF IInv

\* The inductive invariant holds in every state of every behaviour: what a
\* handler in flight has read, and what the table says of it.
THEOREM Invariance == Spec => []IInv
<1>1. IInv /\ [Next]_vars => IInv'
  BY ReadStep, ProceedStep, AbortStep, StutterStep DEF Next
<1> QED
  BY InitIInv, <1>1, PTL DEF Spec

\* Every row, file and request keeps its shape; no membership outlives its
\* conversation.
THEOREM TypeCorrectness == Spec => []TypeOK
<1>1. IInv => TypeOK
  BY DEF IInv
<1> QED
  BY Invariance, <1>1, PTL

\* Additions, removals, departures and returns leave a conversation an active
\* admin, but for a role taken away or a decision that was overtaken.
THEOREM AnAdminRemains == Spec => []AdminRemains
<1>1. IInv => AdminRemains
  BY DEF IInv
<1> QED
  BY Invariance, <1>1, PTL

\* The avatar a conversation names is in storage, but for the two named ways
\* of losing it.
THEOREM AvatarsAreStored == Spec => []AvatarIsStored
<1>1. IInv => AvatarIsStored
  BY DEF IInv
<1> QED
  BY Invariance, <1>1, PTL

\* A user has one direct conversation with another, and it names the other.
LEMMA DirectsArePairs ==
  ASSUME IInv
  PROVE  OneDirectPerPair
<1>1. ASSUME NEW u \in Users,
             NEW c \in MyConversations(u) \ (raced \cup edited), type[c] = "DM"
      PROVE  /\ Cardinality(Participants(c, u) \cap Users) = 1
             /\ Active(c) = {u} \cup Participants(c, u)
  <2>1. PICK v, w \in Users : v # w /\ Active(c) = {v, w}
    BY <1>1 DEF IInv, DirectsHaveTwo, MyConversations
  <2>2. u \in {v, w}
    BY <1>1, <2>1 DEF MyConversations
  <2>3. PICK x \in Users : x # u /\ Active(c) = {u, x}
    BY <2>1, <2>2
  <2>4. Participants(c, u) = {x}
    BY <2>3 DEF Participants
  <2>5. Participants(c, u) \cap Users = {x}
    BY <2>4
  <2> QED
    BY <2>3, <2>4, <2>5, FS_Singleton
<1>2. ASSUME NEW u \in Users,
             NEW c \in MyConversations(u) \ (raced \cup edited), type[c] = "DM",
             NEW d \in MyConversations(u) \ (raced \cup edited), type[d] = "DM",
             Participants(c, u) = Participants(d, u)
      PROVE  c = d
  <2>1. Active(c) = Active(d)
    BY <1>1, <1>2
  <2>2. c \in Conversations /\ d \in Conversations
    BY DEF MyConversations
  <2> QED
    BY <1>2, <2>1, <2>2 DEF IInv, DirectsDiffer
<1> QED
  BY <1>1, <1>2 DEF OneDirectPerPair

\* However often it is asked for, there is one direct conversation of two.
THEOREM OneDirect == Spec => []OneDirectPerPair
<1> QED
  BY Invariance, DirectsArePairs, PTL

\* A step that deletes a group is an admin's, or its last member's departure,
\* or a departure that something has overtaken.
LEMMA GroupGoesByRight ==
  ASSUME IInv, [Next]_vars
  PROVE  \A c \in Conversations : type[c] = "GROUP" /\ type'[c] = "NONE" =>
           \E r \in Requests :
             /\ request[r].row = c /\ request'[r] = Idle
             /\ \/ Active(c) \subseteq {request[r].by}
                \/ request[r].pc = "delete" /\ request[r].by \in Members(c, "ADMIN")
                \/ ~request[r].fresh
<1>1. SUFFICES ASSUME NEW c \in Conversations, type[c] = "GROUP", type'[c] = "NONE"
               PROVE  \E r \in Requests :
                        /\ request[r].row = c /\ request'[r] = Idle
                        /\ \/ Active(c) \subseteq {request[r].by}
                           \/ request[r].pc = "delete" /\ request[r].by \in Members(c, "ADMIN")
                           \/ ~request[r].fresh
  OBVIOUS
<1>2. type' # type
  BY <1>1
<1>3. PICK r \in Requests : Delete(r) \/ LeaveLast(r)
  <2>1. PICK r \in Requests : Read(r) \/ Proceed(r) \/ Abort(r)
    BY <1>2 DEF Next, vars
  <2>2. ~Read(r) /\ ~Abort(r)
    <3>1. Read(r) => UNCHANGED table
      <4>1. \A u \in Users, U \in SUBSET Users, kind \in {"DM", "GROUP"} :
              ReadCreate(r, u, U, kind) => UNCHANGED table
        BY DEF ReadCreate
      <4>2. ASSUME NEW d \in Conversations, NEW u \in Users
            PROVE  /\ \A f \in Files \cup {None} : ReadUpdate(r, d, u, f) => UNCHANGED table
                   /\ ReadDelete(r, d, u) => UNCHANGED table
                   /\ \A U \in SUBSET Users : ReadAdd(r, d, u, U) => UNCHANGED table
        BY DEF ReadUpdate, ReadDelete, ReadAdd
      <4>3. ASSUME NEW d \in Conversations, NEW u \in Users
            PROVE  /\ \A v \in Users, role \in MemberRole :
                        ReadRole(r, d, u, v, role) => UNCHANGED table
                   /\ \A v \in Users : ReadRemove(r, d, u, v) => UNCHANGED table
                   /\ ReadLeave(r, d, u) => UNCHANGED table
        BY DEF ReadRole, ReadRemove, ReadLeave
      <4> QED
        BY <4>1, <4>2, <4>3 DEF Read
    <3>2. Abort(r) => UNCHANGED table
      BY DEF Abort
    <3> QED
      BY <1>2, <3>1, <3>2 DEF table
  <2>3. \A d \in Conversations, f \in Files \cup {None} : ~Create(r, d, f)
    <3>1. SUFFICES ASSUME NEW d \in Conversations, NEW f \in Files \cup {None}, Create(r, d, f)
                   PROVE  FALSE
      OBVIOUS
    <3>2. type[d] = "NONE" /\ type' = [type EXCEPT ![d] = request[r].kind]
      BY <3>1 DEF Create
    <3> QED
      BY <1>1, <3>2 DEF IInv, TypeOK
  <2> QED
    BY <1>2, <2>1, <2>2, <2>3 DEF Proceed, ReplaceAvatar, Update, Rejoin, Join, WriteRole,
       FindSuccessor, Remove, FindHeir, Leave, table
<1>4. RequestIsSound(r) /\ KnowsTheTable(r) /\ TypeOK
  BY DEF IInv
<1>5. Drop(r, request[r].row)
  BY <1>3 DEF Delete, LeaveLast
<1>6. request[r].row = c /\ request'[r] = Idle
  BY <1>1, <1>4, <1>5 DEF Drop, GoesOn, TypeOK
<1>7. CASE Delete(r)
  BY <1>1, <1>4, <1>6, <1>7 DEF Delete, KnowsTheTable
<1>8. CASE LeaveLast(r)
  <2>1. SUFFICES ASSUME request[r].fresh
                 PROVE  Active(c) \subseteq {request[r].by}
    BY <1>6
  <2>2. request[r].by \in Active(c) /\ Cardinality(Active(c)) <= 1
    BY <1>1, <1>4, <1>6, <1>8, <2>1 DEF LeaveLast, KnowsTheTable
  <2>3. ASSUME NEW x \in Active(c), x # request[r].by
        PROVE  FALSE
    <3>1. IsFiniteSet(Active(c))
      BY FS_Subset, GroupMembershipAssumption DEF Active
    <3>2. Cardinality({request[r].by} \cup {x}) = 2
        <4>1. IsFiniteSet({request[r].by}) /\ Cardinality({request[r].by}) = 1
        BY FS_Singleton
      <4>2. Cardinality({request[r].by} \cup {x}) = Cardinality({request[r].by}) + 1
        BY <2>3, <4>1, FS_AddElement
      <4> QED
        BY <4>1, <4>2
    <3>3. Cardinality({request[r].by} \cup {x}) <= Cardinality(Active(c))
      BY <2>2, <2>3, <3>1, FS_Subset
    <3>4. Cardinality(Active(c)) \in Nat
      BY <3>1, FS_CardinalityType
    <3> QED
      BY <2>2, <3>2, <3>3, <3>4
  <2> QED
    BY <2>3
<1> QED
  BY <1>3, <1>7, <1>8

\* Nobody loses a group he did not ask to lose, but by an overtaken departure.
THEOREM GroupsGoByRight == Spec => NobodyLosesTheGroup
<1>1. IInv /\ [Next]_vars =>
        [\A c \in Conversations : type[c] = "GROUP" /\ type'[c] = "NONE" =>
           \E r \in Requests :
             /\ request[r].row = c /\ request'[r] = Idle
             /\ \/ Active(c) \subseteq {request[r].by}
                \/ request[r].pc = "delete" /\ request[r].by \in Members(c, "ADMIN")
                \/ ~request[r].fresh]_vars
  BY GroupGoesByRight
<1> QED
  BY Invariance, <1>1, PTL DEF Spec, NobodyLosesTheGroup
===============================================================================
