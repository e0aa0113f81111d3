----------------------------- MODULE AccountsProofs -----------------------------
(***************************************************************************)
(* Proofs about Accounts, for any users, addresses, passwords, codes and   *)
(* requests.  IInv says what a request that is still fresh knows.  Nearly  *)
(* every step leaves the codes that were sent and the owners of addresses  *)
(* as they are, and the others keep what they know; the few steps that do  *)
(* not make stale whoever knows the address, or note that it moved.        *)
(***************************************************************************)
EXTENDS Accounts, FiniteSetTheorems, TLAPS

\* The fields of a request in flight have their types.
LEMMA RequestFields ==
  ASSUME TypeOK, NEW r \in Requests
  PROVE  /\ request[r] \in Request
         /\ request[r].user \in Users \cup {None}
         /\ request[r].email \in Emails \cup {None}
         /\ request[r].password \in Passwords \cup {None}
         /\ request[r].code \in Codes \cup {None}
         /\ request[r].purpose \in {"reset", "email"}
         /\ request[r].fresh \in BOOLEAN
<1>1. request[r] \in Request
  BY DEF TypeOK
<1> QED
  BY <1>1 DEF Request

LEMMA IdleIsARequest ==
  /\ Idle \in Request /\ Idle.pc = "idle"
  /\ Idle.user = None /\ Idle.email = None /\ Idle.code = None
BY DEF Idle, Request

\* A request that is done knows and needs nothing.
LEMMA IdleKnows ==
  ASSUME NEW r \in Requests, request'[r] = Idle
  PROVE  RequestIsSound(r)' /\ KnowsTheTables(r)'
BY DEF RequestIsSound, KnowsTheTables, Idle

\* The requests but r are what they were; those that know of S are stale.
OthersAsTheyWere(r, S) ==
  \A q \in Requests \ {r} :
    /\ request'[q].pc = request[q].pc /\ request'[q].user = request[q].user
    /\ request'[q].email = request[q].email /\ request'[q].code = request[q].code
    /\ request'[q].purpose = request[q].purpose
    /\ request[q] = Idle => request'[q] = Idle
    /\ request'[q].fresh =>
         request[q].fresh /\ request[q].user \notin S /\ request[q].email \notin S
    /\ request[q].email \in S => ~request'[q].fresh

\* A write makes the others stale that know of what it writes.
LEMMA OthersStay ==
  ASSUME TypeOK, NEW r \in Requests, NEW S \in SUBSET (Users \cup Emails),
         NEW next \in Request, Writes(r, S, next)
  PROVE  /\ request' \in [Requests -> Request]
         /\ request'[r] = next
         /\ OthersAsTheyWere(r, S)
         /\ raced \subseteq raced' /\ raced' \subseteq raced \cup S
         /\ ~request[r].fresh => S \subseteq raced'
         /\ handled' = handled
<1>1. \A q \in Requests : request[q] \in Request
  BY DEF TypeOK
<1>2. \A q \in Requests : request'[q] =
        IF q = r THEN next
        ELSE IF {request[q].user, request[q].email} \cap S # {}
             THEN [request[q] EXCEPT !.fresh = FALSE]
             ELSE request[q]
  BY DEF Writes
<1>3. \A q \in Requests : [request[q] EXCEPT !.fresh = FALSE] \in Request
  BY <1>1 DEF Request
<1>4. request' \in [Requests -> Request]
  <2>1. \A q \in Requests : request'[q] \in Request
    BY <1>1, <1>2, <1>3
  <2>2. request' = [q \in Requests |-> request'[q]]
    BY DEF Writes
  <2> QED
    BY <2>1, <2>2
<1>5. request'[r] = next
  BY <1>2
<1>6. ASSUME NEW q \in Requests \ {r}
      PROVE  /\ request'[q].pc = request[q].pc /\ request'[q].user = request[q].user
             /\ request'[q].email = request[q].email /\ request'[q].code = request[q].code
             /\ request'[q].purpose = request[q].purpose
             /\ request[q] = Idle => request'[q] = Idle
             /\ request'[q].fresh =>
                  request[q].fresh /\ request[q].user \notin S /\ request[q].email \notin S
             /\ request[q].email \in S => ~request'[q].fresh
  <2>1. CASE {request[q].user, request[q].email} \cap S # {}
    <3>1. request'[q] = [request[q] EXCEPT !.fresh = FALSE]
      BY <1>2, <2>1
    <3>2. request[q] # Idle
      BY <2>1, IdleIsARequest, AccountsAssumption
    <3>3. ~request'[q].fresh
      BY <1>1, <3>1 DEF Request
    <3> QED
      BY <1>1, <3>1, <3>2, <3>3 DEF Request
  <2>2. CASE {request[q].user, request[q].email} \cap S = {}
    BY <1>2, <2>2
  <2> QED
    BY <2>1, <2>2
<1>7. raced \subseteq raced' /\ raced' \subseteq raced \cup S /\ (~request[r].fresh => S \subseteq raced')
  BY DEF Writes
<1>8. handled' = handled
  BY DEF Writes
<1>9. OthersAsTheyWere(r, S)
  BY <1>6 DEF OthersAsTheyWere
<1> QED
  BY <1>4, <1>5, <1>7, <1>8, <1>9

-----------------------------------------------------------------------------
(* What most steps leave alone *)

\* A code keeps what it was sent with, and is not put back.
SentCodesStay ==
  \A t \in Codes :
    ucode[t].at # "unused" =>
      /\ ucode'[t].at # "unused" /\ ucode'[t].user = ucode[t].user
      /\ ucode'[t].email = ucode[t].email /\ ucode'[t].purpose = ucode[t].purpose
      /\ ucode[t].at = "deleted" => ucode'[t].at = "deleted"
      /\ t \notin Stored => ucode'[t].at \notin {"valid", "expired"}

\* No code is made.
NoneIsSent == \A t \in Codes : ucode[t].at = "unused" => ucode'[t].at = "unused"

\* What is noted as raced or moved stays so.
NotesGrow == raced \subseteq raced' /\ moved \subseteq moved' /\ cut \subseteq cut'

\* No account gets or loses an address.
OwnersStay == \A e \in Emails : Owner(e)' = Owner(e)

\* Owners of an address are those whose row says so.
LEMMA OwnersByRow ==
  ASSUME NEW e \in Emails
  PROVE  Owner(e) = {u \in Users : user[u].email = e}
BY AccountsAssumption DEF Owner, Exists

LEMMA OwnersByRowPrime ==
  ASSUME NEW e \in Emails
  PROVE  Owner(e)' = {u \in Users : user'[u].email = e}
BY AccountsAssumption DEF Owner, Exists

LEMMA OwnersStayWithEmails ==
  ASSUME \A u \in Users : user'[u].email = user[u].email
  PROVE  OwnersStay
BY OwnersByRow, OwnersByRowPrime DEF OwnersStay

LEMMA CodesUnchanged ==
  ASSUME ucode' = ucode
  PROVE  SentCodesStay /\ NoneIsSent
BY DEF SentCodesStay, NoneIsSent, Stored

\* Unique addresses are counted once.
LEMMA AtMostOne ==
  ASSUME NEW O, \A u, v \in O : u = v
  PROVE  Cardinality(O) <= 1
<1>1. CASE O = {}
  BY <1>1, FS_EmptySet
<1>2. CASE O # {}
  <2>1. PICK u \in O : TRUE
    BY <1>2
  <2>2. O = {u}
    BY <2>1
  <2>3. Cardinality({u}) = 1
    BY FS_Singleton
  <2> QED
    BY <2>2, <2>3
<1> QED
  BY <1>1, <1>2

\* The table of users when one row is written.
LEMMA RowWritten ==
  ASSUME TypeOK, NEW u \in Users, NEW row \in User, user' = [user EXCEPT ![u] = row]
  PROVE  /\ user' \in [Users -> User] /\ user'[u] = row
         /\ \A v \in Users \ {u} : user'[v] = user[v]
BY DEF TypeOK

\* The codes' own invariants, when none is made and no password is reset.
LEMMA CodesStay ==
  ASSUME IInv, SentCodesStay, NoneIsSent, NotesGrow, uses' = uses, missed' = missed
  PROVE  CodesAreSent' /\ OneCodeInForce' /\ ResetReachesItsOwner'
<1>1. CodesAreSent'
  BY DEF IInv, CodesAreSent, SentCodesStay, NoneIsSent
<1>2. OneCodeInForce'
  <2>1. \A t \in Stored' :
          t \in Stored /\ ucode'[t].user = ucode[t].user /\ ucode'[t].email = ucode[t].email
    BY DEF Stored, SentCodesStay, NoneIsSent
  <2> QED
    BY <2>1 DEF IInv, OneCodeInForce, NotesGrow
<1>3. ResetReachesItsOwner'
  <2>1. \A t \in missed : t \in Codes /\ ucode[t].at # "unused"
    BY DEF IInv, TypeOK, CodesAreSent
  <2> QED
    BY <2>1 DEF IInv, ResetReachesItsOwner, NotesGrow, SentCodesStay
<1> QED
  BY <1>1, <1>2, <1>3

LEMMA CodesStillReach ==
  ASSUME IInv, SentCodesStay, NoneIsSent, NotesGrow, OwnersStay
  PROVE  CodesReachTheirUser'
<1>1. SUFFICES ASSUME NEW t \in Stored', ucode'[t].purpose = "reset",
                      {ucode'[t].user, ucode'[t].email} \cap raced' = {},
                      ucode'[t].email \notin moved'
               PROVE  \A u : u \in Users /\ user'[u].email = ucode'[t].email <=> u = ucode'[t].user
  <2>1. ASSUME NEW t \in Stored', ucode'[t].purpose = "reset",
               {ucode'[t].user, ucode'[t].email} \cap raced' = {},
               ucode'[t].email \notin moved'
        PROVE  Owner(ucode[t].email)' = {ucode'[t].user}
    <3>1. \A u : u \in Users /\ user'[u].email = ucode'[t].email <=> u = ucode'[t].user
      BY <1>1, <2>1
    <3>2. ucode'[t].email \in Emails
      BY <2>1 DEF IInv, CodesAreSent, Stored, SentCodesStay, NoneIsSent
    <3>3. ucode'[t].email # None
      BY <3>2, AccountsAssumption
    <3> QED
      BY <3>1, <3>3 DEF Owner, Exists
  <2> QED
    BY <2>1 DEF CodesReachTheirUser, Undisturbed
<1>2. /\ t \in Codes /\ t \in Stored /\ ucode'[t].user = ucode[t].user
      /\ ucode'[t].email = ucode[t].email /\ ucode'[t].purpose = ucode[t].purpose
  BY <1>1 DEF Stored, SentCodesStay, NoneIsSent
<1>3. ucode[t].email \in Emails
  BY <1>2 DEF IInv, CodesAreSent, Stored
<1>4. Undisturbed(ucode[t].user, ucode[t].email)
  BY <1>1, <1>2 DEF Undisturbed, NotesGrow
<1>5. Owner(ucode[t].email) = {ucode[t].user}
  BY <1>1, <1>2, <1>4 DEF IInv, CodesReachTheirUser
<1>6. \A e \in Emails : {u \in Users : user'[u].email = e} = {u \in Users : user[u].email = e}
  BY OwnersByRow, OwnersByRowPrime DEF OwnersStay
<1>7. {u \in Users : user[u].email = ucode[t].email} = {ucode[t].user}
  BY <1>3, <1>5, OwnersByRow
<1> QED
  BY <1>2, <1>3, <1>6, <1>7

\* One request keeps what it knows when the owner of its address stays, or the
\* address is noted to have moved, and no code is made for its user or address.
LEMMA KnowledgeStays ==
  ASSUME IInv, NEW q \in Requests, SentCodesStay, NotesGrow,
         request'[q].pc = request[q].pc, request'[q].user = request[q].user,
         request'[q].email = request[q].email, request'[q].code = request[q].code,
         request'[q].purpose = request[q].purpose,
         request[q] = Idle => request'[q] = Idle,
         request'[q].fresh => request[q].fresh,
         request'[q].fresh /\ request[q].email \in Emails =>
           /\ Owner(request[q].email)' \subseteq Owner(request[q].email)
           /\ \/ Owner(request[q].email)' = Owner(request[q].email)
              \/ request[q].email \in moved',
         request'[q].fresh =>
           \A t \in Codes : ucode[t].at = "unused" /\ ucode'[t].at # "unused" =>
             ucode'[t].user # request[q].user /\ ucode'[t].email # request[q].email
  PROVE  RequestIsSound(q)' /\ KnowsTheTables(q)'
<1>1. RequestIsSound(q) /\ KnowsTheTables(q)
  BY DEF IInv
<1>2. RequestIsSound(q)'
  <2>1. request[q].pc = "idle" => request'[q] = Idle
    BY <1>1 DEF RequestIsSound
  <2>2. request[q].pc \in {"otp", "reset", "email", "used"} =>
          /\ request[q].code \in Codes
          /\ ucode'[request[q].code].at # "unused"
          /\ ucode'[request[q].code].email = request[q].email
    BY <1>1 DEF RequestIsSound, SentCodesStay
  <2> QED
    BY <1>1, <2>1, <2>2 DEF RequestIsSound
<1>3. KnowsTheTables(q)'
  <2> DEFINE e == request[q].email
             v == request[q].user
             k == request[q].code
             pc == request[q].pc
  <2>1. SUFFICES ASSUME request'[q].fresh
                 PROVE  KnowsTheTables(q)'
    BY DEF KnowsTheTables
  <2>2. request[q].fresh
    BY <2>1
  <2>3. \A t \in Stored' : \/ t \in Stored /\ ucode'[t].user = ucode[t].user
                                           /\ ucode'[t].email = ucode[t].email
                           \/ ucode'[t].user # v /\ ucode'[t].email # e
    BY <2>1 DEF Stored, SentCodesStay
  <2>4. pc = "register" => Owner(e)' = {}
    BY <1>1, <2>1, <2>2 DEF KnowsTheTables, RequestIsSound
  <2>5. pc = "create" => \A t \in Stored' : ucode'[t].user # v /\ ucode'[t].email # e
    BY <1>1, <2>2, <2>3 DEF KnowsTheTables
  <2>6. pc \in {"otp", "clear", "create"} /\ request[q].purpose = "reset"
          /\ Undisturbed(v, e)' => Owner(e)' = {v}
    <3>1. SUFFICES ASSUME pc \in {"otp", "clear", "create"}, request[q].purpose = "reset",
                          {v, e} \cap raced' = {}, e \notin moved'
                   PROVE  Owner(e)' = {v}
      BY DEF Undisturbed
    <3>2. Undisturbed(v, e)
      BY <3>1 DEF Undisturbed, NotesGrow
    <3>3. Owner(e) = {v} /\ e \in Emails
      BY <1>1, <2>2, <3>1, <3>2 DEF KnowsTheTables, RequestIsSound
    <3> QED
      BY <2>1, <3>1, <3>3
  <2>7. pc = "reset" /\ ucode'[k].purpose = "reset"
          /\ Undisturbed(ucode[k].user, e)' => Owner(e)' = {ucode'[k].user}
    <3>1. SUFFICES ASSUME pc = "reset", ucode'[k].purpose = "reset",
                          {ucode'[k].user, e} \cap raced' = {}, e \notin moved'
                   PROVE  Owner(e)' = {ucode'[k].user}
      BY DEF Undisturbed
    <3>2. /\ k \in Codes /\ ucode[k].at # "unused" /\ ucode'[k].user = ucode[k].user
          /\ ucode'[k].purpose = ucode[k].purpose /\ e \in Emails
      BY <1>1, <3>1 DEF RequestIsSound, SentCodesStay
    <3>3. Undisturbed(ucode[k].user, e)
      BY <3>1, <3>2 DEF Undisturbed, NotesGrow
    <3>4. Owner(e) = {ucode[k].user}
      BY <1>1, <2>2, <3>1, <3>2, <3>3 DEF KnowsTheTables
    <3> QED
      BY <2>1, <3>1, <3>2, <3>4
  <2>8. pc = "email" /\ ucode'[k].user = v /\ v \notin raced' =>
          \A t \in Stored' : ucode'[t].user = v => t = k
    <3>1. SUFFICES ASSUME pc = "email", ucode'[k].user = v, v \notin raced'
                   PROVE  \A t \in Stored' : ucode'[t].user = v => t = k
      OBVIOUS
    <3>2. k \in Codes /\ ucode'[k].user = ucode[k].user
      BY <1>1, <3>1 DEF RequestIsSound, SentCodesStay
    <3>3. \A t \in Stored : ucode[t].user = v => t = k
      BY <1>1, <2>2, <3>1, <3>2 DEF KnowsTheTables, NotesGrow
    <3> QED
      BY <2>3, <3>3
  <2> QED
    BY <2>4, <2>5, <2>6, <2>7, <2>8 DEF KnowsTheTables
<1> QED
  BY <1>2, <1>3

\* A code that was used stays used up in a step that uses and deletes none.
LEMMA UsedUpStays ==
  ASSUME IInv, NEW r \in Requests, SentCodesStay, NotesGrow, uses' = uses,
         request[r].pc # "used",
         \A q \in Requests \ {r} :
           /\ request'[q].pc = request[q].pc /\ request'[q].code = request[q].code
           /\ request'[q].fresh => request[q].fresh,
         request'[r].pc = "reset" => ucode[request'[r].code].at # "deleted"
  PROVE  CodesAreUsedUp'
<1>1. SUFFICES ASSUME NEW t \in Codes, uses[t] # 0, ucode'[t].email \notin raced', t \notin cut'
               PROVE  /\ \/ Uses(t)' # {}
                         \/ /\ ucode'[t].at = "deleted"
                            /\ \A q \in Requests :
                                 request'[q].pc = "reset" /\ request'[q].code = t =>
                                   ~request'[q].fresh
                      /\ uses[t] > 1 => \E q \in Uses(t)' : ~request'[q].fresh
  BY DEF CodesAreUsedUp, Uses
<1>2. /\ ucode[t].at # "unused" /\ ucode'[t].email = ucode[t].email
      /\ ucode[t].at = "deleted" => ucode'[t].at = "deleted"
  BY <1>1 DEF IInv, CodesAreSent, SentCodesStay
<1>3. /\ \/ Uses(t) # {}
         \/ /\ ucode[t].at = "deleted"
            /\ \A q \in Requests : request[q].pc = "reset" /\ request[q].code = t =>
                 ~request[q].fresh
      /\ uses[t] > 1 => \E q \in Uses(t) : ~request[q].fresh
  BY <1>1, <1>2 DEF IInv, CodesAreUsedUp, NotesGrow
<1>4. \A q \in Uses(t) : q \in Uses(t)' /\ (~request[q].fresh => ~request'[q].fresh)
  BY DEF Uses
<1> QED
  BY <1>2, <1>3, <1>4

\* Reads.
LEMMA Reading ==
  ASSUME IInv, NEW r \in Requests, NEW req \in Request, Start(r, req),
         UNCHANGED <<tables, history>>,
         req.pc = "reset" => ucode[req.code].at # "deleted",
         RequestIsSound(r)', KnowsTheTables(r)'
  PROVE  IInv'
<1> USE DEF tables, history
<1>1. /\ request[r] = Idle /\ request[r].pc = "idle" /\ handled' \in 0..MaxRequests
      /\ request' = [request EXCEPT ![r] = req]
  BY AccountsAssumption, IdleIsARequest DEF Start, IInv, TypeOK
<1>2. /\ request' \in [Requests -> Request] /\ request'[r] = req
      /\ \A q \in Requests \ {r} : request'[q] = request[q]
  BY <1>1 DEF IInv, TypeOK
<1>3. SentCodesStay /\ NoneIsSent /\ NotesGrow /\ OwnersStay
  BY CodesUnchanged, OwnersStayWithEmails DEF NotesGrow
<1>4. TypeOK'
  BY <1>1, <1>2 DEF IInv, TypeOK, Owner, Exists
<1>5. AddressesAreUnique' /\ RegisteredCanLogIn' /\ ActiveIsFound'
  BY DEF IInv, AddressesAreUnique, RegisteredCanLogIn, ActiveIsFound, LogsIn, Validated,
         PasswordIs, Owner, Exists, FindAll, Discoverable
<1>6. CodesAreSent' /\ OneCodeInForce' /\ ResetReachesItsOwner' /\ CodesReachTheirUser'
  BY <1>3, CodesStay, CodesStillReach
<1>7. CodesAreUsedUp'
  BY <1>1, <1>2, <1>3, UsedUpStays
<1>8. ASSUME NEW q \in Requests
      PROVE  RequestIsSound(q)' /\ KnowsTheTables(q)'
  <2>1. CASE q = r
    BY <2>1
  <2>2. CASE q # r
    <3>1. request'[q] = request[q]
      BY <1>2, <2>2
    <3>2. Owner(request[q].email)' = Owner(request[q].email)
      BY <3>1 DEF Owner, Exists
    <3> QED
      BY <1>3, <3>1, <3>2, KnowledgeStays
  <2> QED
    BY <2>1, <2>2
<1> QED
  BY <1>4, <1>5, <1>6, <1>7, <1>8 DEF IInv

\* With a password or, through Facebook, without.
LEMMA RegisterReads ==
  ASSUME IInv, NEW r \in Requests, NEW e \in Emails, NEW req \in Request,
         req.pc = "register", req.email = e,
         Owner(e) = {}, Start(r, req), UNCHANGED <<tables, history>>
  PROVE  IInv'
<1>1. request'[r] = req
  BY DEF Start, IInv, TypeOK
<1>2. RequestIsSound(r)'
  BY <1>1 DEF RequestIsSound
<1>3. KnowsTheTables(r)'
  <2>1. Owner(e)' = {}
    BY DEF Owner, Exists, tables
  <2> QED
    BY <1>1, <2>1 DEF KnowsTheTables
<1> QED
  BY <1>2, <1>3, Reading

LEMMA ReadRegisterStep ==
  ASSUME IInv, NEW r \in Requests, NEW e \in Emails, NEW p \in Passwords,
         ReadRegister(r, e, p)
  PROVE  IInv'
<1> DEFINE req == [Idle EXCEPT !.pc = "register", !.email = e, !.password = p]
<1>1. req \in Request /\ req.pc = "register" /\ req.email = e
  BY DEF Idle, Request
<1> QED
  BY <1>1, RegisterReads DEF ReadRegister

LEMMA ReadFacebookStep ==
  ASSUME IInv, NEW r \in Requests, NEW e \in Emails, ReadFacebook(r, e)
  PROVE  IInv'
<1> DEFINE req == [Idle EXCEPT !.pc = "register", !.email = e]
<1>1. req \in Request /\ req.pc = "register" /\ req.email = e
  BY DEF Idle, Request
<1> QED
  BY <1>1, RegisterReads DEF ReadFacebook

\* A reset is asked for by the address's owner, who is the only one.
LEMMA AskStep ==
  ASSUME IInv, NEW r \in Requests, NEW u \in Users, NEW e \in Emails,
         NEW purpose \in {"reset", "email"}, Ask(r, u, e, purpose),
         purpose = "reset" => e = user[u].email
  PROVE  IInv'
<1> DEFINE req == [Idle EXCEPT !.pc = "clear", !.user = u, !.email = e, !.purpose = purpose]
<1>1. /\ req \in Request /\ req.pc = "clear" /\ req.email = e /\ req.user = u
      /\ req.purpose = purpose
  BY DEF Idle, Request
<1>2. Start(r, req) /\ UNCHANGED <<tables, history>> /\ Exists(u)
  BY DEF Ask
<1> HIDE DEF req
<1>3. request'[r] = req /\ request[r] = Idle
  BY <1>2 DEF Start, IInv, TypeOK
<1>4. RequestIsSound(r)'
  BY <1>1, <1>3 DEF RequestIsSound
<1>5. KnowsTheTables(r)'
  <2>1. purpose = "reset" => Owner(e)' = {u}
    <3>1. AddressesAreUnique
      BY DEF IInv
    <3> QED
      BY <1>2, <3>1 DEF Owner, Exists, tables, AddressesAreUnique
  <2> QED
    BY <1>1, <1>3, <2>1 DEF KnowsTheTables
<1> QED
  BY <1>1, <1>2, <1>4, <1>5, Reading

LEMMA ForgotPasswordStep ==
  ASSUME IInv, NEW r \in Requests, NEW u \in Users, ForgotPassword(r, u)
  PROVE  IInv'
<1>1. user[u].email \in Emails
  <2>1. Exists(u) /\ user[u] \in User
    BY DEF ForgotPassword, Ask, IInv, TypeOK
  <2> QED
    BY <2>1 DEF Exists, User
<1> QED
  BY <1>1, AskStep DEF ForgotPassword

\* A code that validates is in force and was sent to the address.
LEMMA Validating ==
  ASSUME IInv, NEW e \in Emails, NEW t \in Codes, Validates(e, t)
  PROVE  /\ t \in Stored /\ ucode[t].at = "valid" /\ ucode[t].email = e
         /\ ucode[t].user \in Users
BY DEF Validates, Stored, IInv, CodesAreSent

LEMMA ReadResetStep ==
  ASSUME IInv, NEW r \in Requests, NEW e \in Emails, NEW t \in Codes,
         NEW p \in Passwords, ReadReset(r, e, t, p)
  PROVE  IInv'
<1> DEFINE req == [Idle EXCEPT !.pc = "reset", !.email = e, !.code = t, !.password = p]
<1>1. /\ req \in Request /\ req.pc = "reset" /\ req.email = e /\ req.code = t
  BY DEF Idle, Request
<1>2. Start(r, req) /\ UNCHANGED <<tables, history>> /\ Validates(e, t)
  BY DEF ReadReset
<1> HIDE DEF req
<1>3. request'[r] = req /\ request[r] = Idle
  BY <1>2 DEF Start, IInv, TypeOK
<1>4. t \in Stored /\ ucode[t].at = "valid" /\ ucode[t].email = e
  BY <1>2, Validating
<1>5. user' = user /\ ucode' = ucode /\ raced' = raced /\ moved' = moved
  BY <1>2 DEF tables, history
<1>6. RequestIsSound(r)'
  BY <1>1, <1>3, <1>4, <1>5 DEF RequestIsSound
<1>7. KnowsTheTables(r)'
  <2>1. ucode[t].purpose = "reset" /\ Undisturbed(ucode[t].user, e) => Owner(e) = {ucode[t].user}
    BY <1>4 DEF IInv, CodesReachTheirUser
  <2> QED
    BY <1>1, <1>3, <1>5, <2>1 DEF KnowsTheTables, Undisturbed, Owner, Exists
<1> QED
  BY <1>1, <1>2, <1>4, <1>6, <1>7, Reading

LEMMA ReadVerifyStep ==
  ASSUME IInv, NEW r \in Requests, NEW u \in Users, NEW e \in Emails, NEW t \in Codes,
         ReadVerify(r, u, e, t)
  PROVE  IInv'
<1> DEFINE req == [Idle EXCEPT !.pc = "verify", !.user = u, !.email = e]
<1>1. req \in Request /\ req.pc = "verify" /\ req.user = u
  BY DEF Idle, Request
<1>2. Start(r, req) /\ UNCHANGED <<tables, history>>
  BY DEF ReadVerify
<1> HIDE DEF req
<1>3. request'[r] = req
  BY <1>2 DEF Start, IInv, TypeOK
<1>4. RequestIsSound(r)' /\ KnowsTheTables(r)'
  BY <1>1, <1>3 DEF RequestIsSound, KnowsTheTables
<1> QED
  BY <1>1, <1>2, <1>4, Reading

LEMMA ReadOtpStep ==
  ASSUME IInv, NEW r \in Requests, NEW u \in Users, NEW e \in Emails, NEW t \in Codes,
         ReadOtp(r, u, e, t)
  PROVE  IInv'
<1> DEFINE req == [Idle EXCEPT !.pc = "otp", !.user = u, !.email = e, !.code = t]
<1>1. /\ req \in Request /\ req.pc = "otp" /\ req.user = u /\ req.email = e /\ req.code = t
  BY DEF Idle, Request
<1>2. Start(r, req) /\ UNCHANGED <<tables, history>> /\ Validates(e, t) /\ u \in Owner(e)
  BY DEF ReadOtp
<1> HIDE DEF req
<1>3. request'[r] = req
  BY <1>2 DEF Start, IInv, TypeOK
<1>4. ucode[t].at = "valid" /\ ucode[t].email = e
  BY <1>2, Validating
<1>5. user' = user /\ ucode' = ucode
  BY <1>2 DEF tables
<1>6. RequestIsSound(r)'
  BY <1>1, <1>3, <1>4, <1>5 DEF RequestIsSound
<1>7. KnowsTheTables(r)'
  <2>1. Owner(e)' = {u}
    <3>1. AddressesAreUnique
      BY DEF IInv
    <3> QED
      BY <1>2, <1>5, <3>1 DEF Owner, Exists, AddressesAreUnique
  <2> QED
    BY <1>1, <1>3, <2>1 DEF KnowsTheTables
<1> QED
  BY <1>1, <1>2, <1>6, <1>7, Reading

\* Of the codes of one user no other is in force.
LEMMA ReadEmailStep ==
  ASSUME IInv, NEW r \in Requests, NEW u \in Users, NEW e \in Emails, NEW t \in Codes,
         ReadEmail(r, u, e, t)
  PROVE  IInv'
<1> DEFINE req == [Idle EXCEPT !.pc = "email", !.user = u, !.email = e, !.code = t]
<1>1. /\ req \in Request /\ req.pc = "email" /\ req.user = u /\ req.email = e /\ req.code = t
  BY DEF Idle, Request
<1>2. Start(r, req) /\ UNCHANGED <<tables, history>> /\ Validates(e, t)
  BY DEF ReadEmail
<1> HIDE DEF req
<1>3. request'[r] = req
  BY <1>2 DEF Start, IInv, TypeOK
<1>4. t \in Stored /\ ucode[t].at = "valid" /\ ucode[t].email = e
  BY <1>2, Validating
<1>5. ucode' = ucode /\ raced' = raced
  BY <1>2 DEF tables, history
<1>6. RequestIsSound(r)'
  BY <1>1, <1>3, <1>4, <1>5 DEF RequestIsSound
<1>7. KnowsTheTables(r)'
  <2>1. ucode[t].user = u /\ u \notin raced => \A s \in Stored : ucode[s].user = u => s = t
    BY <1>4 DEF IInv, OneCodeInForce
  <2>2. Stored' = Stored
    BY <1>5 DEF Stored
  <2> QED
    BY <1>1, <1>3, <1>5, <2>1, <2>2 DEF KnowsTheTables
<1> QED
  BY <1>1, <1>2, <1>6, <1>7, Reading

LEMMA ReadOwnStep ==
  ASSUME IInv, NEW r \in Requests, NEW u \in Users, NEW p \in Passwords, ReadOwn(r, u, p)
  PROVE  IInv'
<1> DEFINE req == [Idle EXCEPT !.pc = "own", !.user = u, !.email = user[u].email, !.password = p]
<1>1. req \in Request /\ req.pc = "own"
  <2>1. user[u].email \in Emails \cup {None}
    BY DEF IInv, TypeOK, User
  <2> QED
    BY <2>1 DEF Idle, Request
<1>2. Start(r, req) /\ UNCHANGED <<tables, history>>
  BY DEF ReadOwn
<1> HIDE DEF req
<1>3. request'[r] = req
  BY <1>2 DEF Start, IInv, TypeOK
<1>4. RequestIsSound(r)' /\ KnowsTheTables(r)'
  BY <1>1, <1>3 DEF RequestIsSound, KnowsTheTables
<1> QED
  BY <1>1, <1>2, <1>4, Reading

LEMMA ReadEditStep ==
  ASSUME IInv, NEW r \in Requests, NEW u \in Users, NEW e \in Emails \cup {None},
         NEW p \in Passwords \cup {None}, ReadEdit(r, u, e, p)
  PROVE  IInv'
<1> DEFINE req == [Idle EXCEPT !.pc = "edit", !.user = u, !.email = e, !.password = p]
<1>1. req \in Request /\ req.pc = "edit" /\ req.user = u
  BY DEF Idle, Request
<1>2. Start(r, req) /\ UNCHANGED <<tables, history>>
  BY DEF ReadEdit
<1> HIDE DEF req
<1>3. request'[r] = req
  BY <1>2 DEF Start, IInv, TypeOK
<1>4. RequestIsSound(r)' /\ KnowsTheTables(r)'
  BY <1>1, <1>3 DEF RequestIsSound, KnowsTheTables
<1> QED
  BY <1>1, <1>2, <1>4, Reading

LEMMA ReadStep ==
  ASSUME IInv, NEW r \in Requests, Read(r)
  PROVE  IInv'
<1>1. CASE \E e \in Emails : ReadFacebook(r, e) \/ \E p \in Passwords : ReadRegister(r, e, p)
  BY <1>1, ReadFacebookStep, ReadRegisterStep
<1>2. CASE \E u \in Users : ForgotPassword(r, u) \/ \E e \in Emails : RequestEmailChange(r, u, e)
  BY <1>2, ForgotPasswordStep, AskStep DEF RequestEmailChange
<1> QED
  BY <1>1, <1>2, ReadResetStep, ReadVerifyStep, ReadOtpStep, ReadEmailStep, ReadOwnStep,
     ReadEditStep DEF Read

-----------------------------------------------------------------------------
(* The single writes of the owner and the staff, and what needs no request *)

\* Who could log in still can when his row keeps address, password and flag.
LEMMA LoginsStay ==
  ASSUME IInv, told' \subseteq told, raced \subseteq raced',
         \A x \in told' : \A v \in Users :
           user[v].email = x[1] =>
             /\ user'[v].email = user[v].email /\ user'[v].password = user[v].password
             /\ ~user[v].twofa => ~user'[v].twofa
  PROVE  RegisteredCanLogIn'
<1>1. SUFFICES ASSUME NEW x \in told', x[1] \notin raced'
               PROVE  LogsIn(x[1], x[2])'
  BY DEF RegisteredCanLogIn
<1>2. x \in told /\ LogsIn(x[1], x[2])
  BY <1>1 DEF IInv, RegisteredCanLogIn
<1>3. PICK v \in Users : /\ user[v].email # None /\ user[v].email = x[1]
                         /\ x[2] # None /\ user[v].password = x[2] /\ ~user[v].twofa
  BY <1>2 DEF LogsIn, Validated, Owner, Exists, PasswordIs
<1>4. /\ user'[v].email = x[1] /\ user'[v].password = x[2] /\ ~user'[v].twofa
  BY <1>1, <1>3
<1> QED
  BY <1>3, <1>4 DEF LogsIn, Validated, Owner, Exists, PasswordIs

\* When no request changes and no address.
LEMMA RequestsStay ==
  ASSUME IInv, SentCodesStay, NoneIsSent, NotesGrow, UNCHANGED <<request, uses, missed>>,
         \A e \in Emails : /\ Owner(e)' \subseteq Owner(e)
                           /\ Owner(e)' = Owner(e) \/ e \in moved'
  PROVE  /\ CodesAreUsedUp'
         /\ \A q \in Requests : RequestIsSound(q)' /\ KnowsTheTables(q)'
<1>1. ASSUME NEW q \in Requests
      PROVE  RequestIsSound(q)' /\ KnowsTheTables(q)'
  <2>1. request[q].email \in Emails =>
          /\ Owner(request[q].email)' \subseteq Owner(request[q].email)
          /\ \/ Owner(request[q].email)' = Owner(request[q].email)
             \/ request[q].email \in moved'
    BY DEF Owner, Exists
  <2>2. request'[q] = request[q]
    OBVIOUS
  <2> QED
    BY <2>1, <2>2, KnowledgeStays DEF NoneIsSent
<1>2. CodesAreUsedUp'
  <2>1. SUFFICES ASSUME NEW t \in Codes, uses[t] # 0, ucode'[t].email \notin raced', t \notin cut'
                 PROVE  /\ \/ Uses(t)' # {}
                           \/ /\ ucode'[t].at = "deleted"
                              /\ \A q \in Requests :
                                   request'[q].pc = "reset" /\ request'[q].code = t =>
                                     ~request'[q].fresh
                        /\ uses[t] > 1 => \E q \in Uses(t)' : ~request'[q].fresh
    BY DEF CodesAreUsedUp, Uses
  <2>2. /\ ucode'[t].email = ucode[t].email
        /\ ucode[t].at = "deleted" => ucode'[t].at = "deleted"
    BY <2>1 DEF IInv, CodesAreSent, SentCodesStay
  <2>3. Uses(t)' = Uses(t)
    BY DEF Uses
  <2> QED
    BY <2>1, <2>2, <2>3 DEF IInv, CodesAreUsedUp, NotesGrow
<1> QED
  BY <1>1, <1>2

\* A row is written that keeps its address.
LEMMA RowChanged ==
  ASSUME IInv, NEW r \in Requests, NEW u \in Users, NEW row \in User, Change(r, u, row),
         row.email = user[u].email, told' \subseteq told,
         \A x \in told' : x[1] = user[u].email =>
           /\ row.password = user[u].password
           /\ ~user[u].twofa => ~row.twofa,
         moved' = moved, restored' \subseteq Users, restored \ {u} \subseteq restored',
         row.status = "ACTIVE" /\ u \notin restored' => ~row.hidden
  PROVE  IInv'
<1>1. /\ user' = [user EXCEPT ![u] = row] /\ handled' \in 0..MaxRequests
      /\ UNCHANGED <<ucode, request, uses, missed, raced, cut>>
  BY AccountsAssumption DEF Change, IInv, TypeOK
<1>2. /\ user' \in [Users -> User] /\ user'[u] = row
      /\ \A v \in Users \ {u} : user'[v] = user[v]
  BY <1>1, RowWritten DEF IInv
<1>3. \A v \in Users : user'[v].email = user[v].email
  BY <1>2
<1>4. SentCodesStay /\ NoneIsSent /\ NotesGrow /\ OwnersStay
  BY <1>1, <1>3, CodesUnchanged, OwnersStayWithEmails DEF NotesGrow
<1>5. AddressesAreUnique'
  BY <1>3 DEF IInv, AddressesAreUnique, Exists
<1>6. \A e \in Emails : Cardinality(Owner(e)') <= 1
  BY <1>4 DEF IInv, TypeOK, OwnersStay
<1>7. TypeOK'
  <2>1. TypeOK
    BY DEF IInv
  <2>2. told' \subseteq Emails \X Passwords /\ moved' \subseteq Emails
    BY <2>1 DEF TypeOK
  <2>3. /\ ucode' \in [Codes -> Ucode] /\ request' \in [Requests -> Request]
        /\ uses' \in [Codes -> 0..2] /\ missed' \cup cut' \subseteq Codes
        /\ raced' \subseteq Users \cup Emails
    BY <1>1, <2>1 DEF TypeOK
  <2> QED
    BY <1>1, <1>2, <1>6, <2>2, <2>3 DEF TypeOK
<1>8. RegisteredCanLogIn'
  <2>1. \A x \in told' : \A v \in Users :
          user[v].email = x[1] =>
            /\ user'[v].email = user[v].email /\ user'[v].password = user[v].password
            /\ ~user[v].twofa => ~user'[v].twofa
    BY <1>2
  <2> QED
    BY <1>1, <2>1, LoginsStay
<1>9. ActiveIsFound'
  <2>1. ASSUME NEW v \in Users, user'[v].status = "ACTIVE", v \notin restored', Exists(v)'
        PROVE  ~user'[v].hidden
    <3>1. CASE v = u
      BY <1>2, <2>1, <3>1
    <3>2. CASE v # u
      <4>1. v \in FindAll("ACTIVE") \ restored
        BY <1>2, <2>1, <3>2 DEF FindAll, Exists
      <4> QED
        BY <1>2, <3>2, <4>1 DEF IInv, ActiveIsFound, Discoverable
    <3> QED
      BY <3>1, <3>2
  <2> QED
    BY <2>1 DEF ActiveIsFound, FindAll, Discoverable, Exists
<1>10. CodesAreSent' /\ OneCodeInForce' /\ ResetReachesItsOwner' /\ CodesReachTheirUser'
  BY <1>1, <1>4, CodesStay, CodesStillReach
<1>11. /\ CodesAreUsedUp'
       /\ \A q \in Requests : RequestIsSound(q)' /\ KnowsTheTables(q)'
  BY <1>1, <1>4, RequestsStay DEF OwnersStay
<1> QED
  BY <1>5, <1>7, <1>8, <1>9, <1>10, <1>11 DEF IInv

\* Only a change of status finds the account of somebody who disabled it.
LEMMA AtOnceStep ==
  ASSUME IInv, NEW r \in Requests, NEW u \in Users,
         \/ Approve(r, u) \/ Reject(r, u)
         \/ \E status \in {"ACTIVE", "BLOCKED"} : UpdateStatus(r, u, status)
         \/ DisableAccount(r, u) \/ ActivateAccount(r, u)
         \/ Generate2FASecret(r, u) \/ Enable2FA(r, u) \/ Disable2FA(r, u)
  PROVE  IInv'
<1>1. /\ user[u] \in User /\ restored \subseteq Users
      /\ told' = told => told' \subseteq told
  BY DEF IInv, TypeOK
<1>2. Exists(u) => (user[u].status = "ACTIVE" /\ u \notin restored => ~user[u].hidden)
  BY DEF IInv, ActiveIsFound, FindAll, Discoverable
<1>3. ASSUME NEW row, Change(r, u, row)
      PROVE  Exists(u)
  BY <1>3 DEF Change
<1>4. CASE Approve(r, u)
  <2> DEFINE row == [user[u] EXCEPT !.approved = TRUE]
  <2>1. /\ row \in User /\ row.email = user[u].email /\ row.password = user[u].password
        /\ row.twofa = user[u].twofa /\ row.status = user[u].status
        /\ row.hidden = user[u].hidden
    BY <1>1 DEF User
  <2>2. Change(r, u, row) /\ UNCHANGED <<told, moved, restored>>
    BY <1>4 DEF Approve
  <2> HIDE DEF row
  <2> QED
    BY <1>1, <1>2, <1>3, <2>1, <2>2, RowChanged
<1>5. CASE Reject(r, u)
  <2> DEFINE row == [user[u] EXCEPT !.approved = FALSE, !.status = "REJECTED"]
  <2>1. /\ row \in User /\ row.email = user[u].email /\ row.password = user[u].password
        /\ row.twofa = user[u].twofa /\ row.status = "REJECTED"
    BY <1>1 DEF User, UserStatus
  <2>2. Change(r, u, row) /\ UNCHANGED <<told, moved, restored>>
    BY <1>5 DEF Reject
  <2> HIDE DEF row
  <2> QED
    BY <1>1, <2>1, <2>2, RowChanged
<1>6. CASE \E status \in {"ACTIVE", "BLOCKED"} : UpdateStatus(r, u, status)
  <2>1. PICK status \in {"ACTIVE", "BLOCKED"} : UpdateStatus(r, u, status)
    BY <1>6
  <2> DEFINE row == [user[u] EXCEPT !.status = status]
  <2>2. /\ row \in User /\ row.email = user[u].email /\ row.password = user[u].password
        /\ row.twofa = user[u].twofa
    BY <1>1 DEF User, UserStatus
  <2>3. Change(r, u, row) /\ UNCHANGED <<told, moved>> /\ restored' = restored \cup {u}
    BY <2>1 DEF UpdateStatus
  <2> HIDE DEF row
  <2> QED
    BY <1>1, <2>2, <2>3, RowChanged
<1>7. CASE DisableAccount(r, u)
  <2> DEFINE row == [user[u] EXCEPT !.status = "DEACTIVATED", !.hidden = TRUE]
  <2>1. /\ row \in User /\ row.email = user[u].email /\ row.password = user[u].password
        /\ row.twofa = user[u].twofa /\ row.status = "DEACTIVATED"
    BY <1>1 DEF User, UserStatus
  <2>2. Change(r, u, row) /\ UNCHANGED <<told, moved, restored>>
    BY <1>7 DEF DisableAccount
  <2> HIDE DEF row
  <2> QED
    BY <1>1, <2>1, <2>2, RowChanged
<1>8. CASE ActivateAccount(r, u)
  <2> DEFINE row == [user[u] EXCEPT !.status = "ACTIVE", !.hidden = FALSE]
  <2>1. /\ row \in User /\ row.email = user[u].email /\ row.password = user[u].password
        /\ row.twofa = user[u].twofa /\ ~row.hidden
    BY <1>1 DEF User, UserStatus
  <2>2. Change(r, u, row) /\ UNCHANGED <<told, moved>> /\ restored' = restored \ {u}
    BY <1>8 DEF ActivateAccount
  <2> HIDE DEF row
  <2> QED
    BY <1>1, <2>1, <2>2, RowChanged
<1>9. CASE Generate2FASecret(r, u)
  <2> DEFINE row == [user[u] EXCEPT !.secret = TRUE]
  <2>1. /\ row \in User /\ row.email = user[u].email /\ row.password = user[u].password
        /\ row.twofa = user[u].twofa /\ row.status = user[u].status
        /\ row.hidden = user[u].hidden
    BY <1>1 DEF User
  <2>2. Change(r, u, row) /\ UNCHANGED <<told, moved, restored>>
    BY <1>9 DEF Generate2FASecret
  <2> HIDE DEF row
  <2> QED
    BY <1>1, <1>2, <1>3, <2>1, <2>2, RowChanged
<1>10. CASE Enable2FA(r, u)
  <2> DEFINE row == [user[u] EXCEPT !.twofa = TRUE]
  <2>1. /\ row \in User /\ row.email = user[u].email /\ row.status = user[u].status
        /\ row.hidden = user[u].hidden
    BY <1>1 DEF User
  <2>2. Change(r, u, row) /\ UNCHANGED <<moved, restored>> /\ Forget({user[u].email})
    BY <1>10 DEF Enable2FA
  <2>3. told' \subseteq told /\ \A x \in told' : x[1] # user[u].email
    BY <2>2 DEF Forget
  <2> HIDE DEF row
  <2> QED
    BY <1>1, <1>2, <1>3, <2>1, <2>2, <2>3, RowChanged
<1>11. CASE Disable2FA(r, u)
  <2> DEFINE row == [user[u] EXCEPT !.secret = FALSE, !.twofa = FALSE]
  <2>1. /\ row \in User /\ row.email = user[u].email /\ row.password = user[u].password
        /\ ~row.twofa /\ row.status = user[u].status
        /\ row.hidden = user[u].hidden
    BY <1>1 DEF User
  <2>2. Change(r, u, row) /\ UNCHANGED <<told, moved, restored>>
    BY <1>11 DEF Disable2FA
  <2> HIDE DEF row
  <2> QED
    BY <1>1, <1>2, <1>3, <2>1, <2>2, RowChanged
<1> QED
  BY <1>4, <1>5, <1>6, <1>7, <1>8, <1>9, <1>10, <1>11

-----------------------------------------------------------------------------
(* The second steps of requests *)

\* The others know what they knew, or are stale: a step writes the owners of
\* addresses it makes them stale for, and so it makes codes.
LEMMA OthersKnow ==
  ASSUME IInv, NEW r \in Requests, NEW S \in SUBSET (Users \cup Emails),
         NEW next \in Request, Writes(r, S, next), SentCodesStay, NotesGrow,
         \A e \in Emails : e \notin S => Owner(e)' = Owner(e),
         \A t \in Codes : ucode[t].at = "unused" /\ ucode'[t].at # "unused" =>
           ucode'[t].user \in S /\ ucode'[t].email \in S
  PROVE  \A q \in Requests \ {r} : RequestIsSound(q)' /\ KnowsTheTables(q)'
<1>1. SUFFICES ASSUME NEW q \in Requests \ {r}
               PROVE  RequestIsSound(q)' /\ KnowsTheTables(q)'
  OBVIOUS
<1>2. TypeOK
  BY DEF IInv
<1>3. /\ request'[q].pc = request[q].pc /\ request'[q].user = request[q].user
      /\ request'[q].email = request[q].email /\ request'[q].code = request[q].code
      /\ request'[q].purpose = request[q].purpose
      /\ request[q] = Idle => request'[q] = Idle
      /\ request'[q].fresh =>
           request[q].fresh /\ request[q].user \notin S /\ request[q].email \notin S
  <2>1. OthersAsTheyWere(r, S)
    BY <1>2, OthersStay
  <2> QED
    BY <2>1 DEF OthersAsTheyWere
<1>4. ASSUME request'[q].fresh, NEW e \in Emails, e = request[q].email
      PROVE  Owner(e)' = Owner(e)
  BY <1>3, <1>4
<1>5. request'[q].fresh /\ request[q].email \in Emails =>
        Owner(request[q].email)' = Owner(request[q].email)
  <2>1. ASSUME request'[q].fresh, NEW e \in Emails, e = request[q].email
        PROVE  {v \in Users : user'[v].email = e} = {v \in Users : user[v].email = e}
    BY <1>4, <2>1, OwnersByRow, OwnersByRowPrime
  <2>2. ASSUME request'[q].fresh, request[q].email \in Emails
        PROVE  {v \in Users : user'[v].email = request[q].email}
                 = {v \in Users : user[v].email = request[q].email}
    BY <2>1, <2>2
  <2> QED
    BY <1>3, <2>2 DEF Owner, Exists
<1>6. request'[q].fresh =>
        \A t \in Codes : ucode[t].at = "unused" /\ ucode'[t].at # "unused" =>
          ucode'[t].user # request[q].user /\ ucode'[t].email # request[q].email
  BY <1>3
<1> QED
  BY <1>3, <1>5, <1>6, KnowledgeStays

\* The parts of the invariant that a second step need not argue anew.
LEMMA WrittenStep ==
  ASSUME IInv, NEW r \in Requests, NEW S \in SUBSET (Users \cup Emails),
         NEW next \in Request, Writes(r, S, next), SentCodesStay, NotesGrow,
         user' \in [Users -> User], ucode' \in [Codes -> Ucode],
         told' \subseteq Emails \X Passwords, uses' \in [Codes -> 0..2],
         missed' \subseteq Codes, moved' \subseteq Emails,
         cut' = cut, restored' = restored,
         AddressesAreUnique', RegisteredCanLogIn',
         \A v \in Users : \/ ~user'[v].hidden
                          \/ /\ Exists(v) /\ user'[v].status = user[v].status
                             /\ user'[v].hidden = user[v].hidden
                          \/ user'[v] = user[v],
         \A e \in Emails : e \notin S => Owner(e)' = Owner(e),
         \A t \in Codes : ucode[t].at = "unused" /\ ucode'[t].at # "unused" =>
           ucode'[t].user \in S /\ ucode'[t].email \in S,
         CodesAreSent', OneCodeInForce', CodesReachTheirUser', CodesAreUsedUp',
         ResetReachesItsOwner', RequestIsSound(r)', KnowsTheTables(r)'
  PROVE  IInv'
<1>1. TypeOK
  BY DEF IInv
<1>2. TypeOK'
  <2>1. /\ request' \in [Requests -> Request] /\ handled' = handled
        /\ raced' \subseteq raced \cup S
    BY <1>1, OthersStay
  <2>2. \A e \in Emails : Cardinality(Owner(e)') <= 1
    <3>1. SUFFICES ASSUME NEW e \in Emails
                   PROVE  Cardinality(Owner(e)') <= 1
      OBVIOUS
    <3>2. PICK O : O = Owner(e)'
      OBVIOUS
    <3>3. \A u, v \in O : u = v
      BY <3>2 DEF Owner, AddressesAreUnique
    <3>4. Cardinality(O) <= 1
      BY <3>3, AtMostOne
    <3> QED
      BY <3>2, <3>4
  <2>3. missed' \cup cut' \subseteq Codes /\ restored' \subseteq Users
        /\ handled' \in 0..MaxRequests /\ raced' \subseteq Users \cup Emails
    BY <1>1, <2>1 DEF TypeOK
  <2> QED
    BY <2>1, <2>2, <2>3 DEF TypeOK
<1>3. ActiveIsFound'
  <2>1. ASSUME NEW v \in Users, Exists(v)', user'[v].status = "ACTIVE", v \notin restored
        PROVE  ~user'[v].hidden
    <3>1. CASE Exists(v) /\ user'[v].status = user[v].status /\ user'[v].hidden = user[v].hidden
      BY <2>1, <3>1 DEF IInv, ActiveIsFound, FindAll, Discoverable
    <3>2. CASE user'[v] = user[v]
      BY <2>1, <3>2 DEF IInv, ActiveIsFound, FindAll, Discoverable, Exists
    <3> QED
      BY <3>1, <3>2
  <2> QED
    BY <2>1 DEF ActiveIsFound, FindAll, Discoverable, Exists
<1>4. \A q \in Requests : RequestIsSound(q)' /\ KnowsTheTables(q)'
  BY OthersKnow
<1> QED
  BY <1>2, <1>3, <1>4 DEF IInv

\* When the table of users is left alone.
LEMMA UsersStay ==
  ASSUME IInv, user' = user, NotesGrow, told' = told
  PROVE  /\ AddressesAreUnique' /\ RegisteredCanLogIn' /\ OwnersStay
         /\ \A e \in Emails : Owner(e)' = Owner(e)
         /\ user' \in [Users -> User]
<1>1. AddressesAreUnique'
  BY DEF IInv, AddressesAreUnique, Exists
<1>2. RegisteredCanLogIn'
  BY LoginsStay DEF NotesGrow
<1>3. OwnersStay
  BY OwnersStayWithEmails
<1> QED
  BY <1>1, <1>2, <1>3 DEF OwnersStay, IInv, TypeOK

\* The bookkeeping of a step that deletes codes.
LEMMA CodesDeleted ==
  ASSUME IInv, NEW D \in SUBSET Codes, \A t \in D : ucode[t].at # "unused",
         ucode' = [t \in Codes |-> IF t \in D THEN [ucode[t] EXCEPT !.at = "deleted"]
                                   ELSE ucode[t]]
  PROVE  /\ ucode' \in [Codes -> Ucode] /\ SentCodesStay /\ NoneIsSent
         /\ \A t \in D : ucode'[t].at = "deleted"
         /\ \A t \in Codes \ D : ucode'[t] = ucode[t]
         /\ \A t \in Codes : /\ ucode'[t].user = ucode[t].user
                             /\ ucode'[t].email = ucode[t].email
                             /\ ucode'[t].purpose = ucode[t].purpose
<1>1. \A t \in Codes : ucode[t] \in Ucode
  BY DEF IInv, TypeOK
<1>2. \A t \in Codes : ucode'[t] = IF t \in D THEN [ucode[t] EXCEPT !.at = "deleted"]
                                   ELSE ucode[t]
  OBVIOUS
<1>3. ASSUME NEW t \in Codes
      PROVE  /\ ucode'[t] \in Ucode
             /\ ucode'[t].user = ucode[t].user /\ ucode'[t].email = ucode[t].email
             /\ ucode'[t].purpose = ucode[t].purpose
             /\ t \in D => ucode'[t].at = "deleted"
             /\ t \notin D => ucode'[t] = ucode[t]
  BY <1>1, <1>2 DEF Ucode
<1>4. ucode' \in [Codes -> Ucode]
  BY <1>3
<1>5. SentCodesStay
  BY <1>3 DEF SentCodesStay, Stored
<1>6. NoneIsSent
  BY <1>3 DEF NoneIsSent
<1> QED
  BY <1>3, <1>4, <1>5, <1>6

\* One code is deleted.
LEMMA CodeDeleted ==
  ASSUME IInv, NEW k \in Codes, ucode[k].at # "unused", Delete(k)
  PROVE  /\ ucode' \in [Codes -> Ucode] /\ SentCodesStay /\ NoneIsSent
         /\ ucode'[k].at = "deleted"
         /\ \A t \in Codes \ {k} : ucode'[t] = ucode[t]
<1>1. ucode \in [Codes -> Ucode]
  BY DEF IInv, TypeOK
<1>2. ucode' = [t \in Codes |-> IF t \in {k} THEN [ucode[t] EXCEPT !.at = "deleted"]
                                ELSE ucode[t]]
  BY <1>1 DEF Delete
<1>3. {k} \in SUBSET Codes /\ \A t \in {k} : ucode[t].at # "unused"
  OBVIOUS
<1>4. /\ ucode' \in [Codes -> Ucode] /\ SentCodesStay /\ NoneIsSent
      /\ \A t \in {k} : ucode'[t].at = "deleted"
      /\ \A t \in Codes \ {k} : ucode'[t] = ucode[t]
  BY <1>2, <1>3, CodesDeleted
<1> QED
  BY <1>4

\* What is to be shown of each code in force, after a step.
LEMMA ReachesByCode ==
  ASSUME \A t \in Stored' : \A v, f :
           /\ ucode'[t].user = v /\ ucode'[t].email = f /\ ucode'[t].purpose = "reset"
           /\ v \notin raced' /\ f \notin raced' /\ f \notin moved'
           => Owner(f)' = {v}
  PROVE  CodesReachTheirUser'
<1>1. SUFFICES ASSUME NEW t \in Stored', ucode'[t].purpose = "reset",
                      {ucode'[t].user, ucode'[t].email} \cap raced' = {},
                      ucode'[t].email \notin moved'
               PROVE  {w \in Users : user'[w].email # None /\ user'[w].email = ucode'[t].email}
                        = {ucode'[t].user}
  BY DEF CodesReachTheirUser, Undisturbed, Owner, Exists
<1>2. \A v, f : ucode'[t].user = v /\ ucode'[t].email = f =>
        {w \in Users : user'[w].email # None /\ user'[w].email = f} = {v}
  BY <1>1 DEF Owner, Exists
<1> QED
  BY <1>2

-----------------------------------------------------------------------------
(* Codes *)

LEMMA ClearStep ==
  ASSUME IInv, NEW r \in Requests, Clear(r)
  PROVE  IInv'
<1> DEFINE u == request[r].user
           e == request[r].email
           next == [request[r] EXCEPT !.pc = "create"]
           D == {t \in Codes : t \in Stored /\ (ucode[t].user = u \/ ucode[t].email = e)}
<1>1. /\ request[r].pc = "clear" /\ Writes(r, {u, e}, next)
      /\ ucode' = [t \in Codes |-> IF t \in D THEN [ucode[t] EXCEPT !.at = "deleted"]
                                   ELSE ucode[t]]
      /\ UNCHANGED <<user, told, uses, missed, moved, restored, cut>>
  BY DEF Clear
<1>2. TypeOK /\ RequestIsSound(r) /\ KnowsTheTables(r)
  BY DEF IInv
<1>3. u \in Users /\ e \in Emails /\ {u, e} \in SUBSET (Users \cup Emails)
  BY <1>1, <1>2 DEF RequestIsSound
<1>4. /\ next \in Request /\ next.pc = "create" /\ next.user = u /\ next.email = e
      /\ next.purpose = request[r].purpose /\ next.fresh = request[r].fresh
  BY <1>2, RequestFields DEF Request
<1>5. D \in SUBSET Codes /\ \A t \in D : ucode[t].at # "unused"
  BY DEF Stored
<1>6. \A t \in Stored : (ucode[t].user # u /\ ucode[t].email # e) \/ t \in D
  BY DEF Stored
<1> HIDE DEF next, D
<1>7. /\ ucode' \in [Codes -> Ucode] /\ SentCodesStay /\ NoneIsSent
      /\ \A t \in D : ucode'[t].at = "deleted"
      /\ \A t \in Codes \ D : ucode'[t] = ucode[t]
  BY <1>1, <1>5, CodesDeleted
<1>8. /\ request'[r] = next /\ OthersAsTheyWere(r, {u, e}) /\ raced \subseteq raced'
  BY <1>1, <1>2, <1>3, <1>4, OthersStay
<1>9. NotesGrow
  BY <1>1, <1>8 DEF NotesGrow
<1>10. /\ AddressesAreUnique' /\ RegisteredCanLogIn' /\ OwnersStay
       /\ \A f \in Emails : Owner(f)' = Owner(f)
       /\ user' \in [Users -> User]
  BY <1>1, <1>9, UsersStay
<1>11. CodesAreSent' /\ OneCodeInForce' /\ ResetReachesItsOwner' /\ CodesReachTheirUser'
  BY <1>1, <1>7, <1>9, <1>10, CodesStay, CodesStillReach
<1>12. CodesAreUsedUp'
  BY <1>1, <1>4, <1>7, <1>8, <1>9, UsedUpStays DEF OthersAsTheyWere
<1>13. RequestIsSound(r)'
  BY <1>3, <1>4, <1>8 DEF RequestIsSound
<1>14. KnowsTheTables(r)'
  <2>1. \A t \in Stored' : ucode'[t].user # u /\ ucode'[t].email # e
    BY <1>6, <1>7 DEF Stored
  <2>2. request[r].fresh /\ request[r].purpose = "reset" /\ Undisturbed(u, e)'
          => Owner(e)' = {u}
    <3>1. Undisturbed(u, e)' => Undisturbed(u, e)
      BY <1>4, <1>8, <1>9 DEF Undisturbed, NotesGrow
    <3>2. request[r].fresh /\ request[r].purpose = "reset" /\ Undisturbed(u, e)
            => Owner(e) = {u}
      BY <1>1, <1>2 DEF KnowsTheTables
    <3>3. Owner(e)' = Owner(e)
      BY <1>1, <1>4, <1>8 DEF Owner, Exists
    <3> QED
      BY <1>4, <1>8, <3>1, <3>2, <3>3
  <2> QED
    BY <1>4, <1>8, <2>1, <2>2 DEF KnowsTheTables
<1>15. /\ told' \subseteq Emails \X Passwords /\ uses' \in [Codes -> 0..2]
       /\ missed' \subseteq Codes /\ moved' \subseteq Emails
  BY <1>1, <1>2 DEF TypeOK
<1>16. /\ \A v \in Users : user'[v] = user[v]
       /\ \A t \in Codes : ucode[t].at = "unused" => ucode'[t].at = "unused"
  BY <1>1, <1>7 DEF NoneIsSent
<1> QED
  BY <1>1, <1>3, <1>4, <1>7, <1>9, <1>10, <1>11, <1>12, <1>13, <1>14, <1>15, <1>16, WrittenStep

\* The exchange for a reset token goes on with what it read.
LEMMA ExchangeOtpStep ==
  ASSUME IInv, NEW r \in Requests, ExchangeOtp(r)
  PROVE  IInv'
<1> DEFINE u == request[r].user
           e == request[r].email
           k == request[r].code
           next == [request[r] EXCEPT !.pc = "clear", !.code = None]
<1>1. /\ request[r].pc = "otp" /\ Writes(r, {e}, next) /\ Delete(k)
      /\ UNCHANGED <<user, told, uses, missed, moved, restored, cut>>
  BY DEF ExchangeOtp
<1>2. TypeOK /\ RequestIsSound(r) /\ KnowsTheTables(r)
  BY DEF IInv
<1>3. /\ u \in Users /\ e \in Emails /\ {e} \in SUBSET (Users \cup Emails)
      /\ k \in Codes /\ ucode[k].at # "unused"
  BY <1>1, <1>2 DEF RequestIsSound
<1>4. /\ next \in Request /\ next.pc = "clear" /\ next.user = u /\ next.email = e
      /\ next.purpose = request[r].purpose /\ next.fresh = request[r].fresh
  BY <1>2, RequestFields DEF Request
<1> HIDE DEF next
<1>7. ucode' \in [Codes -> Ucode] /\ SentCodesStay /\ NoneIsSent
  BY <1>1, <1>3, CodeDeleted
<1>8. /\ request'[r] = next /\ OthersAsTheyWere(r, {e}) /\ raced \subseteq raced'
  BY <1>1, <1>2, <1>3, <1>4, OthersStay
<1>9. NotesGrow
  BY <1>1, <1>8 DEF NotesGrow
<1>10. /\ AddressesAreUnique' /\ RegisteredCanLogIn' /\ OwnersStay
       /\ \A f \in Emails : Owner(f)' = Owner(f)
       /\ user' \in [Users -> User]
  BY <1>1, <1>9, UsersStay
<1>11. CodesAreSent' /\ OneCodeInForce' /\ ResetReachesItsOwner' /\ CodesReachTheirUser'
  BY <1>1, <1>7, <1>9, <1>10, CodesStay, CodesStillReach
<1>12. CodesAreUsedUp'
  BY <1>1, <1>4, <1>7, <1>8, <1>9, UsedUpStays DEF OthersAsTheyWere
<1>13. RequestIsSound(r)'
  BY <1>3, <1>4, <1>8 DEF RequestIsSound
<1>14. KnowsTheTables(r)'
  <2>2. request[r].fresh /\ request[r].purpose = "reset" /\ Undisturbed(u, e)'
          => Owner(e)' = {u}
    <3>1. Undisturbed(u, e)' => Undisturbed(u, e)
      BY <1>4, <1>8, <1>9 DEF Undisturbed, NotesGrow
    <3>2. request[r].fresh /\ request[r].purpose = "reset" /\ Undisturbed(u, e)
            => Owner(e) = {u}
      BY <1>1, <1>2 DEF KnowsTheTables
    <3>3. Owner(e)' = Owner(e)
      BY <1>1, <1>4, <1>8 DEF Owner, Exists
    <3> QED
      BY <1>4, <1>8, <3>1, <3>2, <3>3
  <2> QED
    BY <1>4, <1>8, <2>2 DEF KnowsTheTables
<1>15. /\ told' \subseteq Emails \X Passwords /\ uses' \in [Codes -> 0..2]
       /\ missed' \subseteq Codes /\ moved' \subseteq Emails
  BY <1>1, <1>2 DEF TypeOK
<1>16. /\ \A v \in Users : user'[v] = user[v]
       /\ \A t \in Codes : ucode[t].at = "unused" => ucode'[t].at = "unused"
  BY <1>1, <1>7 DEF NoneIsSent
<1> QED
  BY <1>1, <1>3, <1>4, <1>7, <1>9, <1>10, <1>11, <1>12, <1>13, <1>14, <1>15, <1>16, WrittenStep

\* A fresh request finds no code left of its user or address, and makes one.
LEMMA CreateCodeStep ==
  ASSUME IInv, NEW r \in Requests, NEW k \in Codes, CreateCode(r, k)
  PROVE  IInv'
<1> DEFINE u == request[r].user
           e == request[r].email
           row == [at |-> "valid", user |-> u, email |-> e, purpose |-> request[r].purpose]
<1>1. /\ request[r].pc = "create" /\ Writes(r, {u, e}, Idle) /\ ucode[k].at = "unused"
      /\ ucode' = [ucode EXCEPT ![k] = row]
      /\ UNCHANGED <<user, told, uses, missed, moved, restored, cut>>
  BY DEF CreateCode
<1>2. TypeOK /\ RequestIsSound(r) /\ KnowsTheTables(r)
  BY DEF IInv
<1>3. /\ u \in Users /\ e \in Emails /\ {u, e} \in SUBSET (Users \cup Emails)
      /\ Idle \in Request /\ Idle.pc = "idle"
  BY <1>1, <1>2, IdleIsARequest DEF RequestIsSound
<1>4. /\ row \in Ucode /\ row.at = "valid" /\ row.user = u /\ row.email = e
      /\ row.purpose = request[r].purpose
  BY <1>2, <1>3, RequestFields DEF Ucode
<1> HIDE DEF row
<1>5. /\ ucode' \in [Codes -> Ucode] /\ ucode'[k] = row
      /\ \A t \in Codes \ {k} : ucode'[t] = ucode[t]
  BY <1>1, <1>2, <1>4 DEF TypeOK
<1>6. SentCodesStay
  BY <1>1, <1>5 DEF SentCodesStay, Stored
<1>7. /\ request'[r] = Idle /\ OthersAsTheyWere(r, {u, e}) /\ raced \subseteq raced'
      /\ ~request[r].fresh => {u, e} \subseteq raced'
  <2>1. TypeOK /\ Idle \in Request /\ {u, e} \in SUBSET (Users \cup Emails) /\ Writes(r, {u, e}, Idle)
    BY <1>1, <1>2, <1>3
  <2> QED
    BY <2>1, OthersStay
<1>8. NotesGrow
  BY <1>1, <1>7 DEF NotesGrow
<1>9. /\ AddressesAreUnique' /\ RegisteredCanLogIn' /\ OwnersStay
      /\ \A f \in Emails : Owner(f)' = Owner(f)
      /\ user' \in [Users -> User]
  BY <1>1, <1>8, UsersStay
<1>10. CodesAreSent'
  BY <1>1, <1>3, <1>4, <1>5 DEF IInv, CodesAreSent
<1>11. \A t \in Stored' : (t \in Stored /\ ucode'[t] = ucode[t] /\ t # k) \/ t = k
  BY <1>5 DEF Stored
<1>12. OneCodeInForce'
  <2>1. \A t \in Stored : /\ ucode[t].user = u => u \in raced'
                          /\ ucode[t].email = e => e \in raced'
    <3>1. CASE request[r].fresh
      BY <1>1, <1>2, <3>1 DEF KnowsTheTables
    <3>2. CASE ~request[r].fresh
      BY <1>7, <3>2
    <3> QED
      BY <3>1, <3>2
  <2>2. \A s, t \in Stored : s # t =>
          /\ ucode[s].user = ucode[t].user => ucode[s].user \in raced'
          /\ ucode[s].email = ucode[t].email => ucode[s].email \in raced'
    BY <1>7 DEF IInv, OneCodeInForce
  <2>3. ASSUME NEW s \in Stored', NEW t \in Stored', s # t
        PROVE  /\ ucode'[s].user = ucode'[t].user => ucode'[s].user \in raced'
               /\ ucode'[s].email = ucode'[t].email => ucode'[s].email \in raced'
    <3>1. CASE s = k
      BY <1>4, <1>5, <1>11, <2>1, <2>3, <3>1
    <3>2. CASE t = k
      BY <1>4, <1>5, <1>11, <2>1, <2>3, <3>2
    <3>3. CASE s # k /\ t # k
      BY <1>11, <2>2, <2>3, <3>3
    <3> QED
      BY <3>1, <3>2, <3>3
  <2> QED
    BY <2>3 DEF OneCodeInForce
<1>13. ResetReachesItsOwner'
  <2>1. \A t \in missed : t # k /\ t \in Codes
    BY <1>1, <1>2 DEF IInv, CodesAreSent, TypeOK
  <2> QED
    BY <1>1, <1>5, <1>8, <2>1 DEF IInv, ResetReachesItsOwner, NotesGrow
<1>14. CodesReachTheirUser'
  <2>1. ASSUME NEW t \in Stored', NEW v, NEW f, ucode'[t].user = v, ucode'[t].email = f,
               ucode'[t].purpose = "reset",
               v \notin raced', f \notin raced', f \notin moved'
        PROVE  Owner(f)' = {v}
    <3>1. CASE t = k
      <4>1. v = u /\ f = e /\ request[r].purpose = "reset"
        BY <1>4, <1>5, <2>1, <3>1
      <4>2. request[r].fresh /\ Undisturbed(u, e)
        BY <1>7, <1>8, <2>1, <4>1 DEF Undisturbed, NotesGrow
      <4>3. Owner(e) = {u}
        BY <1>1, <1>2, <4>1, <4>2 DEF KnowsTheTables
      <4>4. Owner(f) = {v} /\ f \in Emails
        BY <1>3, <4>1, <4>3
      <4> QED
        BY <1>9, <4>4
    <3>2. CASE t # k
      <4>1. t \in Stored /\ ucode'[t] = ucode[t]
        BY <1>11, <2>1, <3>2
      <4>2. Undisturbed(v, f) /\ f \in Emails
        BY <1>8, <2>1, <4>1 DEF Undisturbed, NotesGrow, IInv, CodesAreSent, Stored
      <4>3. Owner(f) = {v}
        BY <2>1, <4>1, <4>2 DEF IInv, CodesReachTheirUser
      <4> QED
        BY <1>9, <4>2, <4>3
    <3> QED
      BY <3>1, <3>2
  <2> QED
    BY <2>1, ReachesByCode
<1>15. CodesAreUsedUp'
  BY <1>1, <1>3, <1>6, <1>7, <1>8, UsedUpStays DEF OthersAsTheyWere
<1>16. RequestIsSound(r)' /\ KnowsTheTables(r)'
  BY <1>7, IdleKnows
<1>17. /\ told' \subseteq Emails \X Passwords /\ uses' \in [Codes -> 0..2]
       /\ missed' \subseteq Codes /\ moved' \subseteq Emails
  BY <1>1, <1>2 DEF TypeOK
<1>18. /\ \A v \in Users : user'[v] = user[v]
       /\ \A t \in Codes : ucode[t].at = "unused" /\ ucode'[t].at # "unused" =>
            ucode'[t].user \in {u, e} /\ ucode'[t].email \in {u, e}
  BY <1>1, <1>4, <1>5
<1> DEFINE S == {u, e}
<1>19. /\ S \in SUBSET (Users \cup Emails) /\ Writes(r, S, Idle)
       /\ \A t \in Codes : ucode[t].at = "unused" /\ ucode'[t].at # "unused" =>
            ucode'[t].user \in S /\ ucode'[t].email \in S
  BY <1>1, <1>3, <1>18
<1> HIDE DEF S
<1> QED
  BY <1>1, <1>3, <1>5, <1>6, <1>8, <1>9, <1>10, <1>12, <1>13, <1>14, <1>15, <1>16, <1>17,
     <1>18, <1>19, WrittenStep

\* Whoever read the code that is deleted now is stale.
LEMMA DeleteUsedStep ==
  ASSUME IInv, NEW r \in Requests, DeleteUsed(r)
  PROVE  IInv'
<1> DEFINE e == request[r].email
           k == request[r].code
<1>1. /\ request[r].pc = "used" /\ Writes(r, {e}, Idle) /\ Delete(k)
      /\ UNCHANGED <<user, told, uses, missed, moved, restored, cut>>
  BY DEF DeleteUsed
<1>2. TypeOK /\ RequestIsSound(r)
  BY DEF IInv
<1>3. /\ e \in Emails /\ {e} \in SUBSET (Users \cup Emails)
      /\ k \in Codes /\ ucode[k].at # "unused" /\ ucode[k].email = e
  BY <1>1, <1>2 DEF RequestIsSound
<1>4. Idle \in Request /\ Idle.pc = "idle"
  BY IdleIsARequest
<1>5. /\ ucode' \in [Codes -> Ucode] /\ SentCodesStay /\ NoneIsSent /\ ucode'[k].at = "deleted"
  BY <1>1, <1>3, CodeDeleted
<1>6. /\ request'[r] = Idle /\ OthersAsTheyWere(r, {e}) /\ raced \subseteq raced'
      /\ ~request[r].fresh => e \in raced'
  BY <1>1, <1>2, <1>3, <1>4, OthersStay
<1>7. NotesGrow
  BY <1>1, <1>6 DEF NotesGrow
<1>8. /\ AddressesAreUnique' /\ RegisteredCanLogIn' /\ OwnersStay
      /\ \A f \in Emails : Owner(f)' = Owner(f)
      /\ user' \in [Users -> User]
  BY <1>1, <1>7, UsersStay
<1>9. CodesAreSent' /\ OneCodeInForce' /\ ResetReachesItsOwner' /\ CodesReachTheirUser'
  BY <1>1, <1>5, <1>7, <1>8, CodesStay, CodesStillReach
<1>10. CodesAreUsedUp'
  <2>1. SUFFICES ASSUME NEW t \in Codes, uses[t] # 0, ucode'[t].email \notin raced', t \notin cut'
                 PROVE  /\ \/ Uses(t)' # {}
                           \/ /\ ucode'[t].at = "deleted"
                              /\ \A q \in Requests :
                                   request'[q].pc = "reset" /\ request'[q].code = t =>
                                     ~request'[q].fresh
                        /\ uses[t] > 1 => \E q \in Uses(t)' : ~request'[q].fresh
    BY <1>1 DEF CodesAreUsedUp, Uses
  <2>2. /\ ucode[t].at # "unused" /\ ucode'[t].email = ucode[t].email
        /\ ucode[t].at = "deleted" => ucode'[t].at = "deleted"
    BY <1>5, <2>1 DEF IInv, CodesAreSent, SentCodesStay
  <2>3. /\ \/ Uses(t) # {}
           \/ /\ ucode[t].at = "deleted"
              /\ \A q \in Requests : request[q].pc = "reset" /\ request[q].code = t =>
                   ~request[q].fresh
        /\ uses[t] > 1 => \E q \in Uses(t) : ~request[q].fresh
    BY <1>7, <2>1, <2>2 DEF IInv, CodesAreUsedUp, NotesGrow
  <2>4. \A q \in Uses(t) \ {r} : q \in Uses(t)' /\ (~request[q].fresh => ~request'[q].fresh)
    BY <1>6 DEF Uses, OthersAsTheyWere
  <2>5. CASE t # k
    <3>1. r \notin Uses(t)
      BY <2>5 DEF Uses
    <3>2. \A q \in Requests : request'[q].pc = "reset" => request[q].pc = "reset"
            /\ request'[q].code = request[q].code /\ (~request[q].fresh => ~request'[q].fresh)
      BY <1>4, <1>6 DEF OthersAsTheyWere
    <3> QED
      BY <2>2, <2>3, <2>4, <3>1, <3>2
  <2>6. CASE t = k
    <3>1. ASSUME NEW q \in Requests, request'[q].pc = "reset", request'[q].code = t
          PROVE  ~request'[q].fresh
      <4>1. q # r
        BY <1>4, <1>6, <3>1
      <4>2. request[q].pc = "reset" /\ request[q].code = k
        BY <1>6, <2>6, <3>1, <4>1 DEF OthersAsTheyWere
      <4>3. request[q].email = e
        BY <1>3, <4>2 DEF IInv, RequestIsSound
      <4> QED
        BY <1>6, <4>1, <4>3 DEF OthersAsTheyWere
    <3>2. request[r].fresh
      BY <1>3, <1>6, <2>1, <2>2, <2>6
    <3>3. uses[t] > 1 => \E q \in Uses(t)' : ~request'[q].fresh
      BY <2>3, <2>4, <3>2
    <3> QED
      BY <1>5, <2>6, <3>1, <3>3
  <2> QED
    BY <2>5, <2>6
<1>11. RequestIsSound(r)' /\ KnowsTheTables(r)'
  BY <1>6, IdleKnows
<1>12. /\ told' \subseteq Emails \X Passwords /\ uses' \in [Codes -> 0..2]
       /\ missed' \subseteq Codes /\ moved' \subseteq Emails
  BY <1>1, <1>2 DEF TypeOK
<1>13. /\ \A v \in Users : user'[v] = user[v]
       /\ \A t \in Codes : ucode[t].at = "unused" => ucode'[t].at = "unused"
  BY <1>1, <1>5 DEF NoneIsSent
<1> QED
  BY <1>1, <1>3, <1>4, <1>5, <1>7, <1>8, <1>9, <1>10, <1>11, <1>12, <1>13, WrittenStep

LEMMA ExpireStep ==
  ASSUME IInv, NEW k \in Codes, Expire(k)
  PROVE  IInv'
<1>1. /\ ucode[k].at = "valid" /\ ucode' = [ucode EXCEPT ![k].at = "expired"]
      /\ UNCHANGED <<user, request, handled, told, uses, missed, moved, restored, raced, cut>>
  BY DEF Expire, history
<1>2. TypeOK
  BY DEF IInv
<1>3. /\ ucode' \in [Codes -> Ucode] /\ ucode'[k].at = "expired"
      /\ ucode'[k].user = ucode[k].user /\ ucode'[k].email = ucode[k].email
      /\ ucode'[k].purpose = ucode[k].purpose
      /\ \A t \in Codes \ {k} : ucode'[t] = ucode[t]
  BY <1>1, <1>2 DEF TypeOK, Ucode
<1>4. SentCodesStay /\ NoneIsSent /\ NotesGrow
  BY <1>1, <1>3 DEF SentCodesStay, NoneIsSent, NotesGrow, Stored
<1>5. AddressesAreUnique' /\ RegisteredCanLogIn' /\ OwnersStay
  BY <1>1, <1>4, UsersStay
<1>6. CodesAreSent' /\ OneCodeInForce' /\ ResetReachesItsOwner' /\ CodesReachTheirUser'
  BY <1>1, <1>4, <1>5, CodesStay, CodesStillReach
<1>7. CodesAreUsedUp' /\ \A q \in Requests : RequestIsSound(q)' /\ KnowsTheTables(q)'
  BY <1>1, <1>4, <1>5, RequestsStay DEF OwnersStay
<1>8. TypeOK'
  BY <1>1, <1>2, <1>3 DEF TypeOK, Owner, Exists
<1>9. ActiveIsFound'
  BY <1>1 DEF IInv, ActiveIsFound, FindAll, Discoverable, Exists
<1> QED
  BY <1>5, <1>6, <1>7, <1>8, <1>9 DEF IInv

-----------------------------------------------------------------------------
(* Requests that stop, and registration *)

\* What stops between the use of a code and its deletion is noted.
LEMMA AbortStep ==
  ASSUME IInv, NEW r \in Requests, Abort(r)
  PROVE  IInv'
<1>1. /\ request' = [request EXCEPT ![r] = Idle]
      /\ cut' = IF request[r].pc = "used" THEN cut \cup {request[r].code} ELSE cut
      /\ UNCHANGED <<user, ucode, handled, told, uses, missed, moved, restored, raced>>
  BY DEF Abort, tables
<1>2. TypeOK /\ RequestIsSound(r)
  BY DEF IInv
<1>3. /\ request' \in [Requests -> Request] /\ request'[r] = Idle
      /\ \A q \in Requests \ {r} : request'[q] = request[q]
  BY <1>1, <1>2, IdleIsARequest DEF TypeOK
<1>4. SentCodesStay /\ NoneIsSent /\ NotesGrow
  BY <1>1, CodesUnchanged DEF NotesGrow
<1>5. AddressesAreUnique' /\ RegisteredCanLogIn' /\ OwnersStay
  BY <1>1, <1>4, UsersStay
<1>6. CodesAreSent' /\ OneCodeInForce' /\ ResetReachesItsOwner' /\ CodesReachTheirUser'
  BY <1>1, <1>4, <1>5, CodesStay, CodesStillReach
<1>7. CodesAreUsedUp'
  <2>1. SUFFICES ASSUME NEW t \in Codes, uses[t] # 0, ucode[t].email \notin raced, t \notin cut'
                 PROVE  /\ \/ Uses(t)' # {}
                           \/ /\ ucode[t].at = "deleted"
                              /\ \A q \in Requests :
                                   request'[q].pc = "reset" /\ request'[q].code = t =>
                                     ~request'[q].fresh
                        /\ uses[t] > 1 => \E q \in Uses(t)' : ~request'[q].fresh
    BY <1>1 DEF CodesAreUsedUp, Uses
  <2>2. r \notin Uses(t) /\ t \notin cut
    BY <1>1, <2>1 DEF Uses
  <2>3. /\ \/ Uses(t) # {}
           \/ /\ ucode[t].at = "deleted"
              /\ \A q \in Requests : request[q].pc = "reset" /\ request[q].code = t =>
                   ~request[q].fresh
        /\ uses[t] > 1 => \E q \in Uses(t) : ~request[q].fresh
    BY <2>1, <2>2 DEF IInv, CodesAreUsedUp
  <2>4. \A q \in Uses(t) : q \in Uses(t)' /\ request'[q].fresh = request[q].fresh
    BY <1>3, <2>2 DEF Uses
  <2>5. \A q \in Requests : request'[q].pc = "reset" => request'[q] = request[q]
    BY <1>3, IdleIsARequest
  <2> QED
    BY <2>3, <2>4, <2>5
<1>8. \A q \in Requests : RequestIsSound(q)' /\ KnowsTheTables(q)'
  <2>1. SUFFICES ASSUME NEW q \in Requests
                 PROVE  RequestIsSound(q)' /\ KnowsTheTables(q)'
    OBVIOUS
  <2>2. CASE q = r
    BY <1>3, <2>2, IdleKnows
  <2>3. CASE q # r
    <3>1. request'[q] = request[q]
      BY <1>3, <2>3
    <3>2. Owner(request[q].email)' = Owner(request[q].email)
      BY <1>1, <3>1 DEF Owner, Exists
    <3> QED
      BY <1>4, <3>1, <3>2, KnowledgeStays DEF NoneIsSent
  <2> QED
    BY <2>2, <2>3
<1>9. TypeOK'
  <2>1. cut' \subseteq Codes
    BY <1>1, <1>2 DEF TypeOK, RequestIsSound
  <2> QED
    BY <1>1, <1>2, <1>3, <2>1 DEF TypeOK, Owner, Exists
<1>10. ActiveIsFound'
  BY <1>1 DEF IInv, ActiveIsFound, FindAll, Discoverable, Exists
<1> QED
  BY <1>5, <1>6, <1>7, <1>8, <1>9, <1>10 DEF IInv

\* A fresh registration finds the address free.
LEMMA RegisterTakenStep ==
  ASSUME IInv, NEW r \in Requests, RegisterTaken(r)
  PROVE  IInv'
<1> DEFINE e == request[r].email
           p == request[r].password
<1>1. /\ request[r].pc = "register" /\ Owner(e) # {} /\ p # None
      /\ told' = told \cup {<<e, p>>} /\ Writes(r, {e}, Idle)
      /\ UNCHANGED <<user, ucode, uses, missed, moved, restored, cut>>
  BY DEF RegisterTaken, tables
<1>2. TypeOK /\ RequestIsSound(r) /\ KnowsTheTables(r)
  BY DEF IInv
<1>3. e \in Emails /\ {e} \in SUBSET (Users \cup Emails) /\ p \in Passwords
  BY <1>1, <1>2, RequestFields DEF RequestIsSound
<1>4. Idle \in Request /\ Idle.pc = "idle"
  BY IdleIsARequest
<1>5. /\ request'[r] = Idle /\ OthersAsTheyWere(r, {e}) /\ raced \subseteq raced'
      /\ ~request[r].fresh => e \in raced'
  BY <1>1, <1>2, <1>3, <1>4, OthersStay
<1>6. SentCodesStay /\ NoneIsSent /\ NotesGrow
  BY <1>1, <1>5, CodesUnchanged DEF NotesGrow
<1>7. AddressesAreUnique'
  BY <1>1 DEF IInv, AddressesAreUnique, Exists
<1>8. OwnersStay /\ \A f \in Emails : Owner(f)' = Owner(f)
  BY <1>1, OwnersStayWithEmails DEF OwnersStay
<1>9. RegisteredCanLogIn'
  <2>1. e \in raced'
    BY <1>1, <1>2, <1>5 DEF KnowsTheTables
  <2>2. \A x \in told : x[1] \in raced' \/ LogsIn(x[1], x[2])
    BY <1>5 DEF IInv, RegisteredCanLogIn
  <2>3. ASSUME NEW x \in told', x[1] \notin raced'
        PROVE  LogsIn(x[1], x[2])'
    <3>1. x \in told
      BY <1>1, <2>1, <2>3
    <3> QED
      BY <1>1, <2>2, <2>3, <3>1 DEF LogsIn, Validated, Owner, Exists, PasswordIs
  <2> QED
    BY <2>3 DEF RegisteredCanLogIn
<1>10. CodesAreSent' /\ OneCodeInForce' /\ ResetReachesItsOwner' /\ CodesReachTheirUser'
  BY <1>1, <1>6, <1>8, CodesStay, CodesStillReach
<1>11. CodesAreUsedUp'
  BY <1>1, <1>4, <1>5, <1>6, UsedUpStays DEF OthersAsTheyWere
<1>12. RequestIsSound(r)' /\ KnowsTheTables(r)'
  BY <1>5, IdleKnows
<1>13. /\ told' \subseteq Emails \X Passwords /\ uses' \in [Codes -> 0..2]
       /\ missed' \subseteq Codes /\ moved' \subseteq Emails
       /\ user' \in [Users -> User] /\ ucode' \in [Codes -> Ucode]
  BY <1>1, <1>2, <1>3 DEF TypeOK
<1>14. /\ \A v \in Users : user'[v] = user[v]
       /\ \A t \in Codes : ucode[t].at = "unused" => ucode'[t].at = "unused"
  BY <1>1
<1> QED
  BY <1>1, <1>3, <1>4, <1>6, <1>7, <1>8, <1>9, <1>10, <1>11, <1>12, <1>13, <1>14, WrittenStep

\* One account is written, to an address that is free or its own.
LEMMA OwnersWritten ==
  ASSUME IInv, NEW u \in Users, NEW row \in User, user'[u] = row,
         \A v \in Users \ {u} : user'[v] = user[v], Owner(row.email) \subseteq {u}
  PROVE  /\ AddressesAreUnique'
         /\ \A f \in Emails : f # row.email /\ f # user[u].email => Owner(f)' = Owner(f)
         /\ row.email = user[u].email => \A f \in Emails : Owner(f)' = Owner(f)
<1>1. AddressesAreUnique'
  <2>1. ASSUME NEW v \in Users, NEW w \in Users, user'[v].email # None,
               user'[v].email = user'[w].email
        PROVE  v = w
    <3>1. CASE v = u /\ w # u
      BY <2>1, <3>1 DEF Owner, Exists
    <3>2. CASE v # u /\ w = u
      BY <2>1, <3>2 DEF Owner, Exists
    <3>3. CASE v # u /\ w # u
      BY <2>1, <3>3 DEF IInv, AddressesAreUnique, Exists
    <3> QED
      BY <3>1, <3>2, <3>3
  <2> QED
    BY <2>1 DEF AddressesAreUnique, Exists
<1>2. ASSUME NEW f \in Emails, (f # row.email /\ f # user[u].email) \/ row.email = user[u].email
      PROVE  Owner(f)' = Owner(f)
  <2>1. \A v \in Users : user'[v].email = f <=> user[v].email = f
    BY <1>2
  <2>2. {v \in Users : user'[v].email = f} = {v \in Users : user[v].email = f}
    BY <2>1
  <2> QED
    BY <2>2, OwnersByRow, OwnersByRowPrime
<1>3. \A f \in Emails : (f # row.email /\ f # user[u].email) => Owner(f)' = Owner(f)
  BY <1>2
<1>4. row.email = user[u].email => \A f \in Emails : Owner(f)' = Owner(f)
  BY <1>2
<1> QED
  BY <1>1, <1>3, <1>4

\* A code still reaches its user when no request gave away the address.
LEMMA CodesReachStill ==
  ASSUME IInv, SentCodesStay, NoneIsSent, NotesGrow,
         \A t \in Stored, v \in Users, f \in Emails :
           /\ ucode[t].user = v /\ ucode[t].email = f /\ Owner(f) = {v}
           /\ v \notin raced' /\ f \notin raced' /\ f \notin moved'
           => Owner(f)' = {v}
  PROVE  CodesReachTheirUser'
<1>1. ASSUME NEW t \in Stored', NEW v, NEW f, ucode'[t].user = v, ucode'[t].email = f,
             ucode'[t].purpose = "reset",
             v \notin raced', f \notin raced', f \notin moved'
      PROVE  Owner(f)' = {v}
  <2>1. /\ t \in Stored /\ ucode[t].user = v /\ ucode[t].email = f
        /\ ucode[t].purpose = "reset"
    BY <1>1 DEF Stored, SentCodesStay, NoneIsSent
  <2>2. v \in Users /\ f \in Emails /\ Undisturbed(v, f)
    BY <1>1, <2>1 DEF IInv, CodesAreSent, Stored, Undisturbed, NotesGrow
  <2>3. Owner(f) = {v}
    BY <2>1, <2>2 DEF IInv, CodesReachTheirUser
  <2> QED
    BY <1>1, <2>1, <2>2, <2>3
<1> QED
  BY <1>1, ReachesByCode

\* Nobody had the address, so no code in force reached anybody there.
LEMMA RegisterStep ==
  ASSUME IInv, NEW r \in Requests, NEW u \in Users, Register(r, u)
  PROVE  IInv'
<1> DEFINE e == request[r].email
           p == request[r].password
           row == [NoUser EXCEPT !.email = e, !.password = p, !.verified = (p = None)]
<1>1. /\ request[r].pc = "register" /\ Owner(e) = {} /\ ~Exists(u)
      /\ user' = [user EXCEPT ![u] = row]
      /\ told' = IF p = None THEN told ELSE told \cup {<<e, p>>}
      /\ Writes(r, {u, e}, Idle)
      /\ UNCHANGED <<ucode, uses, missed, moved, restored, cut>>
  BY DEF Register
<1>2. TypeOK /\ RequestIsSound(r)
  BY DEF IInv
<1>3. /\ e \in Emails /\ {u, e} \in SUBSET (Users \cup Emails)
      /\ p \in Passwords \cup {None}
  BY <1>1, <1>2, RequestFields DEF RequestIsSound
<1>4. /\ row \in User /\ row.email = e /\ row.password = p /\ ~row.twofa /\ ~row.hidden
  <2>1. (p = None) \in BOOLEAN
    OBVIOUS
  <2> QED
    BY <1>3, <2>1 DEF NoUser, User, UserStatus
<1> HIDE DEF row
<1>5. Idle \in Request /\ Idle.pc = "idle"
  BY IdleIsARequest
<1>6. /\ request'[r] = Idle /\ OthersAsTheyWere(r, {u, e}) /\ raced \subseteq raced'
  BY <1>1, <1>2, <1>3, <1>5, OthersStay
<1>7. SentCodesStay /\ NoneIsSent /\ NotesGrow
  BY <1>1, <1>6, CodesUnchanged DEF NotesGrow
<1>8. /\ user' \in [Users -> User] /\ user'[u] = row
      /\ \A v \in Users \ {u} : user'[v] = user[v]
  BY <1>1, <1>2, <1>4, RowWritten
<1>9. user[u].email = None /\ Owner(row.email) \subseteq {u}
  BY <1>1, <1>4 DEF Exists
<1>10. /\ AddressesAreUnique'
       /\ \A f \in Emails : f # row.email /\ f # user[u].email => Owner(f)' = Owner(f)
  BY <1>4, <1>8, <1>9, OwnersWritten
<1>11. \A f \in Emails : f # e => Owner(f)' = Owner(f)
  BY <1>4, <1>9, <1>10, AccountsAssumption
<1>12. RegisteredCanLogIn'
  <2>1. ASSUME NEW x \in told', x[1] \notin raced'
        PROVE  LogsIn(x[1], x[2])'
    <3>1. CASE x = <<e, p>> /\ p # None
      <4>1. user'[u].email = e /\ user'[u].password = p /\ ~user'[u].twofa /\ e # None
        BY <1>3, <1>4, <1>8, AccountsAssumption
      <4> QED
        BY <3>1, <4>1 DEF LogsIn, Validated, Owner, Exists, PasswordIs
    <3>2. CASE x \in told
      <4>1. LogsIn(x[1], x[2])
        BY <1>6, <2>1, <3>2 DEF IInv, RegisteredCanLogIn
      <4>2. PICK v \in Users : /\ user[v].email # None /\ user[v].email = x[1]
                               /\ x[2] # None /\ user[v].password = x[2] /\ ~user[v].twofa
        BY <4>1 DEF LogsIn, Validated, Owner, Exists, PasswordIs
      <4>3. v # u
        BY <1>9, <4>2
      <4>4. user'[v] = user[v]
        BY <1>8, <4>3
      <4> QED
        BY <4>2, <4>4 DEF LogsIn, Validated, Owner, Exists, PasswordIs
    <3> QED
      BY <1>1, <2>1, <3>1, <3>2
  <2> QED
    BY <2>1 DEF RegisteredCanLogIn
<1>13. CodesAreSent' /\ OneCodeInForce' /\ ResetReachesItsOwner'
  BY <1>1, <1>7, CodesStay
<1>14. CodesReachTheirUser'
  <2>1. ASSUME NEW v \in Users, NEW f \in Emails, Owner(f) = {v}
        PROVE  Owner(f)' = {v}
    BY <1>1, <1>11, <2>1
  <2> QED
    BY <1>7, <2>1, CodesReachStill
<1>15. CodesAreUsedUp'
  BY <1>1, <1>5, <1>6, <1>7, UsedUpStays DEF OthersAsTheyWere
<1>16. RequestIsSound(r)' /\ KnowsTheTables(r)'
  BY <1>6, IdleKnows
<1>17. /\ told' \subseteq Emails \X Passwords /\ uses' \in [Codes -> 0..2]
       /\ missed' \subseteq Codes /\ moved' \subseteq Emails /\ ucode' \in [Codes -> Ucode]
  BY <1>1, <1>2, <1>3 DEF TypeOK
<1>18. /\ \A v \in Users : ~user'[v].hidden \/ user'[v] = user[v]
       /\ \A t \in Codes : ucode[t].at = "unused" => ucode'[t].at = "unused"
       /\ \A f \in Emails : f \notin {u, e} => Owner(f)' = Owner(f)
  BY <1>1, <1>4, <1>8, <1>11
<1> QED
  BY <1>1, <1>3, <1>5, <1>7, <1>8, <1>10, <1>12, <1>13, <1>14, <1>15, <1>16, <1>17, <1>18,
     WrittenStep

-----------------------------------------------------------------------------
(* Writes of an account *)

LEMMA VerifyEmailStep ==
  ASSUME IInv, NEW r \in Requests, VerifyEmail(r)
  PROVE  IInv'
<1> DEFINE u == request[r].user
           row == [user[u] EXCEPT !.verified = TRUE]
<1>1. /\ request[r].pc = "verify" /\ Exists(u) /\ user' = [user EXCEPT ![u] = row]
      /\ Writes(r, {}, Idle)
      /\ UNCHANGED <<ucode, told, uses, missed, moved, restored, cut>>
  BY DEF VerifyEmail
<1>2. TypeOK /\ RequestIsSound(r)
  BY DEF IInv
<1>3. u \in Users /\ user[u] \in User /\ {} \in SUBSET (Users \cup Emails)
  BY <1>1, <1>2 DEF RequestIsSound, TypeOK
<1>4. /\ row \in User /\ row.email = user[u].email /\ row.password = user[u].password
      /\ row.twofa = user[u].twofa /\ row.hidden = user[u].hidden
      /\ row.status = user[u].status
  BY <1>3 DEF User
<1> HIDE DEF row
<1>5. Idle \in Request /\ Idle.pc = "idle"
  BY IdleIsARequest
<1>6. /\ request'[r] = Idle /\ OthersAsTheyWere(r, {}) /\ raced \subseteq raced'
  BY <1>1, <1>2, <1>3, <1>5, OthersStay
<1>7. SentCodesStay /\ NoneIsSent /\ NotesGrow
  BY <1>1, <1>6, CodesUnchanged DEF NotesGrow
<1>8. /\ user' \in [Users -> User] /\ user'[u] = row
      /\ \A v \in Users \ {u} : user'[v] = user[v]
  BY <1>1, <1>2, <1>3, <1>4, RowWritten
<1>9. \A v \in Users : /\ user'[v].email = user[v].email /\ user'[v].password = user[v].password
                       /\ user'[v].twofa = user[v].twofa /\ user'[v].hidden = user[v].hidden
                       /\ user'[v].status = user[v].status
  BY <1>4, <1>8
<1>10. AddressesAreUnique'
  BY <1>9 DEF IInv, AddressesAreUnique, Exists
<1>11. OwnersStay
  BY <1>9, OwnersStayWithEmails
<1>12. RegisteredCanLogIn'
  BY <1>1, <1>6, <1>9, LoginsStay
<1>13. CodesAreSent' /\ OneCodeInForce' /\ ResetReachesItsOwner' /\ CodesReachTheirUser'
  BY <1>1, <1>7, <1>11, CodesStay, CodesStillReach
<1>14. CodesAreUsedUp'
  BY <1>1, <1>5, <1>6, <1>7, UsedUpStays DEF OthersAsTheyWere
<1>15. RequestIsSound(r)' /\ KnowsTheTables(r)'
  BY <1>6, IdleKnows
<1>16. /\ told' \subseteq Emails \X Passwords /\ uses' \in [Codes -> 0..2]
       /\ missed' \subseteq Codes /\ moved' \subseteq Emails /\ ucode' \in [Codes -> Ucode]
  BY <1>1, <1>2 DEF TypeOK
<1>17. \A v \in Users : \/ /\ Exists(v) /\ user'[v].status = user[v].status
                           /\ user'[v].hidden = user[v].hidden
                        \/ user'[v] = user[v]
  BY <1>1, <1>8, <1>9
<1>18. /\ \A t \in Codes : ucode[t].at = "unused" => ucode'[t].at = "unused"
       /\ \A f \in Emails : Owner(f)' = Owner(f)
  BY <1>1, <1>11 DEF OwnersStay
<1> QED
  BY <1>1, <1>3, <1>5, <1>7, <1>8, <1>10, <1>12, <1>13, <1>14, <1>15, <1>16, <1>17, <1>18,
     WrittenStep

\* Who sets the password of his account, found by its address.
LEMMA ChangePasswordStep ==
  ASSUME IInv, NEW r \in Requests, NEW u \in Users, ChangePassword(r, u)
  PROVE  IInv'
<1> DEFINE e == request[r].email
           p == request[r].password
           row == [user[u] EXCEPT !.password = p]
<1>1. /\ request[r].pc = "own" /\ u \in Owner(e) /\ user' = [user EXCEPT ![u] = row]
      /\ Forget({e}) /\ Writes(r, {u, e}, Idle)
      /\ UNCHANGED <<ucode, uses, missed, moved, restored, cut>>
  BY DEF ChangePassword, SetPassword
<1>2. TypeOK
  BY DEF IInv
<1>3. /\ user[u] \in User /\ e = user[u].email /\ Exists(u) /\ e \in Emails
      /\ {u, e} \in SUBSET (Users \cup Emails)
  BY <1>1, <1>2 DEF Owner, Exists, TypeOK, User
<1>4. /\ row \in User /\ row.email = user[u].email /\ row.hidden = user[u].hidden
      /\ row.status = user[u].status
  BY <1>2, <1>3, RequestFields DEF User
<1> HIDE DEF row
<1>5. Idle \in Request /\ Idle.pc = "idle"
  BY IdleIsARequest
<1>6. /\ request'[r] = Idle /\ OthersAsTheyWere(r, {u, e}) /\ raced \subseteq raced'
  BY <1>1, <1>2, <1>3, <1>5, OthersStay
<1>7. SentCodesStay /\ NoneIsSent /\ NotesGrow
  BY <1>1, <1>6, CodesUnchanged DEF NotesGrow
<1>8. /\ user' \in [Users -> User] /\ user'[u] = row
      /\ \A v \in Users \ {u} : user'[v] = user[v]
  BY <1>1, <1>2, <1>4, RowWritten
<1>9. \A v \in Users : /\ user'[v].email = user[v].email /\ user'[v].hidden = user[v].hidden
                       /\ user'[v].status = user[v].status
  BY <1>4, <1>8
<1>10. AddressesAreUnique'
  BY <1>9 DEF IInv, AddressesAreUnique, Exists
<1>11. OwnersStay
  BY <1>9, OwnersStayWithEmails
<1>12. RegisteredCanLogIn'
  <2>1. told' \subseteq told /\ \A x \in told' : x[1] # user[u].email
    BY <1>1, <1>3 DEF Forget
  <2>2. \A x \in told' : \A v \in Users : user[v].email = x[1] => user'[v] = user[v]
    BY <1>8, <2>1
  <2> QED
    BY <1>6, <2>1, <2>2, LoginsStay
<1>13. CodesAreSent' /\ OneCodeInForce' /\ ResetReachesItsOwner' /\ CodesReachTheirUser'
  BY <1>1, <1>7, <1>11, CodesStay, CodesStillReach
<1>14. CodesAreUsedUp'
  BY <1>1, <1>5, <1>6, <1>7, UsedUpStays DEF OthersAsTheyWere
<1>15. RequestIsSound(r)' /\ KnowsTheTables(r)'
  BY <1>6, IdleKnows
<1>16. /\ told' \subseteq Emails \X Passwords /\ uses' \in [Codes -> 0..2]
       /\ missed' \subseteq Codes /\ moved' \subseteq Emails /\ ucode' \in [Codes -> Ucode]
  BY <1>1, <1>2 DEF TypeOK, Forget
<1>17. \A v \in Users : \/ /\ Exists(v) /\ user'[v].status = user[v].status
                           /\ user'[v].hidden = user[v].hidden
                        \/ user'[v] = user[v]
  BY <1>3, <1>8, <1>9
<1>18. /\ \A t \in Codes : ucode[t].at = "unused" => ucode'[t].at = "unused"
       /\ \A f \in Emails : Owner(f)' = Owner(f)
  BY <1>1, <1>11 DEF OwnersStay
<1> QED
  BY <1>1, <1>3, <1>5, <1>7, <1>8, <1>10, <1>12, <1>13, <1>14, <1>15, <1>16, <1>17, <1>18,
     WrittenStep

\* The code is used.  If the account is another's than the one who asked, the
\* request is late or the address moved; if the code was used before, who used
\* it is late now, or has deleted it and this request is late.
LEMMA ResetPasswordStep ==
  ASSUME IInv, NEW r \in Requests, NEW u \in Users, ResetPassword(r, u)
  PROVE  IInv'
<1> DEFINE e == request[r].email
           p == request[r].password
           k == request[r].code
           row == [user[u] EXCEPT !.password = p]
           next == [request[r] EXCEPT !.pc = "used"]
<1>1. /\ request[r].pc = "reset" /\ u \in Owner(e) /\ user' = [user EXCEPT ![u] = row]
      /\ uses' = [uses EXCEPT ![k] = IF @ = 2 THEN 2 ELSE @ + 1]
      /\ missed' = IF u = ucode[k].user THEN missed ELSE missed \cup {k}
      /\ Forget({e}) /\ Writes(r, {u, e}, next)
      /\ UNCHANGED <<ucode, moved, restored, cut>>
  BY DEF ResetPassword, SetPassword
<1>2. TypeOK /\ RequestIsSound(r) /\ KnowsTheTables(r)
  BY DEF IInv
<1>3. /\ user[u] \in User /\ e = user[u].email /\ Exists(u) /\ e \in Emails
      /\ {u, e} \in SUBSET (Users \cup Emails)
      /\ k \in Codes /\ ucode[k].at # "unused" /\ ucode[k].email = e
  BY <1>1, <1>2 DEF Owner, Exists, TypeOK, User, RequestIsSound
<1>4. /\ row \in User /\ row.email = user[u].email /\ row.hidden = user[u].hidden
      /\ row.status = user[u].status
  BY <1>2, <1>3, RequestFields DEF User
<1>5. /\ next \in Request /\ next.pc = "used" /\ next.email = e /\ next.code = k
  BY <1>2, RequestFields DEF Request
<1> HIDE DEF row, next
<1>6. /\ request'[r] = next /\ OthersAsTheyWere(r, {u, e}) /\ raced \subseteq raced'
      /\ ~request[r].fresh => {u, e} \subseteq raced'
  <2>1. TypeOK /\ next \in Request /\ {u, e} \in SUBSET (Users \cup Emails) /\ Writes(r, {u, e}, next)
    BY <1>1, <1>2, <1>3, <1>5
  <2> QED
    BY <2>1, OthersStay
<1>7. SentCodesStay /\ NoneIsSent /\ NotesGrow
  BY <1>1, <1>6, CodesUnchanged DEF NotesGrow
<1>8. /\ user' \in [Users -> User] /\ user'[u] = row
      /\ \A v \in Users \ {u} : user'[v] = user[v]
  BY <1>1, <1>2, <1>4, RowWritten
<1>9. \A v \in Users : /\ user'[v].email = user[v].email /\ user'[v].hidden = user[v].hidden
                       /\ user'[v].status = user[v].status
  BY <1>4, <1>8
<1>10. AddressesAreUnique'
  BY <1>9 DEF IInv, AddressesAreUnique, Exists
<1>11. OwnersStay
  BY <1>9, OwnersStayWithEmails
<1>12. RegisteredCanLogIn'
  <2>1. told' \subseteq told /\ \A x \in told' : x[1] # user[u].email
    BY <1>1, <1>3 DEF Forget
  <2>2. \A x \in told' : \A v \in Users : user[v].email = x[1] => user'[v] = user[v]
    BY <1>8, <2>1
  <2> QED
    BY <1>6, <2>1, <2>2, LoginsStay
<1>13. /\ uses' \in [Codes -> 0..2]
       /\ uses'[k] > 1 => uses[k] # 0
       /\ \A t \in Codes \ {k} : uses'[t] = uses[t]
  <2>1. uses \in [Codes -> 0..2] /\ uses[k] \in 0..2
    BY <1>2, <1>3 DEF TypeOK
  <2> QED
    BY <1>1, <1>3, <2>1
<1>14. CodesAreSent'
  <2>1. \A t \in Codes \ {k} : t \in missed' => t \in missed
    BY <1>1
  <2> QED
    BY <1>1, <1>3, <1>13, <2>1 DEF IInv, CodesAreSent
<1>15. OneCodeInForce' /\ CodesReachTheirUser'
  <2>1. OneCodeInForce'
    BY <1>1, <1>6 DEF IInv, OneCodeInForce, Stored
  <2> QED
    BY <1>7, <1>11, <2>1, CodesStillReach
<1>16. ResetReachesItsOwner'
  <2>1. ASSUME u # ucode[k].user, ucode[k].purpose = "reset",
               e \notin raced', e \notin moved, ucode[k].user \notin raced'
        PROVE  FALSE
    <3>1. request[r].fresh
      BY <1>6, <2>1
    <3>2. Undisturbed(ucode[k].user, e)
      BY <1>6, <2>1 DEF Undisturbed
    <3>3. Owner(e) = {ucode[k].user}
      BY <1>1, <1>2, <2>1, <3>1, <3>2 DEF KnowsTheTables
    <3> QED
      BY <1>1, <2>1, <3>3
  <2>2. \A t \in missed : ucode[t].purpose = "reset" =>
          ucode[t].email \in raced' \cup moved \/ ucode[t].user \in raced'
    BY <1>6 DEF IInv, ResetReachesItsOwner
  <2>3. ASSUME NEW t \in missed', ucode[t].purpose = "reset"
        PROVE  ucode[t].email \in raced' \cup moved \/ ucode[t].user \in raced'
    <3>1. CASE t \in missed
      BY <2>2, <2>3, <3>1
    <3>2. CASE t = k /\ u # ucode[k].user
      BY <1>3, <2>1, <2>3, <3>2
    <3> QED
      BY <1>1, <2>3, <3>1, <3>2
  <2> QED
    BY <1>1, <2>3 DEF ResetReachesItsOwner
<1>17. CodesAreUsedUp'
  <2>1. SUFFICES ASSUME NEW t \in Codes, uses'[t] # 0, ucode[t].email \notin raced', t \notin cut
                 PROVE  /\ \/ Uses(t)' # {}
                           \/ /\ ucode[t].at = "deleted"
                              /\ \A q \in Requests :
                                   request'[q].pc = "reset" /\ request'[q].code = t =>
                                     ~request'[q].fresh
                        /\ uses'[t] > 1 => \E q \in Uses(t)' : ~request'[q].fresh
    BY <1>1 DEF CodesAreUsedUp, Uses
  <2>2. uses[t] # 0 =>
          /\ \/ Uses(t) # {}
             \/ /\ ucode[t].at = "deleted"
                /\ \A q \in Requests : request[q].pc = "reset" /\ request[q].code = t =>
                     ~request[q].fresh
          /\ uses[t] > 1 => \E q \in Uses(t) : ~request[q].fresh
    BY <1>6, <2>1 DEF IInv, CodesAreUsedUp
  <2>3. r \notin Uses(t)
    BY <1>1 DEF Uses
  <2>4. \A q \in Uses(t) : q \in Uses(t)' /\ (~request[q].fresh => ~request'[q].fresh)
    BY <1>6, <2>3 DEF Uses, OthersAsTheyWere
  <2>5. CASE t # k
    <3>1. \A q \in Requests : request'[q].pc = "reset" => request[q].pc = "reset"
            /\ request'[q].code = request[q].code /\ (~request[q].fresh => ~request'[q].fresh)
      BY <1>5, <1>6 DEF OthersAsTheyWere
    <3> QED
      BY <1>13, <2>1, <2>2, <2>4, <2>5, <3>1
  <2>6. CASE t = k
    <3>1. r \in Uses(t)'
      BY <1>5, <1>6, <2>6 DEF Uses
    <3>2. request[r].fresh
      BY <1>3, <1>6, <2>1, <2>6
    <3>3. ASSUME uses'[t] > 1
          PROVE  \E q \in Uses(t)' : ~request'[q].fresh
      <4>1. PICK q \in Uses(t) : TRUE
        BY <1>1, <1>13, <2>2, <2>6, <3>2, <3>3
      <4>2. q \in Requests /\ q # r /\ request[q].pc = "used" /\ request[q].code = k
        BY <2>3, <2>6, <4>1 DEF Uses
      <4>3. request[q].email = e
        BY <1>3, <4>2 DEF IInv, RequestIsSound
      <4>4. ~request'[q].fresh
        BY <1>6, <4>2, <4>3 DEF OthersAsTheyWere
      <4> QED
        BY <2>4, <4>1, <4>4
    <3> QED
      BY <3>1, <3>3
  <2> QED
    BY <2>5, <2>6
<1>18. RequestIsSound(r)' /\ KnowsTheTables(r)'
  <2>1. RequestIsSound(r)'
    BY <1>1, <1>3, <1>5, <1>6 DEF RequestIsSound
  <2> QED
    BY <1>5, <1>6, <2>1 DEF KnowsTheTables
<1>19. /\ told' \subseteq Emails \X Passwords
       /\ missed' \subseteq Codes /\ moved' \subseteq Emails /\ ucode' \in [Codes -> Ucode]
  BY <1>1, <1>2, <1>3 DEF TypeOK, Forget
<1>20. \A v \in Users : \/ /\ Exists(v) /\ user'[v].status = user[v].status
                           /\ user'[v].hidden = user[v].hidden
                        \/ user'[v] = user[v]
  BY <1>3, <1>8, <1>9
<1>21. /\ \A t \in Codes : ucode[t].at = "unused" => ucode'[t].at = "unused"
       /\ \A f \in Emails : Owner(f)' = Owner(f)
  BY <1>1, <1>11 DEF OwnersStay
<1> DEFINE S == {u, e}
<1>22. /\ Writes(r, S, next) /\ S \in SUBSET (Users \cup Emails)
       /\ cut' = cut /\ restored' = restored
  BY <1>1, <1>3
<1>23. next \in Request /\ user' \in [Users -> User] /\ uses' \in [Codes -> 0..2]
  BY <1>5, <1>8, <1>13
<1> HIDE DEF S
<1> QED
  BY <1>7, <1>10, <1>12, <1>14, <1>15, <1>16, <1>17, <1>18, <1>19, <1>20, <1>21, <1>22,
     <1>23, WrittenStep

\* With a code of his own, no other of the user's is in force, so none is left
\* at the old address.
LEMMA ChangeEmailStep ==
  ASSUME IInv, NEW r \in Requests, ChangeEmail(r)
  PROVE  IInv'
<1> DEFINE u == request[r].user
           e == request[r].email
           k == request[r].code
           old == user[u].email
           row == [user[u] EXCEPT !.email = e]
           next == [request[r] EXCEPT !.pc = "used"]
           S == {u, e, old}
<1>1. /\ request[r].pc = "email" /\ Exists(u) /\ Owner(e) \subseteq {u}
      /\ user' = [user EXCEPT ![u] = row]
      /\ moved' = IF ucode[k].user = u THEN moved ELSE moved \cup {old}
      /\ Forget({e, old}) /\ Writes(r, S, next)
      /\ UNCHANGED <<ucode, uses, missed, restored, cut>>
  BY DEF ChangeEmail
<1>2. TypeOK /\ RequestIsSound(r) /\ KnowsTheTables(r)
  BY DEF IInv
<1>3. /\ u \in Users /\ user[u] \in User /\ e \in Emails /\ old \in Emails
      /\ k \in Codes /\ ucode[k].at # "unused" /\ ucode[k].email = e
  <2>1. u \in Users /\ e \in Emails /\ k \in Codes /\ ucode[k].at # "unused"
          /\ ucode[k].email = e
    BY <1>1, <1>2 DEF RequestIsSound
  <2>2. user[u] \in User
    BY <1>2, <2>1 DEF TypeOK
  <2> QED
    BY <1>1, <2>1, <2>2 DEF Exists, User
<1>4. /\ row \in User /\ row.email = e /\ row.hidden = user[u].hidden
      /\ row.status = user[u].status
  BY <1>3 DEF User
<1>5. /\ next \in Request /\ next.pc = "used" /\ next.email = e /\ next.code = k
  BY <1>2, RequestFields DEF Request
<1>6. S \in SUBSET (Users \cup Emails) /\ u \in S /\ e \in S /\ old \in S
  BY <1>3
<1> HIDE DEF row, next, S
<1>7. /\ request'[r] = next /\ OthersAsTheyWere(r, S) /\ raced \subseteq raced'
      /\ ~request[r].fresh => S \subseteq raced'
  BY <1>1, <1>2, <1>5, <1>6, OthersStay
<1>8. SentCodesStay /\ NoneIsSent /\ NotesGrow
  BY <1>1, <1>7, CodesUnchanged DEF NotesGrow
<1>9. /\ user' \in [Users -> User] /\ user'[u] = row
      /\ \A v \in Users \ {u} : user'[v] = user[v]
  BY <1>1, <1>2, <1>3, <1>4, RowWritten
<1>10. /\ AddressesAreUnique'
       /\ \A f \in Emails : f # e /\ f # old => Owner(f)' = Owner(f)
       /\ e = old => \A f \in Emails : Owner(f)' = Owner(f)
  BY <1>1, <1>3, <1>4, <1>9, OwnersWritten
<1>11. RegisteredCanLogIn'
  <2>1. told' \subseteq told /\ \A x \in told' : x[1] # user[u].email
    BY <1>1 DEF Forget
  <2>2. \A x \in told' : \A v \in Users : user[v].email = x[1] => user'[v] = user[v]
    BY <1>9, <2>1
  <2> QED
    BY <1>7, <2>1, <2>2, LoginsStay
<1>12. CodesAreSent' /\ OneCodeInForce' /\ ResetReachesItsOwner'
  BY <1>1, <1>8, CodesStay
<1>13. CodesReachTheirUser'
  <2>1. ASSUME NEW t \in Stored, NEW v \in Users, NEW f \in Emails,
               ucode[t].user = v, ucode[t].email = f, Owner(f) = {v},
               v \notin raced', f \notin raced', f \notin moved'
        PROVE  Owner(f)' = {v}
    <3>1. CASE e = old \/ (f # e /\ f # old)
      BY <1>10, <2>1, <3>1
    <3>2. CASE e # old /\ f = e
      <4>1. v = u /\ user[u].email = e
        BY <1>1, <2>1, <3>2 DEF Owner
      <4> QED
        BY <3>2, <4>1
    <3>3. CASE e # old /\ f = old
      <4>1. v = u
        BY <1>1, <1>3, <2>1, <3>3 DEF Owner
      <4>2. request[r].fresh /\ ucode[k].user = u /\ u \notin raced
        BY <1>1, <1>6, <1>7, <2>1, <3>3, <4>1
      <4>3. t = k
        BY <1>1, <1>2, <2>1, <4>1, <4>2 DEF KnowsTheTables
      <4> QED
        BY <1>3, <2>1, <3>3, <4>3
    <3> QED
      BY <3>1, <3>2, <3>3
  <2> QED
    BY <1>8, <2>1, CodesReachStill
<1>14. CodesAreUsedUp'
  BY <1>1, <1>5, <1>7, <1>8, UsedUpStays DEF OthersAsTheyWere
<1>15. RequestIsSound(r)' /\ KnowsTheTables(r)'
  <2>1. RequestIsSound(r)'
    BY <1>1, <1>3, <1>5, <1>7 DEF RequestIsSound
  <2> QED
    BY <1>5, <1>7, <2>1 DEF KnowsTheTables
<1>16. /\ told' \subseteq Emails \X Passwords /\ uses' \in [Codes -> 0..2]
       /\ missed' \subseteq Codes /\ moved' \subseteq Emails /\ ucode' \in [Codes -> Ucode]
  BY <1>1, <1>2, <1>3 DEF TypeOK, Forget
<1>17. \A v \in Users : \/ /\ Exists(v) /\ user'[v].status = user[v].status
                           /\ user'[v].hidden = user[v].hidden
                        \/ user'[v] = user[v]
  BY <1>1, <1>4, <1>9
<1>18. /\ \A t \in Codes : ucode[t].at = "unused" => ucode'[t].at = "unused"
       /\ \A f \in Emails : f \notin S => Owner(f)' = Owner(f)
       /\ Writes(r, S, next) /\ cut' = cut /\ restored' = restored
  BY <1>1, <1>6, <1>10
<1> QED
  BY <1>5, <1>6, <1>8, <1>9, <1>10, <1>11, <1>12, <1>13, <1>14, <1>15, <1>16, <1>17, <1>18,
     WrittenStep

\* Staff who change an address are noted.
LEMMA EditStep ==
  ASSUME IInv, NEW r \in Requests, Edit(r)
  PROVE  IInv'
<1> DEFINE u == request[r].user
           e == request[r].email
           p == request[r].password
           old == user[u].email
           row == user'[u]
           S == {u, e, old} \ {None}
<1>1. /\ request[r].pc = "edit" /\ Exists(u) /\ Owner(e) = {}
      /\ user' = [user EXCEPT ![u].email = IF e = None THEN @ ELSE e,
                              ![u].password = IF p = None THEN @ ELSE p]
      /\ moved' = IF e = None THEN moved ELSE moved \cup {old}
      /\ Forget({old}) /\ Writes(r, S, Idle)
      /\ UNCHANGED <<ucode, uses, missed, restored, cut>>
  BY DEF Edit
<1>2. TypeOK /\ RequestIsSound(r)
  BY DEF IInv
<1>3. /\ u \in Users /\ user[u] \in User /\ e \in Emails \cup {None} /\ old \in Emails
      /\ p \in Passwords \cup {None}
  <2>1. u \in Users
    BY <1>1, <1>2 DEF RequestIsSound
  <2>2. user[u] \in User
    BY <1>2, <2>1 DEF TypeOK
  <2> QED
    BY <1>1, <1>2, <2>1, <2>2, RequestFields DEF Exists, User
<1>4. /\ row \in User /\ row.email = (IF e = None THEN old ELSE e)
      /\ row.hidden = user[u].hidden /\ row.status = user[u].status
      /\ \A v \in Users \ {u} : user'[v] = user[v]
      /\ user' \in [Users -> User]
  <2> DEFINE f == IF e = None THEN old ELSE e
             g == IF p = None THEN user[u].password ELSE p
             new == [user[u] EXCEPT !.email = f, !.password = g]
  <2>1. f \in Emails /\ g \in Passwords \cup {None}
    BY <1>3 DEF User
  <2>2. user' = [user EXCEPT ![u] = new]
    BY <1>1, <1>2, <1>3 DEF TypeOK, User
  <2>3. new \in User /\ new.email = f /\ new.hidden = user[u].hidden
          /\ new.status = user[u].status
    BY <1>3, <2>1 DEF User
  <2> HIDE DEF new
  <2>4. user' \in [Users -> User] /\ user'[u] = new /\ \A v \in Users \ {u} : user'[v] = user[v]
    BY <1>2, <1>3, <2>2, <2>3, RowWritten
  <2> QED
    BY <2>3, <2>4
<1>5. Idle \in Request /\ Idle.pc = "idle"
  BY IdleIsARequest
<1>6. /\ S \in SUBSET (Users \cup Emails) /\ old \in S
      /\ e # None => e \in S
  BY <1>3, AccountsAssumption
<1> HIDE DEF S
<1>7. /\ request'[r] = Idle /\ OthersAsTheyWere(r, S) /\ raced \subseteq raced'
  BY <1>1, <1>2, <1>5, <1>6, OthersStay
<1>8. SentCodesStay /\ NoneIsSent /\ NotesGrow
  BY <1>1, <1>7, CodesUnchanged DEF NotesGrow
<1>9. Owner(row.email) \subseteq {u}
  <2>1. Owner(old) \subseteq {u}
    BY <1>3 DEF IInv, AddressesAreUnique, Owner
  <2>2. CASE e = None
    <3>1. row.email = old
      BY <1>4, <2>2
    <3> QED
      BY <2>1, <3>1
  <2>3. CASE e # None
    <3>1. row.email = e
      BY <1>4, <2>3
    <3> QED
      BY <1>1, <3>1
  <2> QED
    BY <2>2, <2>3
<1>10. /\ AddressesAreUnique'
       /\ \A f \in Emails : f # row.email /\ f # old => Owner(f)' = Owner(f)
       /\ row.email = old => \A f \in Emails : Owner(f)' = Owner(f)
  <2> DEFINE w == row
  <2>1. w \in User /\ user'[u] = w /\ Owner(w.email) \subseteq {u}
    BY <1>4, <1>9
  <2> HIDE DEF w
  <2>2. /\ AddressesAreUnique'
        /\ \A f \in Emails : f # w.email /\ f # user[u].email => Owner(f)' = Owner(f)
        /\ w.email = user[u].email => \A f \in Emails : Owner(f)' = Owner(f)
    BY <1>3, <1>4, <2>1, OwnersWritten
  <2> QED
    BY <2>2 DEF w
<1>11. RegisteredCanLogIn'
  <2>1. told' \subseteq told /\ \A x \in told' : x[1] # user[u].email
    BY <1>1 DEF Forget
  <2>2. \A x \in told' : \A v \in Users : user[v].email = x[1] => user'[v] = user[v]
    BY <1>4, <2>1
  <2> QED
    BY <1>7, <2>1, <2>2, LoginsStay
<1>12. CodesAreSent' /\ OneCodeInForce' /\ ResetReachesItsOwner'
  BY <1>1, <1>8, CodesStay
<1>13. CodesReachTheirUser'
  <2>1. ASSUME NEW v \in Users, NEW f \in Emails, Owner(f) = {v}, f \notin moved'
        PROVE  Owner(f)' = {v}
    <3>1. CASE e = None
      BY <1>4, <1>10, <2>1, <3>1
    <3>2. CASE e # None
      <4>1. f # e /\ f # old /\ row.email = e
        BY <1>1, <1>4, <2>1, <3>2
      <4> QED
        BY <1>10, <2>1, <4>1
    <3> QED
      BY <3>1, <3>2
  <2> QED
    BY <1>8, <2>1, CodesReachStill
<1>14. CodesAreUsedUp'
  BY <1>1, <1>5, <1>7, <1>8, UsedUpStays DEF OthersAsTheyWere
<1>15. RequestIsSound(r)' /\ KnowsTheTables(r)'
  BY <1>7, IdleKnows
<1>16. /\ told' \subseteq Emails \X Passwords /\ uses' \in [Codes -> 0..2]
       /\ missed' \subseteq Codes /\ moved' \subseteq Emails /\ ucode' \in [Codes -> Ucode]
  BY <1>1, <1>2, <1>3 DEF TypeOK, Forget
<1>17. \A v \in Users : \/ /\ Exists(v) /\ user'[v].status = user[v].status
                           /\ user'[v].hidden = user[v].hidden
                        \/ user'[v] = user[v]
  BY <1>1, <1>4
<1>18. \A f \in Emails : f \notin S => Owner(f)' = Owner(f)
  <2>1. ASSUME NEW f \in Emails, f \notin S
        PROVE  Owner(f)' = Owner(f)
    <3>1. f # old /\ f # row.email
      BY <1>4, <1>6, <2>1, AccountsAssumption
    <3> QED
      BY <1>10, <3>1
  <2> QED
    BY <2>1
<1>19. /\ \A t \in Codes : ucode[t].at = "unused" => ucode'[t].at = "unused"
       /\ Writes(r, S, Idle) /\ cut' = cut /\ restored' = restored
  BY <1>1
<1> QED
  BY <1>4, <1>5, <1>6, <1>8, <1>10, <1>11, <1>12, <1>13, <1>14, <1>15, <1>16, <1>17, <1>18,
     <1>19, WrittenStep

\* The account is gone, and its address is noted.
LEMMA RemoveUserStep ==
  ASSUME IInv, NEW r \in Requests, NEW u \in Users, RemoveUser(r, u)
  PROVE  IInv'
<1> DEFINE old == user[u].email
<1>1. /\ Exists(u) /\ handled < MaxRequests /\ handled' = handled + 1
      /\ user' = [user EXCEPT ![u] = NoUser]
      /\ UNCHANGED <<ucode, request, uses, missed, raced, cut>>
      /\ Forget({old}) /\ moved' = moved \cup {old} /\ restored' = restored \ {u}
  BY DEF RemoveUser, Change
<1>2. TypeOK
  BY DEF IInv
<1>3. user[u] \in User /\ old \in Emails
  BY <1>1, <1>2 DEF TypeOK, User, Exists
<1>4. NoUser \in User /\ NoUser.email = None
  BY DEF NoUser, User, UserStatus
<1>5. /\ user' \in [Users -> User] /\ user'[u] = NoUser
      /\ \A v \in Users \ {u} : user'[v] = user[v]
  BY <1>1, <1>2, <1>4, RowWritten
<1>6. SentCodesStay /\ NoneIsSent /\ NotesGrow
  BY <1>1, CodesUnchanged DEF NotesGrow
<1>7. Owner(NoUser.email) \subseteq {u}
  BY <1>4 DEF Owner, Exists
<1>8. /\ AddressesAreUnique'
      /\ \A f \in Emails : f # NoUser.email /\ f # user[u].email => Owner(f)' = Owner(f)
  BY <1>4, <1>5, <1>7, OwnersWritten
<1>9. \A f \in Emails : /\ Owner(f)' \subseteq Owner(f)
                        /\ Owner(f)' = Owner(f) \/ f \in moved'
  <2>1. ASSUME NEW f \in Emails
        PROVE  /\ Owner(f)' \subseteq Owner(f)
               /\ Owner(f)' = Owner(f) \/ f \in moved'
    <3>1. f # NoUser.email
      BY <1>4, AccountsAssumption
    <3>2. CASE f # old
      BY <1>8, <3>1, <3>2
    <3>3. CASE f = old
      BY <1>1, <1>4, <1>5, <3>1, <3>3, OwnersByRow, OwnersByRowPrime
    <3> QED
      BY <3>2, <3>3
  <2> QED
    BY <2>1
<1>10. RegisteredCanLogIn'
  <2>1. told' \subseteq told /\ \A x \in told' : x[1] # user[u].email
    BY <1>1 DEF Forget
  <2>2. \A x \in told' : \A v \in Users : user[v].email = x[1] => user'[v] = user[v]
    BY <1>5, <2>1
  <2> QED
    BY <1>1, <2>1, <2>2, LoginsStay
<1>11. CodesAreSent' /\ OneCodeInForce' /\ ResetReachesItsOwner'
  BY <1>1, <1>6, CodesStay
<1>12. CodesReachTheirUser'
  BY <1>6, <1>9, CodesReachStill
<1>13. CodesAreUsedUp' /\ \A q \in Requests : RequestIsSound(q)' /\ KnowsTheTables(q)'
  BY <1>1, <1>6, <1>9, RequestsStay
<1>14. TypeOK'
  <2>1. \A f \in Emails : Cardinality(Owner(f)') <= 1
    <3>1. SUFFICES ASSUME NEW f \in Emails
                   PROVE  Cardinality(Owner(f)') <= 1
      OBVIOUS
    <3>2. PICK O : O = Owner(f)'
      OBVIOUS
    <3>3. \A v, w \in O : v = w
      BY <1>8, <3>2 DEF Owner, AddressesAreUnique
    <3>4. Cardinality(O) <= 1
      BY <3>3, AtMostOne
    <3> QED
      BY <3>2, <3>4
  <2>2. /\ told' \subseteq Emails \X Passwords /\ moved' \subseteq Emails
        /\ restored' \subseteq Users
    BY <1>1, <1>2, <1>3 DEF TypeOK, Forget
  <2>3. handled' \in 0..MaxRequests
    BY <1>1, <1>2, AccountsAssumption DEF TypeOK
  <2>4. /\ ucode' \in [Codes -> Ucode] /\ request' \in [Requests -> Request]
        /\ uses' \in [Codes -> 0..2] /\ missed' \cup cut' \subseteq Codes
        /\ raced' \subseteq Users \cup Emails
    BY <1>1, <1>2 DEF TypeOK
  <2> QED
    BY <1>5, <2>1, <2>2, <2>3, <2>4 DEF TypeOK
<1>15. ActiveIsFound'
  <2>1. ASSUME NEW v \in Users, Exists(v)', user'[v].status = "ACTIVE", v \notin restored'
        PROVE  ~user'[v].hidden
    <3>1. v # u
      BY <1>4, <1>5, <2>1 DEF Exists
    <3>2. v \in FindAll("ACTIVE") \ restored
      BY <1>1, <1>5, <2>1, <3>1 DEF FindAll, Exists
    <3> QED
      BY <1>5, <3>1, <3>2 DEF IInv, ActiveIsFound, Discoverable
  <2> QED
    BY <2>1 DEF ActiveIsFound, FindAll, Discoverable, Exists
<1> QED
  BY <1>8, <1>10, <1>11, <1>12, <1>13, <1>14, <1>15 DEF IInv

-----------------------------------------------------------------------------
(* The theorems *)

LEMMA InitIInv == Init => IInv
<1>1. SUFFICES ASSUME Init
               PROVE  IInv
  OBVIOUS
<1>2. /\ \A u \in Users : user[u] = NoUser
      /\ \A t \in Codes : ucode[t] = Unused /\ uses[t] = 0
      /\ \A r \in Requests : request[r] = Idle
      /\ told = {} /\ missed = {} /\ moved = {} /\ restored = {} /\ raced = {} /\ cut = {}
  BY <1>1 DEF Init
<1>3. /\ NoUser \in User /\ NoUser.email = None /\ Unused \in Ucode /\ Unused.at = "unused"
      /\ Idle \in Request /\ Idle.pc = "idle"
  BY IdleIsARequest DEF NoUser, Unused, User, Ucode, UserStatus
<1>4. /\ \A u \in Users : ~Exists(u)
      /\ Stored = {}
  BY <1>2, <1>3 DEF Exists, Stored
<1>5. AddressesAreUnique
  BY <1>4 DEF AddressesAreUnique
<1>6. TypeOK
  <2>1. \A e \in Emails : Cardinality(Owner(e)) <= 1
    BY <1>4, FS_EmptySet DEF Owner
  <2> QED
    BY <1>1, <1>3, <2>1, AccountsAssumption DEF Init, TypeOK
<1>7. RegisteredCanLogIn /\ OneCodeInForce /\ CodesReachTheirUser /\ ResetReachesItsOwner
  BY <1>2, <1>4 DEF RegisteredCanLogIn, OneCodeInForce, CodesReachTheirUser,
                    ResetReachesItsOwner
<1>8. CodesAreSent /\ CodesAreUsedUp
  BY <1>2, <1>3 DEF CodesAreSent, CodesAreUsedUp
<1>9. ActiveIsFound
  BY <1>4 DEF ActiveIsFound, FindAll
<1>10. \A r \in Requests : RequestIsSound(r) /\ KnowsTheTables(r)
  BY <1>2, <1>3 DEF RequestIsSound, KnowsTheTables
<1> QED
  BY <1>5, <1>6, <1>7, <1>8, <1>9, <1>10 DEF IInv

LEMMA StutterStep == IInv /\ UNCHANGED vars => IInv'
BY DEF vars, IInv, TypeOK, AddressesAreUnique, RegisteredCanLogIn, LogsIn, Validated,
       PasswordIs, OneCodeInForce, Stored, CodesAreSent, CodesReachTheirUser, Undisturbed,
       Owner, Exists, CodesAreUsedUp, Uses, ResetReachesItsOwner, ActiveIsFound, FindAll,
       Discoverable, RequestIsSound, KnowsTheTables

LEMMA ProceedStep ==
  ASSUME IInv, NEW r \in Requests, Proceed(r)
  PROVE  IInv'
BY RegisterStep, ResetPasswordStep, ChangePasswordStep, RegisterTakenStep, ClearStep,
   CreateCodeStep, ExchangeOtpStep, VerifyEmailStep, ChangeEmailStep, DeleteUsedStep, EditStep
   DEF Proceed

LEMMA NextIInv == IInv /\ [Next]_vars => IInv'
<1>1. SUFFICES ASSUME IInv, [Next]_vars
               PROVE  IInv'
  OBVIOUS
<1>2. CASE \E r \in Requests : AtOnce(r)
  BY <1>1, <1>2, AtOnceStep, RemoveUserStep DEF AtOnce
<1>3. CASE \E r \in Requests : Read(r) \/ Proceed(r) \/ Abort(r)
  BY <1>1, <1>3, ReadStep, ProceedStep, AbortStep
<1>4. CASE \E t \in Codes : Expire(t)
  BY <1>1, <1>4, ExpireStep
<1>5. CASE UNCHANGED vars
  BY <1>1, <1>5, StutterStep
<1> QED
  BY <1>1, <1>2, <1>3, <1>4, <1>5 DEF Next

\* The inductive invariant holds: what a request that nobody overtook has read
\* of addresses and codes is still so when it writes.
THEOREM Invariance == Spec => []IInv
<1>1. Init => IInv
  BY InitIInv
<1>2. IInv /\ [Next]_vars => IInv'
  BY NextIInv
<1> QED
  BY <1>1, <1>2, PTL DEF Spec

\* The variables keep their types, and no two accounts have one address.
THEOREM TypeCorrectness == Spec => []TypeOK
<1>1. IInv => TypeOK
  BY DEF IInv
<1> QED
  BY <1>1, Invariance, PTL

\* Whoever was told to have registered can log in until the account is changed,
\* unless two registrations of the address overlapped.
THEOREM RegisteredGetIn == Spec => []RegisteredCanLogIn
<1>1. IInv => RegisteredCanLogIn
  BY DEF IInv
<1> QED
  BY <1>1, Invariance, PTL

\* Unless two requests overlapped, one code at most is in force for a user and
\* for an address, whatever the code was asked for.
THEOREM OneCode == Spec => []OneCodeInForce
<1>1. IInv => OneCodeInForce
  BY DEF IInv
<1> QED
  BY <1>1, Invariance, PTL

\* A code changes two passwords only when it is used twice at the same time or
\* when who used it did not come to delete it.
THEOREM CodesAreSpent == Spec => []CodeIsUsedOnce
<1>1. IInv => CodeIsUsedOnce
  BY DEF IInv, CodesAreUsedUp, CodeIsUsedOnce, Uses, TypeOK
<1> QED
  BY <1>1, Invariance, PTL

\* A code asked for to reset a password changes the password of who asked,
\* unless requests overlapped or the address was taken from him.
THEOREM ResetsReach == Spec => []ResetReachesItsOwner
<1>1. IInv => ResetReachesItsOwner
  BY DEF IInv
<1> QED
  BY <1>1, Invariance, PTL

\* Whoever the staff see as active can be found, unless the staff set the
\* status of an account that its owner had disabled.
THEOREM ActiveAreFound == Spec => []ActiveIsFound
<1>1. IInv => ActiveIsFound
  BY DEF IInv
<1> QED
  BY <1>1, Invariance, PTL
===============================================================================
