------------------------------- MODULE Accounts -------------------------------
(***************************************************************************)
(* Accounts and the codes sent by mail: auth/auth.service.ts with the user *)
(* and ucode repositories, the staff's admin/user/user.service.ts and      *)
(* application/profile/profile.service.ts.                                 *)
(*                                                                         *)
(* There are no transactions: a code is looked up, the account is written  *)
(* and the code deleted in three steps, and a new code is made by deleting *)
(* the old ones and creating it, in two.  A refused request changes        *)
(* nothing and is no step.                                                 *)
(*                                                                         *)
(* The status of an account is looked at by nothing here: UserStatusGuard  *)
(* is global, Nest runs it before the guard of the route has put a user    *)
(* into the request, and it lets everyone pass.  Refresh tokens are never  *)
(* stored, so refreshing always refuses.  Names, pictures, roles and the   *)
(* digits of one-time codes are left out; codes do not repeat.             *)
(***************************************************************************)
EXTENDS Naturals, FiniteSets

CONSTANTS
  Users,        \* identifiers of user rows, never reused
  Emails,
  Passwords,
  Codes,        \* tokens and one-time codes, never reused
  Requests,     \* requests that may be in flight together
  MaxRequests,  \* bound on the requests of a behaviour
  None          \* no user, no e-mail, no password, no code

UserStatus == {"PENDING", "ACTIVE", "BLOCKED", "DEACTIVATED", "REJECTED"}

ASSUME AccountsAssumption ==
  /\ MaxRequests \in Nat
  /\ None \notin Users \cup Emails \cup Passwords \cup Codes
  /\ Users \cap Emails = {}

VARIABLES
  user,      \* the users table
  ucode,     \* the ucodes table
  request,   \* the requests in flight
  handled,   \* the number of requests so far
  told,      \* history: who was told to be registered, with which password
  uses,      \* history: how many passwords a code changed
  missed,    \* history: codes that changed another account than their user's
  moved,     \* history: addresses that staff, a deletion or the code of another
             \* account took from an account
  restored,  \* history: users whose status the staff set
  raced,     \* history: users and addresses written after an old read
  cut        \* history: codes whose use stopped half way

tables == <<user, ucode>>
history == <<told, uses, missed, moved, restored, raced, cut>>
vars == <<user, ucode, request, handled, told, uses, missed, moved, restored,
          raced, cut>>

-----------------------------------------------------------------------------
(* Rows and requests *)

\* hidden: deleted_at is set.
User ==
  [email    : Emails \cup {None},
   password : Passwords \cup {None},
   verified : BOOLEAN,
   approved : BOOLEAN,
   status   : UserStatus,
   hidden   : BOOLEAN,
   secret   : BOOLEAN,
   twofa    : BOOLEAN]

\* The purpose is not in the table: any code serves any purpose.
Ucode ==
  [at      : {"unused", "valid", "expired", "deleted"},
   user    : Users \cup {None},
   email   : Emails \cup {None},
   purpose : {"reset", "email"}]

Request ==
  [pc       : {"idle", "register", "clear", "create", "otp", "reset", "verify",
               "email", "used", "own", "edit"},
   user     : Users \cup {None},
   email    : Emails \cup {None},
   password : Passwords \cup {None},
   code     : Codes \cup {None},
   purpose  : {"reset", "email"},
   fresh    : BOOLEAN]

NoUser ==
  [email |-> None, password |-> None, verified |-> FALSE, approved |-> FALSE,
   status |-> "ACTIVE", hidden |-> FALSE, secret |-> FALSE, twofa |-> FALSE]
Unused == [at |-> "unused", user |-> None, email |-> None, purpose |-> "reset"]
Idle ==
  [pc |-> "idle", user |-> None, email |-> None, password |-> None,
   code |-> None, purpose |-> "reset", fresh |-> TRUE]

Exists(u) == user[u].email # None
Owner(e) == {u \in Users : Exists(u) /\ user[u].email = e}
Stored == {t \in Codes : ucode[t].at \in {"valid", "expired"}}

Start(r, req) ==
  /\ request[r] = Idle /\ handled < MaxRequests
  /\ request' = [request EXCEPT ![r] = req]
  /\ handled' = handled + 1

\* Request r writes what belongs to the users and addresses S and goes on as
\* "next": what the others have read of these is old from now on.
Writes(r, S, next) ==
  /\ request' = [q \in Requests |->
       IF q = r THEN next
       ELSE IF {request[q].user, request[q].email} \cap S # {}
            THEN [request[q] EXCEPT !.fresh = FALSE]
            ELSE request[q]]
  /\ raced' = IF request[r].fresh THEN raced ELSE raced \cup S
  /\ UNCHANGED handled

Forget(E) == told' = {x \in told : x[1] \notin E}

\* A query throws, a row it needs is gone, or the server restarts.
Abort(r) ==
  /\ request[r] # Idle
  /\ request' = [request EXCEPT ![r] = Idle]
  /\ cut' = IF request[r].pc = "used" THEN cut \cup {request[r].code} ELSE cut
  /\ UNCHANGED <<tables, handled, told, uses, missed, moved, restored, raced>>

-----------------------------------------------------------------------------
(* Registration and login *)

\* register looks for the address, in the service and again in createUser.
ReadRegister(r, e, p) ==
  /\ Owner(e) = {}
  /\ Start(r, [Idle EXCEPT !.pc = "register", !.email = e, !.password = p])
  /\ UNCHANGED <<tables, history>>

\* So does findOrCreateUserFromFacebook, which stores no password.
ReadFacebook(r, e) ==
  /\ Owner(e) = {}
  /\ Start(r, [Idle EXCEPT !.pc = "register", !.email = e])
  /\ UNCHANGED <<tables, history>>

\* Mutant of Register: the account is made without its password.
RegisterWithoutPassword(r, u) ==
  LET e == request[r].email
      p == request[r].password
  IN  /\ request[r].pc = "register" /\ Owner(e) = {}
      /\ ~Exists(u) /\ \A q \in Requests : request[q].user # u
      /\ user' = [user EXCEPT ![u] = [NoUser EXCEPT !.email = e]]
      /\ told' = IF p = None THEN told ELSE told \cup {<<e, p>>}
      /\ Writes(r, {u, e}, Idle)
      /\ UNCHANGED <<ucode, uses, missed, moved, restored, cut>>

Register(r, u) ==
  LET e == request[r].email
      p == request[r].password
  IN  /\ request[r].pc = "register" /\ Owner(e) = {}
      /\ ~Exists(u) /\ \A q \in Requests : request[q].user # u
      /\ user' = [user EXCEPT ![u] =
           [NoUser EXCEPT !.email = e, !.password = p, !.verified = (p = None)]]
      /\ told' = IF p = None THEN told ELSE told \cup {<<e, p>>}
      /\ Writes(r, {u, e}, Idle)
      /\ UNCHANGED <<ucode, uses, missed, moved, restored, cut>>

\* The unique index refuses the row.  createUser reports that, but register
\* looks at the report with "user == null && ..." and answers as if it had gone
\* well.
RegisterTaken(r) ==
  LET e == request[r].email
      p == request[r].password
  IN  /\ request[r].pc = "register" /\ Owner(e) # {} /\ p # None
      /\ told' = told \cup {<<e, p>>}
      /\ Writes(r, {e}, Idle)
      /\ UNCHANGED <<tables, uses, missed, moved, restored, cut>>

PasswordIs(u, p) == p # None /\ user[u].password = p

\* validateUser as the local strategy calls it, without a second factor: with
\* two-factor authentication it always asks for the token it is not given.
Validated(e, p) == {u \in Owner(e) : PasswordIs(u, p) /\ ~user[u].twofa}

\* login makes the tokens of whoever was validated.
LogsIn(e, p) == Validated(e, p) # {}

-----------------------------------------------------------------------------
(* Codes *)

Ask(r, u, e, purpose) ==
  /\ Exists(u)
  /\ Start(r, [Idle EXCEPT !.pc = "clear", !.user = u, !.email = e, !.purpose = purpose])
  /\ UNCHANGED <<tables, history>>

\* A code for the account's own address; resendVerificationEmail asks for the
\* same.
ForgotPassword(r, u) == Ask(r, u, user[u].email, "reset")

\* A code to the new address, which may be any.
RequestEmailChange(r, u, e) == Ask(r, u, e, "email")

\* Mutant of Clear: only the codes sent to the address are deleted.
ClearByEmail(r) ==
  LET u == request[r].user
      e == request[r].email
  IN  /\ request[r].pc = "clear"
      /\ ucode' = [t \in Codes |->
           IF t \in Stored /\ ucode[t].email = e
           THEN [ucode[t] EXCEPT !.at = "deleted"] ELSE ucode[t]]
      /\ Writes(r, {u, e}, [request[r] EXCEPT !.pc = "create"])
      /\ UNCHANGED <<user, told, uses, missed, moved, restored, cut>>

\* createToken deletes the codes of the user and those sent to the address,
Clear(r) ==
  LET u == request[r].user
      e == request[r].email
  IN  /\ request[r].pc = "clear"
      /\ ucode' = [t \in Codes |->
           IF t \in Stored /\ (ucode[t].user = u \/ ucode[t].email = e)
           THEN [ucode[t] EXCEPT !.at = "deleted"] ELSE ucode[t]]
      /\ Writes(r, {u, e}, [request[r] EXCEPT !.pc = "create"])
      /\ UNCHANGED <<user, told, uses, missed, moved, restored, cut>>

\* and creates the new one, which is mailed to the address.
CreateCode(r, t) ==
  LET u == request[r].user
      e == request[r].email
  IN  /\ request[r].pc = "create" /\ Exists(u)
      /\ ucode[t].at = "unused"
      /\ ucode' = [ucode EXCEPT ![t] =
           [at |-> "valid", user |-> u, email |-> e, purpose |-> request[r].purpose]]
      /\ Writes(r, {u, e}, Idle)
      /\ UNCHANGED <<user, told, uses, missed, moved, restored, cut>>

\* Five minutes later.
Expire(t) ==
  /\ ucode[t].at = "valid"
  /\ ucode' = [ucode EXCEPT ![t].at = "expired"]
  /\ UNCHANGED <<user, request, handled, history>>

\* Mutant of Validates: the address is not compared.
ValidatesAnywhere(e, t) == ucode[t].at = "valid"

\* validateToken: whose code it is, and what for, is not asked.
Validates(e, t) == ucode[t].at = "valid" /\ ucode[t].email = e

\* resetPassword and verifyEmail validate a code of an account's address,
ReadReset(r, e, t, p) ==
  /\ Validates(e, t) /\ Owner(e) # {}
  /\ Start(r, [Idle EXCEPT !.pc = "reset", !.email = e, !.code = t, !.password = p])
  /\ UNCHANGED <<tables, history>>

ReadVerify(r, u, e, t) ==
  /\ Validates(e, t) /\ u \in Owner(e)
  /\ Start(r, [Idle EXCEPT !.pc = "verify", !.user = u, !.email = e])
  /\ UNCHANGED <<tables, history>>

\* verifyForgotPasswordOtp, too, before it exchanges it for a reset token,
ReadOtp(r, u, e, t) ==
  /\ Validates(e, t) /\ u \in Owner(e)
  /\ Start(r, [Idle EXCEPT !.pc = "otp", !.user = u, !.email = e, !.code = t])
  /\ UNCHANGED <<tables, history>>

\* and changeEmail a code of the new address.
ReadEmail(r, u, e, t) ==
  /\ Exists(u) /\ Validates(e, t)
  /\ Start(r, [Idle EXCEPT !.pc = "email", !.user = u, !.email = e, !.code = t])
  /\ UNCHANGED <<tables, history>>

Delete(t) == ucode' = [ucode EXCEPT ![t].at = "deleted"]

\* The exchange deletes the code before createToken starts.
ExchangeOtp(r) ==
  /\ request[r].pc = "otp" /\ Exists(request[r].user)
  /\ Delete(request[r].code)
  /\ Writes(r, {request[r].email}, [request[r] EXCEPT !.pc = "clear", !.code = None])
  /\ UNCHANGED <<user, told, uses, missed, moved, restored, cut>>

VerifyEmail(r) ==
  LET u == request[r].user
  IN  /\ request[r].pc = "verify" /\ Exists(u)
      /\ user' = [user EXCEPT ![u].verified = TRUE]
      /\ Writes(r, {}, Idle)
      /\ UNCHANGED <<ucode, told, uses, missed, moved, restored, cut>>

\* changePassword of the repository: the account is found by its address.
SetPassword(e, p, u) ==
  /\ u \in Owner(e)
  /\ user' = [user EXCEPT ![u].password = p]
  /\ Forget({e})

ResetPassword(r, u) ==
  LET e == request[r].email
      t == request[r].code
  IN  /\ request[r].pc = "reset"
      /\ SetPassword(e, request[r].password, u)
      /\ uses' = [uses EXCEPT ![t] = IF @ = 2 THEN 2 ELSE @ + 1]
      /\ missed' = IF u = ucode[t].user THEN missed ELSE missed \cup {t}
      /\ Writes(r, {u, e}, [request[r] EXCEPT !.pc = "used"])
      /\ UNCHANGED <<ucode, moved, restored, cut>>

\* The unique index refuses an address that another account has; whose code
\* it was is not asked here either.
ChangeEmail(r) ==
  LET u == request[r].user
      e == request[r].email
      old == user[u].email
  IN  /\ request[r].pc = "email" /\ Exists(u) /\ Owner(e) \subseteq {u}
      /\ user' = [user EXCEPT ![u].email = e]
      /\ Forget({e, old})
      /\ moved' = IF ucode[request[r].code].user = u THEN moved ELSE moved \cup {old}
      /\ Writes(r, {u, e, old}, [request[r] EXCEPT !.pc = "used"])
      /\ UNCHANGED <<ucode, uses, missed, restored, cut>>

\* Mutant of DeleteUsed: the code is left to expire, as verifyEmail does.
DeleteUsedLater(r) ==
  /\ request[r].pc = "used"
  /\ Writes(r, {}, Idle)
  /\ UNCHANGED <<tables, told, uses, missed, moved, restored, cut>>

\* The code is deleted when the account has been written.
DeleteUsed(r) ==
  /\ request[r].pc = "used"
  /\ Delete(request[r].code)
  /\ Writes(r, {request[r].email}, Idle)
  /\ UNCHANGED <<user, told, uses, missed, moved, restored, cut>>

-----------------------------------------------------------------------------
(* The account's owner and the staff *)

\* changePassword checks the old password, and writes by the address it read.
ReadOwn(r, u, p) ==
  /\ Exists(u) /\ user[u].password # None
  /\ Start(r, [Idle EXCEPT !.pc = "own", !.user = u, !.email = user[u].email, !.password = p])
  /\ UNCHANGED <<tables, history>>

ChangePassword(r, u) ==
  /\ request[r].pc = "own"
  /\ SetPassword(request[r].email, request[r].password, u)
  /\ Writes(r, {u, request[r].email}, Idle)
  /\ UNCHANGED <<ucode, uses, missed, moved, restored, cut>>

\* updateUser, by the staff: a new address must be free, a password need not be.
ReadEdit(r, u, e, p) ==
  /\ Exists(u) /\ Owner(e) = {} /\ {e, p} # {None}
  /\ Start(r, [Idle EXCEPT !.pc = "edit", !.user = u, !.email = e, !.password = p])
  /\ UNCHANGED <<tables, history>>

Edit(r) ==
  LET u == request[r].user
      e == request[r].email
      p == request[r].password
      old == user[u].email
  IN  /\ request[r].pc = "edit" /\ Exists(u) /\ Owner(e) = {}
      /\ user' = [user EXCEPT ![u].email = IF e = None THEN @ ELSE e,
                              ![u].password = IF p = None THEN @ ELSE p]
      /\ Forget({old})
      /\ moved' = IF e = None THEN moved ELSE moved \cup {old}
      /\ Writes(r, {u, e, old} \ {None}, Idle)
      /\ UNCHANGED <<ucode, uses, missed, restored, cut>>

\* The rest are single writes of a row that was just seen to exist.
Change(r, u, row) ==
  /\ Exists(u)
  /\ request[r] = Idle /\ handled < MaxRequests
  /\ handled' = handled + 1
  /\ user' = [user EXCEPT ![u] = row]
  /\ UNCHANGED <<ucode, request, uses, missed, raced, cut>>

\* remove, by the staff, and deleteAccount.  The codes stay.
RemoveUser(r, u) ==
  /\ Change(r, u, NoUser)
  /\ Forget({user[u].email})
  /\ moved' = moved \cup {user[u].email}
  /\ restored' = restored \ {u}

Approve(r, u) ==
  /\ Change(r, u, [user[u] EXCEPT !.approved = TRUE])
  /\ UNCHANGED <<told, moved, restored>>

Reject(r, u) ==
  /\ Change(r, u, [user[u] EXCEPT !.approved = FALSE, !.status = "REJECTED"])
  /\ UNCHANGED <<told, moved, restored>>

UpdateStatus(r, u, status) ==
  /\ Change(r, u, [user[u] EXCEPT !.status = status])
  /\ restored' = restored \cup {u}
  /\ UNCHANGED <<told, moved>>

DisableAccount(r, u) ==
  /\ Change(r, u, [user[u] EXCEPT !.status = "DEACTIVATED", !.hidden = TRUE])
  /\ UNCHANGED <<told, moved, restored>>

\* Mutant of ActivateAccount: deleted_at is left as it is.
ActivateStatusOnly(r, u) ==
  /\ Change(r, u, [user[u] EXCEPT !.status = "ACTIVE"])
  /\ restored' = restored \ {u}
  /\ UNCHANGED <<told, moved>>

ActivateAccount(r, u) ==
  /\ Change(r, u, [user[u] EXCEPT !.status = "ACTIVE", !.hidden = FALSE])
  /\ restored' = restored \ {u}
  /\ UNCHANGED <<told, moved>>

Generate2FASecret(r, u) ==
  /\ Change(r, u, [user[u] EXCEPT !.secret = TRUE])
  /\ UNCHANGED <<told, moved, restored>>

\* Whether there is a secret is not asked.
Enable2FA(r, u) ==
  /\ Change(r, u, [user[u] EXCEPT !.twofa = TRUE])
  /\ Forget({user[u].email})
  /\ UNCHANGED <<moved, restored>>

Disable2FA(r, u) ==
  /\ Change(r, u, [user[u] EXCEPT !.secret = FALSE, !.twofa = FALSE])
  /\ UNCHANGED <<told, moved, restored>>

\* The staff's list of the accounts of a status.
FindAll(status) == {u \in Users : Exists(u) /\ user[u].status = status}

\* discoverUsers finds those who are neither hidden nor of another status.
Discoverable(u) == Exists(u) /\ user[u].status = "ACTIVE" /\ ~user[u].hidden

-----------------------------------------------------------------------------
(* The system *)

Init ==
  /\ user = [u \in Users |-> NoUser]
  /\ ucode = [t \in Codes |-> Unused]
  /\ request = [r \in Requests |-> Idle]
  /\ handled = 0
  /\ told = {}
  /\ uses = [t \in Codes |-> 0]
  /\ missed = {} /\ moved = {} /\ restored = {} /\ raced = {} /\ cut = {}

Read(r) ==
  \/ \E e \in Emails : ReadFacebook(r, e) \/ \E p \in Passwords : ReadRegister(r, e, p)
  \/ \E u \in Users :
       ForgotPassword(r, u) \/ \E e \in Emails : RequestEmailChange(r, u, e)
  \/ \E e \in Emails, t \in Codes :
       \/ \E p \in Passwords : ReadReset(r, e, t, p)
       \/ \E u \in Users : ReadVerify(r, u, e, t) \/ ReadOtp(r, u, e, t) \/ ReadEmail(r, u, e, t)
  \/ \E u \in Users :
       \/ \E p \in Passwords : ReadOwn(r, u, p)
       \/ \E e \in Emails \cup {None}, p \in Passwords \cup {None} : ReadEdit(r, u, e, p)

Proceed(r) ==
  \/ \E u \in Users : Register(r, u) \/ ResetPassword(r, u) \/ ChangePassword(r, u)
  \/ RegisterTaken(r)
  \/ Clear(r)
  \/ \E t \in Codes : CreateCode(r, t)
  \/ ExchangeOtp(r)
  \/ VerifyEmail(r)
  \/ ChangeEmail(r)
  \/ DeleteUsed(r)
  \/ Edit(r)

AtOnce(r) ==
  \E u \in Users :
    \/ RemoveUser(r, u)
    \/ Approve(r, u)
    \/ Reject(r, u)
    \/ \E status \in {"ACTIVE", "BLOCKED"} : UpdateStatus(r, u, status)
    \/ DisableAccount(r, u)
    \/ ActivateAccount(r, u)
    \/ Generate2FASecret(r, u)
    \/ Enable2FA(r, u)
    \/ Disable2FA(r, u)

Next ==
  \/ \E r \in Requests : Read(r) \/ Proceed(r) \/ AtOnce(r) \/ Abort(r)
  \/ \E t \in Codes : Expire(t)

Spec == Init /\ [][Next]_vars

-----------------------------------------------------------------------------
(* Properties *)

\* The type invariant; addresses are unique.
TypeOK ==
  /\ user \in [Users -> User]
  /\ ucode \in [Codes -> Ucode]
  /\ request \in [Requests -> Request]
  /\ handled \in 0..MaxRequests
  /\ told \subseteq Emails \X Passwords
  /\ uses \in [Codes -> 0..2]
  /\ missed \cup cut \subseteq Codes
  /\ moved \subseteq Emails
  /\ restored \subseteq Users
  /\ raced \subseteq Users \cup Emails
  /\ \A e \in Emails : Cardinality(Owner(e)) <= 1

\* Whoever was told to have registered can log in with that address and
\* password until the account is changed, unless two registered with the
\* address at the same time: then both are told so, and one has no account.
RegisteredCanLogIn ==
  \A x \in told : x[1] \in raced \/ LogsIn(x[1], x[2])

\* A user has one code in force, and so has an address: asking again makes the
\* code that was sent before worthless.  Two requests at the same time both
\* delete first and leave two.
OneCodeInForce ==
  \A t1, t2 \in Stored :
    t1 # t2 =>
      /\ ucode[t1].user = ucode[t2].user => ucode[t1].user \in raced
      /\ ucode[t1].email = ucode[t2].email => ucode[t1].email \in raced

\* A code changes one password.  It may change two when it is used twice at
\* the same time, or when the request that used it did not come to delete it.
CodeIsUsedOnce ==
  \A t \in Codes :
    uses[t] > 1 =>
      \/ ucode[t].email \in raced
      \/ t \in cut
      \/ \E r \in Requests : request[r].code = t /\ ~request[r].fresh

\* A code that was asked for to reset a password changes the password of the
\* one who asked, although the account is found by its address and the
\* address may have changed hands: asking for a code to change one's address
\* deletes the others.  Staff who change it, or delete the account, do not
\* delete them, nor does a change with the code another account asked for; and
\* two requests of a user at the same time leave him two codes.
ResetReachesItsOwner ==
  \A t \in missed :
    ucode[t].purpose = "reset" =>
      ucode[t].email \in raced \cup moved \/ ucode[t].user \in raced

\* Whoever the staff see as ACTIVE can be found by other users, whatever the
\* owner and the staff did to the account in turn, unless the staff set the
\* status of an account that its owner had disabled: deleted_at stays until
\* the owner activates it.
ActiveIsFound == \A u \in FindAll("ACTIVE") \ restored : Discoverable(u)
-----------------------------------------------------------------------------
(* The inductive invariant of the proofs *)

\* The unique index on the address.
AddressesAreUnique ==
  \A u, v \in Users : Exists(u) /\ user[u].email = user[v].email => u = v

\* A request has what it asks for; a code it names was sent to its address.
RequestIsSound(r) ==
  LET q == request[r]
  IN  /\ q.pc = "idle" => q = Idle
      /\ q.pc \in {"register", "clear", "create", "otp", "reset", "email", "used"} =>
           q.email \in Emails
      /\ q.pc \in {"clear", "create", "otp", "verify", "email", "edit"} => q.user \in Users
      /\ q.pc \in {"otp", "reset", "email", "used"} =>
           /\ q.code \in Codes
           /\ ucode[q.code].at # "unused" /\ ucode[q.code].email = q.email

\* A code that was made is somebody's; one that was not changed nothing.
CodesAreSent ==
  \A t \in Codes :
    IF ucode[t].at = "unused" THEN uses[t] = 0 /\ t \notin missed
    ELSE ucode[t].user \in Users /\ ucode[t].email \in Emails

\* Nothing took the address from the user, or overlapped on either.
Undisturbed(u, e) == {u, e} \cap raced = {} /\ e \notin moved

\* While nothing disturbs it, a code in force to reset a password was sent to
\* the address of its user.
CodesReachTheirUser ==
  \A t \in Stored :
    ucode[t].purpose = "reset" /\ Undisturbed(ucode[t].user, ucode[t].email) =>
      Owner(ucode[t].email) = {ucode[t].user}

\* What a request that is still fresh has read is still so.
KnowsTheTables(r) ==
  LET q == request[r]
  IN  q.fresh =>
        /\ q.pc = "register" => Owner(q.email) = {}
        /\ q.pc = "create" =>
             \A t \in Stored : ucode[t].user # q.user /\ ucode[t].email # q.email
        /\ q.pc \in {"otp", "clear", "create"} /\ q.purpose = "reset"
             /\ Undisturbed(q.user, q.email) => Owner(q.email) = {q.user}
        /\ q.pc = "reset" /\ ucode[q.code].purpose = "reset"
             /\ Undisturbed(ucode[q.code].user, q.email) =>
             Owner(q.email) = {ucode[q.code].user}
        /\ q.pc = "email" /\ ucode[q.code].user = q.user /\ q.user \notin raced =>
             \A t \in Stored : ucode[t].user = q.user => t = q.code

Uses(t) == {r \in Requests : request[r].pc = "used" /\ request[r].code = t}

\* A code that changed a password is about to be deleted by who used it, or is
\* gone and the others who read it are late; when it changed two, one of its
\* users is late.
CodesAreUsedUp ==
  \A t \in Codes :
    uses[t] = 0 \/ ucode[t].email \in raced \/ t \in cut
    \/ /\ \/ Uses(t) # {}
          \/ /\ ucode[t].at = "deleted"
             /\ \A r \in Requests : request[r].pc = "reset" /\ request[r].code = t =>
                  ~request[r].fresh
       /\ uses[t] > 1 => \E r \in Uses(t) : ~request[r].fresh

IInv ==
  /\ TypeOK
  /\ AddressesAreUnique
  /\ RegisteredCanLogIn
  /\ OneCodeInForce
  /\ CodesAreSent
  /\ CodesReachTheirUser
  /\ CodesAreUsedUp
  /\ ResetReachesItsOwner
  /\ ActiveIsFound
  /\ \A r \in Requests : RequestIsSound(r) /\ KnowsTheTables(r)
=============================================================================
