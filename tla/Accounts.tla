------------------------------ MODULE Accounts ------------------------------
(***************************************************************************)
(* Accounts and their e-mail addresses: registration and change of address *)
(* (handler/auth.go) and the verification codes kept in Redis              *)
(* (handler/verification.go, service.SendEmail).  A handler is a sequence  *)
(* of steps, one for each Redis command or transaction after which another *)
(* request may come between; rows are written back whole, as they were     *)
(* read.  An address is stored in plain text or, with encryption at rest,  *)
(* as a hash beside its ciphertext: the form says which column holds it.   *)
(***************************************************************************)
EXTENDS Naturals, FiniteSets, FiniteSetsExt

CONSTANTS
    AuthID,        \* bound: primary keys of auths, 1 .. n
    Email,         \* e-mail addresses
    Code,          \* bound: verification codes outstanding in Redis
    Request,       \* requests that may be in flight at the same time
    Settings,      \* sets of services that may be switched on in .env
    Ciphering,     \* ACTIVATE_CIPHER at the first start, TRUE or FALSE
    MaxFaults,     \* bound: failing writes and lookups, lost DNS answers, restarts
    None

ASSUME AccountsAssumption ==
    /\ AuthID \subseteq Nat \ {0} /\ IsFiniteSet(AuthID)
    /\ Settings # {} /\ Ciphering \subseteq BOOLEAN
    /\ MaxFaults \in Nat
    /\ None \notin Email

VARIABLES
    auths,       \* per AuthID: the row, None before it is created
    temp,        \* temp_emails: changes of address that wait for a code
    redis,       \* per code: what it is for and the address it stands for
    tokens,      \* accounts of which a token is in use
    services,    \* the services that are switched on
    cipher,      \* ACTIVATE_CIPHER of the running process
    req,         \* per request: the handler it is in and what that has read
    confirmed,   \* history: addresses of which a mailed code was presented
    asked,       \* history: per account, the addresses its user asked for
    atOnce,      \* history: accounts whose address was last saved without a code
    unguarded,   \* history: a check for duplicates could miss a row (see Begin)
    faults       \* failures and restarts so far

settings == <<services, cipher>>
accountsVars == <<auths, temp, redis, tokens, settings, req, confirmed, asked, atOnce,
                  unguarded, faults>>

Form == {"plain", "hash"}
Verify == {"unverified", "notRequired", "verified"}
Kind == {"new", "update"}

Auth == [email : Email, form : Form, verify : Verify]
TempEmail == [auth : AuthID, email : Email, form : Form]
Entry == [kind : Kind, email : Email, form : Form]

\* No row and no code is an empty one.
ASSUME NoneAssumption == None \notin Auth \cup Entry

Idle == [op |-> "idle"]

InFlight ==
    {Idle}
    \cup [op : {"create"}, email : Email]
    \cup [op : {"createRow"}, email : Email, verify : Verify]
    \cup [op : {"send"}, kind : Kind, email : Email]
    \cup [op : {"verify", "change"}, code : Code, entry : Entry]
    \cup [op : {"verifySave"}, id : AuthID, row : Auth]
    \cup [op : {"update", "updateSave"}, id : AuthID, row : Auth, old : SUBSET TempEmail, email : Email]
    \cup [op : {"changeTemp", "changeSave"}, pending : TempEmail, row : Auth]

AccountsTypeOK ==
    /\ auths \in [AuthID -> Auth \cup {None}]
    /\ temp \subseteq TempEmail
    /\ redis \in [Code -> Entry \cup {None}]
    /\ services \in Settings /\ cipher \in BOOLEAN
    /\ req \in [Request -> InFlight]
    /\ confirmed \subseteq Email
    /\ asked \in [AuthID -> SUBSET Email]
    /\ tokens \subseteq AuthID /\ atOnce \subseteq AuthID
    /\ unguarded \in BOOLEAN
    /\ faults \in 0 .. MaxFaults

AccountsInit ==
    /\ auths = [id \in AuthID |-> None]
    /\ temp = {}
    /\ redis = [c \in Code |-> None]
    /\ services \in Settings /\ cipher \in Ciphering
    /\ req = [r \in Request |-> Idle]
    /\ confirmed = {}
    /\ asked = [id \in AuthID |-> {}]
    /\ tokens = {} /\ atOnce = {}
    /\ unguarded = FALSE
    /\ faults = 0

-----------------------------------------------------------------------------
FormNow == IF cipher THEN "hash" ELSE "plain"
Registered == {id \in AuthID : auths[id] # None}

\* db.Where("email = ?") or db.Where("email_hash = ?"), as the form tells
Holding(email, form) == {id \in Registered : auths[id].email = email /\ auths[id].form = form}

\* service.GetUserByEmail: in plain text, else, with encryption at rest, by hash.
\* It reports a failure of the second lookup as a record that is not there.
GetUserByEmail(email, failing) ==
    IF Holding(email, "plain") # {} THEN Holding(email, "plain")
    ELSE IF cipher /\ ~failing THEN Holding(email, "hash") ELSE {}

Enabled(needed) == needed \subseteq services

\* What the controllers ask for before they call their handlers.
CreateUserAuthRoute == Enabled({"rdbms"})
VerifyEmailRoute == Enabled({"rdbms", "verify", "redis"})
CreateVerificationEmailRoute == Enabled({"rdbms", "email", "verify", "redis"})
UpdateEmailRoute(id) == Enabled({"rdbms", "jwt"}) /\ id \in tokens
VerifyUpdatedEmailRoute == Enabled({"verify", "rdbms", "redis"})
ResendRoute(id) == Enabled({"email", "verify", "redis", "rdbms", "jwt"}) /\ id \in tokens

\* service.SendEmail, first half: is a verification code to be sent at all?
EmailRequired == Enabled({"email", "verify", "redis"})

PendingOf(id) == {t \in temp : t.auth = id}

\* A check for duplicates could miss a row when another request is in flight, or
\* did: the handler goes on although the address is registered.
Begin(r, state, missed) ==
    /\ req[r] = Idle
    /\ req' = [req EXCEPT ![r] = state]
    /\ unguarded' = (unguarded \/ missed \/ \E q \in Request : req[q] # Idle)
Continue(r, state) == req' = [req EXCEPT ![r] = state] /\ UNCHANGED unguarded
Finish(r) == Continue(r, Idle)

\* ... second half: a code nobody else has is stored and mailed.
SendEmail(code, kind, email) ==
    /\ redis[code] = None
    /\ redis' = [redis EXCEPT ![code] = [kind |-> kind, email |-> email, form |-> FormNow]]

Fault == faults < MaxFaults /\ faults' = faults + 1

\* A write to the database (its commit included, which nobody checks) or the
\* e-mail service fails: nothing is written.
RequestFails(r) ==
    /\ req[r].op \in {"create", "createRow", "send", "verifySave", "update", "updateSave", "changeSave"}
    /\ Fault
    /\ Finish(r)
    /\ UNCHANGED <<auths, temp, redis, tokens, settings, confirmed, asked, atOnce>>

\* The process stops and starts again, possibly with other services switched on or
\* off and encryption at rest switched on meanwhile.  Requests in flight are gone;
\* tokens and codes outlive it.
Restart ==
    /\ Fault
    /\ services' \in Settings /\ cipher' \in {cipher, TRUE}
    /\ req' = [r \in Request |-> Idle]
    /\ UNCHANGED <<auths, temp, redis, tokens, confirmed, asked, atOnce, unguarded>>

\* A code's time to live in Redis is over.
CodeExpires(code) ==
    /\ redis[code] # None
    /\ redis' = [redis EXCEPT ![code] = None]
    /\ UNCHANGED <<auths, temp, tokens, settings, req, confirmed, asked, atOnce, unguarded, faults>>

\* Login: a verified address is asked for here and nowhere else.
Login(id) ==
    /\ id \in Registered /\ id \in GetUserByEmail(auths[id].email, FALSE)
    /\ Enabled({"verify"}) => auths[id].verify = "verified"
    /\ tokens' = tokens \cup {id}
    /\ UNCHANGED <<auths, temp, redis, settings, req, confirmed, asked, atOnce, unguarded, faults>>

-----------------------------------------------------------------------------
(* Registration. *)

\* CreateUserAuth: the address must be new, in either column; without encryption
\* at rest there must be no row that was written with it.  The lookups read into
\* the request's body: an authID given there (0: none) is one more condition.
CreateUserAuth(r, email, given) ==
    /\ CreateUserAuthRoute
    /\ \A id \in Registered : given \in {0, id} =>
         /\ ~(auths[id].email = email /\ auths[id].form = "plain")
         /\ IF cipher THEN ~(auths[id].email = email /\ auths[id].form = "hash")
                      ELSE auths[id].form = "plain"
    /\ Begin(r, [op |-> "create", email |-> email], GetUserByEmail(email, FALSE) # {})
    /\ UNCHANGED <<auths, temp, redis, tokens, settings, confirmed, asked, atOnce, faults>>

\* Mutant: the status of the address is left unset.
CreateUserAuthSendUnset(r, code) ==
    /\ req[r].op = "create"
    /\ IF EmailRequired THEN SendEmail(code, "new", req[r].email) ELSE UNCHANGED redis
    /\ Continue(r, [op |-> "createRow", email |-> req[r].email, verify |-> None])
    /\ UNCHANGED <<auths, temp, tokens, settings, confirmed, asked, atOnce, faults>>

\* ... a verification code is mailed if need be, before there is an account;
CreateUserAuthSend(r, code) ==
    /\ req[r].op = "create"
    /\ IF EmailRequired THEN SendEmail(code, "new", req[r].email) ELSE UNCHANGED redis
    /\ Continue(r, [op |-> "createRow", email |-> req[r].email,
                    verify |-> IF EmailRequired THEN "unverified" ELSE "notRequired"])
    /\ UNCHANGED <<auths, temp, tokens, settings, confirmed, asked, atOnce, faults>>

\* ... then the row is created: auths has an index on email but no unique one.
CreateUserAuthSave(r) ==
    /\ req[r].op = "createRow"
    /\ Registered # AuthID
    /\ LET id == Min(AuthID \ Registered) IN
       /\ auths' = [auths EXCEPT ![id] = [email |-> req[r].email, form |-> FormNow,
                                          verify |-> req[r].verify]]
       /\ asked' = [asked EXCEPT ![id] = {req[r].email}]
    /\ Finish(r)
    /\ UNCHANGED <<temp, redis, tokens, settings, confirmed, atOnce, faults>>

\* CreateVerificationEmail: another code for an address not verified yet.
CreateVerificationEmail(r, email) ==
    /\ CreateVerificationEmailRoute
    /\ \E id \in GetUserByEmail(email, FALSE) : auths[id].verify # "verified"
    /\ Begin(r, [op |-> "send", kind |-> "new", email |-> email], FALSE)
    /\ UNCHANGED <<auths, temp, redis, tokens, settings, confirmed, asked, atOnce, faults>>

\* ... the code is stored and mailed.
CodeSent(r, code) ==
    /\ req[r].op = "send"
    /\ SendEmail(code, req[r].kind, req[r].email)
    /\ Finish(r)
    /\ UNCHANGED <<auths, temp, tokens, settings, confirmed, asked, atOnce, faults>>

-----------------------------------------------------------------------------
(* A code from the mail is presented. *)

\* EXISTS and GET of VerifyEmail (op "verify") and VerifyUpdatedEmail ("change")
PresentCode(r, code, op, kind) ==
    /\ redis[code] # None /\ redis[code].kind = kind
    /\ Begin(r, [op |-> op, code |-> code, entry |-> redis[code]], FALSE)
    /\ confirmed' = confirmed \cup {redis[code].email}
    /\ UNCHANGED <<auths, temp, redis, tokens, settings, asked, atOnce, faults>>

VerifyEmail(r, code) == VerifyEmailRoute /\ PresentCode(r, code, "verify", "new")
VerifyUpdatedEmail(r, code) == VerifyUpdatedEmailRoute /\ PresentCode(r, code, "change", "update")

\* DEL: deleting a code another request has deleted is no error, and a failure is
\* logged only.
DeleteCode(r) ==
    \/ redis' = [redis EXCEPT ![req[r].code] = None] /\ UNCHANGED faults
    \/ UNCHANGED redis /\ Fault

\* VerifyEmail goes on: the row the code's value finds is read.
VerifyEmailRead(r, id) ==
    /\ req[r].op = "verify"
    /\ id \in Holding(req[r].entry.email, req[r].entry.form)
    /\ DeleteCode(r)
    /\ IF auths[id].verify = "verified" THEN Finish(r)
       ELSE Continue(r, [op |-> "verifySave", id |-> id, row |-> auths[id]])
    /\ UNCHANGED <<auths, temp, tokens, settings, confirmed, asked, atOnce>>

\* ... or none is, and the code is spent for nothing.
VerifyEmailMissing(r) ==
    /\ req[r].op = "verify"
    /\ Holding(req[r].entry.email, req[r].entry.form) = {}
    /\ DeleteCode(r)
    /\ Finish(r)
    /\ UNCHANGED <<auths, temp, tokens, settings, confirmed, asked, atOnce>>

\* A code's value in plain text is taken for a hash when the MX lookup of
\* lib.ValidateEmail fails: no row is found and the code is spent.
LookupMXFails(r) ==
    /\ req[r].op \in {"verify", "change"} /\ req[r].entry.form = "plain"
    /\ Fault
    /\ redis' = [redis EXCEPT ![req[r].code] = None]
    /\ Finish(r)
    /\ UNCHANGED <<auths, temp, tokens, settings, confirmed, asked, atOnce>>

\* ... the row that was read is saved as verified.
VerifyEmailSave(r) ==
    /\ req[r].op = "verifySave"
    /\ auths' = [auths EXCEPT ![req[r].id] = [req[r].row EXCEPT !.verify = "verified"]]
    /\ atOnce' = atOnce \ {req[r].id}
    /\ Finish(r)
    /\ UNCHANGED <<temp, redis, tokens, settings, confirmed, asked, faults>>

-----------------------------------------------------------------------------
(* Change of address. *)

\* UpdateEmail: the new address is registered to nobody, as far as the lookup can
\* tell, and is not the one the pending change asks for.
UpdateEmail(r, id, email, failing) ==
    /\ UpdateEmailRoute(id)
    /\ GetUserByEmail(email, failing) = {}
    /\ IF failing THEN cipher /\ Fault ELSE UNCHANGED faults
    /\ \E old \in IF PendingOf(id) = {} THEN {{}} ELSE {{t} : t \in PendingOf(id)} :
         /\ \A t \in old : t.email # email
         /\ Begin(r, [op |-> "update", id |-> id, row |-> auths[id], old |-> old, email |-> email],
                  GetUserByEmail(email, FALSE) # {})
    /\ UNCHANGED <<auths, temp, redis, tokens, settings, confirmed, asked, atOnce>>

\* ... a code is mailed to the new address ...
UpdateEmailSend(r, code) ==
    /\ req[r].op = "update" /\ EmailRequired
    /\ SendEmail(code, "update", req[r].email)
    /\ Continue(r, [req[r] EXCEPT !.op = "updateSave"])
    /\ UNCHANGED <<auths, temp, tokens, settings, confirmed, asked, atOnce, faults>>

\* Mutant: the row of auths is saved with the new address as well.
UpdateEmailSaveNow(r) ==
    /\ req[r].op = "updateSave"
    /\ auths' = [auths EXCEPT ![req[r].id].email = req[r].email]
    /\ asked' = [asked EXCEPT ![req[r].id] = @ \cup {req[r].email}]
    /\ Finish(r)
    /\ UNCHANGED <<temp, redis, tokens, settings, confirmed, atOnce, faults>>

\* ... and the change saved as pending, in place of the one read before;
UpdateEmailSave(r) ==
    /\ req[r].op = "updateSave"
    /\ temp' = (temp \ req[r].old)
               \cup {[auth |-> req[r].id, email |-> req[r].email, form |-> FormNow]}
    /\ asked' = [asked EXCEPT ![req[r].id] = @ \cup {req[r].email}]
    /\ Finish(r)
    /\ UNCHANGED <<auths, redis, tokens, settings, confirmed, atOnce, faults>>

\* ... without verification the row of auths is saved at once.
UpdateEmailAtOnce(r) ==
    /\ req[r].op = "update" /\ ~EmailRequired
    /\ auths' = [auths EXCEPT ![req[r].id] = [email |-> req[r].email, form |-> FormNow,
                                                verify |-> req[r].row.verify]]
    /\ asked' = [asked EXCEPT ![req[r].id] = @ \cup {req[r].email}]
    /\ atOnce' = atOnce \cup {req[r].id}
    /\ Finish(r)
    /\ UNCHANGED <<temp, redis, tokens, settings, confirmed, faults>>

\* ResendVerificationCodeToModifyActiveEmail: another code for the pending change.
\* A ciphertext cannot be read without encryption at rest.
ResendVerificationCode(r, id) ==
    /\ ResendRoute(id)
    /\ \E t \in PendingOf(id) :
         /\ t.form = "hash" => cipher
         /\ Begin(r, [op |-> "send", kind |-> "update", email |-> t.email], FALSE)
    /\ UNCHANGED <<auths, temp, redis, tokens, settings, confirmed, asked, atOnce, faults>>

\* Mutant: whether the address is in use is not checked again.
VerifyUpdatedEmailReadUnchecked(r, t) ==
    /\ req[r].op = "change"
    /\ t \in temp /\ t.email = req[r].entry.email /\ t.form = req[r].entry.form
    /\ DeleteCode(r)
    /\ Continue(r, [op |-> "changeTemp", pending |-> t, row |-> auths[t.auth]])
    /\ UNCHANGED <<auths, temp, tokens, settings, confirmed, asked, atOnce>>

\* Mutant: the account is read without the condition on auth_id.
VerifyUpdatedEmailReadFirst(r, t) ==
    /\ req[r].op = "change"
    /\ t \in temp /\ t.email = req[r].entry.email /\ t.form = req[r].entry.form
    /\ DeleteCode(r)
    /\ IF Holding(t.email, t.form) # {} THEN Finish(r)
       ELSE Continue(r, [op |-> "changeTemp", pending |-> [t EXCEPT !.auth = Min(Registered)],
                         row |-> auths[Min(Registered)]])
    /\ UNCHANGED <<auths, temp, tokens, settings, confirmed, asked, atOnce>>

\* VerifyUpdatedEmail goes on: the code's value finds a pending change, nobody
\* uses its address, and the row of its account is read.
VerifyUpdatedEmailRead(r, t) ==
    /\ req[r].op = "change"
    /\ t \in temp /\ t.email = req[r].entry.email /\ t.form = req[r].entry.form
    /\ DeleteCode(r)
    /\ IF Holding(t.email, t.form) # {} THEN Finish(r)
       ELSE Continue(r, [op |-> "changeTemp", pending |-> t, row |-> auths[t.auth]])
    /\ UNCHANGED <<auths, temp, tokens, settings, confirmed, asked, atOnce>>

\* ... or the change is no longer pending.
VerifyUpdatedEmailGone(r) ==
    /\ req[r].op = "change"
    /\ \A t \in temp : t.email # req[r].entry.email \/ t.form # req[r].entry.form
    /\ DeleteCode(r)
    /\ Finish(r)
    /\ UNCHANGED <<auths, temp, tokens, settings, confirmed, asked, atOnce>>

\* ... the pending change is deleted (a failure is logged) ...
VerifyUpdatedEmailDelete(r, deleted) ==
    /\ req[r].op = "changeTemp"
    /\ IF deleted THEN temp' = temp \ {req[r].pending} /\ UNCHANGED faults
                  ELSE Fault /\ UNCHANGED temp
    /\ Continue(r, [req[r] EXCEPT !.op = "changeSave"])
    /\ UNCHANGED <<auths, redis, tokens, settings, confirmed, asked, atOnce>>

\* ... and in another transaction the account's row saved with the new address.
VerifyUpdatedEmailSave(r) ==
    /\ req[r].op = "changeSave"
    /\ LET t == req[r].pending IN
       auths' = [auths EXCEPT ![t.auth] = [email |-> t.email, form |-> t.form,
                                           verify |-> req[r].row.verify]]
    /\ atOnce' = atOnce \ {req[r].pending.auth}
    /\ Finish(r)
    /\ UNCHANGED <<temp, redis, tokens, settings, confirmed, asked, faults>>

-----------------------------------------------------------------------------
AccountsNext ==
    \/ \E r \in Request :
         \/ CreateUserAuthSave(r) \/ VerifyEmailMissing(r) \/ VerifyEmailSave(r)
         \/ LookupMXFails(r) \/ RequestFails(r)
         \/ UpdateEmailSave(r) \/ UpdateEmailAtOnce(r)
         \/ VerifyUpdatedEmailGone(r) \/ VerifyUpdatedEmailSave(r)
         \/ \E email \in Email : \/ CreateVerificationEmail(r, email)
                                 \/ \E given \in AuthID \cup {0} : CreateUserAuth(r, email, given)
         \/ \E code \in Code : \/ CreateUserAuthSend(r, code) \/ CodeSent(r, code)
                               \/ UpdateEmailSend(r, code)
                               \/ VerifyEmail(r, code) \/ VerifyUpdatedEmail(r, code)
         \/ \E id \in AuthID : \/ VerifyEmailRead(r, id) \/ ResendVerificationCode(r, id)
                               \/ \E email \in Email, failing \in BOOLEAN :
                                    UpdateEmail(r, id, email, failing)
         \/ \E t \in temp : VerifyUpdatedEmailRead(r, t)
         \/ \E deleted \in BOOLEAN : VerifyUpdatedEmailDelete(r, deleted)
    \/ \E code \in Code : CodeExpires(code)
    \/ \E id \in AuthID : Login(id)
    \/ Restart

AccountsSpec == AccountsInit /\ [][AccountsNext]_accountsVars

-----------------------------------------------------------------------------
\* However requests overlap and fail and the settings change, an account counts as
\* verified only with an address of which a mailed code was presented, or which
\* UpdateEmail saved at once, keeping the mark, while no codes were sent: no stale
\* save of VerifyEmail or VerifyUpdatedEmail pairs the mark with another address.
VerifiedWasConfirmed ==
    \A id \in Registered \ atOnce : auths[id].verify = "verified" => auths[id].email \in confirmed

\* However requests overlap, an account's address is one its own user asked for,
\* even when two users have asked to change to the same address.
OwnAddress == \A id \in Registered : auths[id].email \in asked[id]

\* "one unique email for each account", and "valid: non-encryption mode -> upgrade
\* to encryption mode" where CreateUserAuth guards against duplicate accounts, here
\* with one request at a time and every lookup seeing the rows there are.
UniqueEmail == ~unguarded => \A a, b \in Registered : auths[a].email = auths[b].email => a = b

\* As long as requests do not overlap and no lookup misses a row (an authID in the
\* body of a registration, a failing lookup by hash), no address is in the same
\* column twice: codes that outlive a change or a change of settings, registrations
\* beside pending changes, failing writes and restarts break nothing.
UniquePerColumn ==
    ~unguarded => \A a, b \in Registered :
        auths[a].email = auths[b].email /\ auths[a].form = auths[b].form => a = b

=============================================================================
