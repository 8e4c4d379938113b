--------------------------- MODULE AccountsProofs ---------------------------
(***************************************************************************)
(* Safety of registration, verification and change of address, for any     *)
(* number of accounts, addresses, codes, requests, failures and restarts.  *)
(***************************************************************************)
EXTENDS Accounts, WellFoundedInduction, TLAPS

\* What a request carries, given the accounts au, the addresses their users asked
\* for (as) and the confirmed ones (cf): rows of accounts that exist, with addresses
\* that were asked for and confirmed.
RequestOK(q, au, as, cf) ==
    /\ q.op = "createRow" => q.verify # "verified"
    /\ q.op \in {"verify", "change"} => q.entry.email \in cf
    /\ q.op = "verifySave" =>
         au[q.id] # None /\ q.row.email \in cf /\ q.row.email \in as[q.id]
    /\ q.op \in {"update", "updateSave"} => au[q.id] # None
    /\ q.op \in {"changeTemp", "changeSave"} =>
         /\ au[q.pending.auth] # None
         /\ q.pending.email \in cf /\ q.pending.email \in as[q.pending.auth]

RequestsOK ==
    /\ req \in [Request -> InFlight]
    /\ \A r \in Request : RequestOK(req[r], auths, asked, confirmed)

\* An account is verified only with a confirmed address, or one saved at once, and
\* has one its user asked for.
AuthsOK ==
    /\ auths \in [AuthID -> Auth \cup {None}]
    /\ asked \in [AuthID -> SUBSET Email]
    /\ tokens \subseteq Registered
    /\ \A id \in Registered :
         /\ auths[id].email \in asked[id]
         /\ auths[id].verify = "verified" => auths[id].email \in confirmed \/ id \in atOnce

\* A pending change is one the account's user asked for.
TempOK ==
    /\ temp \subseteq TempEmail
    /\ \A t \in temp : t.auth \in Registered /\ t.email \in asked[t.auth]

RedisOK == redis \in [Code -> Entry \cup {None}]

DataOK ==
    /\ services \in Settings /\ cipher \in BOOLEAN
    /\ confirmed \subseteq Email /\ atOnce \subseteq AuthID
    /\ unguarded \in BOOLEAN
    /\ faults \in 0 .. MaxFaults

\* The inductive invariant.
Inv == DataOK /\ AuthsOK /\ TempOK /\ RedisOK /\ RequestsOK

-----------------------------------------------------------------------------
\* A set of keys that is not empty has a smallest one.
LEMMA MinIsMember ==
    ASSUME NEW S \in SUBSET Nat, S # {}
    PROVE  Min(S) \in S
<1>1. PICK x \in S : \A y \in S : ~(<<y, x>> \in OpToRel(<, Nat))
  BY NatLessThanWellFounded, WFMin
<1>2. \A y \in S : x =< y
  <2> TAKE y \in S
  <2>1. ~(<<y, x>> \in {ss \in Nat \X Nat : ss[1] < ss[2]})
    BY <1>1 DEF OpToRel
  <2> QED
    BY <2>1
<1> QED
  BY <1>2 DEF Min

\* A request's fields have the types its operation gives them.
LEMMA RequestFields ==
    ASSUME NEW q \in InFlight
    PROVE  /\ q.op = "create" => q.email \in Email
           /\ q.op = "createRow" => q.email \in Email /\ q.verify \in Verify
           /\ q.op = "send" => q.kind \in Kind /\ q.email \in Email
           /\ q.op \in {"verify", "change"} => q.code \in Code /\ q.entry \in Entry
           /\ q.op = "verifySave" => q.id \in AuthID /\ q.row \in Auth
           /\ q.op \in {"update", "updateSave"} =>
                /\ q.id \in AuthID /\ q.row \in Auth
                /\ q.old \in SUBSET TempEmail /\ q.email \in Email
           /\ q.op \in {"changeTemp", "changeSave"} =>
                q.pending \in TempEmail /\ q.row \in Auth
BY SMTT(60) DEF InFlight, Idle

\* Accounts stay, with what they were asked for; confirmed addresses stay confirmed.
Grows ==
    /\ confirmed \subseteq confirmed'
    /\ \A id \in AuthID : auths[id] # None =>
         auths'[id] # None /\ asked[id] \subseteq asked'[id]

LEMMA RequestGrows ==
    ASSUME NEW q \in InFlight, RequestOK(q, auths, asked, confirmed), Grows
    PROVE  RequestOK(q, auths', asked', confirmed')
<1>2. q.op = "verifySave" => q.id \in AuthID
  BY RequestFields
<1>3. q.op \in {"update", "updateSave"} => q.id \in AuthID
  BY RequestFields
<1>4. q.op \in {"changeTemp", "changeSave"} => q.pending.auth \in AuthID
  BY RequestFields DEF TempEmail
<1> QED
  BY <1>2, <1>3, <1>4 DEF RequestOK, Grows

\* Only the request that takes a step changes.
LEMMA RequestStep ==
    ASSUME RequestsOK, Grows, NEW r \in Request, NEW q \in InFlight,
           RequestOK(q, auths', asked', confirmed'),
           req' = [req EXCEPT ![r] = q]
    PROVE  RequestsOK'
<1>1. req' \in [Request -> InFlight]
  BY DEF RequestsOK
<1>2. ASSUME NEW s \in Request PROVE RequestOK(req'[s], auths', asked', confirmed')
  <2>1. req'[s] = IF s = r THEN q ELSE req[s]
    BY DEF RequestsOK
  <2>2. req[s] \in InFlight /\ RequestOK(req[s], auths, asked, confirmed)
    BY DEF RequestsOK
  <2>3. RequestOK(req[s], auths', asked', confirmed')
    BY <2>2, RequestGrows
  <2> QED
    BY <2>1, <2>3
<1> QED
  BY <1>1, <1>2 DEF RequestsOK

LEMMA IdleOK ==
    /\ Idle \in InFlight
    /\ \A au, as, cf : RequestOK(Idle, au, as, cf)
BY DEF InFlight, Idle, RequestOK

LEMMA FinishStep ==
    ASSUME RequestsOK, Grows, NEW r \in Request, Finish(r)
    PROVE  RequestsOK' /\ unguarded' = unguarded
<1>1. Idle \in InFlight /\ RequestOK(Idle, auths', asked', confirmed')
  BY IdleOK
<1>2. req' = [req EXCEPT ![r] = Idle] /\ unguarded' = unguarded
  BY DEF Finish, Continue
<1> QED
  BY <1>1, <1>2, RequestStep

LEMMA ContinueStep ==
    ASSUME RequestsOK, Grows, NEW r \in Request, NEW q \in InFlight,
           RequestOK(q, auths', asked', confirmed'), Continue(r, q)
    PROVE  RequestsOK' /\ unguarded' = unguarded
BY RequestStep DEF Continue

LEMMA BeginStep ==
    ASSUME RequestsOK, Grows, NEW r \in Request, NEW q \in InFlight,
           RequestOK(q, auths', asked', confirmed'), NEW missed \in BOOLEAN,
           Begin(r, q, missed)
    PROVE  RequestsOK' /\ unguarded' \in BOOLEAN
<1>1. unguarded' \in BOOLEAN
  BY Zenon DEF Begin
<1>2. RequestsOK'
  BY RequestStep DEF Begin
<1> QED
  BY <1>1, <1>2

-----------------------------------------------------------------------------
(* What steps leave alone *)

LEMMA SameAccounts ==
    ASSUME Inv, UNCHANGED <<auths, tokens, asked, atOnce>>, confirmed \subseteq confirmed'
    PROVE  AuthsOK' /\ Grows
<1>1. Grows
  BY DEF Grows
<1>2. Registered' = Registered
  BY DEF Registered
<1>3. AuthsOK'
  BY <1>2 DEF Inv, AuthsOK
<1> QED
  BY <1>1, <1>3

LEMMA SameTemp ==
    ASSUME Inv, Grows, temp' \subseteq temp
    PROVE  TempOK'
<1>2. Registered \subseteq Registered'
  BY DEF Grows, Registered
<1> QED
  BY <1>2 DEF Inv, TempOK, TempEmail, Grows, Registered

LEMMA SameRedis ==
    ASSUME Inv, UNCHANGED redis \/ \E c \in Code : redis' = [redis EXCEPT ![c] = None]
    PROVE  RedisOK'
BY DEF Inv, RedisOK

LEMMA StoredCode ==
    ASSUME Inv, NEW c \in Code, NEW kind \in Kind, NEW email \in Email, SendEmail(c, kind, email)
    PROVE  RedisOK'
<1>1. [kind |-> kind, email |-> email, form |-> FormNow] \in Entry
  BY DEF Entry, FormNow, Form
<1> QED
  BY <1>1 DEF Inv, RedisOK, SendEmail

LEMMA FaultStep == ASSUME Inv, Fault PROVE faults' \in 0 .. MaxFaults
BY AccountsAssumption DEF Inv, DataOK, Fault

\* A handler that has only read is on its way.
LEMMA ReadStep ==
    ASSUME Inv, NEW r \in Request, NEW q \in InFlight,
           RequestOK(q, auths, asked, confirmed), NEW missed \in BOOLEAN, Begin(r, q, missed),
           UNCHANGED <<auths, temp, redis, tokens, settings, confirmed, asked, atOnce>>,
           faults' \in 0 .. MaxFaults
    PROVE  Inv' /\ Grows
<1>1. AuthsOK' /\ Grows
  BY SameAccounts DEF settings
<1>2. RequestOK(q, auths', asked', confirmed')
  BY <1>1, RequestGrows
<1>3. RequestsOK' /\ unguarded' \in BOOLEAN
  BY <1>1, <1>2, BeginStep DEF Inv
<1>4. TempOK' /\ RedisOK'
  BY <1>1, SameTemp, SameRedis DEF settings
<1>5. DataOK'
  BY <1>3 DEF Inv, DataOK, settings
<1> QED
  BY <1>1, <1>3, <1>4, <1>5 DEF Inv

\* A handler goes on, or ends, without writing to the accounts.
LEMMA GoOn ==
    ASSUME Inv, NEW r \in Request, NEW q \in InFlight, Continue(r, q),
           RequestOK(q, auths, asked, confirmed),
           UNCHANGED <<auths, tokens, settings, confirmed, asked, atOnce>>,
           temp' \subseteq temp, RedisOK', faults' \in 0 .. MaxFaults
    PROVE  Inv' /\ Grows
<1>1. AuthsOK' /\ Grows
  BY SameAccounts DEF settings
<1>2. RequestOK(q, auths', asked', confirmed')
  BY <1>1, RequestGrows
<1>3. RequestsOK' /\ unguarded' = unguarded
  BY <1>1, <1>2, ContinueStep DEF Inv
<1>4. TempOK'
  BY <1>1, SameTemp
<1>5. DataOK'
  BY <1>3 DEF Inv, DataOK, settings
<1> QED
  BY <1>1, <1>3, <1>4, <1>5 DEF Inv

\* ... in particular when it ends.
LEMMA GiveUp ==
    ASSUME Inv, NEW r \in Request, Finish(r),
           UNCHANGED <<auths, temp, tokens, settings, confirmed, asked, atOnce>>,
           RedisOK', faults' \in 0 .. MaxFaults
    PROVE  Inv' /\ Grows
<1>1. Idle \in InFlight /\ RequestOK(Idle, auths, asked, confirmed)
  BY IdleOK
<1>2. Continue(r, Idle)
  BY DEF Finish
<1> QED
  BY <1>1, <1>2, GoOn

LEMMA CodeDeleted ==
    ASSUME Inv, NEW r \in Request, req[r].op \in {"verify", "change"},
           DeleteCode(r) \/ (redis' = [redis EXCEPT ![req[r].code] = None] /\ Fault)
    PROVE  RedisOK' /\ req[r].entry \in Entry /\ faults' \in 0 .. MaxFaults
<1>1. req[r] \in InFlight
  BY DEF Inv, RequestsOK
<1>2. req[r].code \in Code /\ req[r].entry \in Entry
  BY <1>1, RequestFields
<1>3. faults' \in 0 .. MaxFaults
  BY FaultStep DEF DeleteCode, Inv, DataOK
<1> QED
  BY <1>2, <1>3, SameRedis DEF DeleteCode

\* A handler writes the row of one account and ends.
LEMMA AccountWritten ==
    ASSUME Inv, NEW r \in Request, Finish(r), NEW id \in AuthID, NEW row \in Auth,
           NEW addresses \in SUBSET Email,
           auths' = [auths EXCEPT ![id] = row], asked' = [asked EXCEPT ![id] = addresses],
           row.email \in addresses, auths[id] # None => asked[id] \subseteq addresses,
           atOnce' \in SUBSET AuthID, atOnce \ {id} \subseteq atOnce',
           row.verify = "verified" => row.email \in confirmed \/ id \in atOnce',
           UNCHANGED <<temp, redis, tokens, settings, confirmed, faults>>
    PROVE  Inv' /\ Grows
<1>1. row # None
  BY NoneAssumption
<1>2. /\ auths \in [AuthID -> Auth \cup {None}] /\ asked \in [AuthID -> SUBSET Email]
      /\ \A i \in AuthID : auths'[i] = IF i = id THEN row ELSE auths[i]
      /\ \A i \in AuthID : asked'[i] = IF i = id THEN addresses ELSE asked[i]
  BY DEF Inv, AuthsOK
<1>3. Grows
  BY <1>1, <1>2 DEF Grows, settings
<1>5. AuthsOK'
  <2>1. auths' \in [AuthID -> Auth \cup {None}] /\ asked' \in [AuthID -> SUBSET Email]
    BY <1>2
  <2>2. ASSUME NEW i \in Registered'
        PROVE  /\ auths'[i].email \in asked'[i]
               /\ auths'[i].verify = "verified" => auths'[i].email \in confirmed' \/ i \in atOnce'
    <3>1. i \in AuthID /\ auths'[i] # None
      BY DEF Registered
    <3>2. CASE i = id
      BY <3>1, <3>2, <1>2 DEF settings
    <3>3. CASE i # id
      BY <3>1, <3>3, <1>2 DEF Inv, AuthsOK, Registered, settings
    <3> QED
      BY <3>2, <3>3
  <2>3. tokens' \subseteq Registered'
    BY <1>3 DEF Inv, AuthsOK, Registered, Grows
  <2> QED
    BY <2>1, <2>2, <2>3 DEF AuthsOK
<1>6. RequestsOK' /\ unguarded' = unguarded
  BY <1>3, FinishStep DEF Inv
<1>7. TempOK' /\ RedisOK'
  BY <1>3, SameTemp, SameRedis DEF settings
<1>8. DataOK'
  BY <1>6 DEF Inv, DataOK, settings
<1> QED
  BY <1>3, <1>5, <1>6, <1>7, <1>8 DEF Inv

-----------------------------------------------------------------------------
(* Each action *)

LEMMA FailureSteps ==
    ASSUME Inv, \/ \E r \in Request : RequestFails(r) \/ LookupMXFails(r)
                \/ Restart \/ \E code \in Code : CodeExpires(code)
                \/ \E id \in AuthID : Login(id)
    PROVE  Inv' /\ Grows
<1>1. ASSUME NEW r \in Request, RequestFails(r) PROVE Inv' /\ Grows
  <2>1. RedisOK' /\ faults' \in 0 .. MaxFaults
    BY <1>1, SameRedis, FaultStep DEF RequestFails, settings
  <2> QED
    BY <1>1, <2>1, GiveUp DEF RequestFails
<1>2. ASSUME NEW r \in Request, LookupMXFails(r) PROVE Inv' /\ Grows
  <2>1. RedisOK' /\ faults' \in 0 .. MaxFaults
    BY <1>2, CodeDeleted, FaultStep DEF LookupMXFails, settings
  <2> QED
    BY <1>2, <2>1, GiveUp DEF LookupMXFails
<1>3. CASE Restart
  <2>1. AuthsOK' /\ Grows
    BY <1>3, SameAccounts DEF Restart
  <2>2. TempOK' /\ RedisOK'
    BY <1>3, <2>1, SameTemp, SameRedis DEF Restart
  <2>3. RequestsOK'
    BY <1>3, IdleOK DEF Restart, RequestsOK
  <2>4. cipher' \in BOOLEAN /\ services' \in Settings
    BY <1>3 DEF Restart, Inv, DataOK
  <2>5. DataOK'
    BY <1>3, <2>4, FaultStep DEF Restart, Inv, DataOK
  <2> QED
    BY <2>1, <2>2, <2>3, <2>5 DEF Inv
<1>4. ASSUME NEW code \in Code, CodeExpires(code) PROVE Inv' /\ Grows
  <2>1. AuthsOK' /\ Grows
    BY <1>4, SameAccounts DEF CodeExpires, settings
  <2>2. TempOK' /\ RedisOK'
    BY <1>4, <2>1, SameTemp, SameRedis DEF CodeExpires, settings
  <2>3. RequestsOK'
    <3>1. ASSUME NEW q \in Request
          PROVE  RequestOK(req[q], auths', asked', confirmed')
      BY <2>1, RequestGrows DEF Inv, RequestsOK
    <3> QED
      BY <1>4, <3>1 DEF CodeExpires, RequestsOK, Inv
  <2>4. DataOK'
    BY <1>4 DEF CodeExpires, Inv, DataOK, settings
  <2> QED
    BY <2>1, <2>2, <2>3, <2>4 DEF Inv
<1>5. ASSUME NEW id \in AuthID, Login(id) PROVE Inv' /\ Grows
  <2>1. UNCHANGED <<auths, temp, redis, settings, req, confirmed, asked, atOnce, unguarded, faults>>
    BY <1>5 DEF Login
  <2>2. Grows /\ Registered' = Registered
    BY <2>1 DEF Grows, Registered
  <2>3. tokens' \subseteq Registered
    BY <1>5 DEF Login, Inv, AuthsOK
  <2>4. AuthsOK'
    BY <2>1, <2>2, <2>3 DEF Inv, AuthsOK
  <2>5. TempOK' /\ RedisOK' /\ RequestsOK' /\ DataOK'
    BY <2>1, <2>2 DEF Inv, TempOK, RedisOK, RequestsOK, DataOK, settings
  <2> QED
    BY <2>2, <2>4, <2>5 DEF Inv
<1> QED
  BY <1>1, <1>2, <1>3, <1>4, <1>5

LEMMA CreateUserAuthSteps ==
    ASSUME Inv, NEW r \in Request,
           \/ \E email \in Email, given \in AuthID \cup {0} : CreateUserAuth(r, email, given)
           \/ \E code \in Code : CreateUserAuthSend(r, code)
           \/ CreateUserAuthSave(r)
    PROVE  Inv' /\ Grows
<1>0. req[r] \in InFlight /\ RequestOK(req[r], auths, asked, confirmed)
  BY DEF Inv, RequestsOK
<1>1. ASSUME NEW email \in Email, NEW given \in AuthID \cup {0}, CreateUserAuth(r, email, given)
      PROVE  Inv' /\ Grows
  <2> DEFINE q == [op |-> "create", email |-> email]
  <2>1. q \in InFlight /\ RequestOK(q, auths, asked, confirmed)
    BY DEF InFlight, RequestOK
  <2> DEFINE missed == GetUserByEmail(email, FALSE) # {}
  <2>2. Begin(r, q, missed) /\ missed \in BOOLEAN
    BY <1>1 DEF CreateUserAuth
  <2>3. UNCHANGED <<auths, temp, redis, tokens, settings, confirmed, asked, atOnce, faults>>
    BY <1>1 DEF CreateUserAuth
  <2>4. faults' \in 0 .. MaxFaults
    BY <2>3 DEF Inv, DataOK
  <2> HIDE DEF q, missed
  <2> QED
    BY <2>1, <2>2, <2>3, <2>4, ReadStep
<1>2. ASSUME NEW code \in Code, CreateUserAuthSend(r, code) PROVE Inv' /\ Grows
  <2> DEFINE q == [op |-> "createRow", email |-> req[r].email,
                   verify |-> IF EmailRequired THEN "unverified" ELSE "notRequired"]
  <2>1. req[r].email \in Email
    BY <1>0, <1>2, RequestFields DEF CreateUserAuthSend
  <2>2. q \in InFlight
    BY <2>1 DEF InFlight, Verify
  <2>3. RequestOK(q, auths, asked, confirmed)
    BY DEF RequestOK
  <2>4. Continue(r, q)
    BY <1>2 DEF CreateUserAuthSend
  <2>5. RedisOK'
    BY <1>2, <2>1, StoredCode, SameRedis DEF CreateUserAuthSend, settings, Kind
  <2>6. UNCHANGED <<auths, temp, tokens, settings, confirmed, asked, atOnce, faults>>
    BY <1>2 DEF CreateUserAuthSend
  <2> HIDE DEF q
  <2> QED
    BY <2>2, <2>3, <2>4, <2>5, <2>6, GoOn DEF Inv, DataOK
<1>3. CASE CreateUserAuthSave(r)
  <2> DEFINE id == Min(AuthID \ Registered)
             row == [email |-> req[r].email, form |-> FormNow, verify |-> req[r].verify]
  <2>1. req[r].email \in Email /\ req[r].verify \in Verify /\ req[r].verify # "verified"
    BY <1>0, <1>3, RequestFields DEF CreateUserAuthSave, RequestOK
  <2>2. row \in Auth /\ row.email = req[r].email /\ row.verify # "verified"
    BY <2>1 DEF Auth, FormNow, Form
  <2>3. id \in AuthID /\ auths[id] = None
    BY <1>3, MinIsMember, AccountsAssumption DEF CreateUserAuthSave, Registered
  <2>4. /\ auths' = [auths EXCEPT ![id] = row] /\ asked' = [asked EXCEPT ![id] = {req[r].email}]
        /\ Finish(r) /\ UNCHANGED <<temp, redis, tokens, settings, confirmed, faults>>
        /\ atOnce' \in SUBSET AuthID /\ atOnce \ {id} \subseteq atOnce'
    BY <1>3 DEF CreateUserAuthSave, Inv, DataOK
  <2>5. {req[r].email} \in SUBSET Email
    BY <2>1
  <2> HIDE DEF id, row
  <2> QED
    BY <2>2, <2>3, <2>4, <2>5, AccountWritten
<1> QED
  BY <1>1, <1>2, <1>3

LEMMA CodeSteps ==
    ASSUME Inv, NEW r \in Request,
           \/ \E email \in Email : CreateVerificationEmail(r, email)
           \/ \E code \in Code : CodeSent(r, code) \/ VerifyEmail(r, code) \/ VerifyUpdatedEmail(r, code)
           \/ \E id \in AuthID : ResendVerificationCode(r, id)
    PROVE  Inv' /\ Grows
<1>0. req[r] \in InFlight /\ RequestOK(req[r], auths, asked, confirmed)
  BY DEF Inv, RequestsOK
<1>s. ASSUME NEW kind \in Kind, NEW email \in Email,
             Begin(r, [op |-> "send", kind |-> kind, email |-> email], FALSE),
             UNCHANGED <<auths, temp, redis, tokens, settings, confirmed, asked, atOnce, faults>>
      PROVE  Inv' /\ Grows
  <2> DEFINE q == [op |-> "send", kind |-> kind, email |-> email]
  <2>1. q \in InFlight /\ RequestOK(q, auths, asked, confirmed)
    BY <1>s DEF InFlight, RequestOK
  <2>2. Begin(r, q, FALSE) /\ faults' \in 0 .. MaxFaults /\ FALSE \in BOOLEAN
    BY <1>s DEF Inv, DataOK
  <2> HIDE DEF q
  <2> QED
    BY <1>s, <2>1, <2>2, ReadStep
<1>1. ASSUME NEW email \in Email, CreateVerificationEmail(r, email) PROVE Inv' /\ Grows
  <2>1. "new" \in Kind
    BY DEF Kind
  <2> QED
    BY <1>1, <1>s, <2>1 DEF CreateVerificationEmail
<1>2. ASSUME NEW id \in AuthID, ResendVerificationCode(r, id) PROVE Inv' /\ Grows
  <2>1. "update" \in Kind
    BY DEF Kind
  <2>2. PICK t \in PendingOf(id) : Begin(r, [op |-> "send", kind |-> "update", email |-> t.email], FALSE)
    BY <1>2 DEF ResendVerificationCode
  <2>3. t.email \in Email
    BY <2>2 DEF PendingOf, Inv, TempOK, TempEmail
  <2> QED
    BY <1>2, <1>s, <2>1, <2>2, <2>3 DEF ResendVerificationCode
<1>3. ASSUME NEW code \in Code, CodeSent(r, code) PROVE Inv' /\ Grows
  <2>1. req[r].kind \in Kind /\ req[r].email \in Email
    BY <1>0, <1>3, RequestFields DEF CodeSent
  <2>2. RedisOK'
    BY <1>3, <2>1, StoredCode DEF CodeSent, settings
  <2> QED
    BY <1>3, <2>2, GiveUp DEF CodeSent, Inv, DataOK
<1>4. ASSUME NEW code \in Code, VerifyEmail(r, code) \/ VerifyUpdatedEmail(r, code)
      PROVE  Inv' /\ Grows
  <2>1. PICK op \in {"verify", "change"}, kind \in Kind : PresentCode(r, code, op, kind)
    BY <1>4 DEF VerifyEmail, VerifyUpdatedEmail, Kind
  <2> DEFINE q == [op |-> op, code |-> code, entry |-> redis[code]]
  <2>2. redis[code] \in Entry
    BY <2>1 DEF PresentCode, Inv, RedisOK
  <2>3. redis[code].email \in Email
    BY <2>2 DEF Entry
  <2>4. q \in InFlight
    BY <2>2 DEF InFlight
  <2>5. AuthsOK' /\ Grows
    BY <2>1, SameAccounts DEF PresentCode, settings
  <2>7. RequestOK(q, auths', asked', confirmed')
    BY <2>1 DEF RequestOK, PresentCode
  <2>8. Begin(r, q, FALSE) /\ FALSE \in BOOLEAN
    BY <2>1 DEF PresentCode
  <2> HIDE DEF q
  <2>9. RequestsOK' /\ unguarded' \in BOOLEAN
    BY <2>4, <2>5, <2>7, <2>8, BeginStep DEF Inv
  <2>10. TempOK' /\ RedisOK'
    BY <2>1, <2>5, SameTemp, SameRedis DEF PresentCode, settings
  <2>11. DataOK'
    BY <2>1, <2>3, <2>9 DEF PresentCode, Inv, DataOK, settings
  <2> QED
    BY <2>5, <2>9, <2>10, <2>11 DEF Inv
<1> QED
  BY <1>1, <1>2, <1>3, <1>4

LEMMA VerifyEmailSteps ==
    ASSUME Inv, NEW r \in Request,
           \/ \E id \in AuthID : VerifyEmailRead(r, id)
           \/ VerifyEmailMissing(r) \/ VerifyEmailSave(r)
    PROVE  Inv' /\ Grows
<1>0. req[r] \in InFlight /\ RequestOK(req[r], auths, asked, confirmed)
  BY DEF Inv, RequestsOK
<1>1. ASSUME NEW id \in AuthID, VerifyEmailRead(r, id) PROVE Inv' /\ Grows
  <2>1. RedisOK' /\ faults' \in 0 .. MaxFaults
    BY <1>1, CodeDeleted DEF VerifyEmailRead, settings, Inv, DataOK
  <2>2. UNCHANGED <<auths, temp, tokens, settings, confirmed, asked, atOnce>>
    BY <1>1 DEF VerifyEmailRead
  <2>3. CASE auths[id].verify = "verified"
    BY <1>1, <2>1, <2>2, <2>3, GiveUp DEF VerifyEmailRead
  <2>4. CASE auths[id].verify # "verified"
    <3> DEFINE q == [op |-> "verifySave", id |-> id, row |-> auths[id]]
    <3>1. /\ id \in Registered /\ auths[id] # None /\ auths[id] \in Auth
          /\ auths[id].email \in asked[id] /\ auths[id].email = req[r].entry.email
      BY <1>1 DEF VerifyEmailRead, Holding, Registered, Inv, AuthsOK
    <3>2. req[r].entry.email \in confirmed
      BY <1>0, <1>1 DEF VerifyEmailRead, RequestOK
    <3>3. q \in InFlight /\ RequestOK(q, auths, asked, confirmed)
      BY <3>1, <3>2 DEF InFlight, RequestOK
    <3>4. Continue(r, q)
      BY <1>1, <2>4 DEF VerifyEmailRead
    <3> HIDE DEF q
    <3> QED
      BY <2>1, <2>2, <3>3, <3>4, GoOn
  <2> QED
    BY <2>3, <2>4
<1>2. CASE VerifyEmailMissing(r)
  <2>1. RedisOK' /\ faults' \in 0 .. MaxFaults
    BY <1>2, CodeDeleted DEF VerifyEmailMissing, settings, Inv, DataOK
  <2> QED
    BY <1>2, <2>1, GiveUp DEF VerifyEmailMissing
<1>3. CASE VerifyEmailSave(r)
  <2> DEFINE id == req[r].id
             row == [req[r].row EXCEPT !.verify = "verified"]
  <2>1. /\ id \in AuthID /\ req[r].row \in Auth
        /\ req[r].row.email \in confirmed /\ req[r].row.email \in asked[id]
    BY <1>0, <1>3, RequestFields DEF VerifyEmailSave, RequestOK
  <2>2. row \in Auth /\ row.email = req[r].row.email /\ row.verify = "verified"
    BY <2>1 DEF Auth, Verify
  <2>3. asked[id] \in SUBSET Email /\ asked' = [asked EXCEPT ![id] = asked[id]]
    BY <1>3, <2>1 DEF VerifyEmailSave, Inv, AuthsOK
  <2>4. /\ auths' = [auths EXCEPT ![id] = row]
        /\ Finish(r) /\ UNCHANGED <<temp, redis, tokens, settings, confirmed, faults>>
        /\ atOnce' \in SUBSET AuthID /\ atOnce \ {id} \subseteq atOnce'
    BY <1>3 DEF VerifyEmailSave, Inv, DataOK
  <2> HIDE DEF id, row
  <2> QED
    BY <2>1, <2>2, <2>3, <2>4, AccountWritten
<1> QED
  BY <1>1, <1>2, <1>3

LEMMA UpdateEmailSteps ==
    ASSUME Inv, NEW r \in Request,
           \/ \E id \in AuthID, email \in Email, failing \in BOOLEAN :
                UpdateEmail(r, id, email, failing)
           \/ \E code \in Code : UpdateEmailSend(r, code)
           \/ UpdateEmailSave(r) \/ UpdateEmailAtOnce(r)
    PROVE  Inv' /\ Grows
<1>0. req[r] \in InFlight /\ RequestOK(req[r], auths, asked, confirmed)
  BY DEF Inv, RequestsOK
<1>1. ASSUME NEW id \in AuthID, NEW email \in Email, NEW failing \in BOOLEAN,
             UpdateEmail(r, id, email, failing)
      PROVE  Inv' /\ Grows
  <2> DEFINE missed == GetUserByEmail(email, FALSE) # {}
  <2>1. PICK old \in IF PendingOf(id) = {} THEN {{}} ELSE {{t} : t \in PendingOf(id)} :
          Begin(r, [op |-> "update", id |-> id, row |-> auths[id], old |-> old, email |-> email],
                missed)
    BY <1>1 DEF UpdateEmail
  <2> DEFINE q == [op |-> "update", id |-> id, row |-> auths[id], old |-> old, email |-> email]
  <2>2. old \in SUBSET TempEmail
    BY <2>1 DEF PendingOf, Inv, TempOK
  <2>3. auths[id] # None /\ auths[id] \in Auth
    BY <1>1 DEF UpdateEmail, UpdateEmailRoute, Registered, Inv, AuthsOK
  <2>5. q \in InFlight
    BY <2>2, <2>3 DEF InFlight
  <2>6. RequestOK(q, auths, asked, confirmed)
    BY <2>3 DEF RequestOK
  <2>7. UNCHANGED <<auths, temp, redis, tokens, settings, confirmed, asked, atOnce>>
    BY <1>1 DEF UpdateEmail
  <2>8. Begin(r, q, missed) /\ missed \in BOOLEAN
    BY <2>1
  <2>9. faults' \in 0 .. MaxFaults
    BY <1>1, FaultStep DEF UpdateEmail, Inv, DataOK
  <2> HIDE DEF q, missed
  <2> QED
    BY <2>5, <2>6, <2>7, <2>8, <2>9, ReadStep
<1>2. ASSUME NEW code \in Code, UpdateEmailSend(r, code) PROVE Inv' /\ Grows
  <2> DEFINE q == [req[r] EXCEPT !.op = "updateSave"]
  <2>1. req[r].op = "update"
    BY <1>2 DEF UpdateEmailSend
  <2>2. req[r] \in [op : {"update", "updateSave"}, id : AuthID, row : Auth,
                    old : SUBSET TempEmail, email : Email]
    BY <1>0, <2>1 DEF InFlight, Idle
  <2>3. /\ q \in InFlight /\ q.op = "updateSave" /\ q.id = req[r].id
        /\ req[r].email \in Email
    BY <2>2 DEF InFlight
  <2>4. RequestOK(q, auths, asked, confirmed)
    BY <1>0, <2>1, <2>3 DEF RequestOK
  <2>5. RedisOK'
    BY <1>2, <2>1, <2>3, StoredCode DEF UpdateEmailSend, settings, Kind
  <2>6. Continue(r, q) /\ UNCHANGED <<auths, temp, tokens, settings, confirmed, asked, atOnce, faults>>
    BY <1>2 DEF UpdateEmailSend
  <2> HIDE DEF q
  <2> QED
    BY <2>3, <2>4, <2>5, <2>6, GoOn DEF Inv, DataOK
<1>3. CASE UpdateEmailSave(r)
  <2> DEFINE id == req[r].id
             new == [auth |-> id, email |-> req[r].email, form |-> FormNow]
  <2>1. id \in AuthID /\ req[r].email \in Email /\ auths[id] # None
    BY <1>0, <1>3, RequestFields DEF UpdateEmailSave, RequestOK
  <2>2. new \in TempEmail
    BY <2>1 DEF TempEmail, FormNow, Form
  <2>3. /\ asked' = [asked EXCEPT ![id] = asked[id] \cup {req[r].email}]
        /\ UNCHANGED <<auths, redis, tokens, settings, confirmed, atOnce, faults>>
        /\ temp' = (temp \ req[r].old) \cup {new} /\ Finish(r)
    BY <1>3 DEF UpdateEmailSave
  <2>4. asked \in [AuthID -> SUBSET Email]
    BY DEF Inv, AuthsOK
  <2>5. /\ asked' \in [AuthID -> SUBSET Email] /\ req[r].email \in asked'[id]
        /\ \A i \in AuthID : asked[i] \subseteq asked'[i]
    BY <2>1, <2>3, <2>4
  <2>6. Grows
    BY <2>3, <2>5 DEF Grows, settings
  <2>7. Registered' = Registered
    BY <2>3 DEF Registered
  <2>8. AuthsOK'
    BY <2>3, <2>5, <2>7 DEF Inv, AuthsOK, Registered
  <2>9. TempOK'
    <3>1. temp' \subseteq TempEmail
      BY <2>2, <2>3 DEF Inv, TempOK
    <3>2. ASSUME NEW t \in temp'
          PROVE  t.auth \in Registered' /\ t.email \in asked'[t.auth]
      <4>1. CASE t = new
        BY <4>1, <2>1, <2>3, <2>5, <2>7 DEF Registered
      <4>2. CASE t # new
        <5>1. t \in temp
          BY <4>2, <2>3
        <5>2. t.auth \in Registered /\ t.email \in asked[t.auth]
          BY <5>1 DEF Inv, TempOK
        <5> QED
          BY <5>2, <2>1, <2>3, <2>5, <2>7 DEF Registered
      <4> QED
        BY <4>1, <4>2
    <3> QED
      BY <3>1, <3>2 DEF TempOK
  <2>10. RedisOK' /\ RequestsOK' /\ unguarded' = unguarded
    BY <2>3, <2>6, SameRedis, FinishStep DEF settings, Inv
  <2>11. DataOK'
    BY <2>3, <2>10 DEF Inv, DataOK, settings
  <2> QED
    BY <2>6, <2>8, <2>9, <2>10, <2>11 DEF Inv
<1>4. CASE UpdateEmailAtOnce(r)
  <2> DEFINE id == req[r].id
             row == [email |-> req[r].email, form |-> FormNow, verify |-> req[r].row.verify]
             addresses == asked[id] \cup {req[r].email}
  <2>1. /\ id \in AuthID /\ req[r].email \in Email /\ req[r].row \in Auth
        /\ auths[id] # None
    BY <1>0, <1>4, RequestFields DEF UpdateEmailAtOnce, RequestOK
  <2>2. asked[id] \in SUBSET Email
    BY <2>1 DEF Inv, AuthsOK
  <2>3. row \in Auth /\ row.email = req[r].email
    BY <2>1 DEF Auth, FormNow, Form
  <2>4. addresses \in SUBSET Email /\ asked[id] \subseteq addresses /\ req[r].email \in addresses
    BY <2>1, <2>2
  <2>5. /\ auths' = [auths EXCEPT ![id] = row] /\ asked' = [asked EXCEPT ![id] = addresses]
        /\ Finish(r) /\ UNCHANGED <<temp, redis, tokens, settings, confirmed, faults>>
        /\ atOnce' \in SUBSET AuthID /\ atOnce \ {id} \subseteq atOnce' /\ id \in atOnce'
    BY <1>4, <2>1 DEF UpdateEmailAtOnce, Inv, DataOK
  <2> HIDE DEF id, row, addresses
  <2> QED
    BY <2>1, <2>2, <2>3, <2>4, <2>5, AccountWritten
<1> QED
  BY <1>1, <1>2, <1>3, <1>4

LEMMA VerifyUpdatedEmailSteps ==
    ASSUME Inv, NEW r \in Request,
           \/ \E t \in temp : VerifyUpdatedEmailRead(r, t)
           \/ \E deleted \in BOOLEAN : VerifyUpdatedEmailDelete(r, deleted)
           \/ VerifyUpdatedEmailGone(r) \/ VerifyUpdatedEmailSave(r)
    PROVE  Inv' /\ Grows
<1>0. req[r] \in InFlight /\ RequestOK(req[r], auths, asked, confirmed)
  BY DEF Inv, RequestsOK
<1>1. ASSUME NEW t \in temp, VerifyUpdatedEmailRead(r, t) PROVE Inv' /\ Grows
  <2>1. RedisOK' /\ faults' \in 0 .. MaxFaults
    BY <1>1, CodeDeleted DEF VerifyUpdatedEmailRead, settings, Inv, DataOK
  <2>2. UNCHANGED <<auths, temp, tokens, settings, confirmed, asked, atOnce>>
    BY <1>1 DEF VerifyUpdatedEmailRead
  <2>3. CASE Holding(t.email, t.form) # {}
    BY <1>1, <2>1, <2>2, <2>3, GiveUp DEF VerifyUpdatedEmailRead
  <2>4. CASE Holding(t.email, t.form) = {}
    <3> DEFINE q == [op |-> "changeTemp", pending |-> t, row |-> auths[t.auth]]
    <3>1. t \in TempEmail /\ t.auth \in Registered /\ t.email \in asked[t.auth]
      BY DEF Inv, TempOK
    <3>2. auths[t.auth] # None /\ auths[t.auth] \in Auth
      BY <3>1 DEF Registered, Inv, AuthsOK
    <3>3. t.email \in confirmed
      BY <1>0, <1>1 DEF VerifyUpdatedEmailRead, RequestOK
    <3>4. q \in InFlight
      BY <3>1, <3>2 DEF InFlight
    <3>5. RequestOK(q, auths, asked, confirmed)
      BY <3>1, <3>2, <3>3 DEF RequestOK
    <3>6. Continue(r, q)
      BY <1>1, <2>4 DEF VerifyUpdatedEmailRead
    <3> HIDE DEF q
    <3> QED
      BY <2>1, <2>2, <3>4, <3>5, <3>6, GoOn
  <2> QED
    BY <2>3, <2>4
<1>2. ASSUME NEW deleted \in BOOLEAN, VerifyUpdatedEmailDelete(r, deleted) PROVE Inv' /\ Grows
  <2> DEFINE q == [req[r] EXCEPT !.op = "changeSave"]
  <2>1. req[r].op = "changeTemp"
    BY <1>2 DEF VerifyUpdatedEmailDelete
  <2>2. req[r] \in [op : {"changeTemp", "changeSave"}, pending : TempEmail, row : Auth]
    BY <1>0, <2>1 DEF InFlight, Idle
  <2>3. /\ q \in InFlight /\ q.op = "changeSave" /\ q.pending = req[r].pending
        /\ q.row = req[r].row
    BY <2>2 DEF InFlight
  <2>4. RequestOK(q, auths, asked, confirmed)
    BY <1>0, <2>1, <2>3 DEF RequestOK
  <2>5. temp' \subseteq temp /\ faults' \in 0 .. MaxFaults
    BY <1>2, FaultStep DEF VerifyUpdatedEmailDelete, Inv, DataOK
  <2>6. Continue(r, q) /\ UNCHANGED <<auths, redis, tokens, settings, confirmed, asked, atOnce>>
    BY <1>2 DEF VerifyUpdatedEmailDelete
  <2>7. RedisOK'
    BY <2>6, SameRedis DEF settings
  <2> HIDE DEF q
  <2> QED
    BY <2>3, <2>4, <2>5, <2>6, <2>7, GoOn
<1>3. CASE VerifyUpdatedEmailGone(r)
  <2>1. RedisOK' /\ faults' \in 0 .. MaxFaults
    BY <1>3, CodeDeleted DEF VerifyUpdatedEmailGone, settings, Inv, DataOK
  <2> QED
    BY <1>3, <2>1, GiveUp DEF VerifyUpdatedEmailGone
<1>4. CASE VerifyUpdatedEmailSave(r)
  <2> DEFINE t == req[r].pending
             row == [email |-> t.email, form |-> t.form, verify |-> req[r].row.verify]
  <2>1. t \in TempEmail /\ req[r].row \in Auth
    BY <1>0, <1>4, RequestFields DEF VerifyUpdatedEmailSave
  <2>2. auths[t.auth] # None /\ t.email \in confirmed /\ t.email \in asked[t.auth]
    BY <1>0, <1>4 DEF VerifyUpdatedEmailSave, RequestOK
  <2>3. t.auth \in AuthID
    BY <2>1 DEF TempEmail
  <2>4. row \in Auth /\ row.email = t.email
    BY <2>1 DEF Auth, TempEmail
  <2>5. asked[t.auth] \in SUBSET Email /\ asked' = [asked EXCEPT ![t.auth] = asked[t.auth]]
    BY <1>4, <2>3 DEF VerifyUpdatedEmailSave, Inv, AuthsOK
  <2>6. /\ auths' = [auths EXCEPT ![t.auth] = row]
        /\ Finish(r) /\ UNCHANGED <<temp, redis, tokens, settings, confirmed, faults>>
        /\ atOnce' \in SUBSET AuthID /\ atOnce \ {t.auth} \subseteq atOnce'
    BY <1>4 DEF VerifyUpdatedEmailSave, Inv, DataOK
  <2> HIDE DEF t, row
  <2> QED
    BY <2>2, <2>3, <2>4, <2>5, <2>6, AccountWritten
<1> QED
  BY <1>1, <1>2, <1>3, <1>4

-----------------------------------------------------------------------------
LEMMA InitInv == AccountsInit => Inv
<1> SUFFICES ASSUME AccountsInit PROVE Inv
  OBVIOUS
<1>1. Registered = {}
  BY DEF AccountsInit, Registered
<1>2. DataOK
  <2>1. cipher \in BOOLEAN /\ unguarded \in BOOLEAN
    BY AccountsAssumption, Zenon DEF AccountsInit
  <2> QED
    BY <2>1, AccountsAssumption DEF AccountsInit, DataOK
<1>3. AuthsOK /\ TempOK /\ RedisOK
  BY <1>1 DEF AccountsInit, AuthsOK, TempOK, RedisOK
<1>4. RequestsOK
  BY IdleOK DEF AccountsInit, RequestsOK
<1> QED
  BY <1>2, <1>3, <1>4 DEF Inv

LEMMA NextInv == Inv /\ [AccountsNext]_accountsVars => Inv' /\ Grows
<1> SUFFICES ASSUME Inv, [AccountsNext]_accountsVars PROVE Inv' /\ Grows
  OBVIOUS
<1>1. CASE UNCHANGED accountsVars
  <2>1. UNCHANGED <<auths, temp, redis, tokens, services, cipher, req, confirmed, asked, atOnce,
                    unguarded, faults>>
    BY <1>1 DEF accountsVars, settings
  <2>2. Grows
    BY <2>1 DEF Grows
  <2>3. Registered' = Registered
    BY <2>1 DEF Registered
  <2>4. DataOK' /\ AuthsOK' /\ TempOK' /\ RedisOK'
    BY <2>1, <2>3 DEF Inv, DataOK, AuthsOK, TempOK, RedisOK
  <2>5. RequestsOK'
    BY <2>1, <2>3 DEF Inv, RequestsOK
  <2> QED
    BY <2>2, <2>4, <2>5 DEF Inv
<1>2. CASE AccountsNext
  BY <1>2, FailureSteps, CreateUserAuthSteps, CodeSteps, VerifyEmailSteps, UpdateEmailSteps,
     VerifyUpdatedEmailSteps DEF AccountsNext
<1> QED
  BY <1>1, <1>2

\* The inductive invariant holds of every reachable state.
LEMMA InvHolds == AccountsSpec => []Inv
BY InitInv, NextInv, PTL DEF AccountsSpec

-----------------------------------------------------------------------------
(* As long as no check for duplicates can miss a row *)

\* No account has the address in this column.
Free(au, email, form) ==
    \A id \in AuthID : au[id] # None => ~(au[id].email = email /\ au[id].form = form)

Distinct(au) ==
    \A a, b \in AuthID :
        au[a] # None /\ au[b] # None /\ au[a].email = au[b].email /\ au[a].form = au[b].form => a = b

\* What the request has read is still so: the address it is to write is free, the
\* row it is to write back has the address the account has.
Current(q, au, form) ==
    /\ q.op \in {"create", "createRow", "update"} => Free(au, q.email, form)
    /\ q.op = "verifySave" => /\ au[q.id] # None
                              /\ q.row.email = au[q.id].email /\ q.row.form = au[q.id].form
    /\ q.op \in {"changeTemp", "changeSave"} => Free(au, q.pending.email, q.pending.form)

Alone ==
    /\ \A q, r \in Request : req[q] # Idle /\ req[r] # Idle => q = r
    /\ Distinct(auths)
    /\ \A r \in Request : Current(req[r], auths, FormNow)

UniqueInv == ~unguarded => Alone

LEMMA IdleCurrent == \A au, form : Current(Idle, au, form)
BY DEF Current, Idle

LEMMA DistinctStep ==
    ASSUME NEW au \in [AuthID -> Auth \cup {None}], Distinct(au), NEW id \in AuthID, NEW row,
           \/ Free(au, row.email, row.form)
           \/ au[id] # None /\ row.email = au[id].email /\ row.form = au[id].form
    PROVE  Distinct([au EXCEPT ![id] = row])
BY DEF Distinct, Free

LEMMA HoldingFree ==
    ASSUME NEW email, NEW form, Holding(email, form) = {}
    PROVE  Free(auths, email, form)
BY DEF Holding, Registered, Free

LEMMA UniqueBegin ==
    ASSUME Inv, UniqueInv, NEW r \in Request, NEW q, NEW missed \in BOOLEAN, Begin(r, q, missed),
           UNCHANGED <<auths, cipher>>, ~missed => Current(q, auths, FormNow)
    PROVE  UniqueInv'
<1> SUFFICES ASSUME ~unguarded' PROVE Alone'
  BY DEF UniqueInv
<1>1. ~unguarded /\ ~missed /\ \A s \in Request : req[s] = Idle
  BY Zenon DEF Begin
<1>6. Current(q, auths, FormNow)
  BY <1>1
<1>2. req \in [Request -> InFlight] /\ req' = [req EXCEPT ![r] = q]
  BY DEF Begin, Inv, RequestsOK
<1>3. \A s \in Request : req'[s] = IF s = r THEN q ELSE Idle
  BY <1>1, <1>2
<1>4. Distinct(auths)
  BY <1>1 DEF UniqueInv, Alone
<1>5. FormNow' = FormNow
  BY DEF FormNow
<1> QED
  BY <1>3, <1>4, <1>5, <1>6, IdleCurrent DEF Alone

LEMMA UniqueContinue ==
    ASSUME Inv, UniqueInv, NEW r \in Request, NEW q, req[r] # Idle, Continue(r, q),
           UNCHANGED cipher,
           Alone => Distinct(auths') /\ Current(q, auths', FormNow)
    PROVE  UniqueInv'
<1> SUFFICES ASSUME ~unguarded' PROVE Alone'
  BY DEF UniqueInv
<1>1. ~unguarded
  BY Zenon DEF Continue
<1>2. Alone
  BY <1>1 DEF UniqueInv
<1>3. req \in [Request -> InFlight] /\ req' = [req EXCEPT ![r] = q]
  BY DEF Continue, Inv, RequestsOK
<1>4. \A s \in Request : req'[s] = IF s = r THEN q ELSE Idle
  BY <1>2, <1>3 DEF Alone
<1>5. FormNow' = FormNow
  BY DEF FormNow
<1> QED
  BY <1>2, <1>4, <1>5, IdleCurrent DEF Alone

LEMMA UniqueFinish ==
    ASSUME Inv, UniqueInv, NEW r \in Request, req[r] # Idle, Finish(r), UNCHANGED cipher,
           Alone => Distinct(auths')
    PROVE  UniqueInv'
BY UniqueContinue, IdleCurrent DEF Finish

LEMMA UniqueEnded ==
    ASSUME Inv, UniqueInv, NEW r \in Request, req[r].op # "idle", Finish(r),
           UNCHANGED <<auths, cipher>>
    PROVE  UniqueInv'
<1>1. req[r] # Idle
  BY DEF Idle
<1> QED
  BY <1>1, UniqueFinish DEF Alone

LEMMA UniqueFailures ==
    ASSUME Inv, UniqueInv,
           \/ \E r \in Request : RequestFails(r) \/ LookupMXFails(r)
           \/ Restart \/ \E code \in Code : CodeExpires(code)
           \/ \E id \in AuthID : Login(id)
    PROVE  UniqueInv'
<1>1. ASSUME NEW r \in Request, RequestFails(r) \/ LookupMXFails(r) PROVE UniqueInv'
  BY <1>1, UniqueEnded DEF RequestFails, LookupMXFails, settings
<1>2. CASE Restart
  <2>1. unguarded' = unguarded /\ auths' = auths /\ \A r \in Request : req'[r] = Idle
    BY <1>2 DEF Restart
  <2>2. Alone => Alone'
    BY <2>1, IdleCurrent DEF Alone
  <2> QED
    BY <2>1, <2>2, Zenon DEF UniqueInv
<1>3. ASSUME (\E code \in Code : CodeExpires(code)) \/ \E id \in AuthID : Login(id)
      PROVE  UniqueInv'
  <2>1. UNCHANGED <<auths, cipher, req, unguarded>>
    BY <1>3 DEF CodeExpires, Login, settings
  <2>2. Alone' <=> Alone
    BY <2>1 DEF Alone, FormNow
  <2> QED
    BY <2>1, <2>2, Zenon DEF UniqueInv
<1> QED
  BY <1>1, <1>2, <1>3

LEMMA UniqueReads ==
    ASSUME Inv, UniqueInv, NEW r \in Request,
           \/ \E email \in Email :
                \/ CreateVerificationEmail(r, email)
                \/ \E given \in AuthID \cup {0} : CreateUserAuth(r, email, given)
           \/ \E code \in Code : VerifyEmail(r, code) \/ VerifyUpdatedEmail(r, code)
           \/ \E id \in AuthID :
                \/ ResendVerificationCode(r, id)
                \/ \E email \in Email, failing \in BOOLEAN : UpdateEmail(r, id, email, failing)
    PROVE  UniqueInv'
<1>0. ASSUME NEW email, GetUserByEmail(email, FALSE) = {} PROVE Free(auths, email, FormNow)
  <2>1. Holding(email, FormNow) = {}
    BY <1>0 DEF GetUserByEmail, FormNow
  <2> QED
    BY <2>1, HoldingFree
<1>1. ASSUME NEW email \in Email, NEW given \in AuthID \cup {0}, CreateUserAuth(r, email, given)
      PROVE  UniqueInv'
  <2> DEFINE q == [op |-> "create", email |-> email]
             missed == GetUserByEmail(email, FALSE) # {}
  <2>2. ~missed => Current(q, auths, FormNow)
    BY <1>0 DEF Current
  <2>3. Begin(r, q, missed) /\ missed \in BOOLEAN /\ UNCHANGED <<auths, cipher>>
    BY <1>1 DEF CreateUserAuth, settings
  <2> HIDE DEF q, missed
  <2> QED
    BY <2>2, <2>3, UniqueBegin
<1>2. ASSUME NEW email \in Email, CreateVerificationEmail(r, email) PROVE UniqueInv'
  <2> DEFINE q == [op |-> "send", kind |-> "new", email |-> email]
  <2>1. Current(q, auths, FormNow)
    BY DEF Current
  <2>2. Begin(r, q, FALSE) /\ FALSE \in BOOLEAN /\ UNCHANGED <<auths, cipher>>
    BY <1>2 DEF CreateVerificationEmail, settings
  <2> HIDE DEF q
  <2> QED
    BY <2>1, <2>2, UniqueBegin
<1>3. ASSUME NEW code \in Code, VerifyEmail(r, code) \/ VerifyUpdatedEmail(r, code)
      PROVE  UniqueInv'
  <2>1. PICK op \in {"verify", "change"}, kind \in Kind : PresentCode(r, code, op, kind)
    BY <1>3 DEF VerifyEmail, VerifyUpdatedEmail, Kind
  <2> DEFINE q == [op |-> op, code |-> code, entry |-> redis[code]]
  <2>2. Current(q, auths, FormNow)
    BY DEF Current
  <2>3. Begin(r, q, FALSE) /\ FALSE \in BOOLEAN /\ UNCHANGED <<auths, cipher>>
    BY <2>1 DEF PresentCode, settings
  <2> HIDE DEF q
  <2> QED
    BY <2>2, <2>3, UniqueBegin
<1>4. ASSUME NEW id \in AuthID, ResendVerificationCode(r, id) PROVE UniqueInv'
  <2>1. PICK t \in PendingOf(id) : Begin(r, [op |-> "send", kind |-> "update", email |-> t.email], FALSE)
    BY <1>4 DEF ResendVerificationCode
  <2> DEFINE q == [op |-> "send", kind |-> "update", email |-> t.email]
  <2>2. Current(q, auths, FormNow)
    BY DEF Current
  <2>3. Begin(r, q, FALSE) /\ FALSE \in BOOLEAN /\ UNCHANGED <<auths, cipher>>
    BY <1>4, <2>1 DEF ResendVerificationCode, settings
  <2> HIDE DEF q
  <2> QED
    BY <2>2, <2>3, UniqueBegin
<1>5. ASSUME NEW id \in AuthID, NEW email \in Email, NEW failing \in BOOLEAN,
             UpdateEmail(r, id, email, failing)
      PROVE  UniqueInv'
  <2> DEFINE missed == GetUserByEmail(email, FALSE) # {}
  <2>1. PICK old \in IF PendingOf(id) = {} THEN {{}} ELSE {{t} : t \in PendingOf(id)} :
          Begin(r, [op |-> "update", id |-> id, row |-> auths[id], old |-> old, email |-> email],
                missed)
    BY <1>5 DEF UpdateEmail
  <2> DEFINE q == [op |-> "update", id |-> id, row |-> auths[id], old |-> old, email |-> email]
  <2>2. ~missed => Current(q, auths, FormNow)
    BY <1>0 DEF Current
  <2>3. Begin(r, q, missed) /\ missed \in BOOLEAN /\ UNCHANGED <<auths, cipher>>
    BY <1>5, <2>1 DEF UpdateEmail, settings
  <2> HIDE DEF q, missed
  <2> QED
    BY <2>2, <2>3, UniqueBegin
<1> QED
  BY <1>1, <1>2, <1>3, <1>4, <1>5

LEMMA UniqueMiddle ==
    ASSUME Inv, UniqueInv, NEW r \in Request,
           \/ \E code \in Code : \/ CreateUserAuthSend(r, code) \/ CodeSent(r, code)
                                 \/ UpdateEmailSend(r, code)
           \/ \E id \in AuthID : VerifyEmailRead(r, id)
           \/ \E t \in temp : VerifyUpdatedEmailRead(r, t)
           \/ \E deleted \in BOOLEAN : VerifyUpdatedEmailDelete(r, deleted)
           \/ VerifyEmailMissing(r) \/ VerifyUpdatedEmailGone(r) \/ UpdateEmailSave(r)
    PROVE  UniqueInv'
<1>0. req[r] \in InFlight
  BY DEF Inv, RequestsOK
<1>1. ASSUME NEW code \in Code, CreateUserAuthSend(r, code) PROVE UniqueInv'
  <2> DEFINE q == [op |-> "createRow", email |-> req[r].email,
                   verify |-> IF EmailRequired THEN "unverified" ELSE "notRequired"]
  <2>1. req[r] # Idle /\ Continue(r, q) /\ UNCHANGED <<auths, cipher>>
    BY <1>1 DEF CreateUserAuthSend, settings, Idle
  <2>2. Alone => Distinct(auths') /\ Current(q, auths', FormNow)
    BY <1>1, <2>1 DEF CreateUserAuthSend, Alone, Current
  <2> HIDE DEF q
  <2> QED
    BY <2>1, <2>2, UniqueContinue
<1>2. ASSUME NEW code \in Code, CodeSent(r, code) PROVE UniqueInv'
  BY <1>2, UniqueEnded DEF CodeSent, settings
<1>3. ASSUME NEW code \in Code, UpdateEmailSend(r, code) PROVE UniqueInv'
  <2> DEFINE q == [req[r] EXCEPT !.op = "updateSave"]
  <2>1. req[r] # Idle /\ Continue(r, q) /\ UNCHANGED <<auths, cipher>> /\ req[r].op = "update"
    BY <1>3 DEF UpdateEmailSend, settings, Idle
  <2>2. req[r] \in [op : {"update", "updateSave"}, id : AuthID, row : Auth,
                    old : SUBSET TempEmail, email : Email]
    BY <1>0, <2>1 DEF InFlight, Idle
  <2>3. q.op = "updateSave"
    BY <2>2
  <2>4. Alone => Distinct(auths') /\ Current(q, auths', FormNow)
    BY <2>1, <2>3 DEF Alone, Current
  <2> HIDE DEF q
  <2> QED
    BY <2>1, <2>4, UniqueContinue
<1>4. ASSUME NEW id \in AuthID, VerifyEmailRead(r, id) PROVE UniqueInv'
  <2> DEFINE q == [op |-> "verifySave", id |-> id, row |-> auths[id]]
  <2>1. req[r] # Idle /\ UNCHANGED <<auths, cipher>> /\ auths[id] # None
    BY <1>4 DEF VerifyEmailRead, settings, Idle, Holding, Registered
  <2>2. CASE Finish(r)
    BY <1>4, <2>2, UniqueEnded DEF VerifyEmailRead, settings
  <2>3. CASE Continue(r, q)
    <3>1. Alone => Distinct(auths') /\ Current(q, auths', FormNow)
      BY <2>1 DEF Alone, Current
    <3> HIDE DEF q
    <3> QED
      BY <2>1, <2>3, <3>1, UniqueContinue
  <2> QED
    BY <1>4, <2>2, <2>3 DEF VerifyEmailRead
<1>5. ASSUME NEW t \in temp, VerifyUpdatedEmailRead(r, t) PROVE UniqueInv'
  <2> DEFINE q == [op |-> "changeTemp", pending |-> t, row |-> auths[t.auth]]
  <2>1. req[r] # Idle /\ UNCHANGED <<auths, cipher>>
    BY <1>5 DEF VerifyUpdatedEmailRead, settings, Idle
  <2>2. CASE Finish(r)
    BY <1>5, <2>2, UniqueEnded DEF VerifyUpdatedEmailRead, settings
  <2>3. CASE Holding(t.email, t.form) = {} /\ Continue(r, q)
    <3>1. Alone => Distinct(auths') /\ Current(q, auths', FormNow)
      BY <2>1, <2>3, HoldingFree DEF Alone, Current
    <3> HIDE DEF q
    <3> QED
      BY <2>1, <2>3, <3>1, UniqueContinue
  <2> QED
    BY <1>5, <2>2, <2>3 DEF VerifyUpdatedEmailRead
<1>6. ASSUME NEW deleted \in BOOLEAN, VerifyUpdatedEmailDelete(r, deleted) PROVE UniqueInv'
  <2> DEFINE q == [req[r] EXCEPT !.op = "changeSave"]
  <2>1. req[r] # Idle /\ Continue(r, q) /\ UNCHANGED <<auths, cipher>> /\ req[r].op = "changeTemp"
    BY <1>6 DEF VerifyUpdatedEmailDelete, settings, Idle
  <2>2. req[r] \in [op : {"changeTemp", "changeSave"}, pending : TempEmail, row : Auth]
    BY <1>0, <2>1 DEF InFlight, Idle
  <2>3. q.op = "changeSave" /\ q.pending = req[r].pending
    BY <2>2
  <2>4. Alone => Distinct(auths') /\ Current(q, auths', FormNow)
    BY <2>1, <2>3 DEF Alone, Current
  <2> HIDE DEF q
  <2> QED
    BY <2>1, <2>4, UniqueContinue
<1>7. CASE VerifyEmailMissing(r) \/ VerifyUpdatedEmailGone(r) \/ UpdateEmailSave(r)
  BY <1>7, UniqueEnded DEF VerifyEmailMissing, VerifyUpdatedEmailGone, UpdateEmailSave, settings
<1> QED
  BY <1>1, <1>2, <1>3, <1>4, <1>5, <1>6, <1>7

LEMMA UniqueWrites ==
    ASSUME Inv, UniqueInv, NEW r \in Request,
           \/ CreateUserAuthSave(r) \/ VerifyEmailSave(r)
           \/ UpdateEmailAtOnce(r) \/ VerifyUpdatedEmailSave(r)
    PROVE  UniqueInv'
<1>0. /\ req[r] \in InFlight /\ auths \in [AuthID -> Auth \cup {None}]
      /\ Alone => Distinct(auths) /\ Current(req[r], auths, FormNow)
  BY DEF Inv, RequestsOK, AuthsOK, Alone
<1>1. ASSUME NEW id \in AuthID, NEW row, auths' = [auths EXCEPT ![id] = row],
             req[r] # Idle, Finish(r), UNCHANGED cipher,
             Alone => \/ Free(auths, row.email, row.form)
                      \/ auths[id] # None /\ row.email = auths[id].email /\ row.form = auths[id].form
      PROVE  UniqueInv'
  <2>1. Alone => Distinct(auths')
    BY <1>0, <1>1, DistinctStep
  <2> QED
    BY <1>1, <2>1, UniqueFinish
<1>2. CASE CreateUserAuthSave(r)
  <2> DEFINE id == Min(AuthID \ Registered)
             row == [email |-> req[r].email, form |-> FormNow, verify |-> req[r].verify]
  <2>1. id \in AuthID
    BY <1>2, MinIsMember, AccountsAssumption DEF CreateUserAuthSave, Registered
  <2>2. /\ req[r] # Idle /\ Finish(r) /\ UNCHANGED cipher
        /\ auths' = [auths EXCEPT ![id] = row]
    BY <1>2 DEF CreateUserAuthSave, settings, Idle
  <2>3. Alone => Free(auths, row.email, row.form)
    BY <1>0, <1>2 DEF CreateUserAuthSave, Current
  <2> HIDE DEF id, row
  <2> QED
    BY <1>1, <2>1, <2>2, <2>3
<1>3. CASE VerifyEmailSave(r)
  <2> DEFINE id == req[r].id
             row == [req[r].row EXCEPT !.verify = "verified"]
  <2>1. id \in AuthID /\ req[r].row \in Auth
    BY <1>0, <1>3, RequestFields DEF VerifyEmailSave
  <2>2. row.email = req[r].row.email /\ row.form = req[r].row.form
    BY <2>1 DEF Auth
  <2>3. /\ req[r] # Idle /\ Finish(r) /\ UNCHANGED cipher
        /\ auths' = [auths EXCEPT ![id] = row]
    BY <1>3 DEF VerifyEmailSave, settings, Idle
  <2>4. Alone => auths[id] # None /\ row.email = auths[id].email /\ row.form = auths[id].form
    BY <1>0, <1>3, <2>2 DEF VerifyEmailSave, Current
  <2> HIDE DEF id, row
  <2> QED
    BY <1>1, <2>1, <2>3, <2>4
<1>4. CASE UpdateEmailAtOnce(r)
  <2> DEFINE id == req[r].id
             row == [email |-> req[r].email, form |-> FormNow, verify |-> req[r].row.verify]
  <2>1. id \in AuthID
    BY <1>0, <1>4, RequestFields DEF UpdateEmailAtOnce
  <2>2. /\ req[r] # Idle /\ Finish(r) /\ UNCHANGED cipher
        /\ auths' = [auths EXCEPT ![id] = row]
    BY <1>4 DEF UpdateEmailAtOnce, settings, Idle
  <2>3. Alone => Free(auths, row.email, row.form)
    BY <1>0, <1>4 DEF UpdateEmailAtOnce, Current
  <2> HIDE DEF id, row
  <2> QED
    BY <1>1, <2>1, <2>2, <2>3
<1>5. CASE VerifyUpdatedEmailSave(r)
  <2> DEFINE t == req[r].pending
             row == [email |-> t.email, form |-> t.form, verify |-> req[r].row.verify]
  <2>1. t.auth \in AuthID
    BY <1>0, <1>5, RequestFields DEF VerifyUpdatedEmailSave, TempEmail
  <2>2. /\ req[r] # Idle /\ Finish(r) /\ UNCHANGED cipher
        /\ auths' = [auths EXCEPT ![t.auth] = row]
    BY <1>5 DEF VerifyUpdatedEmailSave, settings, Idle
  <2>3. Alone => Free(auths, row.email, row.form)
    BY <1>0, <1>5 DEF VerifyUpdatedEmailSave, Current
  <2> HIDE DEF t, row
  <2> QED
    BY <1>1, <2>1, <2>2, <2>3
<1> QED
  BY <1>2, <1>3, <1>4, <1>5

LEMMA InitUnique == AccountsInit => UniqueInv
BY IdleCurrent DEF AccountsInit, UniqueInv, Alone, Distinct

LEMMA NextUnique == Inv /\ UniqueInv /\ [AccountsNext]_accountsVars => UniqueInv'
<1> SUFFICES ASSUME Inv, UniqueInv, [AccountsNext]_accountsVars PROVE UniqueInv'
  OBVIOUS
<1>1. CASE UNCHANGED accountsVars
  <2>1. UNCHANGED <<auths, cipher, req, unguarded>>
    BY <1>1 DEF accountsVars, settings
  <2>2. Alone' <=> Alone
    BY <2>1 DEF Alone, FormNow
  <2> QED
    BY <2>1, <2>2, Zenon DEF UniqueInv
<1>2. CASE AccountsNext
  BY <1>2, UniqueFailures, UniqueReads, UniqueMiddle, UniqueWrites DEF AccountsNext
<1> QED
  BY <1>1, <1>2

-----------------------------------------------------------------------------
(* The results *)

\* The state has its types: every row, code and pending change is whole, and every
\* request carries what its handler has read by then.
THEOREM AccountsTypeCorrect == AccountsSpec => []AccountsTypeOK
<1>1. Inv => AccountsTypeOK
  BY DEF Inv, DataOK, AuthsOK, TempOK, RedisOK, RequestsOK, Registered, AccountsTypeOK
<1> QED
  BY <1>1, InvHolds, PTL

\* However requests overlap, fail and are cut off by restarts that change the
\* settings, an account counts as verified only with an address of which a mailed
\* code was presented, or which UpdateEmail saved at once while no codes were sent.
THEOREM VerifiedOnlyConfirmed == AccountsSpec => []VerifiedWasConfirmed
<1>1. Inv => VerifiedWasConfirmed
  BY DEF Inv, AuthsOK, VerifiedWasConfirmed
<1> QED
  BY <1>1, InvHolds, PTL

\* However requests overlap, an account's address is one its own user asked for.
THEOREM AddressIsOwn == AccountsSpec => []OwnAddress
<1>1. Inv => OwnAddress
  BY DEF Inv, AuthsOK, OwnAddress
<1> QED
  BY <1>1, InvHolds, PTL

\* As long as requests do not overlap and no lookup misses a row, no address is in the
\* same column twice, whatever fails and whatever settings a restart changes.
THEOREM UniqueWhenGuarded == AccountsSpec => []UniquePerColumn
<1>1. UniqueInv => UniquePerColumn
  BY DEF UniqueInv, Alone, Distinct, UniquePerColumn, Registered
<1>2. AccountsSpec => []UniqueInv
  BY InitUnique, NextUnique, InvHolds, PTL DEF AccountsSpec
<1> QED
  BY <1>1, <1>2, PTL

=============================================================================
