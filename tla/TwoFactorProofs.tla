--------------------------- MODULE TwoFactorProofs ---------------------------
(***************************************************************************)
(* Type correctness of TwoFactor for any number of overlapping requests,   *)
(* failures and restarts; and, where requests do not overlap, that the     *)
(* account has one secret, which its recovery key opens, and implements    *)
(* SecondFactor.                                                           *)
(***************************************************************************)
EXTENDS TwoFactor, TLAPS

\* In a row that is switched on, the backup key opens with the recovery key that
\* its UUID proves.
IntactRow(w) == w # None /\ w.status = "on" => Opens(w.backup, w.uuid)

\* A request carries an intact row, and a secret where it is about to seal one.
RequestOK(q) ==
    /\ q \in InFlight
    /\ q.op \in {"activate", "validate", "deactivate", "update2FA", "recover2FA"} => IntactRow(q.row)
    /\ q.op \in {"validate", "recover2FA"} => q.row # None /\ q.row.status = "on"
    /\ q.op \in {"activate", "validate"} => q.data.secret # None

RequestsOK == req \in [Request -> InFlight] /\ \A r \in Request : RequestOK(req[r])

DataOK ==
    /\ password \in {HashPass(p) : p \in Password}
    /\ mem \in Secret2FA \cup {None}
    /\ codes \in SUBSET Code
    /\ resets \in 0 .. MaxResets
    /\ disclosed \in Key \cup {None}
    /\ untold \in BOOLEAN
    /\ faults \in 0 .. MaxFaults

TokensOK == tokens \in SUBSET Claim /\ blacklist \in SUBSET tokens

RowOK == row \in TwoFA \cup {None} /\ IntactRow(row)

\* The inductive invariant.
Inv == DataOK /\ TokensOK /\ RowOK /\ RequestsOK

-----------------------------------------------------------------------------
(* Requests *)

\* A request's fields have the types its operation gives them.
LEMMA RequestFields ==
    ASSUME NEW q \in InFlight
    PROVE  /\ q.op = "login" => q.pass \in Password /\ q.claim \in Claim
           /\ q.op = "refresh" => q.claim \in Claim
           /\ q.op = "setup" => q.pass \in Password
           /\ q.op \in {"activate", "validate"} =>
                q.data \in Secret2FA /\ q.row \in TwoFA \cup {None} /\ q.ok \in BOOLEAN
           /\ q.op = "deactivate" => q.row \in TwoFA \cup {None}
           /\ q.op = "deactivateCodes" => q.claim \in Claim
           /\ q.op = "backupUse" => q.code \in Code
           /\ q.op \in {"update2FA", "recover2FA"} => q.row \in TwoFA /\ q.new \in Password
           /\ q.op \in {"updatePass", "recoverPass"} => q.new \in Password
           /\ q.op \in {"recoverPass", "activated", "recovered"} =>
                q.key \in Key \cup {None} /\ q.saved \in BOOLEAN
BY SMTT(60) DEF InFlight, Idle

\* Only the request that takes a step changes.
LEMMA RequestStep ==
    ASSUME RequestsOK, NEW r \in Request, NEW q, RequestOK(q), req' = [req EXCEPT ![r] = q]
    PROVE  RequestsOK'
<1>1. q \in InFlight
  BY DEF RequestOK
<1>2. req' \in [Request -> InFlight]
  BY <1>1 DEF RequestsOK
<1>3. ASSUME NEW s \in Request PROVE RequestOK(req'[s])
  <2>1. req'[s] = IF s = r THEN q ELSE req[s]
    BY DEF RequestsOK
  <2> QED
    BY <2>1 DEF RequestsOK
<1> QED
  BY <1>2, <1>3 DEF RequestsOK

LEMMA IdleOK == RequestOK(Idle)
BY DEF RequestOK, InFlight, Idle

\* The two copies of a secret make an intact row.
LEMMA SealedRow ==
    ASSUME NEW s \in Secret, NEW h \in HashKey, NEW k \in Key
    PROVE  LET w == [status |-> "on", main |-> Encrypt(s, h),
                     backup |-> Encrypt(s, GetHash(k)), uuid |-> GetHash(k)]
           IN  w \in TwoFA /\ IntactRow(w)
<1>1. GetHash(k) \in HashKey
  BY DEF HashKey
<1>2. Encrypt(s, h) \in Cipher /\ Encrypt(s, GetHash(k)) \in Cipher
  BY <1>1 DEF Cipher, Encrypt
<1>3. Opens(Encrypt(s, GetHash(k)), GetHash(k))
  BY <1>2, NoneAssumption DEF Opens, Encrypt
<1> QED
  BY <1>1, <1>2, <1>3, NoneAssumption DEF TwoFA, IntactRow

\* A main key saved in an intact row, or an empty one, leaves it intact.
LEMMA ResealedRow ==
    ASSUME NEW w \in TwoFA, IntactRow(w), w # None, w.status = "on", NEW main \in Cipher \cup {None}
    PROVE  LET v == [w EXCEPT !.main = main]
           IN  v \in TwoFA /\ IntactRow(v) /\ v.status = "on"
<1> DEFINE v == [w EXCEPT !.main = main]
<1>1. v \in TwoFA
  BY DEF TwoFA
<1>2. v.status = "on" /\ v.backup = w.backup /\ v.uuid = w.uuid
  BY DEF TwoFA
<1> QED
  BY <1>1, <1>2, NoneAssumption DEF IntactRow

LEMMA Sealed ==
    ASSUME NEW s \in Secret, NEW h \in HashKey
    PROVE  Encrypt(s, h) \in Cipher /\ Encrypt(s, h) # None /\ Encrypt(s, h).text = s
BY NoneAssumption DEF Cipher, Encrypt

-----------------------------------------------------------------------------
(* What steps have in common *)

\* A handler that has only read is on its way.
LEMMA BeginStep ==
    ASSUME Inv, NEW r \in Request, NEW q, RequestOK(q), Begin(r, q),
           UNCHANGED <<accountVars, mem, live, told, faults>>
    PROVE  Inv'
<1>1. RequestsOK'
  BY RequestStep DEF Inv, Begin
<1>2. DataOK'
  BY DEF Inv, DataOK, accountVars, told
<1>3. TokensOK' /\ RowOK'
  BY DEF Inv, TokensOK, RowOK, accountVars, live, IntactRow, Opens
<1> QED
  BY <1>1, <1>2, <1>3 DEF Inv

\* A handler has ended.
LEMMA FinishStep ==
    ASSUME RequestsOK, NEW r \in Request, Finish(r)
    PROVE  RequestsOK'
BY RequestStep, IdleOK DEF Finish

LEMMA NewTokens ==
    ASSUME TokensOK, NEW c \in Claim, NEW f, GetJWT(c, f)
    PROVE  TokensOK'
BY DEF TokensOK, GetJWT, live

\* A step that meets failures counts them.
LEMMA FaultsCounted ==
    ASSUME faults \in 0 .. MaxFaults, NEW f, NEW possible, Meets(f, possible)
    PROVE  faults' \in 0 .. MaxFaults
BY TwoFactorAssumption DEF Meets

LEMMA SameTokens == ASSUME TokensOK, UNCHANGED live PROVE TokensOK'
BY DEF TokensOK, live

LEMMA SameRow == ASSUME RowOK, UNCHANGED row PROVE RowOK'
BY DEF RowOK, IntactRow, Opens

LEMMA SameRequests == ASSUME RequestsOK, UNCHANGED req PROVE RequestsOK'
BY DEF RequestsOK

LEMMA StatusClaim == ASSUME NEW w \in TwoFA \cup {None} PROVE StatusOf(w) \in Claim
BY DEF StatusOf, TwoFA, Claim

\* The row of an account with the factor on has its keys.
LEMMA RowOn ==
    ASSUME RowOK, StatusOn
    PROVE  row \in TwoFA /\ row # None /\ row.status = "on" /\ row.backup \in Cipher
BY DEF RowOK, StatusOn, IntactRow, Opens, TwoFA

-----------------------------------------------------------------------------
(* Failures, restarts and the environment *)

LEMMA WriteFailsStep == ASSUME Inv, NEW r \in Request, WriteFails(r) PROVE Inv'
<1>1. RequestsOK'
  BY FinishStep DEF Inv, WriteFails
<1>2. faults' \in 0 .. MaxFaults
  BY TwoFactorAssumption DEF Inv, DataOK, WriteFails
<1>3. DataOK'
  BY <1>2 DEF Inv, DataOK, WriteFails, accountVars, told
<1> QED
  BY <1>1, <1>3, SameRow, SameTokens DEF Inv, WriteFails, accountVars

LEMMA RestartStep == ASSUME Inv, Restart PROVE Inv'
<1>1. RequestsOK'
  <2>1. Idle \in InFlight
    BY IdleOK DEF RequestOK
  <2> QED
    BY <2>1, IdleOK DEF RequestsOK, Restart
<1>2. faults' \in 0 .. MaxFaults
  BY TwoFactorAssumption DEF Inv, DataOK, Restart
<1>3. DataOK'
  BY <1>2 DEF Inv, DataOK, Restart, accountVars, told
<1> QED
  BY <1>1, <1>3, SameRow, SameTokens DEF Inv, Restart, accountVars

LEMMA EnvironmentStep ==
    ASSUME Inv, \/ \E c \in Claim : Logout(c) \/ TokensExpire(c)
                \/ PasswordForgot \/ ResetExpires
    PROVE  Inv'
<1>1. ASSUME NEW c \in Claim, Logout(c) \/ TokensExpire(c) PROVE Inv'
  <2>1. TokensOK'
    BY <1>1 DEF Inv, TokensOK, Logout, TokensExpire, LogoutRoute, TokenAllowed, JWT
  <2>2. DataOK'
    BY <1>1 DEF Inv, DataOK, Logout, TokensExpire, accountVars, told
  <2> QED
    BY <1>1, <2>1, <2>2, SameRow, SameRequests DEF Inv, Logout, TokensExpire, accountVars
<1>2. ASSUME PasswordForgot \/ ResetExpires PROVE Inv'
  <2>1. resets' \in 0 .. MaxResets
    BY <1>2, TwoFactorAssumption DEF Inv, DataOK, PasswordForgot, ResetExpires
  <2>2. DataOK'
    BY <1>2, <2>1 DEF Inv, DataOK, PasswordForgot, ResetExpires, told
  <2> QED
    BY <1>2, <2>2, SameRow, SameRequests, SameTokens DEF Inv, PasswordForgot, ResetExpires
<1> QED
  BY <1>1, <1>2

-----------------------------------------------------------------------------
(* Sessions *)

LEMMA SessionStep ==
    ASSUME Inv, NEW r \in Request,
           \/ \E p \in Password : Login(r, p)
           \/ \E c \in Claim : Refresh(r, c)
           \/ \E f \in SUBSET Fault : LoginIssue(r, f) \/ RefreshIssue(r, f)
    PROVE  Inv'
<1>1. ASSUME NEW p \in Password, Login(r, p) PROVE Inv'
  <2> DEFINE c == IF Enabled({"2fa"}) THEN StatusOf(row) ELSE ""
             q == [op |-> "login", pass |-> p, claim |-> c]
  <2>1. c \in Claim
    BY StatusClaim DEF Inv, RowOK, Claim
  <2>2. RequestOK(q)
    BY <2>1 DEF RequestOK, InFlight
  <2> QED
    BY <1>1, <2>2, BeginStep DEF Login
<1>2. ASSUME NEW c \in Claim, Refresh(r, c) PROVE Inv'
  <2>1. RequestOK([op |-> "refresh", claim |-> c])
    BY DEF RequestOK, InFlight
  <2> QED
    BY <1>2, <2>1, BeginStep DEF Refresh
<1>3. ASSUME NEW f \in SUBSET Fault, LoginIssue(r, f) PROVE Inv'
  <2>1. req[r].pass \in Password /\ req[r].claim \in Claim
    BY <1>3, RequestFields DEF Inv, RequestsOK, LoginIssue
  <2>2. mem' \in Secret2FA \cup {None}
    BY <1>3, <2>1 DEF Inv, DataOK, LoginIssue, Secret2FA, HashKey
  <2>3. faults' \in 0 .. MaxFaults
    BY <1>3, FaultsCounted DEF Inv, DataOK, LoginIssue
  <2>4. DataOK'
    BY <1>3, <2>2, <2>3 DEF Inv, DataOK, LoginIssue, accountVars, told
  <2> QED
    BY <1>3, <2>1, <2>4, NewTokens, SameRow, FinishStep DEF Inv, LoginIssue, accountVars
<1>4. ASSUME NEW f \in SUBSET Fault, RefreshIssue(r, f) PROVE Inv'
  <2>1. req[r].claim \in Claim
    BY <1>4, RequestFields DEF Inv, RequestsOK, RefreshIssue
  <2>2. faults' \in 0 .. MaxFaults
    BY <1>4, FaultsCounted DEF Inv, DataOK, RefreshIssue
  <2>3. DataOK'
    BY <1>4, <2>2 DEF Inv, DataOK, RefreshIssue, accountVars, told
  <2> QED
    BY <1>4, <2>1, <2>3, NewTokens, SameRow, FinishStep DEF Inv, RefreshIssue, accountVars
<1> QED
  BY <1>1, <1>2, <1>3, <1>4

-----------------------------------------------------------------------------
(* Switching the second factor on and off *)

LEMMA SetupStep ==
    ASSUME Inv, NEW r \in Request,
           \/ \E c \in Claim, p \in Password : Setup2FA(r, c, p)
           \/ \E s \in Secret : Setup2FASave(r, s)
    PROVE  Inv'
<1>1. ASSUME NEW c \in Claim, NEW p \in Password, Setup2FA(r, c, p) PROVE Inv'
  <2>1. RequestOK([op |-> "setup", pass |-> p])
    BY DEF RequestOK, InFlight
  <2> QED
    BY <1>1, <2>1, BeginStep DEF Setup2FA
<1>2. ASSUME NEW s \in Secret, Setup2FASave(r, s) PROVE Inv'
  <2>1. req[r].pass \in Password
    BY <1>2, RequestFields DEF Inv, RequestsOK, Setup2FASave
  <2>2. mem' \in Secret2FA
    BY <1>2, <2>1 DEF Setup2FASave, Secret2FA, HashKey
  <2>3. DataOK'
    BY <1>2, <2>2 DEF Inv, DataOK, Setup2FASave, accountVars, told
  <2> QED
    BY <1>2, <2>3, SameTokens, SameRow, FinishStep DEF Inv, Setup2FASave, accountVars
<1> QED
  BY <1>1, <1>2

LEMMA ActivateStep ==
    ASSUME Inv, NEW r \in Request,
           \/ \E c \in Claim, otp \in Secret : Activate2FA(r, c, otp)
           \/ \E f \in SUBSET Fault, k \in Key : Activate2FASave(r, k, f)
           \/ \E f \in SUBSET Fault : Activate2FATell(r, f)
           \/ Activate2FAWrong(r)
    PROVE  Inv'
<1>1. ASSUME NEW c \in Claim, NEW otp \in Secret, Activate2FA(r, c, otp) PROVE Inv'
  <2>1. CASE otp = mem.secret /\ StatusOn
    <3>1. DataOK'
      BY <1>1, <2>1 DEF Inv, DataOK, Activate2FA, accountVars, told
    <3> QED
      BY <1>1, <2>1, <3>1, SameTokens, SameRow, SameRequests DEF Inv, Activate2FA, accountVars
  <2>2. CASE ~(otp = mem.secret /\ StatusOn)
    <3> DEFINE q == [op |-> "activate", data |-> mem, row |-> row, ok |-> otp = mem.secret]
    <3>1. mem \in Secret2FA /\ mem.secret # None
      BY <1>1 DEF Inv, DataOK, Activate2FA
    <3>2. (otp = mem.secret) \in BOOLEAN
      OBVIOUS
    <3>3. q \in InFlight
      BY <3>1, <3>2 DEF Inv, RowOK, InFlight
    <3>4. RequestOK(q)
      BY <3>1, <3>3 DEF Inv, RowOK, RequestOK
    <3> QED
      BY <1>1, <2>2, <3>4, BeginStep DEF Activate2FA
  <2> QED
    BY <2>1, <2>2
<1>2. ASSUME NEW f \in SUBSET Fault, NEW k \in Key, Activate2FASave(r, k, f) PROVE Inv'
  <2> DEFINE data == req[r].data
             new == [status |-> "on", main |-> Encrypt(data.secret, data.pass),
                     backup |-> Encrypt(data.secret, GetHash(k)), uuid |-> GetHash(k)]
             q == [op |-> "activated", key |-> k, saved |-> f = {}]
  <2>1. data \in Secret2FA /\ data.secret # None
    BY <1>2, RequestFields DEF Inv, RequestsOK, RequestOK, Activate2FASave
  <2>2. data.secret \in Secret /\ data.pass \in HashKey
    BY <2>1 DEF Secret2FA
  <2>3. new \in TwoFA /\ IntactRow(new)
    BY <2>2, SealedRow
  <2>4. row' \in {row, new}
    BY <1>2 DEF Activate2FASave, Committed
  <2> HIDE DEF new
  <2>5. RowOK'
    BY <2>3, <2>4, SameRow DEF Inv, RowOK
  <2>6. faults' \in 0 .. MaxFaults
    BY <1>2, FaultsCounted DEF Inv, DataOK, Activate2FASave
  <2>7. DataOK'
    BY <1>2, <2>6 DEF Inv, DataOK, Activate2FASave
  <2>8. (f = {}) \in BOOLEAN
    OBVIOUS
  <2>9. q \in InFlight
    BY <2>8 DEF InFlight
  <2>10. RequestOK(q)
    BY <2>9 DEF RequestOK
  <2>11. req' = [req EXCEPT ![r] = q]
    BY <1>2 DEF Activate2FASave, Continue
  <2> HIDE DEF q
  <2>12. RequestsOK'
    BY <2>10, <2>11, RequestStep DEF Inv
  <2> QED
    BY <1>2, <2>5, <2>7, <2>12, SameTokens DEF Inv, Activate2FASave
<1>4. ASSUME NEW f \in SUBSET Fault, Activate2FATell(r, f) PROVE Inv'
  <2>1. req[r].key \in Key \cup {None} /\ req[r].saved \in BOOLEAN
    BY <1>4, RequestFields DEF Inv, RequestsOK, Activate2FATell
  <2>2. faults' \in 0 .. MaxFaults
    BY <1>4, FaultsCounted DEF Inv, DataOK, Activate2FATell
  <2>3. disclosed' \in Key \cup {None}
    BY <1>4, <2>1 DEF Inv, DataOK, Activate2FATell, told
  <2>4. untold' \in BOOLEAN
    BY <1>4, Zenon DEF Inv, DataOK, Activate2FATell, told
  <2>5. DataOK'
    BY <1>4, <2>2, <2>3, <2>4 DEF Inv, DataOK, Activate2FATell, accountVars
  <2>6. "verified" \in Claim
    BY DEF Claim
  <2> QED
    BY <1>4, <2>5, <2>6, NewTokens, SameRow, FinishStep DEF Inv, Activate2FATell, accountVars
<1>3. ASSUME Activate2FAWrong(r) PROVE Inv'
  <2>1. req[r].data \in Secret2FA
    BY <1>3, RequestFields DEF Inv, RequestsOK, Activate2FAWrong
  <2>2. DataOK'
    BY <1>3, <2>1 DEF Inv, DataOK, Activate2FAWrong, accountVars, told
  <2> QED
    BY <1>3, <2>2, SameTokens, SameRow, FinishStep DEF Inv, Activate2FAWrong, accountVars
<1> QED
  BY <1>1, <1>2, <1>3, <1>4

LEMMA DeactivateStep ==
    ASSUME Inv, NEW r \in Request,
           \/ \E c \in Claim, p \in Password : Deactivate2FA(r, c, p)
           \/ \E f \in SUBSET Fault : Deactivate2FASave(r, f) \/ Deactivate2FACodes(r, f)
    PROVE  Inv'
<1>1. ASSUME NEW c \in Claim, NEW p \in Password, Deactivate2FA(r, c, p) PROVE Inv'
  <2>1. RequestOK([op |-> "deactivate", row |-> row])
    BY DEF Inv, RowOK, RequestOK, InFlight
  <2> QED
    BY <1>1, <2>1, BeginStep DEF Deactivate2FA
<1>2. ASSUME NEW f \in SUBSET Fault, Deactivate2FASave(r, f) PROVE Inv'
  <2> DEFINE c == IF req[r].row = None THEN "" ELSE "off"
             off == [status |-> "off", main |-> None, backup |-> None, uuid |-> None]
  <2>1. RequestOK([op |-> "deactivateCodes", claim |-> c])
    BY DEF RequestOK, InFlight, Claim
  <2>2. RequestsOK'
    BY <1>2, <2>1, RequestStep DEF Inv, Deactivate2FASave, Continue
  <2>3. off \in TwoFA /\ IntactRow(off)
    BY DEF TwoFA, IntactRow
  <2>4. RowOK'
    <3>1. row' = off \/ row' = row
      BY <1>2 DEF Deactivate2FASave, Committed
    <3>2. CASE row' = off
      BY <2>3, <3>2 DEF RowOK
    <3> QED
      BY <3>1, <3>2, SameRow DEF Inv
  <2>5. faults' \in 0 .. MaxFaults
    BY <1>2, FaultsCounted DEF Inv, DataOK, Deactivate2FASave
  <2>6. DataOK'
    BY <1>2, <2>5 DEF Inv, DataOK, Deactivate2FASave, told
  <2> QED
    BY <1>2, <2>2, <2>4, <2>6, SameTokens DEF Inv, Deactivate2FASave
<1>3. ASSUME NEW f \in SUBSET Fault, Deactivate2FACodes(r, f) PROVE Inv'
  <2>1. req[r].claim \in Claim
    BY <1>3, RequestFields DEF Inv, RequestsOK, Deactivate2FACodes
  <2>2. codes' \in SUBSET Code /\ faults' \in 0 .. MaxFaults
    BY <1>3, FaultsCounted DEF Inv, DataOK, Deactivate2FACodes, Committed
  <2>3. DataOK'
    BY <1>3, <2>2 DEF Inv, DataOK, Deactivate2FACodes, told
  <2> QED
    BY <1>3, <2>1, <2>3, NewTokens, SameRow, FinishStep DEF Inv, Deactivate2FACodes
<1> QED
  BY <1>1, <1>2, <1>3

-----------------------------------------------------------------------------
(* Passing the second factor *)

LEMMA ValidateStep ==
    ASSUME Inv, NEW r \in Request,
           \/ \E c \in Claim, otp \in Secret : Validate2FA(r, c, otp)
           \/ \E f \in SUBSET Fault : Validate2FASave(r, f)
    PROVE  Inv'
<1>1. ASSUME NEW c \in Claim, NEW otp \in Secret, Validate2FA(r, c, otp) PROVE Inv'
  <2> DEFINE d == [mem EXCEPT !.secret = SecretFor(mem)]
             ok == otp = SecretFor(mem)
             q == [op |-> "validate", data |-> d, row |-> row, ok |-> ok]
  <2>1. mem \in Secret2FA
    BY <1>1 DEF Inv, DataOK, Validate2FA
  <2>2. row \in TwoFA /\ row # None /\ row.status = "on"
    BY <1>1, RowOn DEF Inv, Validate2FA
  <2>3. SecretFor(mem) \in Secret
    <3>1. mem.secret = None => row.main \in Cipher
      BY <1>1, <2>2 DEF Validate2FA, Opens, TwoFA
    <3> QED
      BY <2>1, <3>1 DEF SecretFor, Secret2FA, Cipher
  <2>4. d \in Secret2FA /\ d.secret = SecretFor(mem)
    BY <2>1, <2>3 DEF Secret2FA
  <2>5. d.secret # None
    BY <2>3, <2>4, TwoFactorAssumption
  <2>6. ok \in BOOLEAN
    OBVIOUS
  <2> HIDE DEF d, ok
  <2>7. q \in InFlight
    BY <2>2, <2>4, <2>6 DEF InFlight
  <2>8. RequestOK(q)
    BY <2>2, <2>5, <2>7 DEF Inv, RowOK, RequestOK
  <2> QED
    BY <1>1, <2>8, BeginStep DEF Validate2FA, d, ok
<1>2. ASSUME NEW f \in SUBSET Fault, Validate2FASave(r, f) PROVE Inv'
  <2> DEFINE data == req[r].data
             main == IF "encrypt" \in f THEN None ELSE Encrypt(data.secret, data.pass)
             new == [req[r].row EXCEPT !.main = main]
  <2>1. req[r] \in InFlight /\ RequestOK(req[r]) /\ req[r].op = "validate"
    BY <1>2 DEF Inv, RequestsOK, Validate2FASave
  <2>2. /\ data \in Secret2FA /\ data.secret # None
        /\ req[r].row \in TwoFA /\ req[r].row # None /\ req[r].row.status = "on"
        /\ IntactRow(req[r].row)
    BY <2>1, RequestFields DEF RequestOK
  <2>3. main \in Cipher \cup {None}
    BY <2>2, Sealed DEF Secret2FA
  <2>4. row' \in {row, new}
    BY <1>2 DEF Validate2FASave, Committed
  <2> HIDE DEF main
  <2>5. new \in TwoFA /\ IntactRow(new)
    BY <2>2, <2>3, ResealedRow
  <2> HIDE DEF new
  <2>6. RowOK'
    BY <2>4, <2>5, SameRow DEF Inv, RowOK
  <2>7. mem' \in Secret2FA \cup {None}
    BY <1>2, <2>2 DEF Validate2FASave
  <2>8. faults' \in 0 .. MaxFaults
    <3>1. PICK possible : Meets(f, possible)
      BY <1>2 DEF Validate2FASave
    <3> QED
      BY <3>1, FaultsCounted DEF Inv, DataOK
  <2>9. DataOK'
    BY <1>2, <2>7, <2>8 DEF Inv, DataOK, Validate2FASave, told
  <2>10. TokensOK'
    <3>1. "verified" \in Claim
      BY DEF Claim
    <3>2. CASE req[r].ok
      BY <1>2, <3>1, <3>2, NewTokens DEF Inv, Validate2FASave
    <3>3. CASE ~req[r].ok
      BY <1>2, <3>3, SameTokens DEF Inv, Validate2FASave
    <3> QED
      BY <3>2, <3>3
  <2> QED
    BY <1>2, <2>6, <2>9, <2>10, FinishStep DEF Inv, Validate2FASave
<1> QED
  BY <1>1, <1>2

LEMMA BackupStep ==
    ASSUME Inv, NEW r \in Request,
           \/ \E c \in Claim, p \in Password : CreateBackup2FA(r, c, p)
           \/ \E f \in SUBSET Fault : CreateBackup2FADelete(r, f) \/ ValidateBackup2FADelete(r, f)
           \/ \E f \in SUBSET Fault, batch \in SUBSET Code : CreateBackup2FASave(r, batch, f)
           \/ \E c \in Claim, code \in Code : ValidateBackup2FA(r, c, code)
    PROVE  Inv'
<1>0. RequestOK([op |-> "backupCreate"])
  BY DEF RequestOK, InFlight
<1>1. ASSUME NEW c \in Claim, NEW p \in Password, CreateBackup2FA(r, c, p) PROVE Inv'
  <2>1. RequestOK([op |-> "backupDelete", old |-> codes])
    BY DEF Inv, DataOK, RequestOK, InFlight
  <2> QED
    BY <1>0, <1>1, <2>1, BeginStep DEF CreateBackup2FA
<1>2. ASSUME NEW f \in SUBSET Fault, CreateBackup2FADelete(r, f) PROVE Inv'
  <2>1. RequestsOK'
    BY <1>0, <1>2, RequestStep DEF Inv, CreateBackup2FADelete, Continue
  <2>2. codes' \in SUBSET Code /\ faults' \in 0 .. MaxFaults
    BY <1>2, FaultsCounted DEF Inv, DataOK, CreateBackup2FADelete, Committed
  <2>3. DataOK'
    BY <1>2, <2>2 DEF Inv, DataOK, CreateBackup2FADelete, told
  <2> QED
    BY <1>2, <2>1, <2>3, SameTokens, SameRow DEF Inv, CreateBackup2FADelete
<1>3. ASSUME NEW f \in SUBSET Fault, NEW batch \in SUBSET Code, CreateBackup2FASave(r, batch, f) PROVE Inv'
  <2>1. codes' \in SUBSET Code /\ faults' \in 0 .. MaxFaults
    BY <1>3, FaultsCounted DEF Inv, DataOK, CreateBackup2FASave, Committed
  <2>2. DataOK'
    BY <1>3, <2>1 DEF Inv, DataOK, CreateBackup2FASave, told
  <2> QED
    BY <1>3, <2>2, SameTokens, SameRow, FinishStep DEF Inv, CreateBackup2FASave
<1>4. ASSUME NEW c \in Claim, NEW code \in Code, ValidateBackup2FA(r, c, code) PROVE Inv'
  <2>1. RequestOK([op |-> "backupUse", code |-> code])
    BY DEF RequestOK, InFlight
  <2> QED
    BY <1>4, <2>1, BeginStep DEF ValidateBackup2FA
<1>5. ASSUME NEW f \in SUBSET Fault, ValidateBackup2FADelete(r, f) PROVE Inv'
  <2>1. req[r].code \in Code
    BY <1>5, RequestFields DEF Inv, RequestsOK, ValidateBackup2FADelete
  <2>2. codes' \in SUBSET Code /\ faults' \in 0 .. MaxFaults
    BY <1>5, <2>1, FaultsCounted DEF Inv, DataOK, ValidateBackup2FADelete, Committed
  <2>3. DataOK'
    BY <1>5, <2>2 DEF Inv, DataOK, ValidateBackup2FADelete, told
  <2>4. "verified" \in Claim
    BY DEF Claim
  <2> QED
    BY <1>5, <2>3, <2>4, NewTokens, SameRow, FinishStep DEF Inv, ValidateBackup2FADelete
<1> QED
  BY <1>1, <1>2, <1>3, <1>4, <1>5

-----------------------------------------------------------------------------
(* Changing and recovering the password *)

LEMMA PasswordUpdateStep ==
    ASSUME Inv, NEW r \in Request,
           \/ \E c \in Claim, p, new \in Password : PasswordUpdate(r, c, p, new)
           \/ \E f \in SUBSET Fault : PasswordUpdate2FA(r, f) \/ PasswordUpdateSave(r, f)
    PROVE  Inv'
<1>1. ASSUME NEW c \in Claim, NEW p \in Password, NEW new \in Password,
             PasswordUpdate(r, c, p, new)
      PROVE  Inv'
  <2>1. CASE Enabled({"2fa"}) /\ StatusOn
    <3> DEFINE v == [row EXCEPT !.main = Encrypt(row.main.text, GetHash(new))]
               q == [op |-> "update2FA", new |-> new, row |-> v]
    <3>1. row \in TwoFA /\ row # None /\ row.status = "on" /\ row.main \in Cipher
      BY <1>1, <2>1, RowOn DEF Inv, PasswordUpdate, Opens, TwoFA
    <3>2. row.main.text \in Secret /\ GetHash(new) \in HashKey
      BY <3>1 DEF Cipher, HashKey
    <3>3. v \in TwoFA /\ IntactRow(v)
      BY <3>1, <3>2, Sealed, ResealedRow DEF Inv, RowOK
    <3> HIDE DEF v
    <3>4. RequestOK(q)
      BY <3>3 DEF RequestOK, InFlight
    <3> QED
      BY <1>1, <2>1, <3>4, BeginStep DEF PasswordUpdate, v
  <2>2. CASE ~(Enabled({"2fa"}) /\ StatusOn)
    <3>1. RequestOK([op |-> "updatePass", new |-> new])
      BY DEF RequestOK, InFlight
    <3> QED
      BY <1>1, <2>2, <3>1, BeginStep DEF PasswordUpdate
  <2> QED
    BY <2>1, <2>2
<1>2. ASSUME NEW f \in SUBSET Fault, PasswordUpdate2FA(r, f) PROVE Inv'
  <2>1. req[r] \in InFlight /\ RequestOK(req[r]) /\ req[r].op = "update2FA"
    BY <1>2 DEF Inv, RequestsOK, PasswordUpdate2FA
  <2>2. req[r].row \in TwoFA /\ req[r].new \in Password /\ IntactRow(req[r].row)
    BY <2>1, RequestFields DEF RequestOK
  <2>3. RequestOK([op |-> "updatePass", new |-> req[r].new])
    BY <2>2 DEF RequestOK, InFlight
  <2>4. RequestsOK'
    BY <1>2, <2>3, RequestStep DEF Inv, PasswordUpdate2FA, Continue
  <2>5. row' \in {row, req[r].row}
    BY <1>2 DEF PasswordUpdate2FA, Committed
  <2>6. RowOK'
    BY <2>2, <2>5, SameRow DEF Inv, RowOK
  <2>7. faults' \in 0 .. MaxFaults
    BY <1>2, FaultsCounted DEF Inv, DataOK, PasswordUpdate2FA
  <2>8. DataOK'
    BY <1>2, <2>7 DEF Inv, DataOK, PasswordUpdate2FA, told
  <2> QED
    BY <1>2, <2>4, <2>6, <2>8, SameTokens DEF Inv, PasswordUpdate2FA
<1>3. ASSUME NEW f \in SUBSET Fault, PasswordUpdateSave(r, f) PROVE Inv'
  <2>1. req[r].new \in Password
    BY <1>3, RequestFields DEF Inv, RequestsOK, PasswordUpdateSave
  <2>2. faults' \in 0 .. MaxFaults
    BY <1>3, FaultsCounted DEF Inv, DataOK, PasswordUpdateSave
  <2>3. DataOK'
    BY <1>3, <2>1, <2>2 DEF Inv, DataOK, PasswordUpdateSave, Committed, told
  <2> QED
    BY <1>3, <2>3, SameTokens, SameRow, FinishStep DEF Inv, PasswordUpdateSave
<1> QED
  BY <1>1, <1>2, <1>3

LEMMA PasswordRecoverStep ==
    ASSUME Inv, NEW r \in Request,
           \/ \E new \in Password, k \in Key : PasswordRecover(r, new, k)
           \/ \E f \in SUBSET Fault, k \in Key : PasswordRecover2FA(r, k, f)
           \/ \E f \in SUBSET Fault : PasswordRecoverSave(r, f)
           \/ \E deleted \in BOOLEAN : PasswordRecoverTell(r, deleted)
    PROVE  Inv'
<1>1. ASSUME NEW new \in Password, NEW k \in Key, PasswordRecover(r, new, k) PROVE Inv'
  <2>1. CASE Enabled({"2fa"}) /\ StatusOn
    <3>1. row \in TwoFA /\ row # None /\ row.status = "on"
      BY <2>1, RowOn DEF Inv
    <3>2. RequestOK([op |-> "recover2FA", row |-> row, new |-> new])
      BY <3>1 DEF Inv, RowOK, RequestOK, InFlight
    <3> QED
      BY <1>1, <2>1, <3>2, BeginStep DEF PasswordRecover
  <2>2. CASE ~(Enabled({"2fa"}) /\ StatusOn)
    <3>1. RequestOK([op |-> "recoverPass", new |-> new, key |-> None, saved |-> TRUE])
      BY DEF RequestOK, InFlight
    <3> QED
      BY <1>1, <2>2, <3>1, BeginStep DEF PasswordRecover
  <2> QED
    BY <2>1, <2>2
<1>2. ASSUME NEW f \in SUBSET Fault, NEW k \in Key, PasswordRecover2FA(r, k, f) PROVE Inv'
  <2> DEFINE w == req[r].row
             text == w.backup.text
             h == GetHash(req[r].new)
             new == [status |-> w.status, main |-> Encrypt(text, h),
                     backup |-> Encrypt(text, GetHash(k)), uuid |-> GetHash(k)]
             q == [op |-> "recoverPass", new |-> req[r].new, key |-> k, saved |-> f = {}]
  <2>1. req[r] \in InFlight /\ RequestOK(req[r]) /\ req[r].op = "recover2FA"
    BY <1>2 DEF Inv, RequestsOK, PasswordRecover2FA
  <2>2. w \in TwoFA /\ req[r].new \in Password /\ w # None /\ w.status = "on" /\ IntactRow(w)
    BY <2>1, RequestFields DEF RequestOK
  <2>3. w.backup \in Cipher
    BY <2>2 DEF IntactRow, Opens, TwoFA
  <2>4. text \in Secret /\ h \in HashKey
    BY <2>2, <2>3 DEF Cipher, HashKey
  <2>5. new \in TwoFA /\ IntactRow(new)
    BY <2>2, <2>4, SealedRow
  <2>6. row' \in {row, new}
    BY <1>2 DEF PasswordRecover2FA, Committed
  <2> HIDE DEF new
  <2>7. RowOK'
    BY <2>5, <2>6, SameRow DEF Inv, RowOK
  <2>8. (f = {}) \in BOOLEAN
    OBVIOUS
  <2>9. q \in InFlight
    BY <2>2, <2>8 DEF InFlight
  <2>10. RequestOK(q)
    BY <2>9 DEF RequestOK
  <2>11. req' = [req EXCEPT ![r] = q]
    BY <1>2 DEF PasswordRecover2FA, Continue
  <2> HIDE DEF q
  <2>12. RequestsOK'
    BY <2>10, <2>11, RequestStep DEF Inv
  <2>13. faults' \in 0 .. MaxFaults
    BY <1>2, FaultsCounted DEF Inv, DataOK, PasswordRecover2FA
  <2>14. DataOK'
    BY <1>2, <2>13 DEF Inv, DataOK, PasswordRecover2FA
  <2> QED
    BY <1>2, <2>7, <2>12, <2>14, SameTokens DEF Inv, PasswordRecover2FA
<1>3. ASSUME NEW f \in SUBSET Fault, PasswordRecoverSave(r, f) PROVE Inv'
  <2> DEFINE q == [op |-> "recovered", key |-> req[r].key, saved |-> req[r].saved]
  <2>1. /\ req[r].new \in Password /\ req[r].key \in Key \cup {None}
        /\ req[r].saved \in BOOLEAN
    BY <1>3, RequestFields DEF Inv, RequestsOK, PasswordRecoverSave
  <2>2. q \in InFlight
    BY <2>1 DEF InFlight
  <2>3. RequestOK(q)
    BY <2>2 DEF RequestOK
  <2>4. req' = [req EXCEPT ![r] = q]
    BY <1>3 DEF PasswordRecoverSave, Continue
  <2> HIDE DEF q
  <2>5. RequestsOK'
    BY <2>3, <2>4, RequestStep DEF Inv
  <2>6. faults' \in 0 .. MaxFaults
    BY <1>3, FaultsCounted DEF Inv, DataOK, PasswordRecoverSave
  <2>7. DataOK'
    BY <1>3, <2>1, <2>6 DEF Inv, DataOK, PasswordRecoverSave, Committed, told
  <2> QED
    BY <1>3, <2>5, <2>7, SameTokens, SameRow DEF Inv, PasswordRecoverSave
<1>4. ASSUME NEW deleted \in BOOLEAN, PasswordRecoverTell(r, deleted) PROVE Inv'
  <2>1. req[r].key \in Key \cup {None}
    BY <1>4, RequestFields DEF Inv, RequestsOK, PasswordRecoverTell
  <2>2. resets' \in 0 .. MaxResets
    BY <1>4, TwoFactorAssumption DEF Inv, DataOK, PasswordRecoverTell
  <2>3. disclosed' \in Key \cup {None}
    BY <1>4, <2>1 DEF Inv, DataOK, PasswordRecoverTell, told
  <2>4. untold' \in BOOLEAN
    BY <1>4, Zenon DEF Inv, DataOK, PasswordRecoverTell, told
  <2>5. DataOK'
    BY <1>4, <2>2, <2>3, <2>4 DEF Inv, DataOK, PasswordRecoverTell
  <2> QED
    BY <1>4, <2>5, SameTokens, SameRow, FinishStep DEF Inv, PasswordRecoverTell
<1> QED
  BY <1>1, <1>2, <1>3, <1>4

-----------------------------------------------------------------------------
LEMMA InvHolds == TwoFASpec => []Inv
<1>1. TwoFAInit => Inv
  <2> SUFFICES ASSUME TwoFAInit PROVE Inv
    OBVIOUS
  <2>1. RequestsOK
    <3>1. Idle \in InFlight
      BY IdleOK DEF RequestOK
    <3> QED
      BY <3>1, IdleOK DEF TwoFAInit, RequestsOK
  <2>2. DataOK
    <3>1. untold \in BOOLEAN
      BY Zenon DEF TwoFAInit
    <3>2. resets \in 0 .. MaxResets /\ faults \in 0 .. MaxFaults
      BY TwoFactorAssumption DEF TwoFAInit
    <3> QED
      BY <3>1, <3>2 DEF TwoFAInit, DataOK
  <2>3. RowOK /\ TokensOK
    BY DEF TwoFAInit, RowOK, IntactRow, TokensOK
  <2> QED
    BY <2>1, <2>2, <2>3 DEF Inv
<1>2. Inv /\ [TwoFANext]_twoFAVars => Inv'
  <2> SUFFICES ASSUME Inv, [TwoFANext]_twoFAVars PROVE Inv'
    OBVIOUS
  <2>1. CASE TwoFANext
    <3>1. CASE \/ \E c \in Claim : Logout(c) \/ TokensExpire(c)
               \/ PasswordForgot \/ ResetExpires \/ Restart
      BY <3>1, RestartStep, EnvironmentStep
    <3>2. ASSUME NEW r \in Request, Activate2FAWrong(r) \/ WriteFails(r)
          PROVE  Inv'
      BY <3>2, ActivateStep, WriteFailsStep
    <3>3. ASSUME NEW r \in Request, NEW f \in SUBSET Fault,
                 \/ LoginIssue(r, f) \/ RefreshIssue(r, f)
                 \/ Activate2FATell(r, f) \/ Deactivate2FASave(r, f) \/ Deactivate2FACodes(r, f)
                 \/ Validate2FASave(r, f)
                 \/ CreateBackup2FADelete(r, f) \/ ValidateBackup2FADelete(r, f)
                 \/ PasswordUpdate2FA(r, f) \/ PasswordUpdateSave(r, f) \/ PasswordRecoverSave(r, f)
                 \/ \E k \in Key : Activate2FASave(r, k, f) \/ PasswordRecover2FA(r, k, f)
                 \/ \E batch \in SUBSET Code : CreateBackup2FASave(r, batch, f)
          PROVE  Inv'
      BY <3>3, SessionStep, ActivateStep, DeactivateStep, ValidateStep, BackupStep,
         PasswordUpdateStep, PasswordRecoverStep
    <3>4. ASSUME NEW r \in Request,
                 \/ \E p \in Password : Login(r, p)
                 \/ \E s \in Secret : Setup2FASave(r, s)
                 \/ \E deleted \in BOOLEAN : PasswordRecoverTell(r, deleted)
                 \/ \E new \in Password, k \in Key : PasswordRecover(r, new, k)
          PROVE  Inv'
      BY <3>4, SessionStep, SetupStep, PasswordRecoverStep
    <3>5. ASSUME NEW r \in Request, NEW c \in Claim,
                 \/ Refresh(r, c)
                 \/ \E p \in Password : Setup2FA(r, c, p) \/ Deactivate2FA(r, c, p)
                                        \/ CreateBackup2FA(r, c, p)
                 \/ \E p, new \in Password : PasswordUpdate(r, c, p, new)
                 \/ \E otp \in Secret : Activate2FA(r, c, otp) \/ Validate2FA(r, c, otp)
                 \/ \E code \in Code : ValidateBackup2FA(r, c, code)
          PROVE  Inv'
      BY <3>5, SessionStep, SetupStep, ActivateStep, DeactivateStep, ValidateStep, BackupStep,
         PasswordUpdateStep
    <3> QED
      BY <2>1, <3>1, <3>2, <3>3, <3>4, <3>5 DEF TwoFANext
  <2>2. CASE UNCHANGED twoFAVars
    <3>1. DataOK'
      BY <2>2 DEF Inv, DataOK, twoFAVars, told
    <3> QED
      BY <2>2, <3>1, SameRow, SameTokens, SameRequests DEF Inv, twoFAVars
  <2> QED
    BY <2>1, <2>2
<1> QED
  BY <1>1, <1>2, PTL DEF TwoFASpec

\* The handlers of handler/twoFA.go, passwordReset.go, login.go and logout.go keep
\* the account's state well-formed: no handler seals or opens a key that is not there.
THEOREM TwoFATypeCorrect == TwoFASpec => []TwoFATypeOK
<1>1. Inv => TwoFATypeOK
  BY DEF Inv, DataOK, TokensOK, RowOK, RequestsOK, TwoFATypeOK
<1> QED
  BY <1>1, InvHolds, PTL

-----------------------------------------------------------------------------
(* One request at a time *)

\* What holds when requests do not overlap: there is at most one at a time.
Serial == \A q, r \in Request : q = r

On(w) == w # None /\ w.status = "on"

\* The copies in a row, and memory, hold one secret.
Agrees(w, m) ==
    On(w) => /\ w.main # None => w.main.text = w.backup.text
             /\ m # None /\ m.secret # None => m.secret = w.backup.text

\* Key k is the recovery key of row w.
Knows(w, k) == k # None /\ w.uuid = GetHash(k)

\* A user who was told the recovery key has the one of the row.
Known(w, k, lost) == On(w) /\ ~lost => Knows(w, k)

\* What a request has read is still so; a key it saved is that of the row.
Fits(q, w, m) ==
    /\ q.op \in {"activate", "validate", "deactivate", "recover2FA"} => q.row = w
    /\ q.op = "activate" => q.data = m /\ (q.ok => ~On(w))
    /\ q.op = "setup" => ~On(w)
    /\ q.op \in {"validate", "recover2FA", "update2FA"} => On(w)
    /\ q.op = "validate" => q.data.secret = w.backup.text
    /\ q.op = "update2FA" =>
         /\ On(q.row) /\ q.row.backup = w.backup /\ q.row.uuid = w.uuid
         /\ q.row.main # None => q.row.main.text = w.backup.text
    /\ q.op \in {"activated", "recoverPass", "recovered"} =>
         (q.key # None /\ q.saved /\ On(w) => Knows(w, q.key))
    /\ q.op = "activated" => q.key # None

\* The inductive invariant of one request at a time, beside Inv.
SerialInv ==
    /\ Agrees(row, mem)
    /\ \A r \in Request : Fits(req[r], row, mem)
    /\ Known(row, disclosed, untold)

\* The abstract secret, and the steps it may take.
SecretOf(w) == IF On(w) THEN w.backup.text ELSE None

FactorStep ==
    \/ SecretOf(row') = SecretOf(row)
    \/ SecretOf(row) # None /\ SecretOf(row') = None
    \/ SecretOf(row) = None /\ SecretOf(row') \in Secret

LEMMA IdleFits == ASSUME NEW w, NEW m PROVE Fits(Idle, w, m)
BY DEF Fits, Idle

LEMMA SerialStep ==
    ASSUME Inv, Serial, NEW r \in Request, NEW q, req' = [req EXCEPT ![r] = q],
           Agrees(row', mem'), Fits(q, row', mem'), Known(row', disclosed', untold')
    PROVE  SerialInv'
<1>1. req'[r] = q
  BY DEF Inv, RequestsOK
<1>2. \A s \in Request : req'[s] = q
  BY <1>1 DEF Serial
<1> QED
  BY <1>2 DEF SerialInv

\* A handler goes on, or ends, without touching the row or the keys.
LEMMA QuietStep ==
    ASSUME Inv, SerialInv, Serial, NEW r \in Request, NEW q,
           req' = [req EXCEPT ![r] = q], Fits(q, row, mem'), Agrees(row, mem'),
           UNCHANGED <<row, told>>
    PROVE  SerialInv' /\ FactorStep
<1>1. row' = row /\ disclosed' = disclosed /\ untold' = untold
  BY DEF told
<1>2. Fits(q, row', mem') /\ Agrees(row', mem') /\ Known(row', disclosed', untold')
  BY <1>1 DEF SerialInv
<1> QED
  BY <1>1, <1>2, SerialStep DEF FactorStep

\* A handler that has only read.
LEMMA ReadStep ==
    ASSUME Inv, SerialInv, Serial, NEW r \in Request, NEW q, Begin(r, q), Fits(q, row, mem),
           UNCHANGED <<accountVars, mem, live, told, faults>>
    PROVE  SerialInv' /\ FactorStep
<1>1. req' = [req EXCEPT ![r] = q] /\ UNCHANGED <<row, told>> /\ mem' = mem
  BY DEF Begin, accountVars
<1>2. Agrees(row, mem') /\ Fits(q, row, mem')
  BY <1>1 DEF SerialInv
<1> QED
  BY <1>1, <1>2, QuietStep

\* A handler that ends: memory still agrees with the row.
LEMMA EndStep ==
    ASSUME Inv, SerialInv, Serial, NEW r \in Request, Finish(r), Agrees(row, mem'),
           UNCHANGED <<row, told>>
    PROVE  SerialInv' /\ FactorStep
BY IdleFits, QuietStep DEF Finish

LEMMA SerialWriteFails ==
    ASSUME Inv, SerialInv, Serial, NEW r \in Request, WriteFails(r)
    PROVE  SerialInv' /\ FactorStep
<1>1. mem' = mem /\ Finish(r) /\ UNCHANGED <<row, told>>
  BY DEF WriteFails, accountVars
<1>2. Agrees(row, mem')
  BY <1>1 DEF SerialInv
<1> QED
  BY <1>1, <1>2, EndStep

LEMMA SerialRestart ==
    ASSUME Inv, SerialInv, Restart
    PROVE  SerialInv' /\ FactorStep
<1>1. /\ row' = row /\ disclosed' = disclosed /\ untold' = untold /\ mem' = None
      /\ req' = [r \in Request |-> Idle]
  BY DEF Restart, accountVars, told
<1>2. Agrees(row', mem') /\ Known(row', disclosed', untold')
  BY <1>1 DEF SerialInv, Agrees
<1>3. \A r \in Request : Fits(req'[r], row', mem')
  BY <1>1, IdleFits
<1> QED
  BY <1>1, <1>2, <1>3 DEF SerialInv, FactorStep

LEMMA SerialSame ==
    ASSUME SerialInv, UNCHANGED <<row, mem, told, req>>
    PROVE  SerialInv' /\ FactorStep
BY DEF SerialInv, FactorStep, told

LEMMA SerialEnvironment ==
    ASSUME SerialInv, \/ \E c \in Claim : Logout(c) \/ TokensExpire(c)
                      \/ PasswordForgot \/ ResetExpires
    PROVE  SerialInv' /\ FactorStep
<1>1. UNCHANGED <<row, mem, told, req>>
  BY DEF Logout, TokensExpire, PasswordForgot, ResetExpires, accountVars
<1> QED
  BY <1>1, SerialSame

LEMMA SerialSession ==
    ASSUME Inv, SerialInv, Serial, NEW r \in Request,
           \/ \E p \in Password : Login(r, p)
           \/ \E c \in Claim : Refresh(r, c)
           \/ \E f \in SUBSET Fault : LoginIssue(r, f) \/ RefreshIssue(r, f)
    PROVE  SerialInv' /\ FactorStep
<1>1. ASSUME NEW p \in Password, Login(r, p) PROVE SerialInv' /\ FactorStep
  <2> DEFINE q == [op |-> "login", pass |-> p, claim |-> IF Enabled({"2fa"}) THEN StatusOf(row) ELSE ""]
  <2>1. Fits(q, row, mem)
    BY DEF Fits
  <2> QED
    BY <1>1, <2>1, ReadStep DEF Login
<1>2. ASSUME NEW c \in Claim, Refresh(r, c) PROVE SerialInv' /\ FactorStep
  <2>1. Fits([op |-> "refresh", claim |-> c], row, mem)
    BY DEF Fits
  <2> QED
    BY <1>2, <2>1, ReadStep DEF Refresh
<1>3. ASSUME NEW f \in SUBSET Fault, LoginIssue(r, f) \/ RefreshIssue(r, f)
      PROVE  SerialInv' /\ FactorStep
  <2>1. Agrees(row, mem')
    BY <1>3 DEF LoginIssue, RefreshIssue, SerialInv, Agrees
  <2>2. Finish(r) /\ UNCHANGED <<row, told>>
    BY <1>3 DEF LoginIssue, RefreshIssue, accountVars
  <2> QED
    BY <2>1, <2>2, EndStep
<1> QED
  BY <1>1, <1>2, <1>3

LEMMA SerialSetup ==
    ASSUME Inv, SerialInv, Serial, NEW r \in Request,
           \/ \E c \in Claim, p \in Password : Setup2FA(r, c, p)
           \/ \E s \in Secret : Setup2FASave(r, s)
    PROVE  SerialInv' /\ FactorStep
<1>1. ASSUME NEW c \in Claim, NEW p \in Password, Setup2FA(r, c, p) PROVE SerialInv' /\ FactorStep
  <2>1. Fits([op |-> "setup", pass |-> p], row, mem)
    BY <1>1 DEF Fits, Setup2FA, StatusOn, On
  <2> QED
    BY <1>1, <2>1, ReadStep DEF Setup2FA
<1>2. ASSUME NEW s \in Secret, Setup2FASave(r, s) PROVE SerialInv' /\ FactorStep
  <2>1. ~On(row)
    BY <1>2 DEF SerialInv, Fits, Setup2FASave
  <2>2. Agrees(row, mem')
    BY <2>1 DEF Agrees
  <2> QED
    BY <1>2, <2>1, <2>2, EndStep DEF Setup2FASave, accountVars
<1> QED
  BY <1>1, <1>2

LEMMA ActivateFits ==
    ASSUME NEW ok, NEW w, NEW m, ok => ~On(w)
    PROVE  Fits([op |-> "activate", data |-> m, row |-> w, ok |-> ok], w, m)
BY DEF Fits

\* A request that has made a key and saved it, or not.
LEMMA KeyFits ==
    ASSUME NEW k, k # None, NEW new, NEW saved, NEW w, NEW m, saved => Knows(w, k)
    PROVE  /\ Fits([op |-> "activated", key |-> k, saved |-> saved], w, m)
           /\ Fits([op |-> "recoverPass", new |-> new, key |-> k, saved |-> saved], w, m)
BY DEF Fits

\* A row made of two copies of one secret.
LEMMA TwoCopies ==
    ASSUME NEW s \in Secret, NEW h \in HashKey, NEW k \in Key, NEW w,
           w = [status |-> "on", main |-> Encrypt(s, h), backup |-> Encrypt(s, GetHash(k)), uuid |-> GetHash(k)]
    PROVE  On(w) /\ w.main.text = s /\ w.backup.text = s /\ Knows(w, k) /\ SecretOf(w) = s
<1>1. w \in TwoFA /\ w.status = "on"
  BY SealedRow
<1>2. w.main = Encrypt(s, h) /\ w.backup = Encrypt(s, GetHash(k)) /\ w.uuid = GetHash(k)
  OBVIOUS
<1>3. w # None /\ k # None
  BY <1>1, NoneAssumption, TwoFactorAssumption
<1>4. w.main.text = s /\ w.backup.text = s
  BY <1>2 DEF Encrypt
<1> QED
  BY <1>1, <1>2, <1>3, <1>4 DEF On, Knows, SecretOf

LEMMA SerialActivate ==
    ASSUME Inv, SerialInv, Serial, NEW r \in Request,
           \/ \E c \in Claim, otp \in Secret : Activate2FA(r, c, otp)
           \/ \E f \in SUBSET Fault, k \in Key : Activate2FASave(r, k, f)
           \/ \E f \in SUBSET Fault : Activate2FATell(r, f)
           \/ Activate2FAWrong(r)
    PROVE  SerialInv' /\ FactorStep
<1>1. ASSUME NEW c \in Claim, NEW otp \in Secret, Activate2FA(r, c, otp) PROVE SerialInv' /\ FactorStep
  <2>1. CASE otp = mem.secret /\ StatusOn
    <3>1. /\ req[r] = Idle /\ mem' = None /\ req' = req
          /\ UNCHANGED <<row, told>>
      BY <1>1, <2>1 DEF Activate2FA, accountVars
    <3>2. Finish(r)
      BY <3>1 DEF Finish, Inv, RequestsOK
    <3>3. Agrees(row, mem')
      BY <3>1 DEF SerialInv, Agrees
    <3> QED
      BY <3>1, <3>2, <3>3, EndStep
  <2>2. CASE ~(otp = mem.secret /\ StatusOn)
    <3> DEFINE q == [op |-> "activate", data |-> mem, row |-> row, ok |-> otp = mem.secret]
    <3>1. Begin(r, q) /\ UNCHANGED <<accountVars, mem, live, told, faults>>
      BY <1>1, <2>2 DEF Activate2FA
    <3>2. (otp = mem.secret) => ~On(row)
      BY <2>2 DEF StatusOn, On
    <3>3. Fits(q, row, mem)
      BY <3>2, ActivateFits, Zenon
    <3> HIDE DEF q
    <3> QED
      BY <3>1, <3>3, ReadStep
  <2> QED
    BY <2>1, <2>2
<1>2. ASSUME NEW f \in SUBSET Fault, NEW k \in Key, Activate2FASave(r, k, f)
      PROVE  SerialInv' /\ FactorStep
  <2> DEFINE data == req[r].data
             new == [status |-> "on", main |-> Encrypt(data.secret, data.pass),
                     backup |-> Encrypt(data.secret, GetHash(k)), uuid |-> GetHash(k)]
             saved == f = {}
             q == [op |-> "activated", key |-> k, saved |-> saved]
  <2>1. data \in Secret2FA /\ data.secret # None
    BY <1>2, RequestFields DEF Inv, RequestsOK, RequestOK, Activate2FASave
  <2>2. data.secret \in Secret /\ data.pass \in HashKey
    BY <2>1 DEF Secret2FA
  <2>3. req[r].op = "activate" /\ req[r].ok /\ req[r].row = row /\ data = mem /\ ~On(row)
    BY <1>2 DEF Activate2FASave, SerialInv, Fits
  <2>4. row' = Committed(f, new, row) /\ mem' = mem /\ untold' = TRUE /\ req' = [req EXCEPT ![r] = q]
    BY <1>2, <2>3 DEF Activate2FASave, Continue
  <2>5. /\ On(new) /\ new.main.text = data.secret /\ new.backup.text = data.secret
        /\ Knows(new, k) /\ SecretOf(new) = data.secret
    BY <2>2, TwoCopies
  <2>6. row' = new \/ (row' = row /\ ~saved)
    BY <2>4 DEF Committed
  <2> HIDE DEF new, saved
  <2>7. k # None /\ (saved => Knows(row', k))
    BY <2>5, <2>6, TwoFactorAssumption
  <2>8. Fits(q, row', mem')
    BY <2>7, KeyFits, Zenon
  <2>9. Agrees(row', mem')
    BY <2>3, <2>4, <2>5, <2>6 DEF Agrees
  <2>10. Known(row', disclosed', untold')
    BY <2>4 DEF Known
  <2>11. FactorStep
    BY <2>2, <2>3, <2>5, <2>6 DEF FactorStep, SecretOf
  <2> HIDE DEF q
  <2> QED
    BY <2>4, <2>8, <2>9, <2>10, <2>11, SerialStep
<1>3. ASSUME Activate2FAWrong(r) PROVE SerialInv' /\ FactorStep
  <2>1. mem' = mem
    BY <1>3 DEF Activate2FAWrong, SerialInv, Fits
  <2>2. Agrees(row, mem')
    BY <2>1 DEF SerialInv
  <2> QED
    BY <1>3, <2>1, <2>2, EndStep DEF Activate2FAWrong, accountVars
<1>4. ASSUME NEW f \in SUBSET Fault, Activate2FATell(r, f) PROVE SerialInv' /\ FactorStep
  <2>1. /\ row' = row /\ mem' = None /\ req' = [req EXCEPT ![r] = Idle]
        /\ Fits(req[r], row, mem) /\ req[r].op = "activated"
    BY <1>4 DEF Activate2FATell, Finish, accountVars, SerialInv
  <2>2. Agrees(row', mem') /\ Fits(Idle, row', mem')
    BY <2>1, IdleFits DEF SerialInv, Agrees
  <2>3. Known(row', disclosed', untold')
    <3>1. CASE f = {}
      <4>1. disclosed' = req[r].key /\ untold' = ~req[r].saved
        BY <1>4, <3>1 DEF Activate2FATell
      <4>2. ~untold' => req[r].saved
        BY <4>1, Zenon
      <4>3. req[r].key # None /\ (req[r].saved /\ On(row) => Knows(row, req[r].key))
        BY <2>1 DEF Fits
      <4> QED
        BY <2>1, <4>1, <4>2, <4>3 DEF Known
    <3>2. CASE f # {}
      BY <1>4, <2>1, <3>2 DEF Activate2FATell, told, SerialInv
    <3> QED
      BY <3>1, <3>2
  <2> QED
    BY <2>1, <2>2, <2>3, SerialStep DEF FactorStep
<1> QED
  BY <1>1, <1>2, <1>3, <1>4

LEMMA SerialDeactivate ==
    ASSUME Inv, SerialInv, Serial, NEW r \in Request,
           \/ \E c \in Claim, p \in Password : Deactivate2FA(r, c, p)
           \/ \E f \in SUBSET Fault : Deactivate2FASave(r, f) \/ Deactivate2FACodes(r, f)
    PROVE  SerialInv' /\ FactorStep
<1>1. ASSUME NEW c \in Claim, NEW p \in Password, Deactivate2FA(r, c, p) PROVE SerialInv' /\ FactorStep
  <2>1. Fits([op |-> "deactivate", row |-> row], row, mem)
    BY DEF Fits
  <2> QED
    BY <1>1, <2>1, ReadStep DEF Deactivate2FA
<1>2. ASSUME NEW f \in SUBSET Fault, Deactivate2FASave(r, f) PROVE SerialInv' /\ FactorStep
  <2> DEFINE q == [op |-> "deactivateCodes", claim |-> IF req[r].row = None THEN "" ELSE "off"]
             off == [status |-> "off", main |-> None, backup |-> None, uuid |-> None]
  <2>1. /\ row' \in {row, off} /\ mem' = mem /\ UNCHANGED told
        /\ req' = [req EXCEPT ![r] = q]
    BY <1>2 DEF Deactivate2FASave, Committed, Continue
  <2>2. Fits(q, row', mem')
    BY DEF Fits
  <2>3. ~On(off)
    BY DEF On
  <2> HIDE DEF q, off
  <2>4. Agrees(row', mem') /\ Known(row', disclosed', untold')
    BY <2>1, <2>3 DEF Agrees, Known, SerialInv, told
  <2>5. FactorStep
    BY <2>1, <2>3 DEF FactorStep, SecretOf
  <2> QED
    BY <2>1, <2>2, <2>4, <2>5, SerialStep
<1>3. ASSUME NEW f \in SUBSET Fault, Deactivate2FACodes(r, f) PROVE SerialInv' /\ FactorStep
  <2>1. Finish(r) /\ mem' = mem /\ UNCHANGED <<row, told>>
    BY <1>3 DEF Deactivate2FACodes
  <2>2. Agrees(row, mem')
    BY <2>1 DEF SerialInv
  <2> QED
    BY <2>1, <2>2, EndStep
<1> QED
  BY <1>1, <1>2, <1>3

LEMMA ValidateFits ==
    ASSUME NEW ok, NEW w, NEW m, NEW data, On(w), data.secret = w.backup.text
    PROVE  Fits([op |-> "validate", data |-> data, row |-> w, ok |-> ok], w, m)
BY DEF Fits

\* A main key with the secret of the backup key, or an empty one, changes nothing
\* for the user.
LEMMA SameSecret ==
    ASSUME NEW w \in TwoFA, IntactRow(w), On(w), NEW main \in Cipher \cup {None},
           main # None => main.text = w.backup.text, NEW v, v = [w EXCEPT !.main = main]
    PROVE  /\ On(v) /\ v.backup = w.backup /\ v.uuid = w.uuid
           /\ v.main # None => v.main.text = w.backup.text
<1>1. v \in TwoFA /\ v.status = "on"
  BY ResealedRow DEF On
<1>2. v.main = main /\ v.backup = w.backup /\ v.uuid = w.uuid
  BY DEF TwoFA
<1> QED
  BY <1>1, <1>2, NoneAssumption DEF On

\* The row is replaced by one with the same secret and recovery key.
LEMMA ResealStep ==
    ASSUME Inv, SerialInv, Serial, NEW r \in Request, NEW q,
           req' = [req EXCEPT ![r] = q], Fits(q, row', mem'),
           On(row), On(row'), row'.backup = row.backup, row'.uuid = row.uuid,
           row'.main # None => row'.main.text = row.backup.text,
           mem' # None /\ mem'.secret # None => mem'.secret = row.backup.text,
           UNCHANGED told
    PROVE  SerialInv' /\ FactorStep
<1>1. Agrees(row', mem')
  BY DEF Agrees
<1>2. Known(row', disclosed', untold')
  BY DEF SerialInv, Known, Knows, told
<1>3. FactorStep
  BY DEF FactorStep, SecretOf
<1> QED
  BY <1>1, <1>2, <1>3, SerialStep

LEMMA SerialValidate ==
    ASSUME Inv, SerialInv, Serial, NEW r \in Request,
           \/ \E c \in Claim, otp \in Secret : Validate2FA(r, c, otp)
           \/ \E f \in SUBSET Fault : Validate2FASave(r, f)
    PROVE  SerialInv' /\ FactorStep
<1>1. ASSUME NEW c \in Claim, NEW otp \in Secret, Validate2FA(r, c, otp) PROVE SerialInv' /\ FactorStep
  <2> DEFINE data == [mem EXCEPT !.secret = SecretFor(mem)]
             q == [op |-> "validate", data |-> data, row |-> row, ok |-> otp = SecretFor(mem)]
  <2>1. /\ Begin(r, q) /\ UNCHANGED <<accountVars, mem, live, told, faults>>
        /\ mem # None /\ On(row) /\ (mem.secret = None => row.main # None)
    BY <1>1 DEF Validate2FA, StatusOn, On, Opens
  <2>2. data.secret = SecretFor(mem)
    BY <2>1 DEF Inv, DataOK, Secret2FA
  <2>3. SecretFor(mem) = row.backup.text
    BY <2>1 DEF SecretFor, SerialInv, Agrees
  <2>4. data.secret = row.backup.text
    BY <2>2, <2>3
  <2> HIDE DEF data
  <2>5. Fits(q, row, mem)
    BY <2>1, <2>4, ValidateFits, Zenon
  <2> HIDE DEF q
  <2> QED
    BY <2>1, <2>5, ReadStep
<1>2. ASSUME NEW f \in SUBSET Fault, Validate2FASave(r, f) PROVE SerialInv' /\ FactorStep
  <2> DEFINE data == req[r].data
             main == IF "encrypt" \in f THEN None ELSE Encrypt(data.secret, data.pass)
             new == [row EXCEPT !.main = main]
  <2>1. /\ req[r].op = "validate" /\ req[r].row = row /\ On(row) /\ data.secret = row.backup.text
        /\ RequestOK(req[r])
    BY <1>2 DEF Validate2FASave, SerialInv, Fits, Inv, RequestsOK
  <2>2. /\ data \in Secret2FA /\ data.secret # None /\ row \in TwoFA /\ IntactRow(row)
    BY <2>1, RequestFields DEF RequestOK, Inv, RowOK, On
  <2>3. data.secret \in Secret /\ data.pass \in HashKey
    BY <2>2 DEF Secret2FA
  <2>4. main \in Cipher \cup {None} /\ (main # None => main.text = row.backup.text)
    BY <2>1, <2>3, Sealed
  <2>5. row' \in {row, new} /\ UNCHANGED told /\ req' = [req EXCEPT ![r] = Idle]
    BY <1>2, <2>1 DEF Validate2FASave, Committed, Finish
  <2>6. mem' \in {None, data}
    BY <1>2 DEF Validate2FASave
  <2> HIDE DEF main
  <2>7. /\ On(new) /\ new.backup = row.backup /\ new.uuid = row.uuid
        /\ new.main # None => new.main.text = row.backup.text
    BY <2>1, <2>2, <2>4, SameSecret
  <2> HIDE DEF new
  <2>8. /\ On(row') /\ row'.backup = row.backup /\ row'.uuid = row.uuid
        /\ row'.main # None => row'.main.text = row.backup.text
    BY <2>1, <2>5, <2>7 DEF SerialInv, Agrees
  <2>9. mem' # None => mem'.secret = row.backup.text
    BY <2>1, <2>6
  <2> QED
    BY <2>1, <2>5, <2>8, <2>9, IdleFits, ResealStep
<1> QED
  BY <1>1, <1>2

LEMMA SerialBackup ==
    ASSUME Inv, SerialInv, Serial, NEW r \in Request,
           \/ \E c \in Claim, p \in Password : CreateBackup2FA(r, c, p)
           \/ \E f \in SUBSET Fault : CreateBackup2FADelete(r, f) \/ ValidateBackup2FADelete(r, f)
           \/ \E f \in SUBSET Fault, batch \in SUBSET Code : CreateBackup2FASave(r, batch, f)
           \/ \E c \in Claim, code \in Code : ValidateBackup2FA(r, c, code)
    PROVE  SerialInv' /\ FactorStep
<1>1. ASSUME NEW c \in Claim, NEW p \in Password, CreateBackup2FA(r, c, p) PROVE SerialInv' /\ FactorStep
  <2>1. /\ Fits([op |-> "backupCreate"], row, mem)
        /\ Fits([op |-> "backupDelete", old |-> codes], row, mem)
    BY DEF Fits
  <2>2. PICK q : Begin(r, q) /\ Fits(q, row, mem)
    BY <1>1, <2>1 DEF CreateBackup2FA
  <2> QED
    BY <1>1, <2>2, ReadStep DEF CreateBackup2FA
<1>2. ASSUME NEW c \in Claim, NEW code \in Code, ValidateBackup2FA(r, c, code)
      PROVE  SerialInv' /\ FactorStep
  <2>1. Fits([op |-> "backupUse", code |-> code], row, mem)
    BY <1>2 DEF Fits, ValidateBackup2FA
  <2> QED
    BY <1>2, <2>1, ReadStep DEF ValidateBackup2FA
<1>3. ASSUME NEW f \in SUBSET Fault,
             \/ CreateBackup2FADelete(r, f) \/ ValidateBackup2FADelete(r, f)
             \/ \E batch \in SUBSET Code : CreateBackup2FASave(r, batch, f)
      PROVE  SerialInv' /\ FactorStep
  <2>1. mem' = mem /\ UNCHANGED <<row, told>>
    BY <1>3 DEF CreateBackup2FADelete, CreateBackup2FASave, ValidateBackup2FADelete
  <2>2. PICK q \in {Idle, [op |-> "backupCreate"]} : req' = [req EXCEPT ![r] = q]
    BY <1>3 DEF CreateBackup2FADelete, CreateBackup2FASave, ValidateBackup2FADelete, Continue, Finish
  <2>3. Fits(q, row, mem')
    <3>1. Fits([op |-> "backupCreate"], row, mem')
      BY DEF Fits
    <3> QED
      BY <2>2, <3>1, IdleFits
  <2>4. Agrees(row, mem')
    BY <2>1 DEF SerialInv
  <2> QED
    BY <2>1, <2>2, <2>3, <2>4, QuietStep
<1> QED
  BY <1>1, <1>2, <1>3

LEMMA SerialPasswordUpdate ==
    ASSUME Inv, SerialInv, Serial, NEW r \in Request,
           \/ \E c \in Claim, p, new \in Password : PasswordUpdate(r, c, p, new)
           \/ \E f \in SUBSET Fault : PasswordUpdate2FA(r, f) \/ PasswordUpdateSave(r, f)
    PROVE  SerialInv' /\ FactorStep
<1>1. ASSUME NEW c \in Claim, NEW p \in Password, NEW new \in Password, PasswordUpdate(r, c, p, new)
      PROVE  SerialInv' /\ FactorStep
  <2>1. CASE Enabled({"2fa"}) /\ StatusOn
    <3> DEFINE w == [row EXCEPT !.main = Encrypt(row.main.text, GetHash(new))]
               q == [op |-> "update2FA", new |-> new, row |-> w]
    <3>1. /\ On(row) /\ row \in TwoFA /\ IntactRow(row) /\ GetHash(new) \in HashKey
          /\ row.main # None
      BY <1>1, <2>1 DEF StatusOn, On, Inv, RowOK, HashKey, PasswordUpdate, Opens
    <3>2. row.main.text = row.backup.text /\ row.main.text \in Secret
      BY <3>1 DEF SerialInv, Agrees, TwoFA, Cipher
    <3>3. /\ Encrypt(row.main.text, GetHash(new)) \in Cipher
          /\ Encrypt(row.main.text, GetHash(new)).text = row.backup.text
      BY <3>1, <3>2, Sealed
    <3>4. /\ On(w) /\ w.backup = row.backup /\ w.uuid = row.uuid
          /\ w.main # None => w.main.text = row.backup.text
      BY <3>1, <3>3, SameSecret
    <3> HIDE DEF w
    <3>5. Fits(q, row, mem)
      BY <3>1, <3>4 DEF Fits
    <3>6. Begin(r, q)
      BY <1>1, <2>1 DEF PasswordUpdate, w
    <3> HIDE DEF q
    <3> QED
      BY <1>1, <3>5, <3>6, ReadStep DEF PasswordUpdate
  <2>2. CASE ~(Enabled({"2fa"}) /\ StatusOn)
    <3> DEFINE q == [op |-> "updatePass", new |-> new]
    <3>1. Fits(q, row, mem)
      BY DEF Fits
    <3>2. Begin(r, q)
      BY <1>1, <2>2 DEF PasswordUpdate
    <3> HIDE DEF q
    <3> QED
      BY <1>1, <3>1, <3>2, ReadStep DEF PasswordUpdate
  <2> QED
    BY <2>1, <2>2
<1>2. ASSUME NEW f \in SUBSET Fault, PasswordUpdate2FA(r, f) PROVE SerialInv' /\ FactorStep
  <2> DEFINE q == [op |-> "updatePass", new |-> req[r].new]
  <2>1. /\ On(row) /\ On(req[r].row)
        /\ req[r].row.backup = row.backup /\ req[r].row.uuid = row.uuid
        /\ req[r].row.main # None => req[r].row.main.text = row.backup.text
    BY <1>2 DEF PasswordUpdate2FA, SerialInv, Fits
  <2>2. row' \in {row, req[r].row} /\ mem' = mem /\ UNCHANGED told /\ req' = [req EXCEPT ![r] = q]
    BY <1>2 DEF PasswordUpdate2FA, Committed, Continue
  <2>3. /\ On(row') /\ row'.backup = row.backup /\ row'.uuid = row.uuid
        /\ row'.main # None => row'.main.text = row.backup.text
    BY <2>1, <2>2 DEF SerialInv, Agrees
  <2>4. Fits(q, row', mem')
    BY DEF Fits
  <2>5. mem' # None /\ mem'.secret # None => mem'.secret = row.backup.text
    BY <2>1, <2>2 DEF SerialInv, Agrees
  <2> HIDE DEF q
  <2> QED
    BY <2>1, <2>2, <2>3, <2>4, <2>5, ResealStep
<1>3. ASSUME NEW f \in SUBSET Fault, PasswordUpdateSave(r, f) PROVE SerialInv' /\ FactorStep
  <2>1. mem' = mem
    BY <1>3 DEF PasswordUpdateSave
  <2>2. Agrees(row, mem')
    BY <2>1 DEF SerialInv
  <2> QED
    BY <1>3, <2>1, <2>2, EndStep DEF PasswordUpdateSave
<1> QED
  BY <1>1, <1>2, <1>3

LEMMA SerialPasswordRecover ==
    ASSUME Inv, SerialInv, Serial, NEW r \in Request,
           \/ \E new \in Password, k \in Key : PasswordRecover(r, new, k)
           \/ \E f \in SUBSET Fault, k \in Key : PasswordRecover2FA(r, k, f)
           \/ \E f \in SUBSET Fault : PasswordRecoverSave(r, f)
           \/ \E deleted \in BOOLEAN : PasswordRecoverTell(r, deleted)
    PROVE  SerialInv' /\ FactorStep
<1>1. ASSUME NEW new \in Password, NEW k \in Key, PasswordRecover(r, new, k)
      PROVE  SerialInv' /\ FactorStep
  <2>1. StatusOn => Fits([op |-> "recover2FA", row |-> row, new |-> new], row, mem)
    BY DEF Fits, StatusOn, On
  <2>2. Fits([op |-> "recoverPass", new |-> new, key |-> None, saved |-> TRUE], row, mem)
    BY DEF Fits
  <2>3. PICK q : Begin(r, q) /\ Fits(q, row, mem)
    BY <1>1, <2>1, <2>2 DEF PasswordRecover
  <2> QED
    BY <1>1, <2>3, ReadStep DEF PasswordRecover
<1>2. ASSUME NEW f \in SUBSET Fault, NEW k \in Key, PasswordRecover2FA(r, k, f)
      PROVE  SerialInv' /\ FactorStep
  <2> DEFINE h == GetHash(req[r].new)
             text == row.backup.text
             new == [status |-> "on", main |-> Encrypt(text, h),
                     backup |-> Encrypt(text, GetHash(k)), uuid |-> GetHash(k)]
             saved == f = {}
             q == [op |-> "recoverPass", new |-> req[r].new, key |-> k, saved |-> saved]
  <2>1. req[r].op = "recover2FA" /\ req[r].row = row /\ On(row) /\ req[r] \in InFlight
    BY <1>2 DEF PasswordRecover2FA, SerialInv, Fits, Inv, RequestsOK
  <2>2. h \in HashKey
    BY <2>1, RequestFields DEF HashKey
  <2>3. row.backup \in Cipher /\ row.status = "on"
    BY <2>1, RowOn DEF On, StatusOn, Inv
  <2>4. text \in Secret
    BY <2>3 DEF Cipher
  <2>5. /\ row' = Committed(f, new, row) /\ mem' = mem /\ untold' = TRUE
        /\ req' = [req EXCEPT ![r] = q]
    BY <1>2, <2>1, <2>3 DEF PasswordRecover2FA, Continue
  <2>6. row' = new \/ (row' = row /\ ~saved)
    BY <2>5 DEF Committed
  <2> HIDE DEF text, h
  <2>7. /\ On(new) /\ new.main.text = text /\ new.backup.text = text
        /\ Knows(new, k) /\ SecretOf(new) = text
    BY <2>2, <2>4, TwoCopies
  <2> HIDE DEF new, saved
  <2>8. k # None /\ (saved => Knows(row', k))
    BY <2>6, <2>7, TwoFactorAssumption
  <2>9. Fits(q, row', mem')
    BY <2>8, KeyFits, Zenon
  <2>10. mem # None /\ mem.secret # None => mem.secret = text
    BY <2>1 DEF SerialInv, Agrees, text
  <2>11. Agrees(new, mem') /\ Agrees(row, mem')
    BY <2>5, <2>7, <2>10 DEF Agrees, SerialInv
  <2>12. Agrees(row', mem')
    BY <2>6, <2>11
  <2>13. Known(row', disclosed', untold')
    BY <2>5 DEF Known
  <2>14. FactorStep
    BY <2>1, <2>6, <2>7 DEF FactorStep, SecretOf, text
  <2> HIDE DEF q
  <2> QED
    BY <2>5, <2>9, <2>12, <2>13, <2>14, SerialStep
<1>3. ASSUME NEW f \in SUBSET Fault, PasswordRecoverSave(r, f) PROVE SerialInv' /\ FactorStep
  <2> DEFINE q == [op |-> "recovered", key |-> req[r].key, saved |-> req[r].saved]
  <2>1. /\ mem' = mem /\ UNCHANGED <<row, told>> /\ req' = [req EXCEPT ![r] = q]
        /\ Fits(req[r], row, mem) /\ req[r].op = "recoverPass"
    BY <1>3 DEF PasswordRecoverSave, Continue, SerialInv
  <2>2. req[r].key # None /\ req[r].saved /\ On(row) => Knows(row, req[r].key)
    BY <2>1 DEF Fits
  <2>3. Fits(q, row, mem')
    BY <2>2 DEF Fits
  <2>4. Agrees(row, mem')
    BY <2>1 DEF SerialInv
  <2> HIDE DEF q
  <2> QED
    BY <2>1, <2>3, <2>4, QuietStep
<1>4. ASSUME NEW deleted \in BOOLEAN, PasswordRecoverTell(r, deleted) PROVE SerialInv' /\ FactorStep
  <2>1. /\ row' = row /\ mem' = mem /\ req' = [req EXCEPT ![r] = Idle]
        /\ Fits(req[r], row, mem) /\ req[r].op = "recovered"
    BY <1>4 DEF PasswordRecoverTell, Finish, SerialInv
  <2>2. Agrees(row', mem') /\ Fits(Idle, row', mem')
    BY <2>1, IdleFits DEF SerialInv
  <2>3. Known(row', disclosed', untold')
    <3>1. CASE req[r].key # None
      <4>1. disclosed' = req[r].key /\ untold' = ~req[r].saved
        BY <1>4, <3>1 DEF PasswordRecoverTell
      <4>2. ~untold' => req[r].saved
        BY <4>1, Zenon
      <4>3. req[r].saved /\ On(row) => Knows(row, req[r].key)
        BY <2>1, <3>1 DEF Fits
      <4> QED
        BY <2>1, <3>1, <4>1, <4>2, <4>3 DEF Known
    <3>2. CASE req[r].key = None
      BY <1>4, <2>1, <3>2 DEF PasswordRecoverTell, told, SerialInv
    <3> QED
      BY <3>1, <3>2
  <2> QED
    BY <2>1, <2>2, <2>3, SerialStep DEF FactorStep
<1> QED
  BY <1>1, <1>2, <1>3, <1>4

LEMMA SerialHolds ==
    ASSUME Serial
    PROVE  /\ TwoFASpec => []SerialInv
           /\ TwoFASpec => [][FactorStep]_twoFAVars
<1>1. TwoFAInit => SerialInv
  <2> SUFFICES ASSUME TwoFAInit PROVE SerialInv
    OBVIOUS
  <2>1. ~On(row) /\ mem = None
    BY DEF TwoFAInit, On
  <2>2. \A r \in Request : req[r] = Idle
    BY DEF TwoFAInit
  <2> QED
    BY <2>1, <2>2, IdleFits DEF SerialInv, Agrees, Known
<1>2. Inv /\ SerialInv /\ [TwoFANext]_twoFAVars => SerialInv' /\ FactorStep
  <2> SUFFICES ASSUME Inv, SerialInv, [TwoFANext]_twoFAVars PROVE SerialInv' /\ FactorStep
    OBVIOUS
  <2>1. CASE TwoFANext
    <3>1. CASE \/ \E c \in Claim : Logout(c) \/ TokensExpire(c)
               \/ PasswordForgot \/ ResetExpires \/ Restart
      BY <3>1, SerialRestart, SerialEnvironment
    <3>2. ASSUME NEW r \in Request, Activate2FAWrong(r) \/ WriteFails(r)
          PROVE  SerialInv' /\ FactorStep
      BY <3>2, SerialActivate, SerialWriteFails
    <3>3. ASSUME NEW r \in Request, NEW f \in SUBSET Fault,
                 \/ LoginIssue(r, f) \/ RefreshIssue(r, f)
                 \/ Activate2FATell(r, f) \/ Deactivate2FASave(r, f) \/ Deactivate2FACodes(r, f)
                 \/ Validate2FASave(r, f)
                 \/ CreateBackup2FADelete(r, f) \/ ValidateBackup2FADelete(r, f)
                 \/ PasswordUpdate2FA(r, f) \/ PasswordUpdateSave(r, f) \/ PasswordRecoverSave(r, f)
                 \/ \E k \in Key : Activate2FASave(r, k, f) \/ PasswordRecover2FA(r, k, f)
                 \/ \E batch \in SUBSET Code : CreateBackup2FASave(r, batch, f)
          PROVE  SerialInv' /\ FactorStep
      BY <3>3, SerialSession, SerialActivate, SerialDeactivate, SerialValidate, SerialBackup,
         SerialPasswordUpdate, SerialPasswordRecover
    <3>4. ASSUME NEW r \in Request,
                 \/ \E p \in Password : Login(r, p)
                 \/ \E s \in Secret : Setup2FASave(r, s)
                 \/ \E deleted \in BOOLEAN : PasswordRecoverTell(r, deleted)
                 \/ \E new \in Password, k \in Key : PasswordRecover(r, new, k)
          PROVE  SerialInv' /\ FactorStep
      BY <3>4, SerialSession, SerialSetup, SerialPasswordRecover
    <3>5. ASSUME NEW r \in Request, NEW c \in Claim,
                 \/ Refresh(r, c)
                 \/ \E p \in Password : Setup2FA(r, c, p) \/ Deactivate2FA(r, c, p)
                                        \/ CreateBackup2FA(r, c, p)
                 \/ \E p, new \in Password : PasswordUpdate(r, c, p, new)
                 \/ \E otp \in Secret : Activate2FA(r, c, otp) \/ Validate2FA(r, c, otp)
                 \/ \E code \in Code : ValidateBackup2FA(r, c, code)
          PROVE  SerialInv' /\ FactorStep
      BY <3>5, SerialSession, SerialSetup, SerialActivate, SerialDeactivate, SerialValidate,
         SerialBackup, SerialPasswordUpdate
    <3> QED
      BY <2>1, <3>1, <3>2, <3>3, <3>4, <3>5 DEF TwoFANext
  <2>2. CASE UNCHANGED twoFAVars
    BY <2>2, SerialSame DEF twoFAVars
  <2> QED
    BY <2>1, <2>2
<1> QED
  BY <1>1, <1>2, InvHolds, PTL DEF TwoFASpec

\* With one request at a time, and failures and restarts at any step: Validate2FA
\* checks an OTP with the account's own secret, from memory or from either copy.
THEOREM SecretIsOne == ASSUME Serial PROVE TwoFASpec => []OneSecret
<1>1. SerialInv => OneSecret
  BY DEF SerialInv, Agrees, On, OneSecret, StatusOn
<1> QED
  BY <1>1, SerialHolds, PTL

\* With one request at a time, and failures and restarts at any step: the recovery
\* key that Activate2FA or PasswordRecover told the user, after a commit that went
\* through, is the one the account's row is sealed with until another is made.
THEOREM RecoveryKeyOpens == ASSUME Serial PROVE TwoFASpec => []RecoveryKeyWorks
<1>1. Inv /\ SerialInv => RecoveryKeyWorks
  <2> SUFFICES ASSUME Inv, SerialInv, StatusOn, ~untold
               PROVE  disclosed # None /\ row.uuid = GetHash(disclosed) /\ Opens(row.backup, row.uuid)
    BY DEF RecoveryKeyWorks
  <2>1. On(row)
    BY DEF On, StatusOn
  <2>2. Knows(row, disclosed)
    BY <2>1 DEF SerialInv, Known
  <2>3. Opens(row.backup, row.uuid)
    BY <2>1 DEF Inv, RowOK, IntactRow, On
  <2> QED
    BY <2>2, <2>3 DEF Knows
<1> QED
  BY <1>1, InvHolds, SerialHolds, PTL

\* With one request at a time, the handlers implement SecondFactor: a secret is
\* enrolled only where there is none, and nothing but switching it off replaces it.
THEOREM FactorImplemented == ASSUME Serial PROVE TwoFASpec => FactorSpec
<1>1. TwoFAInit => Factor!Init
  BY DEF TwoFAInit, Factor!Init, StatusOn
<1>2. [FactorStep]_twoFAVars => [Factor!Next]_(IF StatusOn THEN row.backup.text ELSE None)
  <2> SUFFICES ASSUME [FactorStep]_twoFAVars
               PROVE  [Factor!Next]_(IF StatusOn THEN row.backup.text ELSE None)
    OBVIOUS
  <2>1. /\ (IF StatusOn THEN row.backup.text ELSE None) = SecretOf(row)
        /\ (IF StatusOn THEN row.backup.text ELSE None)' = SecretOf(row')
    BY DEF StatusOn, SecretOf, On
  <2>2. FactorStep
    BY DEF FactorStep, twoFAVars
  <2> QED
    BY <2>1, <2>2 DEF FactorStep, Factor!Next, Factor!Enable, Factor!Disable
<1> QED
  BY <1>1, <1>2, SerialHolds, PTL DEF TwoFASpec, FactorSpec, Factor!Spec

=============================================================================
