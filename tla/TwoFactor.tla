----------------------------- MODULE TwoFactor -----------------------------
(***************************************************************************)
(* One user account's password, second factor and sessions: the handlers   *)
(* of handler/twoFA.go, handler/passwordReset.go, handler/login.go and     *)
(* handler/logout.go behind the controllers and the middleware that guard  *)
(* them.  Every handler first reads what it needs (the token's claims, the *)
(* rows of auths, two_fas and two_fa_backups, the secret kept in memory)   *)
(* and then writes, each database transaction being a step of its own: a   *)
(* row is written back whole, as it was read, and nothing is locked in     *)
(* between.  A write that fails ends the request; a commit that fails goes *)
(* unnoticed, as no handler looks at the result of tx.Commit().  Requests  *)
(* that are refused change nothing and are left out.                       *)
(***************************************************************************)
EXTENDS Naturals, FiniteSets

CONSTANTS
    Password,    \* what a user may choose as a password
    Secret,      \* TOTP secrets
    Key,         \* recovery keys
    Code,        \* 2FA backup codes
    BatchSize,   \* codes per batch (10 in the code)
    Request,     \* requests that may be in flight at the same time
    Feature,     \* the services switched on in .env
    MaxFaults,   \* bound: steps that meet a failure, and process restarts
    MaxResets,   \* bound: password recovery codes outstanding in Redis
    None

ASSUME TwoFactorAssumption ==
    /\ Password # {} /\ Secret # {} /\ Key # {}
    /\ Password \cap Key = {}
    /\ BatchSize \in Nat \ {0}
    /\ MaxFaults \in Nat /\ MaxResets \in Nat
    /\ None \notin Password \cup Secret \cup Key \cup Code

VARIABLES
    password,   \* auths.password: the argon2id hash
    row,        \* the account's first row of two_fas, None before there is one
    mem,        \* model.InMemorySecret2FA[authID]
    codes,      \* the account's rows of two_fa_backups
    resets,     \* unexpired password recovery codes in Redis
    tokens,     \* claims of the unexpired tokens issued to the user
    blacklist,  \* of those, the claims whose tokens were all logged out
    req,        \* per request: the handler it is in and what that has read
    disclosed,  \* history: the recovery key last returned to the user
    untold,     \* history: since a recovery key was made, no handler that saved it returned it
    faults      \* failures and restarts so far

accountVars == <<password, row, codes, resets>>
live == <<tokens, blacklist>>
told == <<disclosed, untold>>
twoFAVars == <<password, row, mem, codes, resets, live, req, told, faults>>

-----------------------------------------------------------------------------
(* Hashes and ciphers, as far as handlers can tell them apart. *)

\* lib.HashPass and argon2.ComparePasswordAndHash
HashPass(p) == [argon2 |-> p]
ComparePasswordAndHash(p, h) == h = HashPass(p)

\* service.GetHash: the AES key made of a password or a recovery key
GetHash(x) == [sha |-> x]

\* lib.Encrypt and lib.Decrypt: AES-GCM opens with the key that sealed it.
Encrypt(text, key) == [text |-> text, key |-> key]
Opens(cipher, key) == cipher # None /\ cipher.key = key

HashKey == {GetHash(x) : x \in Password \cup Key}
Cipher == [text : Secret, key : HashKey]

\* model.TwoFA, with UUIDSHA and UUIDEnc as the key that opens UUIDEnc
TwoFA == [status : {"on", "off"}, main : Cipher \cup {None},
          backup : Cipher \cup {None}, uuid : HashKey \cup {None}]

\* model.Secret2FA
Secret2FA == [pass : HashKey, secret : Secret \cup {None}]

\* No cipher and no hash is an empty column, and no row is a missing one.
ASSUME NoneAssumption == None \notin Cipher \cup HashKey \cup TwoFA

\* claims.TwoFA: "" for an account that never had a second factor
Claim == {"", "off", "on", "verified"}

Idle == [op |-> "idle"]

InFlight ==
    {Idle}
    \cup [op : {"login"}, pass : Password, claim : Claim]
    \cup [op : {"refresh"}, claim : Claim]
    \cup [op : {"setup"}, pass : Password]
    \cup [op : {"activate", "validate"}, data : Secret2FA, row : TwoFA \cup {None}, ok : BOOLEAN]
    \cup [op : {"deactivate"}, row : TwoFA \cup {None}]
    \cup [op : {"deactivateCodes"}, claim : Claim]
    \cup [op : {"backupDelete"}, old : SUBSET Code]
    \cup [op : {"backupCreate"}]
    \cup [op : {"backupUse"}, code : Code]
    \cup [op : {"update2FA", "recover2FA"}, row : TwoFA, new : Password]
    \cup [op : {"updatePass"}, new : Password]
    \cup [op : {"recoverPass"}, new : Password, key : Key \cup {None}, saved : BOOLEAN]
    \cup [op : {"activated", "recovered"}, key : Key \cup {None}, saved : BOOLEAN]

TwoFATypeOK ==
    /\ password \in {HashPass(p) : p \in Password}
    /\ row \in TwoFA \cup {None}
    /\ mem \in Secret2FA \cup {None}
    /\ codes \in SUBSET Code
    /\ resets \in 0 .. MaxResets
    /\ tokens \in SUBSET Claim /\ blacklist \in SUBSET tokens
    /\ req \in [Request -> InFlight]
    /\ disclosed \in Key \cup {None}
    /\ untold \in BOOLEAN
    /\ faults \in 0 .. MaxFaults

\* A registered, verified account without a second factor; nobody is logged in.
TwoFAInit ==
    /\ password \in {HashPass(p) : p \in Password}
    /\ row = None
    /\ mem = None
    /\ codes = {}
    /\ resets = 0
    /\ tokens = {} /\ blacklist = {}
    /\ req = [r \in Request |-> Idle]
    /\ disclosed = None
    /\ untold = FALSE
    /\ faults = 0

-----------------------------------------------------------------------------
(* What guards a handler. *)

\* The switches a controller looks at before it calls its handler.
Enabled(services) == services \subseteq Feature

\* middleware.JWT and middleware.RefreshJWT: the request carries a token with
\* claim c, signed and not expired; refresh and logout take a pair of tokens.
JWT(c) == c \in tokens
RefreshJWT(c) == JWT(c)

\* service.IsTokenAllowed: not on the blacklist, if there is one
IsTokenAllowed(c) == Enabled({"jwt", "redis", "invalidateJWT"}) => c \notin blacklist

\* service.JWTBlacklistChecker behind middleware.JWT: what every route below asks for
TokenAllowed(c) == JWT(c) /\ IsTokenAllowed(c)

\* middleware.TwoFA, for the routes that ask for it
TwoFAMiddleware(c) == c \in {"", "off", "verified"}

\* createAuthMiddleware of the router
AuthMiddleware(c) == TokenAllowed(c) /\ (Enabled({"2fa"}) => TwoFAMiddleware(c))

TwoFAServices == {"rdbms", "jwt", "2fa"}

\* The routes with their controllers: what must hold before a handler is called.
LoginRoute == Enabled({"rdbms", "jwt"})
RefreshRoute(c) == Enabled({"jwt"}) /\ TokenAllowed(c) /\ RefreshJWT(c)
LogoutRoute(c) == Enabled({"jwt"}) /\ TokenAllowed(c) /\ RefreshJWT(c)
Setup2FARoute(c) == Enabled(TwoFAServices) /\ TokenAllowed(c)
Activate2FARoute(c) == Enabled(TwoFAServices) /\ TokenAllowed(c)
Validate2FARoute(c) == Enabled(TwoFAServices) /\ TokenAllowed(c)
ValidateBackup2FARoute(c) == Enabled(TwoFAServices) /\ TokenAllowed(c)
Deactivate2FARoute(c) == Enabled(TwoFAServices) /\ TokenAllowed(c) /\ TwoFAMiddleware(c)
CreateBackup2FARoute(c) == Enabled(TwoFAServices) /\ TokenAllowed(c) /\ TwoFAMiddleware(c)
PasswordUpdateRoute(c) == Enabled({"rdbms", "jwt"}) /\ AuthMiddleware(c)
PasswordForgotRoute == Enabled({"rdbms", "redis", "email", "recover"})
PasswordRecoverRoute == Enabled({"rdbms", "redis", "email"})

StatusOn == row # None /\ row.status = "on"
StatusOf(r) == IF r = None THEN "" ELSE r.status

Begin(r, state) == req[r] = Idle /\ req' = [req EXCEPT ![r] = state]
Continue(r, state) == req' = [req EXCEPT ![r] = state]
Finish(r) == req' = [req EXCEPT ![r] = Idle]

\* What may go wrong on the way without ending the handler at once: a commit
\* (or a write whose failure is only logged), lib.Encrypt where its error is
\* only logged, and GetJWT, after which the answer is 500.
Fault == {"commit", "encrypt", "jwt"}

\* A step that may meet the failures possible meets those in f.
Meets(f, possible) ==
    /\ f \subseteq possible
    /\ IF f = {} THEN UNCHANGED faults ELSE faults < MaxFaults /\ faults' = faults + 1

\* What a column holds after a transaction that would make it new.
Committed(f, new, old) == IF "commit" \in f THEN old ELSE new

\* middleware.GetJWT, once for each kind of token: the client now holds tokens
\* with claim c, unless one of them could not be made.
GetJWT(c, f) ==
    IF "jwt" \in f THEN UNCHANGED live
    ELSE tokens' = tokens \cup {c} /\ blacklist' = blacklist \ {c}

\* Secrets and recovery keys come from a random source: never one in use.
RowsRead == {row} \cup {req[r].row : r \in {q \in Request : "row" \in DOMAIN req[q]}}
MemRead == {mem} \cup {req[r].data : r \in {q \in Request : "data" \in DOMAIN req[q]}}
FreshSecret == {s \in Secret : /\ \A d \in MemRead \ {None} : d.secret # s
                               /\ \A w \in RowsRead \ {None} :
                                    \A c \in {w.main, w.backup} \ {None} : c.text # s}
FreshKey == {k \in Key : /\ k # disclosed
                         /\ \A w \in RowsRead \ {None} : w.uuid # GetHash(k)
                         /\ \A r \in Request : "key" \in DOMAIN req[r] => req[r].key # k}

\* A database write fails: it is rolled back, the handler answers 500 and ends.
WriteFails(r) ==
    /\ req[r].op \in {"activate", "deactivate", "backupDelete", "backupCreate", "backupUse",
                      "update2FA", "updatePass", "recover2FA", "recoverPass"}
    /\ req[r].op = "activate" => req[r].ok
    /\ req[r].op = "deactivate" => StatusOf(req[r].row) = "on"
    /\ faults < MaxFaults
    /\ faults' = faults + 1
    /\ Finish(r)
    /\ UNCHANGED <<accountVars, mem, live, told>>

\* The process stops and starts again: memory and requests are gone.
Restart ==
    /\ faults < MaxFaults
    /\ faults' = faults + 1
    /\ mem' = None
    /\ req' = [r \in Request |-> Idle]
    /\ UNCHANGED <<accountVars, live, told>>

-----------------------------------------------------------------------------
(* Sessions: login, refresh, logout. *)

\* Login: the password fits; the status of the second factor becomes a claim.
Login(r, p) ==
    /\ LoginRoute
    /\ ComparePasswordAndHash(p, password)
    /\ Begin(r, [op |-> "login", pass |-> p,
                 claim |-> IF Enabled({"2fa"}) THEN StatusOf(row) ELSE ""])
    /\ UNCHANGED <<accountVars, mem, live, told, faults>>

\* ... with the second factor on, the hashed password waits in memory for the
\* OTP; tokens are issued.
LoginIssue(r, f) ==
    /\ req[r].op = "login"
    /\ Meets(f, {"jwt"})
    /\ mem' = IF req[r].claim = "on" THEN [pass |-> GetHash(req[r].pass), secret |-> None] ELSE mem
    /\ GetJWT(req[r].claim, f)
    /\ Finish(r)
    /\ UNCHANGED <<accountVars, told>>

\* Refresh: a pair of tokens that passed the middleware ...
Refresh(r, c) ==
    /\ RefreshRoute(c)
    /\ Begin(r, [op |-> "refresh", claim |-> c])
    /\ UNCHANGED <<accountVars, mem, live, told, faults>>

\* ... is exchanged for a new one with the same claims.
RefreshIssue(r, f) ==
    /\ req[r].op = "refresh"
    /\ Meets(f, {"jwt"})
    /\ GetJWT(req[r].claim, f)
    /\ Finish(r)
    /\ UNCHANGED <<accountVars, mem, told>>

\* Logout puts both tokens on the blacklist in Redis until they expire; other
\* tokens with the same claims may remain.
Logout(c) ==
    /\ LogoutRoute(c) /\ Enabled({"redis"})
    /\ blacklist' = blacklist \cup {c}
    /\ UNCHANGED <<accountVars, mem, tokens, req, told, faults>>

\* The last tokens with these claims expire, and their blacklist entries with them.
TokensExpire(c) ==
    /\ c \in tokens
    /\ tokens' = tokens \ {c} /\ blacklist' = blacklist \ {c}
    /\ UNCHANGED <<accountVars, mem, req, told, faults>>

-----------------------------------------------------------------------------
(* Switching the second factor on and off. *)

\* Mutant: the row of two_fas is not looked at.
Setup2FAByToken(r, c, p) ==
    /\ Setup2FARoute(c) /\ c \notin {"verified", "on"}
    /\ ComparePasswordAndHash(p, password)
    /\ Begin(r, [op |-> "setup", pass |-> p])
    /\ UNCHANGED <<accountVars, mem, live, told, faults>>

\* Setup2FA: not with the factor on, by the token or by the database; the
\* password is asked for again.
Setup2FA(r, c, p) ==
    /\ Setup2FARoute(c) /\ c \notin {"verified", "on"}
    /\ ~StatusOn
    /\ ComparePasswordAndHash(p, password)
    /\ Begin(r, [op |-> "setup", pass |-> p])
    /\ UNCHANGED <<accountVars, mem, live, told, faults>>

\* Mutant: the hash of the password is not kept.
Setup2FASaveNoHash(r, s) ==
    /\ req[r].op = "setup"
    /\ s \in FreshSecret
    /\ mem' = [pass |-> None, secret |-> s]
    /\ Finish(r)
    /\ UNCHANGED <<accountVars, live, told, faults>>

\* ... a new secret, shown as a QR code, waits in memory with the hashed password.
Setup2FASave(r, s) ==
    /\ req[r].op = "setup"
    /\ s \in FreshSecret
    /\ mem' = [pass |-> GetHash(req[r].pass), secret |-> s]
    /\ Finish(r)
    /\ UNCHANGED <<accountVars, live, told, faults>>

\* Activate2FA: the OTP is checked with the secret in memory.  When the factor
\* turns out to be on already, the secret in memory is dropped.
Activate2FA(r, c, otp) ==
    /\ Activate2FARoute(c) /\ c \notin {"verified", "on"}
    /\ mem # None /\ mem.secret # None
    /\ IF otp = mem.secret /\ StatusOn
       THEN req[r] = Idle /\ mem' = None /\ UNCHANGED req
       ELSE /\ Begin(r, [op |-> "activate", data |-> mem, row |-> row, ok |-> otp = mem.secret])
            /\ UNCHANGED mem
    /\ UNCHANGED <<accountVars, live, told, faults>>

\* ... the secret is saved twice, sealed with the password and with a new
\* recovery key.  Without a row the handler creates one; id_auth is no unique
\* key, so next to a row created since it becomes a second one, which no First()
\* finds.
Activate2FASave(r, k, f) ==
    /\ req[r].op = "activate" /\ req[r].ok
    /\ k \in FreshKey
    /\ Meets(f, {"commit"})
    /\ LET data == req[r].data
           new == [status |-> "on", main |-> Encrypt(data.secret, data.pass),
                   backup |-> Encrypt(data.secret, GetHash(k)), uuid |-> GetHash(k)]
       IN  row' = IF req[r].row = None /\ row # None THEN row ELSE Committed(f, new, row)
    /\ untold' = TRUE
    /\ Continue(r, [op |-> "activated", key |-> k, saved |-> f = {}])
    /\ UNCHANGED <<password, mem, codes, resets, live, disclosed>>

\* ... the secret in memory is dropped, and the user gets verified tokens and
\* the recovery key, or neither.
Activate2FATell(r, f) ==
    /\ req[r].op = "activated"
    /\ Meets(f, {"jwt"})
    /\ mem' = None
    /\ GetJWT("verified", f)
    /\ IF f = {} THEN disclosed' = req[r].key /\ untold' = ~req[r].saved ELSE UNCHANGED told
    /\ Finish(r)
    /\ UNCHANGED accountVars

\* ... a wrong OTP only updates the attempts kept with the secret in memory.
Activate2FAWrong(r) ==
    /\ req[r].op = "activate" /\ ~req[r].ok
    /\ mem' = req[r].data
    /\ Finish(r)
    /\ UNCHANGED <<accountVars, live, told, faults>>

\* Deactivate2FA: behind the middleware only a verified token gets this far.
Deactivate2FA(r, c, p) ==
    /\ Deactivate2FARoute(c) /\ c \notin {"", "off"}
    /\ ComparePasswordAndHash(p, password)
    /\ Begin(r, [op |-> "deactivate", row |-> row])
    /\ UNCHANGED <<accountVars, mem, live, told, faults>>

\* ... the keys are removed from the row.
Deactivate2FASave(r, f) ==
    /\ req[r].op = "deactivate"
    /\ Meets(f, {"commit"})
    /\ row' = IF StatusOf(req[r].row) = "on"
              THEN Committed(f, [status |-> "off", main |-> None, backup |-> None, uuid |-> None], row)
              ELSE row
    /\ Continue(r, [op |-> "deactivateCodes",
                    claim |-> IF req[r].row = None THEN "" ELSE "off"])
    /\ UNCHANGED <<password, mem, codes, resets, live, told>>

\* ... the backup codes are deleted, or a failure to do so is logged.
Deactivate2FACodes(r, f) ==
    /\ req[r].op = "deactivateCodes"
    /\ Meets(f, {"commit", "jwt"})
    /\ codes' = Committed(f, {}, codes)
    /\ GetJWT(req[r].claim, f)
    /\ Finish(r)
    /\ UNCHANGED <<password, row, mem, resets, told>>

-----------------------------------------------------------------------------
(* Passing the second factor. *)

\* The secret an OTP is checked with: the one in memory from an attempt before,
\* otherwise the row's, opened with the password of the login.
SecretFor(data) == IF data.secret # None THEN data.secret ELSE row.main.text

\* Validate2FA: for tokens that say "on", with the hashed password in memory.
Validate2FA(r, c, otp) ==
    /\ Validate2FARoute(c) /\ c = "on"
    /\ mem # None
    /\ StatusOn
    /\ mem.secret # None \/ Opens(row.main, mem.pass)
    /\ Begin(r, [op |-> "validate", data |-> [mem EXCEPT !.secret = SecretFor(mem)],
                 row |-> row, ok |-> otp = SecretFor(mem)])
    /\ UNCHANGED <<accountVars, mem, live, told, faults>>

\* ... either way the secret with its attempts is sealed again and the row that
\* was read saved with it (a failure is logged); a good OTP ends the procedure
\* with verified tokens, a bad one leaves the secret in memory and, when the
\* secret cannot be sealed, saves an empty main key.
Validate2FASave(r, f) ==
    /\ req[r].op = "validate"
    /\ Meets(f, IF req[r].ok THEN {"commit", "jwt"} ELSE {"commit", "encrypt"})
    /\ LET data == req[r].data
           main == IF "encrypt" \in f THEN None ELSE Encrypt(data.secret, data.pass)
       IN  /\ row' = Committed(f, [req[r].row EXCEPT !.main = main], row)
           /\ IF req[r].ok THEN mem' = None /\ GetJWT("verified", f)
                           ELSE mem' = data /\ UNCHANGED live
    /\ Finish(r)
    /\ UNCHANGED <<password, codes, resets, told>>

\* CreateBackup2FA: for verified tokens, with the password; reads the codes to
\* be replaced.
CreateBackup2FA(r, c, p) ==
    /\ CreateBackup2FARoute(c) /\ c = "verified"
    /\ ComparePasswordAndHash(p, password)
    /\ Begin(r, IF codes = {} THEN [op |-> "backupCreate"]
                              ELSE [op |-> "backupDelete", old |-> codes])
    /\ UNCHANGED <<accountVars, mem, live, told, faults>>

\* ... deletes them in one transaction ...
CreateBackup2FADelete(r, f) ==
    /\ req[r].op = "backupDelete"
    /\ Meets(f, {"commit"})
    /\ codes' = Committed(f, codes \ req[r].old, codes)
    /\ Continue(r, [op |-> "backupCreate"])
    /\ UNCHANGED <<password, row, mem, resets, live, told>>

\* ... and saves a batch of new ones in another.
CreateBackup2FASave(r, batch, f) ==
    /\ req[r].op = "backupCreate"
    /\ Meets(f, {"commit"})
    /\ Cardinality(batch) = BatchSize /\ batch \cap codes = {}
    /\ \A q \in Request : req[q].op = "backupUse" => req[q].code \notin batch
    /\ codes' = Committed(f, codes \cup batch, codes)
    /\ Finish(r)
    /\ UNCHANGED <<password, row, mem, resets, live, told>>

\* ValidateBackup2FA: the code's hash is among the ones read.
ValidateBackup2FA(r, c, code) ==
    /\ ValidateBackup2FARoute(c) /\ c = "on"
    /\ code \in codes
    /\ Begin(r, [op |-> "backupUse", code |-> code])
    /\ UNCHANGED <<accountVars, mem, live, told, faults>>

\* ... it is deleted (deleting a row that is gone is no error) and accepted,
\* also when the commit of the delete fails.
ValidateBackup2FADelete(r, f) ==
    /\ req[r].op = "backupUse"
    /\ Meets(f, {"commit", "jwt"})
    /\ codes' = Committed(f, codes \ {req[r].code}, codes)
    /\ GetJWT("verified", f)
    /\ Finish(r)
    /\ UNCHANGED <<password, row, mem, resets, told>>

-----------------------------------------------------------------------------
(* Changing and recovering the password. *)

\* PasswordUpdate: with the factor on, the old password must open the main key,
\* which is sealed anew with the new one.
PasswordUpdate(r, c, old, new) ==
    /\ PasswordUpdateRoute(c)
    /\ ComparePasswordAndHash(old, password)
    /\ IF Enabled({"2fa"}) /\ StatusOn
       THEN /\ Opens(row.main, GetHash(old))
            /\ Begin(r, [op |-> "update2FA", new |-> new,
                         row |-> [row EXCEPT !.main = Encrypt(row.main.text, GetHash(new))]])
       ELSE Begin(r, [op |-> "updatePass", new |-> new])
    /\ UNCHANGED <<accountVars, mem, live, told, faults>>

\* ... first the row of two_fas is saved ...
PasswordUpdate2FA(r, f) ==
    /\ req[r].op = "update2FA"
    /\ Meets(f, {"commit"})
    /\ row' = Committed(f, req[r].row, row)
    /\ Continue(r, [op |-> "updatePass", new |-> req[r].new])
    /\ UNCHANGED <<password, mem, codes, resets, live, told>>

\* ... then, in another transaction, the row of auths.
PasswordUpdateSave(r, f) ==
    /\ req[r].op = "updatePass"
    /\ Meets(f, {"commit"})
    /\ password' = Committed(f, HashPass(req[r].new), password)
    /\ Finish(r)
    /\ UNCHANGED <<row, mem, codes, resets, live, told>>

\* PasswordForgot, with service.SendEmail: a recovery code is stored and mailed.
PasswordForgot ==
    /\ PasswordForgotRoute
    /\ resets < MaxResets
    /\ resets' = resets + 1
    /\ UNCHANGED <<password, row, mem, codes, live, req, told, faults>>

\* A recovery code's time to live in Redis is over.
ResetExpires ==
    /\ resets > 0
    /\ resets' = resets - 1
    /\ UNCHANGED <<password, row, mem, codes, live, req, told, faults>>

\* A recovery key proves itself by the UUID and must open the backup key.
RecoveryKeyFits(k) == row.uuid = GetHash(k) /\ Opens(row.backup, GetHash(k))

\* PasswordRecover: a code in Redis, and with the factor on the recovery key.
PasswordRecover(r, new, k) ==
    /\ PasswordRecoverRoute
    /\ resets > 0
    /\ IF Enabled({"2fa"}) /\ StatusOn
       THEN /\ RecoveryKeyFits(k)
            /\ Begin(r, [op |-> "recover2FA", row |-> row, new |-> new])
       ELSE Begin(r, [op |-> "recoverPass", new |-> new, key |-> None, saved |-> TRUE])
    /\ UNCHANGED <<accountVars, mem, live, told, faults>>

\* Mutant: a new secret is made instead of opening the old one.
PasswordRecoverNewSecret(r, k, f) ==
    /\ req[r].op = "recover2FA"
    /\ k \in FreshKey
    /\ Meets(f, {"commit"})
    /\ \E text \in FreshSecret :
       row' = Committed(f, [status |-> req[r].row.status, main |-> Encrypt(text, GetHash(req[r].new)),
                            backup |-> Encrypt(text, GetHash(k)), uuid |-> GetHash(k)], row)
    /\ untold' = TRUE
    /\ Continue(r, [op |-> "recoverPass", new |-> req[r].new, key |-> k, saved |-> f = {}])
    /\ UNCHANGED <<password, mem, codes, resets, live, disclosed>>

\* Mutant: only the main key is sealed anew.
PasswordRecoverMainOnly(r, k, f) ==
    /\ req[r].op = "recover2FA"
    /\ k \in FreshKey
    /\ Meets(f, {"commit"})
    /\ LET main == Encrypt(req[r].row.backup.text, GetHash(req[r].new)) IN
       row' = Committed(f, [req[r].row EXCEPT !.main = main], row)
    /\ untold' = TRUE
    /\ Continue(r, [op |-> "recoverPass", new |-> req[r].new, key |-> k, saved |-> f = {}])
    /\ UNCHANGED <<password, mem, codes, resets, live, disclosed>>

\* ... both copies of the secret are sealed anew, one with a new recovery key;
PasswordRecover2FA(r, k, f) ==
    /\ req[r].op = "recover2FA"
    /\ k \in FreshKey
    /\ Meets(f, {"commit"})
    /\ LET text == req[r].row.backup.text
           new == [status |-> req[r].row.status, main |-> Encrypt(text, GetHash(req[r].new)),
                   backup |-> Encrypt(text, GetHash(k)), uuid |-> GetHash(k)]
       IN  row' = Committed(f, new, row)
    /\ untold' = TRUE
    /\ Continue(r, [op |-> "recoverPass", new |-> req[r].new, key |-> k, saved |-> f = {}])
    /\ UNCHANGED <<password, mem, codes, resets, live, disclosed>>

\* ... the password is saved in another transaction;
PasswordRecoverSave(r, f) ==
    /\ req[r].op = "recoverPass"
    /\ Meets(f, {"commit"})
    /\ password' = Committed(f, HashPass(req[r].new), password)
    /\ Continue(r, [op |-> "recovered", key |-> req[r].key, saved |-> req[r].saved])
    /\ UNCHANGED <<row, mem, codes, resets, live, told>>

\* ... the code is deleted from Redis (unless that fails or it is gone), and
\* only then the new recovery key, if one was made, told to the user.
PasswordRecoverTell(r, deleted) ==
    /\ req[r].op = "recovered"
    /\ IF deleted THEN resets > 0 /\ resets' = resets - 1 ELSE UNCHANGED resets
    /\ IF req[r].key # None THEN disclosed' = req[r].key /\ untold' = ~req[r].saved
                            ELSE UNCHANGED told
    /\ Finish(r)
    /\ UNCHANGED <<password, row, mem, codes, live, faults>>

-----------------------------------------------------------------------------
TwoFANext ==
    \/ \E r \in Request :
         \/ Activate2FAWrong(r) \/ WriteFails(r)
         \/ \E f \in SUBSET Fault :
              \/ LoginIssue(r, f) \/ RefreshIssue(r, f)
              \/ Activate2FATell(r, f) \/ Deactivate2FASave(r, f) \/ Deactivate2FACodes(r, f)
              \/ Validate2FASave(r, f)
              \/ CreateBackup2FADelete(r, f) \/ ValidateBackup2FADelete(r, f)
              \/ PasswordUpdate2FA(r, f) \/ PasswordUpdateSave(r, f) \/ PasswordRecoverSave(r, f)
              \/ \E k \in Key : Activate2FASave(r, k, f) \/ PasswordRecover2FA(r, k, f)
              \/ \E batch \in SUBSET Code : CreateBackup2FASave(r, batch, f)
         \/ \E p \in Password : Login(r, p)
         \/ \E s \in Secret : Setup2FASave(r, s)
         \/ \E deleted \in BOOLEAN : PasswordRecoverTell(r, deleted)
         \/ \E new \in Password, k \in Key : PasswordRecover(r, new, k)
         \/ \E c \in Claim :
              \/ Refresh(r, c)
              \/ \E p \in Password : Setup2FA(r, c, p) \/ Deactivate2FA(r, c, p)
                                     \/ CreateBackup2FA(r, c, p)
              \/ \E p, new \in Password : PasswordUpdate(r, c, p, new)
              \/ \E otp \in Secret : Activate2FA(r, c, otp) \/ Validate2FA(r, c, otp)
              \/ \E code \in Code : ValidateBackup2FA(r, c, code)
    \/ \E c \in Claim : Logout(c) \/ TokensExpire(c)
    \/ PasswordForgot \/ ResetExpires \/ Restart

TwoFASpec == TwoFAInit /\ [][TwoFANext]_twoFAVars

-----------------------------------------------------------------------------
\* With one request at a time: an OTP is checked with the account's own secret,
\* whether it comes from memory, from the copy sealed with the password or from
\* the one sealed with the recovery key.
OneSecret ==
    StatusOn => /\ row.main # None => row.main.text = row.backup.text
                /\ mem # None /\ mem.secret # None => mem.secret = row.backup.text

\* With one request at a time: a user who was told the recovery key that was
\* made last, by a handler whose commit went through, can open the account with
\* it, whatever failed and was done since.  (A stop, a failing write or GetJWT
\* between the commit and the answer, and a failing commit, leave the user
\* without it: untold.)
RecoveryKeyWorks ==
    (StatusOn /\ ~untold) =>
        disclosed # None /\ row.uuid = GetHash(disclosed) /\ Opens(row.backup, row.uuid)

\* With one request at a time, what the account promises: a second factor that
\* is switched on and off, and whose secret no password change, recovery,
\* validation or failure replaces.
Factor == INSTANCE SecondFactor WITH factor <- IF StatusOn THEN row.backup.text ELSE None
FactorSpec == Factor!Spec

=============================================================================
