# Wifigo in TLA+

Wifigo is the back end of a WiFi hotspot business: a customer asks for a plan,
pays with M-Pesa, gets a RADIUS account and is logged in on a MikroTik router,
and follows the progress over a WebSocket. This directory holds TLA+
specifications of that program, TLC configurations that check them on small
instances, and TLAPS proofs that hold for every instance.

## 1. The system

| Component | State | Operations | Interacts with |
|---|---|---|---|
| M-Pesa checkout (`server/controller/mpesa.go`, `server/handler/mpesa_stk.go`, `order.go`) | orders table, access token in Redis | `ExpressStkHandler`: check subscription, push, insert order | RADIUS tables, M-Pesa |
| M-Pesa callback (`server/handler/mpesa_callback.go`, `radius.go`) | none of its own | `MpesaStkHandlerCallback`, `ManageHotspotUser` | orders, RADIUS tables, queue client, hub |
| RADIUS accounts (`server/handler/hotspot_user.go`) | radcheck, radreply, radusergroup | create, update, delete, `IsUserExpired`, attribute and group edits | callback, checkout, administrator routes |
| Task queue (`queue/client.go`, `queue/server.go`) | tasks in Redis | `EnqueueTask`, retries, `GracefullyShutdown` | callback (client), queue handlers (server) |
| Payment recording (`queue/database_queue.go`, `server/service/mpesa.go`) | payments and orders tables | `SaveMpesaPayment` | hub |
| Hotspot login (`queue/mikrotik_queue.go`, `server/service/mikrotik.go`) | sessions on the router | `LoginHotspotDeviceByAddress` | device pools, hub |
| Device pools (`mikrotik/manager.go`) | map ID -> pool, channel of clients per pool | `AddDevice`, `RemoveDevice`, `Close`, `GetDevice`, `Execute` | RouterOS |
| Device service (`server/service/mikrotik_manager.go`, `server/handler/mikrotik.go`) | devices table | add, update, remove in table and manager | device pools |
| WebSocket hub (`websocket/hub.go`) | map IP -> connection, three channels, a mutex | `Run`, `HandleWebSocket`, `Send`, `SendToIP` | browsers; called by callback and queue workers |
| Start-up, shutdown (`main.go`) | | start all, stop on a signal | all |
| Sessions (`handler/login.go`, `logout.go`, `lib/middleware/jwt.go`, `service/security.go`) | tokens held by clients, blacklist in Redis | login, refresh, logout, the middleware | 2FA |
| Two-factor authentication (`handler/twoFA.go`) | `two_fas` and `two_fa_backups` tables, secrets in process memory | `Setup2FA`, `Activate2FA`, `Validate2FA`, `Deactivate2FA`, backup codes | sessions, passwords |
| Passwords and recovery (`handler/passwordReset.go`) | password hash in `auths`, recovery codes in Redis | `PasswordForgot`, `PasswordRecover`, `PasswordUpdate` | re-encrypts the 2FA keys; mail |
| Accounts and e-mail (`handler/auth.go`, `verification.go`, `service/common.go`) | `auths` and `temp_emails` tables, verification codes in Redis | register, verify, change the address, resend | mail, DNS |
| Badger store (`badger/badger.go`) | device configurations, ISP index, sessions | save, list, delete | no caller |
| Playground routes, middleware, configuration | | | |

What is hard here:

* **Concurrency.** Every request runs in its own goroutine; the queue server
  runs ten handlers at a time; the callback starts two goroutines of its own.
  They meet in MySQL (mostly without locks), Redis, the pools' channels and the
  hub's mutex.
* **Unreliable delivery.** M-Pesa may repeat a callback, or send it before the
  order is inserted. asynq delivers at least once: a task is repeated after an
  error, a timeout, a crash, or a shutdown, and its handler is not idempotent.
* **Partial failure.** A commit or a Redis command may take effect and still
  return an error; one of two enqueues may fail; the account handlers ignore the
  result of their commits.
* **Waiting.** The callback and the queue's handlers tell the browser through
  `SendToIP`, which waits for the hub's mutex as long as a peer that does not
  read keeps it.
* **Restarts.** On a signal `main` drains the queue server but not the HTTP
  handlers.
* **Whole-row writes.** The account and 2FA handlers read a row, do their work and
  save the row they read, without a lock; a change of password or of address is
  two transactions.
* **Shared memory.** Two administrator routes decode their bodies into one
  package-level variable; the secrets of a 2FA set-up live in a global map.
* **Stale references.** A worker keeps a pool that was removed; a reader
  goroutine unregisters an IP that a newer connection has taken over.

What makes the parts correct: nobody gets access without paying; an
acknowledged payment is never lost and in the end recorded; order and payments
agree; duplicates are bounded; the queue settles every task within its attempts;
a router connection has one user at a time and removed pools leak little; one goroutine
at a time writes to a WebSocket and a message reaches the client it is for; an
administrator's update leaves what it says and never takes a login away
unasked; an account is verified only with an address its user confirmed, and an
address belongs to one account; a second factor keeps its secret until it is
switched off, and the recovery key the user was told works.

## 2. The modules

| Module | Models | Depends on |
|---|---|---|
| `TaskQueue` | the task queue, including what the code relies on in asynq | |
| `Payments` | checkout, callback, RADIUS accounts, queue handlers, restarts | extends `TaskQueue` |
| `DevicePool` | the connection pools of one device | |
| `WsHub` | the WebSocket hub | |
| `RadiusUsers` | the administrator's routes on the RADIUS tables | |
| `TwoFactor` | password, second factor and sessions of one account | implements `SecondFactor` |
| `SecondFactor` | abstract: a second factor that is switched on and off | |
| `Accounts` | registration, verification and change of address | |
| `TaskQueueProofs`, `PaymentsProofs`, `DevicePoolProofs`, `WsHubProofs`, `RadiusUsersProofs`, `TwoFactorProofs`, `AccountsProofs` | theorems | extend the module they are about |
| `MCTaskQueue`, `MCPayments`, `MCDevicePool`, `MCWsHub`, `MCRadiusUsers`, `MCTwoFactor`, `MCAccounts` | instances for TLC | |

### TaskQueue

`task[t]` is the task's asynq state, queue and retry count; `late[t]` counts
handlers that outlived their timeout; `runs[t]` counts starts (history);
`restarts` counts stops of the process; `hubFree` is FALSE while `SendToIP` does
not return. `EnqueueTask` is `Client.EnqueueTask`
with its per-priority options (`CodeMaxRetry`). The rest is the life cycle asynq
gives a task under those options: `Dequeue` (at most `Concurrency`; the numbers
in the `Queues` map are weights, so any pending task may be next), `Complete`,
`Fail` (with `SkipRetry` for "is already logged in"), `Timeout` (no handler looks
at its context, so it goes on beside the retry and ends with `LateReturn`),
`Schedule`, `Crash` followed by `Recover`, and `GracefullyShutdown`, which puts
running tasks back without counting a retry. `Complete`, `Fail` and `Timeout` wait
for the hub: the handlers end with `SendToIP`, and asynq calls `NewErrorHandler`,
which does too, before it retries or archives the task. `HubStalls` and
`HubResumes` stand for what `WsHub` models in detail.

### Payments

The steps of a request are the accesses to shared stores; everything between two
of them is one action. `ExpressStkHandler` is `CheckSubscription`,
`SendStkPush`, `CreateOrder`. `MpesaStkHandlerCallback` is `Deliver`,
`LookupOrder`, then `ManageHotspotUser`: `ReadStatus` and `ReadExpiry` (the two
queries of `IsUserExpired`), `CountExisting` and `InsertUser`
(`CreateHotspotUser`) or `FindExisting` and `UpdateUser` (`UpdateHotspotUser`),
then `Notify` (the inline `SendToIP`, which waits while the hub is stalled), then
the goroutines `EnqueueLogin` and `EnqueueSave`, then `Answer`. The queue
handlers are `StartTask`, `CommitPayment` and `SaveReturns` for a save,
`LoginReturns` for a login, `TaskTimeout`, `LateSave`, `LateLogin`. `Stop` kills
what is in flight. Every database or Redis call may fail, and those that write
may fail after taking effect.

Abstractions:

* An account is its Expiration rows in radcheck, those still in the future
  (`live`) and those in the past (`dead`). `userExists` counts rows of any
  attribute; create and update always write an Expiration row, so it is the same
  here. Two rows can exist, since the check and the insert are not locked, and
  `IsUserExpired` reads whichever the database returns first.
* At the checkout, "no such user" and "expired" lead to the same branch, and a
  failed query is treated as no subscription, as in the code; so the two queries
  of `IsUserExpired` are one step there.
* `SaveMpesaPayment` reads the order before its transaction and writes the whole
  order back. Both are one step: all saves about one order write the same status
  (M-Pesa has one result per push), no route changes or deletes an order, and
  `CreateOrder` is the only other writer.
* Of the administrator's routes only the deletion is here; the others are
  `RadiusUsers`' business. `isHomeUser` is always false at the checkout, so that
  branch of `ManageHotspotUser` is not reached.
* An error of `SendStkPush` may hide a prompt: the answer was lost, or the push
  was repeated after a 401 and the first answer returned.
* A failed login may have taken effect: each attempt tries two addresses, and
  the second try finds the user logged in.
* The content of messages to the browser and their delivery are `WsHub`'s
  business; here a message only holds up whoever sends it. The two messages after
  a conflict are one step.

### DevicePool

For one device ID: `device` is the manager's map entry, `clients[p]` the content
of a pool's channel, `conn` the state of each dialled connection, `pc`, `ref`
and `held` the progress of a worker through `GetDevice` and `Execute`, `closing`
the loop of `DevicePool.Close`, which runs under the manager's lock while
workers, who hold no lock, receive and return clients. `users` and `removed` are
history for the properties. `GetClient` dials without the port (`AddDevice`
dials with it), so that dial may always fail; the model lets it succeed or fail.
A broken connection is returned to the channel like a good one: health of a
connection is not modelled.

### WsHub

`clients` is the map, `run` what the `Run` goroutine is doing, `reader` the
progress of `HandleWebSocket` and its reader goroutine, `mu` the mutex. The three
channels are unbuffered, so a send and the receive by `Run` are one step, and
taking the mutex is the next. A write to a peer that does not read
(`stalled`) blocks with the mutex held.

### RadiusUsers

`rows[u][n]` is the set of the values of the rows a user has under a name; the
names of radcheck, radreply and radusergroup are disjoint, so that a name says its
table. No table has a unique key, and every statement reads, updates or deletes
all rows of a name, so the code cannot tell how many of them agree. A value stands
for operator and value together.

`input` is the controllers' package-level variable. `CreateRoute`, `UpdateRoute`
and `BindEnds` decode a body: absent fields keep what the last request left, and
since nothing guards the variable, decoding is two steps between which another
request may decode too; a handler's copy shares the password pointer and the
slices, so what it reads later may be either request's, or a mixture of their
entries (`SharedPointer`, `SharedSlice`). An array of a body is the set of its
`<<name, value>>` pairs: it may repeat a name with different values and list any
check attribute, `Cleartext-Password` and `Auth-Type` included. Where the order of
two entries matters, either may be the last.

The handlers are `CreateHotspotUser` and `CreateCommits`, `UpdateHotspotUser`,
`UpdateReads` and `UpdateCommits`, `DeleteHotspotUser` and `DeleteCommits`, and for
the routes on one entry `AddOrUpdate...`/`Delete...` followed by `InsertEntry`,
`UpdateEntry` or `DeleteEntry`. An update compares the body with `currentAttrMap`,
which keeps one row per name: `CurrentMaps` are the maps it may build,
`LastWrites` the values it may write last, `Agree` what becomes of the rows.
Existence is checked outside the transaction that inserts, as in the code; a
transaction reads a snapshot and its writes appear when it commits. `Fails` is any
database error: the transaction is rolled back.

`SmallBodies` are bodies that differ in what they leave out, set empty or set, with
a repeated name and both password attributes among them. Accounts made by the
M-Pesa callback have an input of their own and are, here, like one more
administrator's request.

### TwoFactor and SecondFactor

One account. A handler reads everything it needs in its first step and each
database transaction is a step; `req[r]` is the handler a request is in with what
it read. A password hash, an AES key and a ciphertext are records that name what
they were made of, so `Opens` holds exactly for the key that sealed. `row` is the
row of `two_fas`, written back whole; `mem` is the account's entry in
`InMemorySecret2FA`; `codes` the backup codes. Tokens are abstracted to their
2FA claim: `tokens` are the claims of unexpired tokens, `blacklist` those whose
tokens were all logged out. The routes' guards (`Enabled`, `TokenAllowed`,
`TwoFAMiddleware`) are the controllers and the router.

Failures: `WriteFails` is a write that returns an error, which ends the handler
with a 500. Every other failure is in the parameter `f` of the step that meets it
(`Meets`): a commit that fails, which no handler looks at (`Committed`), a failing
`lib.Encrypt` where its error is only logged, so that `Validate2FA` saves an empty
main key, and a failing `GetJWT` after the row was committed. `Restart` loses
memory and requests. The answer that carries a recovery key is a step of its own
after the commit (`Activate2FATell`, `PasswordRecoverTell`), so that a stop or a
failure may come between. `disclosed`, the key the user was told last, and
`untold`, that a newer key was made and not told, or told and not committed, are
history.

Left out: wording and cookies, lifetimes as numbers, the QR image, collisions of
random values (`FreshSecret`, `FreshKey`), requests that are refused (they change
nothing). The account is verified before it starts.

A password changed between `Setup2FA` and `Activate2FA` leaves the main key
sealed with the old password, since the hash is kept from the set-up: the model
has this behaviour, and `RecoveryKeyWorks` is what the user can still rely on.

`SecondFactor` is what all this amounts to: a secret that is enrolled where there
is none and dropped when it is switched off. `FactorSpec` is the refinement, with
the text of the backup key as the abstract secret (the main key may be empty).

### Accounts

`auths` is the table; an address has a form, plain or hashed, that says which
column holds it (`ACTIVATE_CIPHER`). `temp` holds pending changes, `redis` the
codes. `CreateUserAuth`, `CreateUserAuthSend`, `CreateUserAuthSave` check, mail
and insert; `VerifyEmail`, `DeleteCode`, `VerifyEmailRead`, `VerifyEmailSave`
redeem a code; `UpdateEmail` and its steps ask for a change, at once or through a
code, and `VerifyUpdatedEmail` and its steps carry it out in two transactions.
`Login` issues a token, which outlives restarts; whether the address is verified is
asked there only. `Restart` may switch the services on or off (`services'` is any of
`Settings`), and encryption on but never off, which the code forbids.
`LookupMXFails` is the DNS lookup of `ValidateEmail`.

Two lookups can miss a row that is there: `CreateUserAuth` reads into the body of
its request, so an `authID` given there is one more condition of the query
(`given`), and `GetUserByEmail` reports a failing lookup by hash as not found
(`failing`). `unguarded` records that such a request went on, or that two requests
overlapped; `atOnce` the accounts whose address `UpdateEmail` saved while no codes
were sent. Both are history for the properties.

A code whose mail failed is the same as no code. `temp_emails` is a set, `First` any
matching row.

## 3. What TLC checks

| Run | Instance | Properties |
|---|---|---|
| `task_queue` | 2 tasks, 1 worker, the code's retry limits, 1 restart, fairness | `QueueTypeOK`, `RunsBounded`, `EveryTaskSettles` |
| `payments_safety` | 1 user, 2 checkouts, 2 callbacks, no retry, no restart | `TypeOK`, `AccessIsPaid`, `OrderMatchesPayments`, `AnsweredIsKept` |
| `payments_restart` | 1 checkout, 1 callback, 1 retry, 2 workers, 1 restart, fairness | `RowsPerCallback`, `OrderMatchesPayments`, `AnsweredIsKept`, `CallbackAnswered`, `PaymentRecorded` |
| `device_pool` | 3 workers, 2 pools of 2, 4 dials, fairness | `PoolTypeOK`, `OneOwner`, `LeakBounded`, `ExecuteReturns` |
| `ws_hub` | 3 connections, 2 from one IP, 1 sender, 1 broadcast, fairness | `HubTypeOK`, `OneWriter`, `RightRecipient`, `ClosedOnlyAfterLoss`, `LostIsForgotten`, `SendReturns` |
| `radius_users` | 1 user, 2 requests at a time, 3 in all, 4 bodies, 2 values, 1 name per table and the password attributes | `RadiusTypeOK`, `CredentialsKept`, `UpdateTakesEffect` |
| `two_factor` | 2 passwords, 2 secrets, 3 recovery keys, 2 backup codes, 2 faults, one request at a time | `TwoFATypeOK`, `OneSecret`, `RecoveryKeyWorks`, `FactorSpec` |
| `accounts` | 2 accounts, 2 addresses, 1 outstanding code, 2 requests at a time, 1 fault or restart, both settings and both forms | `AccountsTypeOK`, `VerifiedWasConfirmed`, `OwnAddress`, `UniquePerColumn` |

Bounds. Two tasks compete for one worker, so one waits while the other retries.
Two callbacks are enough for every pair of interleaved handlers: duplicates of
one payment, or payments of two orders of one customer; users only interact
through their own account, so one is enough. `FewFailures` in `MCPayments`
allows one failure of the back end (a task that fails for good, or an enqueue
that reports an error) in `payments_safety`; `payments_restart` has no such
bound. Retries and restarts multiply the states of one callback and are checked
with one. Two pools and three workers let a worker keep a removed pool while
another uses its successor and a third waits; four dials are two full pools, or
one with two extra clients. Two administrator requests are every pair of races
on `input` and on the tables, three in all let a race be followed by a request that
meets its remains. In `two_factor` every handler follows every other, with two
failures or restarts anywhere, so that a second one can meet what a first one left;
three recovery keys are one told, one in the row and one being made. Two requests
at a time exceed what TLC can exhaust, and `OneSecret`, `RecoveryKeyWorks` and
`FactorSpec` are claims about one request at a time: two logins or two redemptions
that overlap can write back what they read before. For the same reason nothing is
claimed of a backup code being accepted once: two overlapping requests, or an
ignored commit, accept it twice. In `accounts` two users compete for two addresses,
so one can wait for a code of the other's address; a code is free again once it is
used or has expired, so one outstanding code still lets codes of all kinds follow
each other, and `accounts_upgrade` has two. `UniquePerColumn` is about histories in
which requests did not overlap and no lookup missed a row, since the others do
break it.
The proofs of section 5 need none of these bounds.

Deadlock is checked in `two_factor`, where a user can always log in again. In the
other instances the customers, connections, dials, codes, requests or restarts
are used up in the end, and the system is then idle.

Four runs are expected to fail; each states what a comment of the code says and
shows a behaviour in which it is not so.

| Run | Property | Behaviour |
|---|---|---|
| `payments_conflict` | `ConflictIsAlreadyPaid` | "not a conflict (i.e., not already paid)": a customer confirms two pushes; the second callback meets the account the first one made, and its payment is never saved |
| `ws_hub_disconnect` | `DisconnectEndsItsOwn` | "Hub manages WebSocket connections, each identified by IP": the late unregister of a lost connection carries only the IP and closes the newer connection, whose peer is still there. `ClosedOnlyAfterLoss` is what does hold |
| `accounts_upgrade` | `UniqueEmail` | "one unique email for each account", and switching encryption on is said to be valid: a change of address asked for before and confirmed after the switch is looked up in the plain column only, and meets an account registered with the hash. One request at a time is enough. `UniquePerColumn` is what does hold |
| `radius_omitted` | `OmittedIsKept` | "nil means no change": an update without groups gives its user the groups of the previous request, in TLC's behaviour of one that was refused. `UpdateTakesEffect` is what does hold, of the input an update sees |

## 4. Fairness

* Handlers, goroutines and workers that can take a step take it (`WF` on
  `Handler`, the enqueues, `StartTask`, `Run`, `SendToIP`, `ReadFails`,
  `Execute`, `ClosePool`): the Go scheduler, and calls that return or fail.
* An attempt at a task ends (`WF` on `AttemptReturns`, `AttemptEnds`): every
  task is enqueued with a timeout.
* asynq's forwarder and recoverer are periodic (`WF` on `Schedule`, `Recover`,
  `Requeue`).
* Nothing is assumed of customers, M-Pesa, browsers, time, or restarts. A peer that
  stalls for ever keeps the hub's mutex, since no write deadline is set, and
  everything that uses the hub waits: the callback before it answers, and every
  worker at the end of its task, until none is left. Liveness is therefore
  conditional: `LostIsForgotten` and `SendReturns` on the peers not stalling for
  ever (`Unstalled`), `EveryTaskSettles`, `CallbackAnswered` and `PaymentRecorded`
  on `<>[]hubFree`.

## 5. What TLAPS proves

Every safety invariant, every action property and the refinement that a passing
run checks is also proved, for every value of the constants that satisfies the
assumptions of its module. TLC checked each inductive invariant on the run's
instance before it was proved.

Assumptions on constants, beside their types: model values that stand for nothing
(`None`, `Nil`) are not values of the type they are missing from
(`NoneAssumption` in `TwoFactor` and `Accounts`, `Nil # Empty`); the workers of
`DevicePool`, which are counted, and the ids of `Accounts` are finitely many; no caller
of `SendToIP` is the `Run` goroutine; the names of radcheck, radreply and
radusergroup are disjoint; a body decodes to fields of the struct's types
(`BodyAssumption`). No other set has to be finite, and no bound small.

**`TaskQueueProofs`**: `QueueTypeCorrect`, `RunsAreBounded`. The bound on `runs` is not inductive by itself; the
invariant relates starts to retries used: `runs` is at most `retried` plus
`restarts`, plus one for an attempt that is under way or ended the task.

**`PaymentsProofs`**: `TypeCorrect`, `AccessImpliesPayment`, `OrdersMatchPayments`,
`RowsAreBounded`, `AnsweredPaymentsAreKept`, and
`PaymentsImplementQueue`: a behaviour of `Payments` is a behaviour of `TaskQueue`
on the queue's variables, so the queue's theorems carry over. The inductive
invariant `Inv` is the conjunction of

* `TypeOK` and the queue's invariant;
* `CheckoutInv`: an order exists only once its push went out;
* `CallbackInv`: a handler beyond the order lookup is about an order that exists
  and, if it provisions, about one M-Pesa confirmed; a handler that answered 200
  without a conflict had its save enqueued. It is needed because the check of the
  result code and the insert of the account are several steps apart;
* `SaveInv`: per callback, rows inserted are bounded by the starts of its save
  task less those that can still insert, a completed save has inserted, and a save
  task exists only for an order that exists. It is needed because a late handler
  may insert after its task was retried or archived;
* `AccessIsPaid` and `OrderMatchesPayments`.

**`DevicePoolProofs`**: `PoolTypeCorrect`, `OneOwnerHolds`, `LeakIsBounded`. `OwnerInv` adds to `OneOwner` that a client in a channel or in a
hand is open; `WorkerInv` and `MapInv` tie a worker's stage to what it has and
the map to pools not removed. The bound on the leak needs an account of the
removal itself, `LeakInv`: the clients in the channel, and the workers that have
one or are about to dial one, are together no more than the receives the loop of
`Close` still makes plus the workers that had the pool when the removal began.

**`WsHubProofs`**: `HubTypeCorrect`, `OneWriterHolds`, `RecipientIsRight`,
`ClosedAfterLoss`. `LockInv` says that whoever writes holds the mutex, `MapInv`
that an address is mapped to a connection of its own, `WriteInv` that whoever
writes does so to what the map holds, which stays so because every change of the
map takes the mutex; `LossInv` that `Run` is told of an unregister only after a
connection of that address was lost.

**`RadiusUsersProofs`**: `RadiusTypeCorrect`, `CredentialsAreKept`,
`UpdatesTakeEffect`, for any names, bodies and number of requests. `AloneInv` says
of a request that met no other that the input is what it decoded and that the map
it built is one of those the rows still allow (`MapsOf`); `UpdateTakesEffect` needs
it because the map is built one step before the writes. The lemmas `CreatedRow` and
`UpdatedRow` are what the two handlers' operators do to any row: that they keep a
credential, and, where the map is one of the row's, have the effect `Effect` states.

**`TwoFactorProofs`**, for any number of overlapping requests, failures and
restarts: `TwoFATypeCorrect`. It is not inductive alone: the invariant adds that in
a row that is on the backup key opens with the key its UUID proves (`IntactRow`),
that the same holds of every row a request carries (`RequestOK`), because handlers
save the row they read earlier, and that a request about to seal a secret has one.
Under the hypothesis `Serial` (there is at most one request at a time; failing
writes, commits, encryption and tokens and restarts may still come between any two
of its steps): `SecretIsOne`, `RecoveryKeyOpens` and the refinement
`FactorImplemented`. `SerialInv` says that the copies of the secret agree, that what
a request has read is still so (`Fits`), and that the user knows the key of the row
unless it is `untold` (`Known`). Every step keeps the abstract secret, drops it, or
enrols one where there was none (`FactorStep`). Without `Serial` these do not hold.

**`AccountsProofs`**: `AccountsTypeCorrect`, `VerifiedOnlyConfirmed`,
`AddressIsOwn` for any overlap, and `UniqueWhenGuarded`. The invariant says of each
request what the address it carries is worth by the time it is written: a row about
to be saved as verified has a confirmed address, a pending change was asked for by
the account it names (`RequestOK`, `TempOK`). For uniqueness, `UniqueInv`: while
requests never overlapped and no lookup missed a row, at most one is in flight and
what it looked up is still so (`Current`), hence the address it is about to write is
not in the column.

Only model-checked: liveness (`EveryTaskSettles`, `CallbackAnswered`,
`PaymentRecorded`, `ExecuteReturns`, `LostIsForgotten`, `SendReturns`), since
fairness and `ENABLED` are out of the prover's reach. The four runs that are
expected to fail are TLC's by nature.

## 6. What is not modelled, and the plan

Not modelled:

* Loading of configuration, opening of database connections, migrations, static
  pages, playground routes, mail delivery: input and output, or single-row
  operations, without state that several steps share.
* The Badger store and the methods of the device service that keep manager and
  table in step (`AddDeviceToManager`, `UpdateDeviceInManager`,
  `RemoveDeviceFromManager`): nothing calls them, so no behaviour of the program
  contains them.
* The M-Pesa access token cached in Redis: visible only as an error of
  `SendStkPush`.
* The commands of a router login inside one attempt, the health of a pooled
  connection, the order of initialisation in `main`.
* Middleware that keeps no state across requests (CORS, firewall, templates), and
  the rate limiter, which is a library's.

Next: the safety part behind the liveness properties, as leads-to by invariants
(a callback that is not answered has a step it can take, a held mutex has a
holder that can go on), and lemmas that carry `UniquePerColumn` and the serial
properties of `TwoFactor` to histories in which overlapping requests do not
conflict.
