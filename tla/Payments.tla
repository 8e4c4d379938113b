------------------------------ MODULE Payments ------------------------------
(***************************************************************************)
(* From the checkout page to a recorded payment and a logged-in device:    *)
(*                                                                         *)
(*  - ExpressStkHandler (controller/mpesa.go) checks the subscription,     *)
(*    asks M-Pesa for an STK push and only then inserts the order;         *)
(*  - MpesaStkHandlerCallback (handler/mpesa_callback.go) finds the order, *)
(*    provisions the RADIUS account through ManageHotspotUser              *)
(*    (handler/radius.go, handler/hotspot_user.go) and enqueues a login    *)
(*    and a save task;                                                     *)
(*  - the queue handlers (queue/database_queue.go, queue/mikrotik_queue.go)*)
(*    write the payment (service/mpesa.go) and log the device in           *)
(*    (service/mikrotik.go).                                               *)
(*                                                                         *)
(* A step is one access to a shared store (a database statement or         *)
(* transaction, a Redis command, an M-Pesa or router call); handlers and   *)
(* workers interleave between steps, and the process may stop anywhere.    *)
(* The task queue is the component TaskQueue, whose actions these extend.  *)
(***************************************************************************)
EXTENDS TaskQueue

CONSTANTS
    User,         \* RADIUS usernames (phone@realm)
    Checkout,     \* requests to POST /mpesa/checkout, also their CheckoutRequestID
    Delivery,     \* requests M-Pesa makes to POST /mpesa/callback
    UserOf        \* the username a checkout is for

\* A delivery enqueues at most one task of each kind.
ASSUME PaymentsAssumption ==
    /\ UserOf \in [Checkout -> User]
    /\ Task = Delivery \X {"save", "login"}

VARIABLES
    checkout,   \* progress of ExpressStkHandler
    outcome,    \* M-Pesa's side: what became of the push
    about,      \* M-Pesa's side: the checkout a delivery will report on
    order,      \* status column of the order, "none" before it is inserted
    step,       \* per delivery: progress of MpesaStkHandlerCallback
    manage,     \* per delivery: what ManageHotspotUser returned
    login,      \* per delivery: what became of the goroutine that enqueues the login
    save,       \* per delivery: what became of the goroutine that enqueues the save
    resp,       \* per delivery: HTTP status of the response, 0 before there is one
    live,       \* per user: Expiration rows in radcheck not yet in the past
    dead,       \* per user: Expiration rows in radcheck in the past
    online,     \* users with a hotspot session on the router
    committed,  \* the running attempt at a save task has committed
    rows        \* rows in payments inserted by the save task of a delivery

mpesaVars == <<checkout, outcome, about>>
callbackVars == <<step, manage, login, save, resp>>
webVars == <<mpesaVars, callbackVars>>
radiusVars == <<live, dead, online>>
saveVars == <<order, committed, rows>>
vars == <<webVars, radiusVars, saveVars, queueVars>>

SaveTask(d) == <<d, "save">>
LoginTask(d) == <<d, "login">>

Customer(d) == UserOf[about[d]]
Paid(c) == outcome[c] = "paid"

CheckoutState == {"idle", "checked", "pushed", "done", "refused", "died"}
Outcome == {"none", "prompted", "paid", "failed"}
OrderStatus == {"none", "PENDING", "paid", "payment_failed"}
CallbackStep == {"idle", "lookup", "status", "expiry", "create", "insert", "update",
                 "write", "notify", "enqueue", "done", "died"}
\* What ManageHotspotUser returned: 200, 409, 404 or 500 ("none" before it has).
Manage == {"none", "ok", "conflict", "notfound", "error"}
\* What became of an enqueue goroutine; "skip": nothing to enqueue.
Enqueued == {"no", "todo", "ok", "error", "skip"}
Response == {0, 200, 202, 404, 500}

TypeOK ==
    /\ checkout \in [Checkout -> CheckoutState]
    /\ outcome \in [Checkout -> Outcome]
    /\ about \in [Delivery -> Checkout]
    /\ order \in [Checkout -> OrderStatus]
    /\ step \in [Delivery -> CallbackStep]
    /\ manage \in [Delivery -> Manage]
    /\ login \in [Delivery -> Enqueued]
    /\ save \in [Delivery -> Enqueued]
    /\ resp \in [Delivery -> Response]
    /\ live \in [User -> Nat]
    /\ dead \in [User -> Nat]
    /\ online \in SUBSET User
    /\ committed \in [Delivery -> BOOLEAN]
    /\ rows \in [Delivery -> Nat]
    /\ QueueTypeOK

Init ==
    /\ checkout = [c \in Checkout |-> "idle"]
    /\ outcome = [c \in Checkout |-> "none"]
    /\ about \in [Delivery -> Checkout]
    /\ order = [c \in Checkout |-> "none"]
    /\ step = [d \in Delivery |-> "idle"]
    /\ manage = [d \in Delivery |-> "none"]
    /\ login = [d \in Delivery |-> "no"]
    /\ save = [d \in Delivery |-> "no"]
    /\ resp = [d \in Delivery |-> 0]
    /\ live = [u \in User |-> 0]
    /\ dead = [u \in User |-> 0]
    /\ online = {}
    /\ committed = [d \in Delivery |-> FALSE]
    /\ rows = [d \in Delivery |-> 0]
    /\ QueueInit

-----------------------------------------------------------------------------
(* RADIUS accounts *)

userExists(u) == live[u] + dead[u] > 0

\* The second query of IsUserExpired reads one Expiration row (LIMIT 1, no
\* ORDER BY): with rows that disagree either answer is possible, and no row at
\* all counts as expired.  Every query may fail.
ReadExpiration(u) ==
    {"error"} \cup (IF dead[u] > 0 \/ live[u] = 0 THEN {"EXPIRED"} ELSE {})
              \cup (IF live[u] > 0 THEN {"NOT_EXPIRED"} ELSE {})

\* IsUserExpired in one step, for the caller that treats NO_EXIST and EXPIRED
\* alike: a deletion between its two queries makes no difference there.
IsUserExpired(u) ==
    IF userExists(u) THEN ReadExpiration(u) ELSE {"error", "NO_EXIST"}

\* Time passes an Expiration row; the session ends with the subscription.
Expire(u) ==
    /\ live[u] > 0
    /\ live' = [live EXCEPT ![u] = @ - 1]
    /\ dead' = [dead EXCEPT ![u] = @ + 1]
    /\ online' = IF live[u] = 1 THEN online \ {u} ELSE online
    /\ UNCHANGED <<webVars, saveVars, queueVars>>

\* DELETE /hotspot/users/:username, one transaction.
DeleteHotspotUser(u) ==
    /\ userExists(u)
    /\ live' = [live EXCEPT ![u] = 0]
    /\ dead' = [dead EXCEPT ![u] = 0]
    /\ UNCHANGED <<online, webVars, saveVars, queueVars>>

-----------------------------------------------------------------------------
(* Checkout *)

\* The subscription check at the top of ExpressStkHandler: an active
\* subscription is refused with 409, an unknown plan with 404; a failed
\* query counts as no subscription.
CheckSubscription(c) ==
    /\ checkout[c] = "idle"
    /\ \E s \in IsUserExpired(UserOf[c]), planFound \in BOOLEAN :
         checkout' = [checkout EXCEPT ![c] =
                        IF s # "NOT_EXPIRED" /\ planFound THEN "checked" ELSE "refused"]
    /\ UNCHANGED <<about, outcome, callbackVars, radiusVars, saveVars, queueVars>>

\* SendStkPush: the phone is prompted and the answer read, or an error is
\* returned.  An error may hide a prompt: the answer was lost, or the token was
\* refused, the push repeated with a fresh one, and the first answer returned.
SendStkPush(c) ==
    /\ checkout[c] = "checked"
    /\ \/ /\ checkout' = [checkout EXCEPT ![c] = "pushed"]
          /\ outcome' = [outcome EXCEPT ![c] = "prompted"]
       \/ /\ checkout' = [checkout EXCEPT ![c] = "refused"]
          /\ \/ UNCHANGED outcome
             \/ outcome' = [outcome EXCEPT ![c] = "prompted"]
    /\ UNCHANGED <<about, callbackVars, radiusVars, saveVars, queueVars>>

\* CreateOrder: the order is inserted after the push went out, or not at all.
CreateOrder(c) ==
    /\ checkout[c] = "pushed"
    /\ checkout' = [checkout EXCEPT ![c] = "done"]
    /\ \/ order' = [order EXCEPT ![c] = "PENDING"]
       \/ UNCHANGED order
    /\ UNCHANGED <<about, outcome, callbackVars, radiusVars, committed, rows, queueVars>>

\* The customer accepts or declines: one result per push.
Decide(c) ==
    /\ outcome[c] = "prompted"
    /\ \E o \in {"paid", "failed"} : outcome' = [outcome EXCEPT ![c] = o]
    /\ UNCHANGED <<about, checkout, callbackVars, radiusVars, saveVars, queueVars>>

-----------------------------------------------------------------------------
(* The callback handler *)

At(d, here) == step[d] = here

Goto(d, next) ==
    /\ step' = [step EXCEPT ![d] = next]
    /\ UNCHANGED <<manage, login, save, resp>>

Respond(d, code) ==
    /\ step' = [step EXCEPT ![d] = "done"]
    /\ resp' = [resp EXCEPT ![d] = code]
    /\ UNCHANGED <<manage, login, save>>

\* Only the handler's own progress changes.
OnlyCallback == UNCHANGED <<mpesaVars, radiusVars, saveVars, queueVars>>

\* M-Pesa delivers the result, possibly again, possibly before the order exists.
Deliver(d) ==
    /\ At(d, "idle")
    /\ outcome[about[d]] \in {"paid", "failed"}
    /\ Goto(d, "lookup")
    /\ OnlyCallback

\* Mutant: the ResultCode of the callback is not looked at.
LookupOrderAnyResult(d) ==
    /\ At(d, "lookup")
    /\ \/ order[about[d]] = "none" /\ Respond(d, 404)
       \/ Respond(d, 500)
       \/ order[about[d]] # "none" /\ Goto(d, "status")
    /\ OnlyCallback

\* The order is looked up (404, or 500 on a database error).  A failed
\* payment is reported by a goroutine of its own.
LookupOrder(d) ==
    /\ At(d, "lookup")
    /\ \/ order[about[d]] = "none" /\ Respond(d, 404)
       \/ Respond(d, 500)
       \/ order[about[d]] # "none" /\ Paid(about[d]) /\ Goto(d, "status")
       \/ /\ order[about[d]] # "none" /\ ~Paid(about[d])
          /\ step' = [step EXCEPT ![d] = "notify"]
          /\ save' = [save EXCEPT ![d] = "todo"]
          /\ UNCHANGED <<manage, login, resp>>
    /\ OnlyCallback

\* ManageHotspotUser has returned.
Provisioned(d, result) ==
    /\ step' = [step EXCEPT ![d] = "notify"]
    /\ manage' = [manage EXCEPT ![d] = result]
    /\ UNCHANGED <<login, save, resp>>

\* The browser is told inline, with SendToIP: of a failed payment, a failed or
\* refused account, or a success.  Only when that has returned is the request
\* answered, or do the two enqueue goroutines start.  The save is left out
\* when the user "is already subscribed".
Notify(d) ==
    /\ At(d, "notify") /\ hubFree
    /\ \/ ~Paid(about[d]) /\ Respond(d, 200)
       \/ manage[d] = "error" /\ Respond(d, 500)
       \/ /\ Paid(about[d]) /\ manage[d] # "error"
          /\ step' = [step EXCEPT ![d] = "enqueue"]
          /\ login' = [login EXCEPT ![d] = "todo"]
          /\ save' = [save EXCEPT ![d] = IF manage[d] = "conflict" THEN "skip" ELSE "todo"]
          /\ UNCHANGED <<manage, resp>>
    /\ OnlyCallback

\* ManageHotspotUser dispatches on IsUserExpired, whose two queries others may
\* come between; an error in either is a 500.
ReadStatus(d) ==
    /\ At(d, "status")
    /\ \/ ~userExists(Customer(d)) /\ Goto(d, "create")
       \/ userExists(Customer(d)) /\ Goto(d, "expiry")
       \/ Provisioned(d, "error")
    /\ OnlyCallback

ReadExpiry(d) ==
    /\ At(d, "expiry")
    /\ \E s \in ReadExpiration(Customer(d)) :
         \/ s = "NOT_EXPIRED" /\ Provisioned(d, "conflict")
         \/ s = "EXPIRED" /\ Goto(d, "update")
         \/ s = "error" /\ Provisioned(d, "error")
    /\ OnlyCallback

\* CreateHotspotUser counts the user's rows inside its transaction, which
\* locks nothing.
CountExisting(d) ==
    /\ At(d, "create")
    /\ \/ userExists(Customer(d)) /\ Provisioned(d, "conflict")
       \/ ~userExists(Customer(d)) /\ Goto(d, "insert")
       \/ Provisioned(d, "error")
    /\ OnlyCallback

\* The inserts and the commit; the answer to a commit may be lost.
InsertUser(d) ==
    /\ At(d, "insert")
    /\ \/ /\ live' = [live EXCEPT ![Customer(d)] = @ + 1]
          /\ Provisioned(d, "ok") \/ Provisioned(d, "error")
       \/ Provisioned(d, "error") /\ UNCHANGED live
    /\ UNCHANGED <<mpesaVars, dead, online, saveVars, queueVars>>

\* UpdateHotspotUser: 404 when the user is gone.  The callback handler takes
\* every status but 500 and 409 for a success.
FindExisting(d) ==
    /\ At(d, "update")
    /\ \/ userExists(Customer(d)) /\ Goto(d, "write")
       \/ ~userExists(Customer(d)) /\ Provisioned(d, "notfound")
       \/ Provisioned(d, "error")
    /\ OnlyCallback

\* The update is by username and attribute: every Expiration row gets the new
\* value; a row is inserted if none is left.
UpdateUser(d) ==
    /\ At(d, "write")
    /\ \/ LET u == Customer(d)
          IN  /\ live' = [live EXCEPT ![u] = IF userExists(u) THEN live[u] + dead[u] ELSE 1]
              /\ dead' = [dead EXCEPT ![u] = 0]
              /\ Provisioned(d, "ok") \/ Provisioned(d, "error")
       \/ Provisioned(d, "error") /\ UNCHANGED <<live, dead>>
    /\ UNCHANGED <<mpesaVars, online, saveVars, queueVars>>

\* One of the enqueue goroutines.  An error may hide an enqueue that took
\* place (the reply of Redis was lost, the request context ended).
EnqueueLogin(d) ==
    /\ login[d] = "todo"
    /\ \/ /\ EnqueueTask(LoginTask(d), "critical")
          /\ \E told \in {"ok", "error"} : login' = [login EXCEPT ![d] = told]
       \/ login' = [login EXCEPT ![d] = "error"] /\ UNCHANGED queueVars
    /\ UNCHANGED <<mpesaVars, step, manage, save, resp, radiusVars, saveVars>>

\* A confirmed payment is saved through the critical queue, a failed one is
\* reported through the reporting queue.
SaveQueue(d) == IF Paid(about[d]) THEN "critical" ELSE "reporting"

\* Mutant: the error of EnqueueDatabaseOperation is dropped.
EnqueueSaveUnchecked(d) ==
    /\ save[d] = "todo"
    /\ \/ EnqueueTask(SaveTask(d), SaveQueue(d))
       \/ UNCHANGED queueVars
    /\ save' = [save EXCEPT ![d] = "ok"]
    /\ UNCHANGED <<mpesaVars, step, manage, login, resp, radiusVars, saveVars>>

EnqueueSave(d) ==
    /\ save[d] = "todo"
    /\ \/ /\ EnqueueTask(SaveTask(d), SaveQueue(d))
          /\ \E told \in {"ok", "error"} : save' = [save EXCEPT ![d] = told]
       \/ save' = [save EXCEPT ![d] = "error"] /\ UNCHANGED queueVars
    /\ UNCHANGED <<mpesaVars, step, manage, login, resp, radiusVars, saveVars>>

\* Mutant: wg.Done is only called when the enqueue went well.
AnswerWithoutErrors(d) ==
    /\ At(d, "enqueue")
    /\ login[d] = "ok"
    /\ save[d] \in {"ok", "skip"}
    /\ Respond(d, 200)
    /\ OnlyCallback

\* Mutant: the response repeats the status of ManageHotspotUser.
AnswerConflict(d) ==
    /\ At(d, "enqueue")
    /\ login[d] # "todo"
    /\ save[d] # "todo"
    /\ Respond(d, IF manage[d] = "conflict" THEN 409 ELSE 200)
    /\ OnlyCallback

\* Both goroutines are done: the response tells M-Pesa how it went.
Answer(d) ==
    /\ At(d, "enqueue")
    /\ login[d] # "todo"
    /\ save[d] # "todo"
    /\ Respond(d, CASE login[d] = "error" -> 500
                    [] login[d] # "error" /\ save[d] = "error" -> 202
                    [] OTHER -> 200)
    /\ OnlyCallback

-----------------------------------------------------------------------------
(* The queue handlers *)

\* Mutant: the order is not saved with the payment.
SavePaymentOnly(d) ==
    /\ order[about[d]] # "none"
    /\ rows' = [rows EXCEPT ![d] = @ + 1]
    /\ UNCHANGED order

\* SaveMpesaPayment: one transaction inserts the payment and overwrites the
\* order's status.  Nothing looks for an earlier payment of the same request.
SaveMpesaPayment(d) ==
    /\ order[about[d]] # "none"
    /\ rows' = [rows EXCEPT ![d] = @ + 1]
    /\ order' = [order EXCEPT ![about[d]] = IF Paid(about[d]) THEN "paid" ELSE "payment_failed"]

Working(t) == task[t].state = "active"

StartTask(t) ==
    /\ Dequeue(t)
    /\ committed' = IF t[2] = "save" THEN [committed EXCEPT ![t[1]] = FALSE] ELSE committed
    /\ UNCHANGED <<webVars, radiusVars, order, rows>>

\* Mutant: the handler repeats the transaction itself.
CommitRepeatedly(d) ==
    /\ Working(SaveTask(d))
    /\ SaveMpesaPayment(d)
    /\ committed' = [committed EXCEPT ![d] = TRUE]
    /\ UNCHANGED <<webVars, radiusVars, queueVars>>

\* The transaction of the running attempt commits.
CommitPayment(d) ==
    /\ Working(SaveTask(d))
    /\ ~committed[d]
    /\ SaveMpesaPayment(d)
    /\ committed' = [committed EXCEPT ![d] = TRUE]
    /\ UNCHANGED <<webVars, radiusVars, queueVars>>

\* Mutant: the error of SaveMpesaPayment is dropped.
SaveReturnsNil(d) ==
    /\ Complete(SaveTask(d))
    /\ UNCHANGED <<webVars, radiusVars, saveVars>>

\* handleSaveMpesaPayment returns: nil after the commit, an error before it;
\* an error may also follow a commit whose acknowledgement was lost.
SaveReturns(d) ==
    /\ \/ committed[d] /\ Complete(SaveTask(d))
       \/ Fail(SaveTask(d), FALSE)
    /\ UNCHANGED <<webVars, radiusVars, saveVars>>

\* handleLoginUser: the router logs the user in if RADIUS accepts it.  The
\* answer may be lost: the attempt then fails, or the second of its two tries
\* finds the user "already logged in", which is not retried.  An attempt without
\* effect fails likewise.
LoginReturns(d) ==
    /\ \/ /\ live[Customer(d)] > 0
          /\ online' = online \cup {Customer(d)}
          /\ \/ Complete(LoginTask(d))
             \/ \E skipRetry \in BOOLEAN : Fail(LoginTask(d), skipRetry)
       \/ /\ UNCHANGED online
          /\ \E skipRetry \in {FALSE, Customer(d) \in online} : Fail(LoginTask(d), skipRetry)
    /\ UNCHANGED <<webVars, live, dead, saveVars>>

\* The timeout passes while the handler is at work (or has just committed).
TaskTimeout(t) ==
    /\ Timeout(t, ~(t[2] = "save" /\ committed[t[1]]))
    /\ UNCHANGED <<webVars, radiusVars, saveVars>>

\* A handler that outlived its timeout still commits, logs in, or fails.
LateSave(d) ==
    /\ LateReturn(SaveTask(d))
    /\ SaveMpesaPayment(d) \/ UNCHANGED <<rows, order>>
    /\ UNCHANGED <<webVars, radiusVars, committed>>

LateLogin(d) ==
    /\ LateReturn(LoginTask(d))
    /\ \/ live[Customer(d)] > 0 /\ online' = online \cup {Customer(d)}
       \/ UNCHANGED online
    /\ UNCHANGED <<webVars, live, dead, saveVars>>

\* asynq reschedules a retry or recovers the task of a dead worker.
Requeue(t) ==
    /\ Schedule(t) \/ Recover(t)
    /\ UNCHANGED <<webVars, radiusVars, saveVars>>

\* The process stops.  On a signal main shuts the queue server down but
\* does not wait for HTTP handlers; either way requests in flight die.
Stop ==
    /\ Crash \/ GracefullyShutdown
    /\ checkout' = [c \in Checkout |->
                      IF checkout[c] \in {"checked", "pushed"} THEN "died" ELSE checkout[c]]
    /\ step' = [d \in Delivery |-> IF step[d] \in {"idle", "done"} THEN step[d] ELSE "died"]
    /\ login' = [d \in Delivery |-> IF login[d] = "todo" THEN "error" ELSE login[d]]
    /\ save' = [d \in Delivery |-> IF save[d] = "todo" THEN "error" ELSE save[d]]
    /\ UNCHANGED <<about, outcome, manage, resp, radiusVars, saveVars>>

\* The hub stalls on a peer that does not read, or goes on.
Hub ==
    /\ HubStalls \/ HubResumes
    /\ UNCHANGED <<webVars, radiusVars, saveVars>>

-----------------------------------------------------------------------------
Handler(d) ==
    \/ LookupOrder(d) \/ ReadStatus(d) \/ ReadExpiry(d) \/ CountExisting(d) \/ InsertUser(d)
    \/ FindExisting(d) \/ UpdateUser(d) \/ Notify(d) \/ EnqueueLogin(d) \/ EnqueueSave(d)
    \/ Answer(d)

AttemptReturns(d) ==
    \/ SaveReturns(d)
    \/ LoginReturns(d)
    \/ \E k \in {"save", "login"} : TaskTimeout(<<d, k>>)

Next ==
    \/ \E u \in User : Expire(u) \/ DeleteHotspotUser(u)
    \/ \E c \in Checkout : CheckSubscription(c) \/ SendStkPush(c) \/ CreateOrder(c) \/ Decide(c)
    \/ \E d \in Delivery : \/ Deliver(d) \/ Handler(d)
                           \/ CommitPayment(d) \/ AttemptReturns(d)
                           \/ LateSave(d) \/ LateLogin(d)
    \/ \E t \in Task : StartTask(t) \/ Requeue(t)
    \/ Stop \/ Hub

Spec == Init /\ [][Next]_vars

\* Requests and goroutines are scheduled, database and Redis calls return,
\* asynq's workers, scheduler and recoverer are always at work, and an attempt
\* at a task ends at its timeout at the latest; but what calls SendToIP waits
\* while the hub is stalled.  Nothing is assumed of customers, their browsers,
\* M-Pesa, the clock or restarts.
Fairness ==
    /\ \A d \in Delivery :
         /\ WF_vars(Handler(d))
         /\ WF_vars(AttemptReturns(d))
         /\ WF_vars(EnqueueSave(d))
         /\ WF_vars(EnqueueLogin(d))
    /\ \A t \in Task : WF_vars(StartTask(t)) /\ WF_vars(Requeue(t))

FairSpec == Spec /\ Fairness

-----------------------------------------------------------------------------
(* Properties *)

\* Nobody has access without having paid: an account with time left belongs
\* to a customer who confirmed the payment of a known order.  A failed or an
\* unmatched callback never reaches CreateHotspotUser or UpdateHotspotUser.
\* (Accounts an administrator enters by hand are not in this model.)
AccessIsPaid ==
    \A u \in User : live[u] > 0 =>
        \E c \in Checkout : UserOf[c] = u /\ Paid(c) /\ order[c] # "none"

\* The two tables SaveMpesaPayment writes agree with each other and with
\* M-Pesa: an order is "paid" exactly if a payment row exists and M-Pesa
\* confirmed it, "payment_failed" exactly if a row exists and M-Pesa did not.
OrderMatchesPayments ==
    \A c \in Checkout :
        LET saved == \E d \in Delivery : about[d] = c /\ rows[d] > 0
        IN  /\ order[c] = "paid" <=> saved /\ Paid(c)
            /\ order[c] = "payment_failed" <=> saved /\ ~Paid(c)

\* The payments table has no unique key, so redelivered tasks insert
\* duplicates; their number per callback is bounded by the attempts
\* EnqueueTask grants.
RowsPerCallback ==
    \A d \in Delivery : rows[d] <= MaxRetry[task[SaveTask(d)].queue] + 1 + restarts

\* A confirmed payment that was answered with 200 and was no conflict is
\* recorded, or its save task is still in Redis (archived at the worst).
AnsweredIsKept ==
    \A d \in Delivery :
        resp[d] = 200 /\ Paid(about[d]) /\ manage[d] # "conflict" =>
            \/ order[about[d]] = "paid"
            \/ task[SaveTask(d)].state \in {"pending", "active", "orphaned", "retry", "archived"}

\* Unless a browser stalls the hub for ever, every callback request that was
\* accepted for processing is answered, or the process stops first.  (The
\* handler calls SendToIP before it answers and before it enqueues anything.)
CallbackAnswered ==
    <>[]hubFree => \A d \in Delivery : At(d, "lookup") ~> step[d] \in {"done", "died"}

\* Unless a browser stalls the hub for ever, a confirmed payment answered with
\* 200, no conflict, is recorded in the end or all attempts at its save task fail.
PaymentRecorded ==
    <>[]hubFree => \A d \in Delivery :
        (resp[d] = 200 /\ Paid(about[d]) /\ manage[d] # "conflict")
            ~> (order[about[d]] = "paid" \/ task[SaveTask(d)].state = "archived")

\* mpesa_callback.go: "Only enqueue DB operation if it's not a conflict (i.e.,
\* not already paid)".  When the save is left out for a conflict, this order is
\* paid already or another callback about it is being saved.
ConflictIsAlreadyPaid ==
    \A d \in Delivery : save[d] = "skip" =>
        \/ order[about[d]] = "paid"
        \/ \E e \in Delivery \ {d} : about[e] = about[d] /\ step[e] # "idle"
=============================================================================
