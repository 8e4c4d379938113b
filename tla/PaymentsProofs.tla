--------------------------- MODULE PaymentsProofs ---------------------------
(***************************************************************************)
(* Proofs about Payments, for any customers, checkouts, deliveries, retry  *)
(* limits and restarts.                                                    *)
(***************************************************************************)
EXTENDS Payments, TaskQueueProofs

\* An order exists only for a checkout that ran to its end, after its push.
CheckoutInv ==
    \A c \in Checkout :
        /\ checkout[c] \in {"idle", "checked"} => outcome[c] = "none"
        /\ order[c] # "none" => checkout[c] = "done"

\* What the position of a callback handler says about its payment and order.
BeforeEnqueue == {"idle", "lookup", "status", "expiry", "create", "insert", "update", "write"}
Provisioning == {"status", "expiry", "create", "insert", "update", "write", "enqueue"}
InManage == {"status", "expiry", "create", "insert", "update", "write"}

CallbackInv ==
    \A d \in Delivery :
        /\ step[d] # "idle" => outcome[about[d]] \in {"paid", "failed"}
        /\ step[d] \in Provisioning => Paid(about[d]) /\ order[about[d]] # "none"
        /\ step[d] \in BeforeEnqueue => save[d] = "no" /\ login[d] = "no" /\ resp[d] = 0
        /\ step[d] = "notify" => /\ order[about[d]] # "none" /\ resp[d] = 0
                                 /\ Paid(about[d]) => save[d] = "no" /\ login[d] = "no"
        /\ step[d] = "enqueue" => save[d] # "no"
        /\ save[d] # "no" => order[about[d]] # "none"
        /\ save[d] = "skip" => manage[d] = "conflict"
        /\ resp[d] = 200 /\ Paid(about[d]) /\ manage[d] # "conflict" => save[d] = "ok"

\* Where the payment rows of a delivery come from.
SaveOK(d) ==
    LET s == SaveTask(d)
    IN  /\ task[s].state # "none" => save[d] \in {"ok", "error"}
        /\ save[d] = "ok" => task[s].state # "none"
        /\ late[s] > 0 \/ rows[d] > 0 => task[s].state # "none"
        /\ task[s].state = "completed" => rows[d] > 0
        /\ task[s].state = "active" /\ committed[d] => rows[d] > 0
        /\ rows[d] + late[s] + (IF task[s].state = "active" /\ ~committed[d] THEN 1 ELSE 0)
             <= runs[s]

SaveInv == \A d \in Delivery : SaveOK(d)

\* The inductive invariant.
Inv ==
    /\ TypeOK
    /\ QueueInv
    /\ CheckoutInv
    /\ CallbackInv
    /\ SaveInv
    /\ AccessIsPaid
    /\ OrderMatchesPayments

-----------------------------------------------------------------------------
\* The tasks of a delivery.
LEMMA TasksOf ==
    \A d \in Delivery : /\ SaveTask(d) \in Task
                         /\ LoginTask(d) \in Task
                         /\ <<d, "save">> \in Task
                         /\ <<d, "login">> \in Task
  BY PaymentsAssumption DEF SaveTask, LoginTask

\* Payments is TaskQueue with handlers attached: each of its steps is a step
\* of the queue or leaves the queue alone.
LEMMA QueueRefined == [Next]_vars => [QueueNext]_queueVars
  <1> SUFFICES ASSUME Next
               PROVE  [QueueNext]_queueVars
    BY DEF vars, queueVars
  <1> USE TasksOf
  <1>1. ASSUME NEW u \in User, Expire(u) \/ DeleteHotspotUser(u)
        PROVE  UNCHANGED queueVars
    BY <1>1 DEF Expire, DeleteHotspotUser, queueVars
  <1>2. ASSUME NEW c \in Checkout,
               CheckSubscription(c) \/ SendStkPush(c) \/ CreateOrder(c) \/ Decide(c)
        PROVE  UNCHANGED queueVars
    BY <1>2 DEF CheckSubscription, SendStkPush, CreateOrder, Decide, queueVars
  <1>3. ASSUME NEW d \in Delivery,
               \/ Deliver(d) \/ LookupOrder(d) \/ ReadStatus(d) \/ ReadExpiry(d) \/ CountExisting(d)
               \/ InsertUser(d) \/ FindExisting(d) \/ UpdateUser(d) \/ Notify(d) \/ Answer(d)
               \/ CommitPayment(d)
        PROVE  UNCHANGED queueVars
    BY <1>3 DEF Deliver, LookupOrder, ReadStatus, ReadExpiry, CountExisting, InsertUser, FindExisting,
                UpdateUser, Notify, Answer, CommitPayment, OnlyCallback, queueVars
  <1>4. ASSUME NEW d \in Delivery, EnqueueLogin(d) \/ EnqueueSave(d)
        PROVE  [QueueNext]_queueVars
    <2>1. "critical" \in Queue /\ SaveQueue(d) \in Queue
      BY DEF Queue, SaveQueue
    <2> QED BY <1>4, <2>1 DEF EnqueueLogin, EnqueueSave, QueueNext
  <1>5. ASSUME NEW d \in Delivery, SaveReturns(d) \/ LoginReturns(d)
        PROVE  QueueNext
    <2>1. (Customer(d) \in online) \in BOOLEAN
      OBVIOUS
    <2> QED BY <1>5, <2>1 DEF SaveReturns, LoginReturns, QueueNext, AttemptEnds
  <1>6. ASSUME NEW t \in Task, TaskTimeout(t)
        PROVE  QueueNext
    BY <1>6 DEF TaskTimeout, QueueNext, AttemptEnds
  <1>7. ASSUME NEW d \in Delivery, LateSave(d) \/ LateLogin(d)
        PROVE  QueueNext
    BY <1>7 DEF LateSave, LateLogin, QueueNext
  <1>8. ASSUME NEW t \in Task, StartTask(t) \/ Requeue(t)
        PROVE  QueueNext
    BY <1>8 DEF StartTask, Requeue, QueueNext, ServerStep
  <1>9. CASE Stop \/ Hub
    BY <1>9 DEF Stop, Hub, QueueNext
  <1> QED
    BY <1>1, <1>2, <1>3, <1>4, <1>5, <1>6, <1>7, <1>8, <1>9 DEF Next, Handler, AttemptReturns

-----------------------------------------------------------------------------
\* Types are kept by every step.
LEMMA TypeStep == Inv /\ [Next]_vars => TypeOK'
  <1> SUFFICES ASSUME Inv, [Next]_vars
               PROVE  TypeOK'
    OBVIOUS
  <1>0. QueueTypeOK'
    BY QueueRefined, QueueStep DEF Inv, QueueInv
  <1> USE <1>0, TasksOf, PaymentsAssumption
      DEF Inv, TypeOK, CallbackStep, Manage, Enqueued, Response, CheckoutState, Outcome, OrderStatus,
          mpesaVars, callbackVars
  <1>1. ASSUME NEW u \in User, Expire(u) \/ DeleteHotspotUser(u)
        PROVE  TypeOK'
    BY <1>1 DEF Expire, DeleteHotspotUser, webVars, saveVars
  <1>2. ASSUME NEW c \in Checkout, CheckSubscription(c)
        PROVE  TypeOK'
    BY <1>2 DEF CheckSubscription, radiusVars, saveVars
  <1>3. ASSUME NEW c \in Checkout, SendStkPush(c) \/ CreateOrder(c) \/ Decide(c)
        PROVE  TypeOK'
    <2>1. CASE SendStkPush(c)
      BY <2>1 DEF SendStkPush, radiusVars, saveVars
    <2>2. CASE CreateOrder(c)
      BY <2>2 DEF CreateOrder, radiusVars, saveVars
    <2>3. CASE Decide(c)
      BY <2>3 DEF Decide, radiusVars, saveVars
    <2> QED BY <1>3, <2>1, <2>2, <2>3
  <1>4. ASSUME NEW d \in Delivery,
               Deliver(d) \/ LookupOrder(d) \/ Notify(d) \/ Answer(d)
        PROVE  TypeOK'
    <2>1. CASE Deliver(d)
      BY <2>1 DEF Deliver, Goto, OnlyCallback, radiusVars, saveVars
    <2>2. CASE LookupOrder(d)
      BY <2>2 DEF LookupOrder, Goto, Respond, OnlyCallback, radiusVars, saveVars
    <2>3. CASE Answer(d)
      BY <2>3 DEF Answer, Respond, OnlyCallback, radiusVars, saveVars
    <2>4. CASE Notify(d)
      BY <2>4, SMTT(30) DEF Notify, Respond, OnlyCallback, radiusVars, saveVars
    <2> QED BY <1>4, <2>1, <2>2, <2>3, <2>4
  <1>5. ASSUME NEW d \in Delivery, ReadStatus(d) \/ ReadExpiry(d) \/ CountExisting(d) \/ FindExisting(d)
        PROVE  TypeOK'
    BY <1>5, SMTT(30) DEF ReadStatus, ReadExpiry, CountExisting, FindExisting, Goto, Respond, Provisioned,
                OnlyCallback, radiusVars, saveVars
  <1>6. ASSUME NEW d \in Delivery, InsertUser(d) \/ UpdateUser(d)
        PROVE  TypeOK'
    <2>1. Customer(d) \in User
      BY DEF Customer
    <2>2. CASE InsertUser(d)
      BY <2>1, <2>2, SMTT(30) DEF InsertUser, Respond, Provisioned, saveVars
    <2>3. CASE UpdateUser(d)
      BY <2>1, <2>3, SMTT(30) DEF UpdateUser, Respond, Provisioned, saveVars
    <2> QED BY <1>6, <2>2, <2>3
  <1>7. ASSUME NEW d \in Delivery, EnqueueLogin(d) \/ EnqueueSave(d)
        PROVE  TypeOK'
    BY <1>7 DEF EnqueueLogin, EnqueueSave, radiusVars, saveVars
  <1>8. ASSUME NEW d \in Delivery, CommitPayment(d) \/ LateSave(d)
        PROVE  TypeOK'
    <2>1. committed' \in [Delivery -> BOOLEAN]
      BY <1>8, ZenonT(60) DEF CommitPayment, LateSave
    <2>2. rows' \in [Delivery -> Nat] /\ order' \in [Checkout -> OrderStatus]
      BY <1>8 DEF CommitPayment, LateSave, SaveMpesaPayment
    <2>3. UNCHANGED <<webVars, radiusVars>>
      BY <1>8 DEF CommitPayment, LateSave
    <2> QED BY <2>1, <2>2, <2>3 DEF webVars, radiusVars
  <1>9. ASSUME NEW d \in Delivery, SaveReturns(d) \/ LoginReturns(d) \/ LateLogin(d)
        PROVE  TypeOK'
    <2>1. Customer(d) \in User
      BY DEF Customer
    <2>2. online' \in SUBSET User
      <3>1. online' = online \cup {Customer(d)} \/ online' = online
        BY <1>9, Zenon DEF SaveReturns, LoginReturns, LateLogin, radiusVars
      <3> QED BY <2>1, <3>1
    <2>3. UNCHANGED <<webVars, live, dead, saveVars>>
      BY <1>9 DEF SaveReturns, LoginReturns, LateLogin, radiusVars
    <2> QED BY <2>2, <2>3 DEF webVars, saveVars
  <1>10. ASSUME NEW d \in Delivery, NEW k \in {"save", "login"}, StartTask(<<d, k>>)
        PROVE  TypeOK'
    <2>1. <<d, k>>[1] = d /\ <<d, k>>[2] = k
      OBVIOUS
    <2>2. committed' \in [Delivery -> BOOLEAN]
      BY <1>10, <2>1 DEF StartTask
    <2> QED BY <1>10, <2>2 DEF StartTask, webVars, radiusVars, saveVars
  <1>11. ASSUME NEW t \in Task, TaskTimeout(t) \/ Requeue(t)
        PROVE  TypeOK'
    BY <1>11 DEF TaskTimeout, Requeue, webVars, radiusVars, saveVars
  <1>12. CASE Stop
    BY <1>12 DEF Stop, radiusVars, saveVars
  <1>15. CASE Hub
    BY <1>15 DEF Hub, webVars, radiusVars, saveVars
  <1>13. CASE UNCHANGED vars
    BY <1>13 DEF vars, webVars, radiusVars, saveVars
  <1>14. ASSUME NEW t \in Task, StartTask(t)
         PROVE  TypeOK'
    <2>1. PICK d \in Delivery, k \in {"save", "login"} : t = <<d, k>>
      BY PaymentsAssumption
    <2> QED BY <1>10, <1>14, <2>1
  <1> QED
    BY <1>1, <1>2, <1>3, <1>4, <1>5, <1>6, <1>7, <1>8, <1>9, <1>11, <1>12, <1>13, <1>14, <1>15
       DEF Next, Handler, AttemptReturns

-----------------------------------------------------------------------------
\* Deliveries keep their subject, a result of M-Pesa is final and an order
\* never disappears; and orders appear only behind their push.
LEMMA CheckoutStep ==
    Inv /\ [Next]_vars =>
        /\ CheckoutInv'
        /\ about' = about
        /\ \A c \in Checkout : outcome[c] \in {"paid", "failed"} => outcome'[c] = outcome[c]
        /\ \A c \in Checkout : order[c] # "none" => order'[c] # "none"
  <1> DEFINE Goal ==
        /\ CheckoutInv'
        /\ about' = about
        /\ \A c \in Checkout : outcome[c] \in {"paid", "failed"} => outcome'[c] = outcome[c]
        /\ \A c \in Checkout : order[c] # "none" => order'[c] # "none"
  <1> SUFFICES ASSUME Inv, [Next]_vars
               PROVE  Goal
    OBVIOUS
  <1> USE TasksOf DEF Inv, TypeOK, CheckoutState, Outcome, OrderStatus, CheckoutInv
  <1>1. ASSUME UNCHANGED <<checkout, outcome, about, order>>
        PROVE  Goal
    BY <1>1
  <1>2. ASSUME NEW c \in Checkout, CheckSubscription(c)
        PROVE  Goal
    <2>1. PICK to \in {"checked", "refused"} : checkout' = [checkout EXCEPT ![c] = to]
      BY <1>2 DEF CheckSubscription
    <2> QED BY <1>2, <2>1 DEF CheckSubscription, saveVars
  <1>3. ASSUME NEW c \in Checkout, SendStkPush(c)
        PROVE  Goal
    BY <1>3 DEF SendStkPush, saveVars
  <1>4. ASSUME NEW c \in Checkout, CreateOrder(c)
        PROVE  Goal
    BY <1>4 DEF CreateOrder
  <1>5. ASSUME NEW c \in Checkout, Decide(c)
        PROVE  Goal
    BY <1>5 DEF Decide, saveVars
  <1>6. ASSUME NEW d \in Delivery, CommitPayment(d) \/ LateSave(d)
        PROVE  Goal
    <2>1. CASE UNCHANGED order
      BY <1>6, <2>1, <1>1 DEF CommitPayment, LateSave, webVars, mpesaVars
    <2>2. CASE SaveMpesaPayment(d)
      <3>1. UNCHANGED <<checkout, outcome, about>>
        BY <1>6 DEF CommitPayment, LateSave, webVars, mpesaVars
      <3>2. PICK status \in {"paid", "payment_failed"} : order' = [order EXCEPT ![about[d]] = status]
        BY <2>2 DEF SaveMpesaPayment
      <3> QED BY <2>2, <3>1, <3>2 DEF SaveMpesaPayment
    <2> QED BY <1>6, <2>1, <2>2 DEF CommitPayment, LateSave
  <1>7. CASE Stop \/ Hub
    BY <1>1, <1>7 DEF Stop, Hub, webVars, mpesaVars, saveVars
  <1>8. ASSUME NEW u \in User, Expire(u) \/ DeleteHotspotUser(u)
        PROVE  Goal
    BY <1>1, <1>8 DEF Expire, DeleteHotspotUser, webVars, mpesaVars, saveVars
  <1>9. ASSUME NEW d \in Delivery, Deliver(d) \/ Handler(d)
        PROVE  Goal
    BY <1>1, <1>9 DEF Deliver, Handler, LookupOrder, ReadStatus, ReadExpiry, CountExisting, InsertUser,
       FindExisting, UpdateUser, Notify, EnqueueLogin, EnqueueSave, Answer, OnlyCallback, mpesaVars,
       saveVars
  <1>10. ASSUME NEW d \in Delivery, AttemptReturns(d) \/ LateLogin(d)
         PROVE  Goal
    BY <1>1, <1>10
       DEF AttemptReturns, SaveReturns, LoginReturns, TaskTimeout, LateLogin, webVars,
           mpesaVars, saveVars
  <1>11. ASSUME NEW t \in Task, StartTask(t) \/ Requeue(t)
         PROVE  Goal
    BY <1>1, <1>11 DEF StartTask, Requeue, webVars, mpesaVars, saveVars
  <1>12. CASE UNCHANGED vars
    BY <1>1, <1>12 DEF vars, webVars, mpesaVars, saveVars
  <1> QED
    BY <1>2, <1>3, <1>4, <1>5, <1>6, <1>7, <1>8, <1>9, <1>10, <1>11, <1>12 DEF Next

\* The position of a handler keeps implying what it knows.
LEMMA CallbackStepInv == Inv /\ [Next]_vars => CallbackInv'
  <1> SUFFICES ASSUME Inv, [Next]_vars
               PROVE  CallbackInv'
    OBVIOUS
  <1>0. /\ about' = about
        /\ \A c \in Checkout : outcome[c] \in {"paid", "failed"} => outcome'[c] = outcome[c]
        /\ \A c \in Checkout : order[c] # "none" => order'[c] # "none"
    BY CheckoutStep
  <1> USE <1>0 DEF Inv, TypeOK, CallbackStep, Manage, Enqueued, Response, Outcome, OrderStatus,
                   CallbackInv, BeforeEnqueue, Provisioning, Paid
  <1>1. ASSUME UNCHANGED callbackVars
        PROVE  CallbackInv'
    BY <1>1 DEF callbackVars
  <1>2. ASSUME NEW d \in Delivery, Deliver(d)
        PROVE  CallbackInv'
    BY <1>2 DEF Deliver, At, Goto
  <1>3. ASSUME NEW d \in Delivery, LookupOrder(d)
        PROVE  CallbackInv'
    BY <1>3 DEF LookupOrder, At, Goto, Respond
  <1>4. ASSUME NEW d \in Delivery, step[d] \in InManage,
               \/ \E next \in InManage : Goto(d, next)
               \/ \E result \in Manage : Provisioned(d, result)
        PROVE  CallbackInv'
    <2>2. ASSUME NEW next \in InManage, Goto(d, next)
          PROVE  CallbackInv'
      BY <1>4, <2>2 DEF Goto, InManage
    <2>3. ASSUME NEW result \in Manage, Provisioned(d, result)
          PROVE  CallbackInv'
      BY <1>4, <2>3 DEF Provisioned, InManage
    <2> QED BY <1>4, <2>2, <2>3
  <1>5. ASSUME NEW d \in Delivery,
               \/ ReadStatus(d) \/ ReadExpiry(d) \/ CountExisting(d)
               \/ InsertUser(d) \/ FindExisting(d) \/ UpdateUser(d)
        PROVE  CallbackInv'
    <2>1. step[d] \in InManage
      BY <1>5 DEF ReadStatus, ReadExpiry, CountExisting, InsertUser, FindExisting, UpdateUser, At,
                  InManage
    <2>2. \/ Goto(d, "create") \/ Goto(d, "expiry") \/ Goto(d, "insert") \/ Goto(d, "update")
          \/ Goto(d, "write")
          \/ Provisioned(d, "ok") \/ Provisioned(d, "conflict") \/ Provisioned(d, "notfound")
          \/ Provisioned(d, "error")
      BY <1>5 DEF ReadStatus, ReadExpiry, CountExisting, InsertUser, FindExisting, UpdateUser
    <2>3. /\ {"create", "expiry", "insert", "update", "write"} \subseteq InManage
          /\ {"ok", "conflict", "notfound", "error"} \subseteq Manage
      BY DEF InManage
    <2> HIDE DEF InManage, Manage
    <2> QED BY <1>4, <2>1, <2>2, <2>3
  <1>15. ASSUME NEW d \in Delivery, Notify(d)
         PROVE  CallbackInv'
    BY <1>15 DEF Notify, At, Respond
  <1>6. ASSUME NEW d \in Delivery, EnqueueLogin(d)
        PROVE  CallbackInv'
    BY <1>6 DEF EnqueueLogin
  <1>7. ASSUME NEW d \in Delivery, EnqueueSave(d)
        PROVE  CallbackInv'
    BY <1>7 DEF EnqueueSave
  <1>8. ASSUME NEW d \in Delivery, Answer(d)
        PROVE  CallbackInv'
    BY <1>8 DEF Answer, At, Respond
  <1>9. CASE Stop
    BY <1>9 DEF Stop
  <1>16. CASE Hub
    BY <1>1, <1>16 DEF Hub, webVars
  <1>10. ASSUME NEW u \in User, Expire(u) \/ DeleteHotspotUser(u)
         PROVE  CallbackInv'
    BY <1>1, <1>10 DEF Expire, DeleteHotspotUser, webVars
  <1>11. ASSUME NEW c \in Checkout,
                CheckSubscription(c) \/ SendStkPush(c) \/ CreateOrder(c) \/ Decide(c)
         PROVE  CallbackInv'
    BY <1>1, <1>11 DEF CheckSubscription, SendStkPush, CreateOrder, Decide
  <1>12. ASSUME NEW d \in Delivery,
                CommitPayment(d) \/ AttemptReturns(d) \/ LateSave(d) \/ LateLogin(d)
         PROVE  CallbackInv'
    BY <1>1, <1>12 DEF CommitPayment, AttemptReturns, SaveReturns, LoginReturns, TaskTimeout,
                       LateSave, LateLogin, webVars
  <1>13. ASSUME NEW t \in Task, StartTask(t) \/ Requeue(t)
         PROVE  CallbackInv'
    BY <1>1, <1>13 DEF StartTask, Requeue, webVars
  <1>14. CASE UNCHANGED vars
    BY <1>1, <1>14 DEF vars, webVars
  <1> QED
    BY <1>2, <1>3, <1>5, <1>6, <1>7, <1>8, <1>9, <1>10, <1>11, <1>12, <1>13, <1>14, <1>15, <1>16
       DEF Next, Handler

-----------------------------------------------------------------------------
\* The tasks of different deliveries, and the two tasks of one, differ.
LEMMA TasksDiffer ==
    \A d, e \in Delivery : /\ SaveTask(d) = SaveTask(e) => d = e
                            /\ SaveTask(d) # LoginTask(e)
  BY DEF SaveTask, LoginTask

\* What SaveOK says of a delivery can change only where its variables change.
SaveUnchanged(d) ==
    /\ save'[d] = save[d]
    /\ committed'[d] = committed[d]
    /\ rows'[d] = rows[d]
    /\ task'[SaveTask(d)] = task[SaveTask(d)]
    /\ late'[SaveTask(d)] = late[SaveTask(d)]
    /\ runs'[SaveTask(d)] = runs[SaveTask(d)]

\* A delivery whose variables are untouched keeps its part of SaveInv.
LEMMA SaveKept ==
    ASSUME NEW d \in Delivery, SaveOK(d), SaveUnchanged(d)
    PROVE  SaveOK(d)'
  BY DEF SaveOK, SaveUnchanged, SaveTask

\* A queue step at one task leaves the others alone.
OnlyTask(t) ==
    \A u \in Task \ {t} : task'[u] = task[u] /\ late'[u] = late[u] /\ runs'[u] = runs[u]

\* A step at a login task leaves every delivery's save alone.
LEMMA LoginLeavesSaves ==
    ASSUME NEW d \in Delivery, OnlyTask(LoginTask(d)), UNCHANGED <<save, committed, rows>>
    PROVE  \A e \in Delivery : SaveUnchanged(e)
  <1> TAKE e \in Delivery
  <1>1. SaveTask(e) \in Task /\ SaveTask(e) # LoginTask(d)
    BY PaymentsAssumption DEF SaveTask, LoginTask
  <1> QED BY <1>1 DEF OnlyTask, SaveUnchanged

\* Every queue action on a task is such a step.
LEMMA OneTask ==
    ASSUME QueueTypeOK, NEW t \in Task,
           \/ EnqueueTask(t, "critical") \/ EnqueueTask(t, "reporting")
           \/ Dequeue(t) \/ Complete(t) \/ Schedule(t) \/ Recover(t) \/ LateReturn(t)
           \/ (\E skip \in BOOLEAN : Fail(t, skip))
           \/ (\E still \in BOOLEAN : Timeout(t, still))
    PROVE  OnlyTask(t)
  BY DEF QueueTypeOK, OnlyTask, EnqueueTask, Dequeue, Complete, Schedule, Recover, LateReturn,
         Fail, Timeout

\* A failed attempt ends archived or waiting for its retry.
LEMMA FailureState ==
    ASSUME QueueInv, NEW t \in Task, NEW skip \in BOOLEAN,
           task' = [task EXCEPT ![t] = AfterFailure(@, skip)]
    PROVE  task'[t].state \in {"archived", "retry"}
  <1>1. task[t] \in TaskRecord /\ task[t].retried <= MaxRetry[task[t].queue]
    BY DEF QueueInv, QueueTypeOK, StartsPaidFor
  <1>2. AfterFailure(task[t], skip).state \in {"archived", "retry"}
    BY <1>1, FailureRecord
  <1> QED BY <1>2 DEF QueueInv, QueueTypeOK

\* Every payment row stems from its own start of the save handler.
LEMMA SaveStep == Inv /\ [Next]_vars => SaveInv'
  <1> SUFFICES ASSUME Inv, [Next]_vars
               PROVE  SaveInv'
    OBVIOUS
  <1>0. /\ QueueInv /\ QueueTypeOK /\ QueueTypeOK'
        /\ save \in [Delivery -> Enqueued]
        /\ committed \in [Delivery -> BOOLEAN]
        /\ rows \in [Delivery -> Nat]
        /\ \A d \in Delivery : SaveOK(d)
        /\ CallbackInv
    BY TypeStep DEF Inv, TypeOK, SaveInv
  <1>ty. \A d \in Delivery : LET s == SaveTask(d) IN
            late[s] \in Nat /\ runs[s] \in Nat /\ rows[d] \in Nat /\ task[s] \in TaskRecord
    BY <1>0, TasksOf DEF QueueTypeOK
  <1> USE TasksOf, TasksDiffer, <1>0
  <1>1. ASSUME NEW d \in Delivery, SaveOK(d)', \A e \in Delivery \ {d} : SaveUnchanged(e)
        PROVE  SaveInv'
    BY <1>1, SaveKept DEF SaveInv
  <1>2. ASSUME NEW d \in Delivery, OnlyTask(LoginTask(d)), UNCHANGED <<save, committed, rows>>
        PROVE  SaveInv'
    <2>1. \A e \in Delivery : SaveUnchanged(e)
      BY <1>2, LoginLeavesSaves
    <2> QED BY <2>1, SaveKept DEF SaveInv
  <1>3. ASSUME UNCHANGED <<save, committed, rows, queueVars>>
        PROVE  SaveInv'
    <2>1. \A e \in Delivery : SaveUnchanged(e)
      BY <1>3 DEF SaveUnchanged, queueVars
    <2> QED BY <2>1, SaveKept DEF SaveInv
  <1>4. ASSUME NEW d \in Delivery, OnlyTask(SaveTask(d)), UNCHANGED <<save, committed, rows>>
        PROVE  \A e \in Delivery \ {d} : SaveUnchanged(e)
    BY <1>4 DEF OnlyTask, SaveUnchanged
  <1>5. ASSUME NEW d \in Delivery, save[d] = "no", NEW to \in {"todo", "skip"},
               save' = [save EXCEPT ![d] = to], UNCHANGED <<committed, rows, queueVars>>
        PROVE  SaveInv'
    <2>1. \A e \in Delivery \ {d} : SaveUnchanged(e)
      BY <1>5 DEF SaveUnchanged, queueVars
    <2>2. SaveOK(d)'
      <3>1. SaveOK(d) /\ save'[d] = to
        BY <1>5
      <3> QED BY <1>5, <3>1 DEF SaveOK, queueVars, SaveTask
    <2> QED BY <1>1, <2>1, <2>2
  <1>6. ASSUME NEW d \in Delivery, LookupOrder(d)
        PROVE  SaveInv'
    <2>1. save[d] = "no"
      BY <1>6 DEF LookupOrder, At, CallbackInv, BeforeEnqueue
    <2>2. UNCHANGED save \/ save' = [save EXCEPT ![d] = "todo"]
      BY <1>6 DEF LookupOrder, Respond, Goto
    <2>3. UNCHANGED <<committed, rows, queueVars>>
      BY <1>6 DEF LookupOrder, OnlyCallback, saveVars
    <2> QED BY <1>3, <1>5, <2>1, <2>2, <2>3
  <1>7. ASSUME NEW d \in Delivery,
               \/ ReadStatus(d) \/ ReadExpiry(d) \/ CountExisting(d)
               \/ InsertUser(d) \/ FindExisting(d) \/ UpdateUser(d)
        PROVE  SaveInv'
    <2>1. UNCHANGED save
      BY <1>7 DEF ReadStatus, ReadExpiry, CountExisting, InsertUser, FindExisting, UpdateUser,
                  Goto, Provisioned
    <2>2. UNCHANGED <<committed, rows, queueVars>>
      BY <1>7 DEF ReadStatus, ReadExpiry, CountExisting, InsertUser, FindExisting, UpdateUser,
                  OnlyCallback, saveVars
    <2> QED BY <1>3, <2>1, <2>2
  <1>notify. ASSUME NEW d \in Delivery, Notify(d)
             PROVE  SaveInv'
    <2>1. \/ UNCHANGED save
          \/ /\ Paid(about[d])
             /\ \/ save' = [save EXCEPT ![d] = "todo"]
                \/ save' = [save EXCEPT ![d] = "skip"]
      BY <1>notify DEF Notify, Respond
    <2>2. Paid(about[d]) => save[d] = "no"
      BY <1>notify DEF Notify, At, CallbackInv
    <2>3. UNCHANGED <<committed, rows, queueVars>>
      BY <1>notify DEF Notify, OnlyCallback, saveVars
    <2> QED BY <1>3, <1>5, <2>1, <2>2, <2>3
  <1>hub. CASE Hub
    <2>1. \A e \in Delivery : SaveUnchanged(e)
      BY <1>hub DEF Hub, HubStalls, HubResumes, SaveUnchanged, webVars, callbackVars, saveVars
    <2> QED BY <2>1, SaveKept DEF SaveInv
  <1>8. ASSUME NEW d \in Delivery, EnqueueLogin(d)
        PROVE  SaveInv'
    <2>1. UNCHANGED <<save, committed, rows>>
      BY <1>8 DEF EnqueueLogin, saveVars
    <2>2. CASE UNCHANGED queueVars
      BY <1>3, <2>1, <2>2
    <2>3. CASE EnqueueTask(LoginTask(d), "critical")
      BY <1>2, <2>1, <2>3, OneTask
    <2> QED BY <1>8, <2>2, <2>3 DEF EnqueueLogin
  <1>9. ASSUME NEW d \in Delivery, EnqueueSave(d)
        PROVE  SaveInv'
    <2>1. UNCHANGED <<committed, rows>> /\ save[d] = "todo"
      BY <1>9 DEF EnqueueSave, saveVars
    <2>2. CASE save' = [save EXCEPT ![d] = "error"] /\ UNCHANGED queueVars
      <3>1. \A e \in Delivery \ {d} : SaveUnchanged(e)
        BY <2>1, <2>2 DEF SaveUnchanged, queueVars
      <3>2. SaveOK(d) /\ save'[d] = "error"
        BY <2>2
      <3>3. SaveOK(d)'
        BY <2>1, <2>2, <3>2 DEF SaveOK, queueVars, SaveTask
      <3> QED BY <1>1, <3>1, <3>3
    <2>3. ASSUME EnqueueTask(SaveTask(d), SaveQueue(d)), NEW told \in {"ok", "error"},
                 save' = [save EXCEPT ![d] = told]
          PROVE  SaveInv'
      <3>1. OnlyTask(SaveTask(d))
        BY <2>3, OneTask DEF SaveQueue
      <3>2. \A e \in Delivery \ {d} : SaveUnchanged(e)
        BY <2>1, <2>3, <3>1 DEF SaveUnchanged, OnlyTask
      <3>3. /\ SaveOK(d) /\ save'[d] = told /\ task[SaveTask(d)].state = "none"
            /\ task'[SaveTask(d)].state = "pending" /\ UNCHANGED <<late, runs>>
        BY <2>3 DEF EnqueueTask, QueueTypeOK
      <3>4. SaveOK(d)'
        BY <2>1, <3>3, <1>ty DEF SaveOK, SaveTask
      <3> QED BY <1>1, <3>2, <3>4
    <2> QED BY <1>9, <2>2, <2>3 DEF EnqueueSave
  <1>10. ASSUME NEW d \in Delivery, CommitPayment(d)
         PROVE  SaveInv'
    <2>1. UNCHANGED <<save, queueVars>>
      BY <1>10 DEF CommitPayment, webVars, callbackVars
    <2>2. \A e \in Delivery \ {d} : committed'[e] = committed[e]
      BY <1>10 DEF CommitPayment
    <2>3. \A e \in Delivery \ {d} : rows'[e] = rows[e]
      BY <1>10 DEF CommitPayment, SaveMpesaPayment
    <2>4. \A e \in Delivery \ {d} : SaveUnchanged(e)
      BY <2>1, <2>2, <2>3 DEF SaveUnchanged, queueVars
    <2>5. /\ SaveOK(d) /\ task[SaveTask(d)].state = "active" /\ ~committed[d]
          /\ rows'[d] = rows[d] + 1
      BY <1>10 DEF CommitPayment, SaveMpesaPayment, Working
    <2>6. committed'[d]
      BY <1>10, Zenon DEF CommitPayment
    <2>7. SaveOK(d)'
      BY <2>1, <2>5, <2>6, <1>ty DEF SaveOK, SaveTask, queueVars
    <2> QED BY <1>1, <2>4, <2>7
  <1>11. ASSUME NEW d \in Delivery, Complete(SaveTask(d)), committed[d],
                UNCHANGED <<save, committed, rows>>
         PROVE  SaveInv'
    <2>1. OnlyTask(SaveTask(d))
      BY <1>11, OneTask
    <2>2. /\ SaveOK(d) /\ task[SaveTask(d)].state = "active"
          /\ task'[SaveTask(d)].state = "completed" /\ UNCHANGED <<late, runs>>
      BY <1>11 DEF Complete, QueueTypeOK
    <2>3. SaveOK(d)'
      BY <1>11, <2>2, <1>ty DEF SaveOK, SaveTask
    <2> QED BY <1>1, <1>4, <1>11, <2>1, <2>3
  \* An attempt that ends in a retry or in the archive; a handler that goes
  \* on beside it takes over the start of the attempt.
  <1>12. ASSUME NEW d \in Delivery, OnlyTask(SaveTask(d)), UNCHANGED <<save, committed, rows>>,
                task[SaveTask(d)].state \in {"active", "orphaned"},
                task'[SaveTask(d)].state \in {"archived", "retry"},
                UNCHANGED runs,
                \/ UNCHANGED late
                \/ /\ task[SaveTask(d)].state = "active" /\ ~committed[d]
                   /\ late'[SaveTask(d)] = late[SaveTask(d)] + 1
         PROVE  SaveInv'
    <2>1. SaveOK(d)
      OBVIOUS
    <2>2. SaveOK(d)'
      BY <1>12, <2>1, <1>ty DEF SaveOK, SaveTask
    <2> QED BY <1>1, <1>4, <1>12, <2>2
  <1>13. ASSUME NEW d \in Delivery, SaveReturns(d)
         PROVE  SaveInv'
    <2>1. UNCHANGED <<save, committed, rows>>
      BY <1>13 DEF SaveReturns, webVars, callbackVars, saveVars
    <2>2. CASE Fail(SaveTask(d), FALSE)
      <3>1. OnlyTask(SaveTask(d))
        BY <2>2, OneTask
      <3>2. /\ task' = [task EXCEPT ![SaveTask(d)] = AfterFailure(@, FALSE)]
            /\ task[SaveTask(d)].state = "active" /\ UNCHANGED <<late, runs>>
        BY <2>2 DEF Fail
      <3>3. task'[SaveTask(d)].state \in {"archived", "retry"}
        BY <3>2, FailureState
      <3> QED BY <1>12, <2>1, <3>1, <3>2, <3>3
    <2> QED BY <1>11, <1>13, <2>1, <2>2 DEF SaveReturns
  <1>14. ASSUME NEW d \in Delivery, LoginReturns(d) \/ LateLogin(d)
         PROVE  SaveInv'
    <2>1. UNCHANGED <<save, committed, rows>>
      BY <1>14 DEF LoginReturns, LateLogin, webVars, callbackVars, saveVars
    <2>2. (Customer(d) \in online) \in BOOLEAN
      OBVIOUS
    <2>3. OnlyTask(LoginTask(d))
      BY <1>14, <2>2, OneTask DEF LoginReturns, LateLogin
    <2> QED BY <1>2, <2>1, <2>3
  <1>15. ASSUME NEW d \in Delivery, TaskTimeout(SaveTask(d))
         PROVE  SaveInv'
    <2>1. SaveTask(d)[1] = d /\ SaveTask(d)[2] = "save"
      BY DEF SaveTask
    <2>2. Timeout(SaveTask(d), ~committed[d]) /\ UNCHANGED <<save, committed, rows>>
      BY <1>15, <2>1 DEF TaskTimeout, webVars, callbackVars, saveVars
    <2>3. OnlyTask(SaveTask(d))
      BY <2>2, OneTask
    <2>4. /\ task' = [task EXCEPT ![SaveTask(d)] = AfterFailure(@, FALSE)]
          /\ task[SaveTask(d)].state = "active" /\ UNCHANGED runs
      BY <2>2 DEF Timeout
    <2>5. task'[SaveTask(d)].state \in {"archived", "retry"}
      BY <2>4, FailureState
    <2>6. \/ UNCHANGED late
          \/ ~committed[d] /\ late'[SaveTask(d)] = late[SaveTask(d)] + 1
      BY <2>2 DEF Timeout, QueueTypeOK
    <2> QED BY <1>12, <2>2, <2>3, <2>4, <2>5, <2>6
  <1>16. ASSUME NEW d \in Delivery, TaskTimeout(LoginTask(d))
         PROVE  SaveInv'
    <2>1. LoginTask(d)[2] = "login"
      BY DEF LoginTask
    <2>2. Timeout(LoginTask(d), TRUE) /\ UNCHANGED <<save, committed, rows>>
      BY <1>16, <2>1 DEF TaskTimeout, webVars, callbackVars, saveVars
    <2> QED BY <1>2, <2>2, OneTask
  <1>17. ASSUME NEW d \in Delivery, LateSave(d)
         PROVE  SaveInv'
    <2>1. LateReturn(SaveTask(d)) /\ UNCHANGED <<save, committed>>
      BY <1>17 DEF LateSave, webVars, callbackVars
    <2>2. OnlyTask(SaveTask(d))
      BY <2>1, OneTask
    <2>3. UNCHANGED rows \/ rows' = [rows EXCEPT ![d] = @ + 1]
      BY <1>17 DEF LateSave, SaveMpesaPayment
    <2>4. \A e \in Delivery \ {d} : SaveUnchanged(e)
      BY <2>1, <2>2, <2>3 DEF SaveUnchanged, OnlyTask
    <2>5. /\ SaveOK(d) /\ late[SaveTask(d)] > 0 /\ UNCHANGED <<task, runs>>
          /\ late'[SaveTask(d)] = late[SaveTask(d)] - 1
          /\ rows'[d] = rows[d] \/ rows'[d] = rows[d] + 1
      BY <2>1, <2>3 DEF LateReturn, QueueTypeOK
    <2>6. SaveOK(d)'
      BY <2>1, <2>5, <1>ty DEF SaveOK, SaveTask
    <2> QED BY <1>1, <2>4, <2>6
  <1>18. ASSUME NEW d \in Delivery, StartTask(SaveTask(d))
         PROVE  SaveInv'
    <2>1. SaveTask(d)[1] = d /\ SaveTask(d)[2] = "save"
      BY DEF SaveTask
    <2>2. Dequeue(SaveTask(d)) /\ UNCHANGED <<save, rows>>
      BY <1>18 DEF StartTask, webVars, callbackVars
    <2>3. committed' = [committed EXCEPT ![d] = FALSE]
      BY <1>18, <2>1 DEF StartTask
    <2>4. OnlyTask(SaveTask(d))
      BY <2>2, OneTask
    <2>5. \A e \in Delivery \ {d} : SaveUnchanged(e)
      BY <2>2, <2>3, <2>4 DEF SaveUnchanged, OnlyTask
    <2>6. /\ SaveOK(d) /\ task[SaveTask(d)].state = "pending"
          /\ task'[SaveTask(d)].state = "active" /\ UNCHANGED late
          /\ runs'[SaveTask(d)] = runs[SaveTask(d)] + 1
      BY <2>2 DEF Dequeue, QueueTypeOK
    <2>7. ~committed'[d]
      BY <2>3, Zenon
    <2>8. SaveOK(d)'
      BY <2>2, <2>6, <2>7, <1>ty DEF SaveOK, SaveTask
    <2> QED BY <1>1, <2>5, <2>8
  <1>19. ASSUME NEW d \in Delivery, StartTask(LoginTask(d))
         PROVE  SaveInv'
    <2>1. LoginTask(d)[2] = "login"
      BY DEF LoginTask
    <2>2. Dequeue(LoginTask(d)) /\ UNCHANGED <<save, committed, rows>>
      BY <1>19, <2>1 DEF StartTask, webVars, callbackVars
    <2> QED BY <1>2, <2>2, OneTask
  <1>20. ASSUME NEW d \in Delivery, Requeue(SaveTask(d))
         PROVE  SaveInv'
    <2>1. UNCHANGED <<save, committed, rows>>
      BY <1>20 DEF Requeue, webVars, callbackVars, saveVars
    <2>2. OnlyTask(SaveTask(d))
      BY <1>20, OneTask DEF Requeue
    <2>3. CASE Recover(SaveTask(d))
      <3>1. task'[SaveTask(d)].state \in {"archived", "retry"}
        BY <2>3, FailureState DEF Recover
      <3> QED BY <1>12, <2>1, <2>2, <2>3, <3>1 DEF Recover
    <2>4. CASE Schedule(SaveTask(d))
      <3>1. /\ SaveOK(d) /\ task[SaveTask(d)].state = "retry"
            /\ task'[SaveTask(d)].state = "pending" /\ UNCHANGED <<late, runs>>
        BY <2>4 DEF Schedule, QueueTypeOK
      <3>2. SaveOK(d)'
        BY <2>1, <3>1, <1>ty DEF SaveOK, SaveTask
      <3> QED BY <1>1, <1>4, <2>1, <2>2, <3>2
    <2> QED BY <1>20, <2>3, <2>4 DEF Requeue
  <1>21. ASSUME NEW d \in Delivery, Requeue(LoginTask(d))
         PROVE  SaveInv'
    <2>1. UNCHANGED <<save, committed, rows>>
      BY <1>21 DEF Requeue, webVars, callbackVars, saveVars
    <2> QED BY <1>2, <1>21, <2>1, OneTask DEF Requeue
  <1>22. CASE Stop
    <2> SUFFICES ASSUME NEW d \in Delivery
                 PROVE  SaveOK(d)'
      BY DEF SaveInv
    <2>1. /\ late'[SaveTask(d)] = 0
          /\ UNCHANGED <<runs, rows, committed>>
          /\ save'[d] = IF save[d] = "todo" THEN "error" ELSE save[d]
      BY <1>22 DEF Stop, Crash, GracefullyShutdown, saveVars
    <2>2. \/ task[SaveTask(d)].state # "active" /\ task'[SaveTask(d)] = task[SaveTask(d)]
          \/ /\ task[SaveTask(d)].state = "active"
             /\ task'[SaveTask(d)].state \in {"orphaned", "pending"}
      <3>1. task[SaveTask(d)] \in TaskRecord
        BY <1>ty
      <3>2. CASE Crash
        BY <3>1, <3>2 DEF Crash, TaskRecord
      <3>3. CASE GracefullyShutdown
        BY <3>1, <3>3 DEF GracefullyShutdown, TaskRecord
      <3> QED BY <1>22, <3>2, <3>3 DEF Stop
    <2>3. SaveOK(d)
      OBVIOUS
    <2> QED BY <2>1, <2>2, <2>3, <1>ty DEF SaveOK, SaveTask
  <1>23. ASSUME NEW u \in User, Expire(u) \/ DeleteHotspotUser(u)
         PROVE  SaveInv'
    BY <1>3, <1>23 DEF Expire, DeleteHotspotUser, webVars, callbackVars, saveVars
  <1>24. ASSUME NEW c \in Checkout,
                CheckSubscription(c) \/ SendStkPush(c) \/ CreateOrder(c) \/ Decide(c)
         PROVE  SaveInv'
    BY <1>3, <1>24 DEF CheckSubscription, SendStkPush, CreateOrder, Decide, callbackVars, saveVars
  <1>25. ASSUME NEW d \in Delivery, Deliver(d) \/ Answer(d)
         PROVE  SaveInv'
    BY <1>3, <1>25 DEF Deliver, Answer, Goto, Respond, OnlyCallback, saveVars
  <1>26. CASE UNCHANGED vars
    BY <1>3, <1>26 DEF vars, webVars, callbackVars, saveVars
  <1>27. ASSUME NEW t \in Task, TaskTimeout(t) \/ StartTask(t) \/ Requeue(t)
         PROVE  SaveInv'
    <2>1. PICK d \in Delivery : t = SaveTask(d) \/ t = LoginTask(d)
      BY PaymentsAssumption DEF SaveTask, LoginTask
    <2> QED BY <1>15, <1>16, <1>18, <1>19, <1>20, <1>21, <1>27, <2>1
  <1> QED
    BY <1>6, <1>7, <1>notify, <1>hub, <1>8, <1>9, <1>10, <1>13, <1>14, <1>17, <1>22, <1>23, <1>24,
       <1>25, <1>26, <1>27
       DEF Next, Handler, AttemptReturns

-----------------------------------------------------------------------------
\* Accounts gain time only at the end of a callback about a paid, known order.
LEMMA AccessStep == Inv /\ [Next]_vars => AccessIsPaid'
  <1> SUFFICES ASSUME Inv, [Next]_vars
               PROVE  AccessIsPaid'
    OBVIOUS
  <1>0. /\ about' = about
        /\ \A c \in Checkout : Paid(c) => Paid(c)'
        /\ \A c \in Checkout : order[c] # "none" => order'[c] # "none"
    BY CheckoutStep DEF Paid
  <1>1. ASSUME NEW d \in Delivery, step[d] \in Provisioning,
               \A u \in User \ {Customer(d)} : live'[u] = live[u]
        PROVE  AccessIsPaid'
    <2>1. Paid(about[d]) /\ order[about[d]] # "none" /\ about[d] \in Checkout
      BY <1>1 DEF Inv, CallbackInv, TypeOK
    <2>2. \E c \in Checkout : UserOf[c] = Customer(d) /\ Paid(c)' /\ order'[c] # "none"
      BY <1>0, <2>1 DEF Customer
    <2> QED BY <1>0, <1>1, <2>2 DEF Inv, AccessIsPaid
  <1>2. ASSUME \A u \in User : live'[u] > 0 => live[u] > 0
        PROVE  AccessIsPaid'
    BY <1>0, <1>2 DEF Inv, AccessIsPaid
  <1>3. ASSUME NEW u \in User, Expire(u)
        PROVE  AccessIsPaid'
    BY <1>2, <1>3 DEF Inv, TypeOK, Expire
  <1>4. ASSUME NEW u \in User, DeleteHotspotUser(u)
        PROVE  AccessIsPaid'
    BY <1>2, <1>4 DEF Inv, TypeOK, DeleteHotspotUser
  <1>5. ASSUME NEW d \in Delivery, InsertUser(d) \/ UpdateUser(d)
        PROVE  AccessIsPaid'
    <2>1. step[d] \in Provisioning
      BY <1>5 DEF InsertUser, UpdateUser, At, Provisioning
    <2>2. \A u \in User \ {Customer(d)} : live'[u] = live[u]
      BY <1>5 DEF InsertUser, UpdateUser, Inv, TypeOK
    <2> QED BY <1>1, <2>1, <2>2
  <1>6. CASE UNCHANGED live
    BY <1>2, <1>6
  <1>7. ASSUME NEW c \in Checkout,
               CheckSubscription(c) \/ SendStkPush(c) \/ CreateOrder(c) \/ Decide(c)
        PROVE  UNCHANGED live
    BY <1>7 DEF CheckSubscription, SendStkPush, CreateOrder, Decide, radiusVars
  <1>8. ASSUME NEW d \in Delivery,
               \/ Deliver(d) \/ LookupOrder(d) \/ ReadStatus(d) \/ ReadExpiry(d) \/ CountExisting(d)
               \/ FindExisting(d) \/ Notify(d) \/ EnqueueLogin(d) \/ EnqueueSave(d) \/ Answer(d)
        PROVE  UNCHANGED live
    BY <1>8 DEF Deliver, LookupOrder, ReadStatus, ReadExpiry, CountExisting, FindExisting, Notify,
                EnqueueLogin, EnqueueSave, Answer, OnlyCallback, radiusVars
  <1>9. ASSUME NEW d \in Delivery,
               CommitPayment(d) \/ AttemptReturns(d) \/ LateSave(d) \/ LateLogin(d)
        PROVE  UNCHANGED live
    BY <1>9 DEF CommitPayment, AttemptReturns, SaveReturns, LoginReturns, TaskTimeout, LateSave,
                LateLogin, radiusVars
  <1>10. ASSUME NEW t \in Task, StartTask(t) \/ Requeue(t)
         PROVE  UNCHANGED live
    BY <1>10 DEF StartTask, Requeue, radiusVars
  <1>11. CASE Stop \/ Hub \/ UNCHANGED vars
    BY <1>6, <1>11 DEF Stop, Hub, vars, radiusVars
  <1> QED
    BY <1>3, <1>4, <1>5, <1>6, <1>7, <1>8, <1>9, <1>10, <1>11 DEF Next, Handler

-----------------------------------------------------------------------------
\* A payment row exists: the save task that wrote it was enqueued by a
\* callback, and a callback comes only after M-Pesa's result.
Saved(c) == \E d \in Delivery : about[d] = c /\ rows[d] > 0

\* So a payment row implies a final result.
LEMMA SavedIsDecided ==
    ASSUME Inv, NEW c \in Checkout, Saved(c)
    PROVE  outcome[c] \in {"paid", "failed"}
  <1>1. PICK d \in Delivery : about[d] = c /\ rows[d] > 0
    BY DEF Saved
  <1>2. task[SaveTask(d)].state # "none"
    BY <1>1 DEF Inv, SaveInv, SaveOK
  <1>3. save[d] \in {"ok", "error"}
    BY <1>2 DEF Inv, SaveInv, SaveOK
  <1>4. step[d] # "idle"
    BY <1>3 DEF Inv, CallbackInv, BeforeEnqueue
  <1> QED BY <1>1, <1>4 DEF Inv, CallbackInv

\* The order's status and the payment rows change together.
LEMMA OrderStep == Inv /\ [Next]_vars => OrderMatchesPayments'
  <1> SUFFICES ASSUME Inv, [Next]_vars
               PROVE  OrderMatchesPayments'
    OBVIOUS
  <1>0. /\ about' = about
        /\ about \in [Delivery -> Checkout] /\ rows \in [Delivery -> Nat]
        /\ outcome \in [Checkout -> Outcome] /\ order \in [Checkout -> OrderStatus]
        /\ \A c \in Checkout : /\ order[c] = "paid" <=> Saved(c) /\ Paid(c)
                               /\ order[c] = "payment_failed" <=> Saved(c) /\ ~Paid(c)
    BY CheckoutStep DEF Inv, TypeOK, OrderMatchesPayments, Saved
  <1>1. ASSUME \A c \in Checkout : /\ order'[c] = "paid" <=> Saved(c)' /\ Paid(c)'
                                   /\ order'[c] = "payment_failed" <=> Saved(c)' /\ ~Paid(c)'
        PROVE  OrderMatchesPayments'
    BY <1>1 DEF OrderMatchesPayments, Saved
  <1>2. ASSUME UNCHANGED <<order, rows, outcome>>
        PROVE  OrderMatchesPayments'
    <2>1. \A c \in Checkout : (Saved(c)' <=> Saved(c)) /\ (Paid(c)' <=> Paid(c))
      BY <1>0, <1>2 DEF Saved, Paid
    <2> QED BY <1>0, <1>1, <1>2, <2>1
  <1>3. ASSUME NEW c \in Checkout, SendStkPush(c) \/ Decide(c)
        PROVE  OrderMatchesPayments'
    <2>1. UNCHANGED <<order, rows>>
      BY <1>3 DEF SendStkPush, Decide, saveVars
    <2>2. \A e \in Checkout : Saved(e)' <=> Saved(e)
      BY <1>0, <2>1 DEF Saved
    <2>3. \A e \in Checkout : Saved(e) => outcome'[e] = outcome[e]
      BY CheckoutStep, SavedIsDecided
    <2> QED BY <1>0, <1>1, <2>1, <2>2, <2>3 DEF Paid
  <1>4. ASSUME NEW c \in Checkout, CreateOrder(c)
        PROVE  OrderMatchesPayments'
    <2>1. UNCHANGED <<rows, outcome>>
      BY <1>4 DEF CreateOrder
    <2>2. \A e \in Checkout : (Saved(e)' <=> Saved(e)) /\ (Paid(e)' <=> Paid(e))
      BY <1>0, <2>1 DEF Saved, Paid
    <2>3. order[c] = "none"
      BY <1>4 DEF CreateOrder, Inv, CheckoutInv
    <2>4. UNCHANGED order \/ order' = [order EXCEPT ![c] = "PENDING"]
      BY <1>4 DEF CreateOrder
    <2> QED BY <1>0, <1>1, <2>2, <2>3, <2>4
  <1>5. ASSUME NEW d \in Delivery, SaveMpesaPayment(d), UNCHANGED outcome
        PROVE  OrderMatchesPayments'
    <2>1. \A e \in Checkout : Paid(e)' <=> Paid(e)
      BY <1>5 DEF Paid
    <2>2. rows'[d] = rows[d] + 1 /\ \A e \in Delivery \ {d} : rows'[e] = rows[e]
      BY <1>0, <1>5 DEF SaveMpesaPayment
    <2>3. Saved(about[d])' /\ \A c \in Checkout \ {about[d]} : Saved(c)' <=> Saved(c)
      BY <1>0, <2>2 DEF Saved
    <2>4. /\ order'[about[d]] = IF Paid(about[d]) THEN "paid" ELSE "payment_failed"
          /\ \A c \in Checkout \ {about[d]} : order'[c] = order[c]
      BY <1>0, <1>5 DEF SaveMpesaPayment
    <2> QED BY <1>0, <1>1, <2>1, <2>3, <2>4
  <1>6. ASSUME NEW d \in Delivery, CommitPayment(d) \/ LateSave(d)
        PROVE  OrderMatchesPayments'
    BY <1>2, <1>5, <1>6 DEF CommitPayment, LateSave, webVars, mpesaVars
  <1>7. ASSUME NEW u \in User, Expire(u) \/ DeleteHotspotUser(u)
        PROVE  UNCHANGED <<order, rows, outcome>>
    BY <1>7 DEF Expire, DeleteHotspotUser, webVars, mpesaVars, saveVars
  <1>8. ASSUME NEW c \in Checkout, CheckSubscription(c)
        PROVE  UNCHANGED <<order, rows, outcome>>
    BY <1>8 DEF CheckSubscription, saveVars
  <1>9. ASSUME NEW d \in Delivery, Deliver(d) \/ Handler(d)
        PROVE  UNCHANGED <<order, rows, outcome>>
    BY <1>9 DEF Deliver, Handler, LookupOrder, ReadStatus, ReadExpiry, CountExisting, InsertUser,
                FindExisting, UpdateUser, Notify, EnqueueLogin, EnqueueSave, Answer, OnlyCallback,
                mpesaVars, saveVars
  <1>10. ASSUME NEW d \in Delivery, AttemptReturns(d) \/ LateLogin(d)
         PROVE  UNCHANGED <<order, rows, outcome>>
    BY <1>10 DEF AttemptReturns, SaveReturns, LoginReturns, TaskTimeout, LateLogin, webVars,
                 mpesaVars, saveVars
  <1>11. ASSUME NEW t \in Task, StartTask(t) \/ Requeue(t)
         PROVE  UNCHANGED <<order, rows, outcome>>
    BY <1>11 DEF StartTask, Requeue, webVars, mpesaVars, saveVars
  <1>12. CASE Stop \/ Hub \/ UNCHANGED vars
    BY <1>2, <1>12 DEF Stop, Hub, vars, webVars, mpesaVars, saveVars
  <1> QED
    BY <1>2, <1>3, <1>4, <1>6, <1>7, <1>8, <1>9, <1>10, <1>11, <1>12 DEF Next

-----------------------------------------------------------------------------
\* The invariant holds at the start.
LEMMA InvStart == Init => Inv
  <1> SUFFICES ASSUME Init
               PROVE  Inv
    OBVIOUS
  <1>1. QueueInv /\ QueueTypeOK
    BY QueueStart DEF Init, QueueInv
  <1>2. TypeOK
    <2>1. committed \in [Delivery -> BOOLEAN]
      BY Zenon DEF Init
    <2> QED BY <1>1, <2>1 DEF Init, TypeOK, CheckoutState, Outcome, OrderStatus, CallbackStep,
                              Manage, Enqueued, Response
  <1>3. CheckoutInv
    BY DEF Init, CheckoutInv
  <1>4. CallbackInv
    BY DEF Init, CallbackInv, BeforeEnqueue, Provisioning
  <1>5. SaveInv
    <2> SUFFICES ASSUME NEW d \in Delivery
                 PROVE  SaveOK(d)
      BY DEF SaveInv
    <2>1. /\ task[SaveTask(d)].state = "none" /\ late[SaveTask(d)] = 0 /\ runs[SaveTask(d)] = 0
          /\ rows[d] = 0 /\ save[d] = "no"
      BY TasksOf DEF Init, QueueInit
    <2> QED BY <2>1 DEF SaveOK
  <1>6. AccessIsPaid
    BY DEF Init, AccessIsPaid
  <1>7. OrderMatchesPayments
    BY DEF Init, OrderMatchesPayments
  <1> QED BY <1>1, <1>2, <1>3, <1>4, <1>5, <1>6, <1>7 DEF Inv

\* ... and is kept by every step.
LEMMA InvStep == Inv /\ [Next]_vars => Inv'
  <1> SUFFICES ASSUME Inv, [Next]_vars
               PROVE  Inv'
    OBVIOUS
  <1>1. QueueInv'
    BY QueueRefined, QueueStep DEF Inv
  <1> QED BY <1>1, TypeStep, CheckoutStep, CallbackStepInv, SaveStep, AccessStep, OrderStep DEF Inv

\* The invariant holds in every reachable state.
LEMMA Invariance == Spec => []Inv
  BY InvStart, InvStep, PTL DEF Spec

-----------------------------------------------------------------------------
\* Every variable keeps its type, for any number of customers, checkouts,
\* callbacks, retries and restarts.
THEOREM TypeCorrect == Spec => []TypeOK
  <1>1. Inv => TypeOK
    BY DEF Inv
  <1> QED BY <1>1, Invariance, PTL

\* No account has time left unless its customer paid for a known order:
\* whatever callbacks are repeated, reordered or interleaved, and wherever
\* the process stops.
THEOREM AccessImpliesPayment == Spec => []AccessIsPaid
  <1>1. Inv => AccessIsPaid
    BY DEF Inv
  <1> QED BY <1>1, Invariance, PTL

\* The orders table and the payments table agree with each other and with
\* M-Pesa at all times.
THEOREM OrdersMatchPayments == Spec => []OrderMatchesPayments
  <1>1. Inv => OrderMatchesPayments
    BY DEF Inv
  <1> QED BY <1>1, Invariance, PTL

\* The duplicate payment rows of one callback are bounded by the attempts its
\* save task is granted.
THEOREM RowsAreBounded == Spec => []RowsPerCallback
  <1>1. Inv => RowsPerCallback
    <2> SUFFICES ASSUME Inv, NEW d \in Delivery
                 PROVE  rows[d] <= MaxRetry[task[SaveTask(d)].queue] + 1 + restarts
      BY DEF RowsPerCallback
    <2>1. SaveTask(d) \in Task
      BY TasksOf
    <2>2. /\ rows[d] \in Nat /\ late[SaveTask(d)] \in Nat /\ runs[SaveTask(d)] \in Nat
          /\ restarts \in Nat /\ task[SaveTask(d)] \in TaskRecord
      BY <2>1, QueueAssumption DEF Inv, TypeOK, QueueTypeOK
    <2>3. rows[d] <= runs[SaveTask(d)]
      BY <2>2 DEF Inv, SaveInv, SaveOK
    <2>4. StartsPaidFor(SaveTask(d))
      BY <2>1 DEF Inv, QueueInv
    <2>5. /\ task[SaveTask(d)].retried \in Nat
          /\ MaxRetry[task[SaveTask(d)].queue] \in Nat
      BY <2>2, QueueAssumption DEF TaskRecord
    <2> QED BY <2>2, <2>3, <2>4, <2>5 DEF StartsPaidFor
  <1> QED BY <1>1, Invariance, PTL

\* A payment M-Pesa was told is settled (200, no conflict) is recorded or its
\* save task is still in Redis.
THEOREM AnsweredPaymentsAreKept == Spec => []AnsweredIsKept
  <1>1. Inv => AnsweredIsKept
    <2> SUFFICES ASSUME Inv, NEW d \in Delivery
                 PROVE  resp[d] = 200 /\ Paid(about[d]) /\ manage[d] # "conflict" =>
                          \/ order[about[d]] = "paid"
                          \/ task[SaveTask(d)].state \in
                               {"pending", "active", "orphaned", "retry", "archived"}
      BY DEF AnsweredIsKept
    <2>0. SaveTask(d) \in Task
      BY TasksOf
    <2> HAVE resp[d] = 200 /\ Paid(about[d]) /\ manage[d] # "conflict"
    <2>1. save[d] = "ok"
      BY DEF Inv, CallbackInv
    <2>2. task[SaveTask(d)].state # "none"
      BY <2>1 DEF Inv, SaveInv, SaveOK
    <2>3. CASE task[SaveTask(d)].state = "completed"
      <3>1. rows[d] > 0
        BY <2>3 DEF Inv, SaveInv, SaveOK
      <3> QED BY <3>1 DEF Inv, TypeOK, OrderMatchesPayments
    <2>4. task[SaveTask(d)].state \in TaskState
      <3>1. task[SaveTask(d)] \in TaskRecord
        BY <2>0 DEF Inv, TypeOK, QueueTypeOK
      <3> QED BY <3>1 DEF TaskRecord
    <2> QED BY <2>2, <2>3, <2>4 DEF TaskState
  <1> QED BY <1>1, Invariance, PTL

\* Payments implements the task queue: attached to the program's handlers,
\* the queue still behaves as TaskQueue says, so all that holds of TaskQueue
\* holds of the save and login tasks.
THEOREM PaymentsImplementQueue == Spec => QueueSpec
  <1>1. Init => QueueInit
    BY DEF Init
  <1> QED BY <1>1, QueueRefined, PTL DEF Spec, QueueSpec
=============================================================================
