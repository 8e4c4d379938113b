----------------------------- MODULE TaskQueue -----------------------------
(***************************************************************************)
(* The task queue of queue/client.go and queue/server.go: tasks are put    *)
(* into Redis with per-priority options, an asynq server runs at most      *)
(* Concurrency of them at a time and retries the ones whose handler        *)
(* returns an error.  asynq itself is a library: its task life cycle       *)
(* (pending, active, retry, archived, completed), the recovery of leases   *)
(* of dead workers and the abandoning of handlers that outlive their       *)
(* timeout are modelled from the options the code passes to it.            *)
(*                                                                         *)
(* The handlers and the error handler tell the customer's browser through  *)
(* websocket.Hub.SendToIP, which takes the hub's mutex: while a peer that  *)
(* does not read stalls the hub (WsHub), whoever calls it waits.           *)
(***************************************************************************)
EXTENDS Naturals, FiniteSets

CONSTANTS
    Task,          \* identities of the tasks that may be enqueued
    MaxRetry,      \* retries per queue; CodeMaxRetry are the code's values
    Concurrency,   \* tasks the server works on at a time (10 in the code)
    MaxRestarts    \* bound: how often the process stops and starts again

Queue == {"critical", "default", "reporting"}

\* The retry limits EnqueueTask passes for each priority.
CodeMaxRetry == [critical |-> 5, default |-> 3, reporting |-> 3]

ASSUME QueueAssumption ==
    /\ MaxRetry \in [Queue -> Nat]
    /\ Concurrency \in Nat \ {0}
    /\ MaxRestarts \in Nat

VARIABLES
    task,      \* per task: its asynq state, its queue and its retries so far
    late,      \* per task: handlers abandoned at the timeout, still running
    runs,      \* per task: how often its handler was started
    restarts,  \* how often the process stopped
    hubFree    \* SendToIP returns; FALSE while a stalled peer holds the hub's mutex

queueVars == <<task, late, runs, restarts, hubFree>>

TaskState == {"none", "pending", "active", "orphaned", "retry", "archived", "completed"}
TaskRecord == [state : TaskState, queue : Queue, retried : Nat]

QueueTypeOK ==
    /\ task \in [Task -> TaskRecord]
    /\ late \in [Task -> Nat]
    /\ runs \in [Task -> Nat]
    /\ restarts \in 0 .. MaxRestarts
    /\ hubFree \in BOOLEAN

QueueInit ==
    /\ task = [t \in Task |-> [state |-> "none", queue |-> "default", retried |-> 0]]
    /\ late = [t \in Task |-> 0]
    /\ runs = [t \in Task |-> 0]
    /\ restarts = 0
    /\ hubFree = TRUE

-----------------------------------------------------------------------------
InState(s) == {t \in Task : task[t].state = s}
Settled(t) == task[t].state \in {"completed", "archived"}

\* The task after a failed attempt: archived when retrying is pointless or
\* the retries are used up, otherwise scheduled once more.
AfterFailure(r, skipRetry) ==
    IF skipRetry \/ r.retried >= MaxRetry[r.queue]
    THEN [r EXCEPT !.state = "archived"]
    ELSE [r EXCEPT !.state = "retry", !.retried = @ + 1]

\* Mutant: a priority without a queue of its own is passed on.
EnqueueUnknownQueue(t, priority) ==
    /\ task[t].state = "none"
    /\ task' = [task EXCEPT ![t] = [state |-> "pending", queue |-> "low", retried |-> 0]]
    /\ UNCHANGED <<late, runs, restarts, hubFree>>

\* EnqueueTask succeeded: the task waits in the queue its priority names.
EnqueueTask(t, priority) ==
    /\ task[t].state = "none"
    /\ task' = [task EXCEPT ![t] = [state |-> "pending", queue |-> priority, retried |-> 0]]
    /\ UNCHANGED <<late, runs, restarts, hubFree>>

\* Mutant: the reporting queue is missing from the server's configuration.
DequeueNoReports(t) ==
    /\ task[t].state = "pending" /\ task[t].queue # "reporting"
    /\ Cardinality(InState("active")) < Concurrency
    /\ task' = [task EXCEPT ![t].state = "active"]
    /\ runs' = [runs EXCEPT ![t] = @ + 1]
    /\ UNCHANGED <<late, restarts, hubFree>>

\* A free worker takes a pending task of any queue.  The values of the
\* Queues map are weights of a random choice, so no queue has a quota.
Dequeue(t) ==
    /\ task[t].state = "pending"
    /\ Cardinality(InState("active")) < Concurrency
    /\ task' = [task EXCEPT ![t].state = "active"]
    /\ runs' = [runs EXCEPT ![t] = @ + 1]
    /\ UNCHANGED <<late, restarts, hubFree>>

\* A peer stops reading while the hub writes to it; it reads again or is gone.
HubStalls ==
    /\ hubFree
    /\ hubFree' = FALSE
    /\ UNCHANGED <<task, late, runs, restarts>>

HubResumes ==
    /\ ~hubFree
    /\ hubFree' = TRUE
    /\ UNCHANGED <<task, late, runs, restarts>>

\* The handler returned nil.  Both handlers end by telling the browser.
Complete(t) ==
    /\ task[t].state = "active" /\ hubFree
    /\ task' = [task EXCEPT ![t].state = "completed"]
    /\ UNCHANGED <<late, runs, restarts, hubFree>>

\* Mutant: the server is configured (asynq's IsFailure) not to count the errors
\* of the handlers as retries.
FailUncounted(t, skipRetry) ==
    /\ task[t].state = "active" /\ hubFree
    /\ task' = [task EXCEPT ![t].state = IF skipRetry THEN "archived" ELSE "retry"]
    /\ UNCHANGED <<late, runs, restarts, hubFree>>

\* The handler returned an error; skipRetry when it is asynq.SkipRetry.  The
\* worker first runs NewErrorHandler, which tells the browser, and only then
\* retries or archives the task: until then the task counts as active.
Fail(t, skipRetry) ==
    /\ task[t].state = "active" /\ hubFree
    /\ task' = [task EXCEPT ![t] = AfterFailure(@, skipRetry)]
    /\ UNCHANGED <<late, runs, restarts, hubFree>>

\* asynq.Timeout passes.  The worker gives the task up as failed, through the
\* error handler, but no handler of this program looks at its context: if it
\* has not finished its work yet (stillWorking), it goes on beside the retry.
Timeout(t, stillWorking) ==
    /\ task[t].state = "active" /\ hubFree
    /\ task' = [task EXCEPT ![t] = AfterFailure(@, FALSE)]
    /\ late' = IF stillWorking THEN [late EXCEPT ![t] = @ + 1] ELSE late
    /\ UNCHANGED <<runs, restarts, hubFree>>

\* An abandoned handler has done its work; nobody reads its result.  (Telling
\* the browser comes after that.)
LateReturn(t) ==
    /\ late[t] > 0
    /\ late' = [late EXCEPT ![t] = @ - 1]
    /\ UNCHANGED <<task, runs, restarts, hubFree>>

\* The retry delay is over.
Schedule(t) ==
    /\ task[t].state = "retry"
    /\ task' = [task EXCEPT ![t].state = "pending"]
    /\ UNCHANGED <<late, runs, restarts, hubFree>>

\* The lease of a task whose worker died expires.
Recover(t) ==
    /\ task[t].state = "orphaned"
    /\ task' = [task EXCEPT ![t] = AfterFailure(@, FALSE)]
    /\ UNCHANGED <<late, runs, restarts, hubFree>>

\* The process dies: Redis keeps the tasks, every running handler is gone.
Crash ==
    /\ restarts < MaxRestarts
    /\ restarts' = restarts + 1
    /\ task' = [t \in Task |-> IF task[t].state = "active"
                               THEN [task[t] EXCEPT !.state = "orphaned"]
                               ELSE task[t]]
    /\ late' = [t \in Task |-> 0]
    /\ hubFree' = TRUE
    /\ UNCHANGED runs

\* SIGTERM: GracefullyShutdown waits for a while and puts the tasks that
\* are still active back into their queues; then the process exits.  (A worker
\* that is stuck in the error handler holds the shutdown up: that is a Crash.)
GracefullyShutdown ==
    /\ restarts < MaxRestarts
    /\ restarts' = restarts + 1
    /\ task' = [t \in Task |-> IF task[t].state = "active"
                               THEN [task[t] EXCEPT !.state = "pending"]
                               ELSE task[t]]
    /\ late' = [t \in Task |-> 0]
    /\ hubFree' = TRUE
    /\ UNCHANGED runs

-----------------------------------------------------------------------------
\* Every way an attempt at t can end.
AttemptEnds(t) ==
    \/ Complete(t)
    \/ \E skipRetry \in BOOLEAN : Fail(t, skipRetry)
    \/ \E stillWorking \in BOOLEAN : Timeout(t, stillWorking)

\* Steps the asynq server takes by itself.
ServerStep(t) == Dequeue(t) \/ Schedule(t) \/ Recover(t)

QueueNext ==
    \/ \E t \in Task : \/ \E q \in Queue : EnqueueTask(t, q)
                       \/ ServerStep(t)
                       \/ AttemptEnds(t)
                       \/ LateReturn(t)
    \/ Crash
    \/ GracefullyShutdown
    \/ HubStalls \/ HubResumes

QueueSpec == QueueInit /\ [][QueueNext]_queueVars

\* Workers poll, the scheduler and the recoverer are periodic, and an attempt
\* ends at its timeout at the latest, unless the hub is stalled.  Nothing is
\* assumed of the hub's peers.
QueueFairness ==
    \A t \in Task : /\ WF_queueVars(Dequeue(t))
                    /\ WF_queueVars(Schedule(t))
                    /\ WF_queueVars(Recover(t))
                    /\ WF_queueVars(AttemptEnds(t))

QueueFairSpec == QueueSpec /\ QueueFairness

-----------------------------------------------------------------------------
\* A handler is started at most once per permitted attempt; only a graceful
\* shutdown, which requeues without counting a retry, adds starts.  This is
\* what bounds the effects a task that is not idempotent can have
\* (EnqueueTask's MaxRetry, the server's retry and recovery).
RunsBounded ==
    \A t \in Task : runs[t] <= MaxRetry[task[t].queue] + 1 + restarts

\* Unless a peer stalls the hub for ever, every enqueued task is completed or
\* archived in the end, through failures, timeouts and restarts.  (If one does,
\* every worker ends up waiting in SendToIP and no task is taken any more.)
EveryTaskSettles ==
    <>[]hubFree => \A t \in Task : task[t].state = "pending" ~> Settled(t)
=============================================================================
