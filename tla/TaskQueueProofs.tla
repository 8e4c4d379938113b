-------------------------- MODULE TaskQueueProofs --------------------------
(***************************************************************************)
(* Proofs about TaskQueue, for any set of tasks, any retry limits and any  *)
(* number of restarts.                                                     *)
(***************************************************************************)
EXTENDS TaskQueue, TLAPS

\* A task that was never enqueued was never run; otherwise every start of its
\* handler is paid for by a counted retry, by a restart, or is the last one.
StartsPaidFor(t) ==
    /\ task[t].retried <= MaxRetry[task[t].queue]
    /\ task[t].state = "none" => task[t].retried = 0
    /\ runs[t] <= restarts + task[t].retried
                  + (IF task[t].state \in {"active", "orphaned", "completed", "archived"}
                     THEN 1 ELSE 0)

QueueInv == QueueTypeOK /\ \A t \in Task : StartsPaidFor(t)

-----------------------------------------------------------------------------
\* What a failed attempt leaves is a well-formed record of the same queue
\* that is archived unchanged or has one more, still permitted, retry.
LEMMA FailureRecord ==
    ASSUME NEW r \in TaskRecord, NEW skipRetry \in BOOLEAN, r.retried <= MaxRetry[r.queue]
    PROVE  LET f == AfterFailure(r, skipRetry)
           IN  /\ f \in TaskRecord
               /\ f.queue = r.queue
               /\ f.retried <= MaxRetry[f.queue]
               /\ \/ f.state = "archived" /\ f.retried = r.retried
                  \/ f.state = "retry" /\ f.retried = r.retried + 1
  <1> USE QueueAssumption DEF TaskRecord, TaskState, Queue
  <1>1. CASE skipRetry \/ r.retried >= MaxRetry[r.queue]
    BY <1>1 DEF AfterFailure
  <1>2. CASE ~(skipRetry \/ r.retried >= MaxRetry[r.queue])
    <2>1. r.retried + 1 <= MaxRetry[r.queue]
      BY <1>2
    <2>2. AfterFailure(r, skipRetry) =
            [state |-> "retry", queue |-> r.queue, retried |-> r.retried + 1]
      BY <1>2 DEF AfterFailure
    <2> QED BY <2>1, <2>2
  <1> QED BY <1>1, <1>2

\* Every step of the queue keeps the invariant.
LEMMA QueueStep == QueueInv /\ [QueueNext]_queueVars => QueueInv'
  <1> SUFFICES ASSUME QueueInv, [QueueNext]_queueVars
               PROVE  QueueInv'
    OBVIOUS
  <1> USE QueueAssumption DEF QueueInv, QueueTypeOK, StartsPaidFor, TaskRecord, TaskState, Queue
  <1>1. ASSUME NEW t \in Task, NEW q \in Queue, EnqueueTask(t, q)
        PROVE  QueueInv'
    BY <1>1 DEF EnqueueTask
  <1>2. ASSUME NEW t \in Task, Dequeue(t)
        PROVE  QueueInv'
    BY <1>2 DEF Dequeue
  <1>3. ASSUME NEW t \in Task, Schedule(t)
        PROVE  QueueInv'
    BY <1>3 DEF Schedule
  <1>4. ASSUME NEW t \in Task, NEW skip \in BOOLEAN,
               task[t].state \in {"active", "orphaned"},
               task' = [task EXCEPT ![t] = AfterFailure(@, skip)],
               late' \in [Task -> Nat], UNCHANGED <<runs, restarts, hubFree>>
        PROVE  QueueInv'
    <2>1. /\ task'[t] = AfterFailure(task[t], skip)
          /\ \A u \in Task \ {t} : task'[u] = task[u]
      BY <1>4
    <2>2. /\ AfterFailure(task[t], skip) \in TaskRecord
          /\ AfterFailure(task[t], skip).queue = task[t].queue
          /\ AfterFailure(task[t], skip).retried <= MaxRetry[AfterFailure(task[t], skip).queue]
          /\ \/ /\ AfterFailure(task[t], skip).state = "archived"
                /\ AfterFailure(task[t], skip).retried = task[t].retried
             \/ /\ AfterFailure(task[t], skip).state = "retry"
                /\ AfterFailure(task[t], skip).retried = task[t].retried + 1
      BY FailureRecord
    <2>3. QueueTypeOK'
      BY <1>4, <2>1, <2>2
    <2>4. StartsPaidFor(t)'
      BY <1>4, <2>1, <2>2
    <2>5. \A u \in Task \ {t} : StartsPaidFor(u)'
      BY <1>4, <2>1
    <2> QED BY <2>3, <2>4, <2>5
  <1>5. ASSUME NEW t \in Task, AttemptEnds(t)
        PROVE  QueueInv'
    <2>1. CASE Complete(t)
      BY <2>1 DEF Complete
    <2>2. ASSUME NEW skip \in BOOLEAN, Fail(t, skip)
          PROVE  QueueInv'
      <3>1. /\ task[t].state \in {"active", "orphaned"}
            /\ task' = [task EXCEPT ![t] = AfterFailure(@, skip)]
            /\ late' \in [Task -> Nat]
            /\ UNCHANGED <<runs, restarts, hubFree>>
        BY <2>2 DEF Fail
      <3> QED BY <3>1, <1>4
    <2>3. ASSUME NEW still \in BOOLEAN, Timeout(t, still)
          PROVE  QueueInv'
      <3>1. /\ task[t].state \in {"active", "orphaned"}
            /\ task' = [task EXCEPT ![t] = AfterFailure(@, FALSE)]
            /\ late' \in [Task -> Nat]
            /\ UNCHANGED <<runs, restarts, hubFree>>
        BY <2>3 DEF Timeout
      <3> QED BY <3>1, <1>4
    <2> QED BY <1>5, <2>1, <2>2, <2>3 DEF AttemptEnds
  <1>6. ASSUME NEW t \in Task, LateReturn(t)
        PROVE  QueueInv'
    BY <1>6 DEF LateReturn
  <1>7. ASSUME NEW t \in Task, Recover(t)
        PROVE  QueueInv'
    <2>1. /\ task[t].state \in {"active", "orphaned"}
          /\ task' = [task EXCEPT ![t] = AfterFailure(@, FALSE)]
          /\ late' \in [Task -> Nat]
          /\ UNCHANGED <<runs, restarts, hubFree>>
      BY <1>7 DEF Recover
    <2> QED BY <2>1, <1>4
  <1>8. CASE Crash
    BY <1>8 DEF Crash
  <1>9. CASE GracefullyShutdown
    BY <1>9 DEF GracefullyShutdown
  <1>11. CASE HubStalls \/ HubResumes
    BY <1>11 DEF HubStalls, HubResumes
  <1>10. CASE UNCHANGED queueVars
    BY <1>10 DEF queueVars
  <1> QED
    BY <1>1, <1>2, <1>3, <1>5, <1>6, <1>7, <1>8, <1>9, <1>10, <1>11 DEF QueueNext, ServerStep

\* The invariant holds while nothing has been enqueued.
LEMMA QueueStart == QueueInit => QueueInv
  BY QueueAssumption
     DEF QueueInit, QueueInv, QueueTypeOK, StartsPaidFor, TaskRecord, TaskState, Queue

\* The records in Redis stay well formed, whatever tasks are enqueued, fail,
\* time out or are recovered.
THEOREM QueueTypeCorrect == QueueSpec => []QueueTypeOK
  <1>1. QueueSpec => []QueueInv
    BY QueueStart, QueueStep, PTL DEF QueueSpec
  <1>2. QueueInv => QueueTypeOK
    BY DEF QueueInv
  <1> QED BY <1>1, <1>2, PTL

\* No task's handler is started more often than its retry limit and the
\* restarts of the process allow.
THEOREM RunsAreBounded == QueueSpec => []RunsBounded
  <1>1. QueueSpec => []QueueInv
    BY QueueStart, QueueStep, PTL DEF QueueSpec
  <1>2. QueueInv => RunsBounded
    BY QueueAssumption
       DEF QueueInv, QueueTypeOK, StartsPaidFor, RunsBounded, TaskRecord, TaskState, Queue
  <1> QED BY <1>1, <1>2, PTL
=============================================================================
