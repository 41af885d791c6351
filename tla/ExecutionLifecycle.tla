------------------------- MODULE ExecutionLifecycle -------------------------
(***************************************************************************)
(* The life of a workflow execution: the row of table workflowexecution,   *)
(* the request (or scheduler tick) that creates it, the queue message that *)
(* carries it to a worker, the worker's attempts, and the requests that    *)
(* cancel it or sweep it away as stale.                                    *)
(*                                                                         *)
(* Every write of the row is a commit of its own session and no writer     *)
(* takes a lock, so each action below is one commit, or one message of the *)
(* queue, and they interleave freely.                                      *)
(***************************************************************************)
EXTENDS Naturals

CONSTANTS
    Execution,   \* identifiers of executions
    Triggers,    \* the code paths that may create them
    MaxRetries,  \* max_retries of execute_workflow_task
    MaxFaults,   \* bound on crashes, queue and database errors
    Modes        \* the values of LITE_MODE to start with

AllTriggers == {"MANUAL", "RETRY", "WEBHOOK", "SCHEDULED", "API"}

ASSUME TriggersAssumption == Triggers \subseteq AllTriggers
ASSUME MaxRetriesAssumption == MaxRetries \in Nat
ASSUME MaxFaultsAssumption == MaxFaults \in Nat
ASSUME ModesAssumption == Modes \subseteq BOOLEAN

VARIABLES
    status,    \* status column, NoRow while no other session sees the row
    hasError,  \* context_data, as committed, has an "error"
    taskId,    \* celery_task_id is stored
    trigger,   \* trigger_type
    request,   \* progress of the handler that creates the execution
    job,       \* the execution's message or running task
    retries,   \* self.request.retries of that task
    outcome,   \* how the last attempt at the graph ended
    cancel,    \* a cancel handler is between its check and its commit
    revoke,    \* a revoke broadcast is on its way to the workers
    faults,    \* crashes and errors so far
    dropped,   \* executions whose work a fault or a revoke took away
    LiteMode   \* LITE_MODE: in-process asyncio queue instead of Celery, read
               \* once when the process starts

vars == <<status, hasError, taskId, trigger, request, job, retries, outcome,
          cancel, revoke, faults, dropped, LiteMode>>
row == <<status, hasError, taskId, trigger>>

-----------------------------------------------------------------------------
NoRow == "NO_ROW"
NoTrigger == "NO_TRIGGER"
ExecutionStatus == {"PENDING", "RUNNING", "COMPLETED", "FAILED", "PAUSED",
                    "CANCELLED", "TIMEOUT"}
TERMINAL_STATES == {"COMPLETED", "FAILED", "CANCELLED", "TIMEOUT"}

Terminal(s) == s \in TERMINAL_STATES
Visible(e) == status[e] # NoRow

(* "created": row committed, message not sent; "sent": message sent, one    *)
(* commit to go; "unsent": a tick whose enqueue raised, commit to go.       *)
RequestPhase == {"none", "created", "flushed", "sent", "unsent", "calling",
                 "replied", "failed"}
InProgress(e) == request[e] \in {"created", "flushed", "sent", "unsent", "calling"}

(* "failing": the attempt raised, its handler has not yet decided; "done":  *)
(* the final commit is made, the message not yet acknowledged.              *)
JobPhase == {"none", "queued", "running", "failing", "done"}
Live(e) == job[e] # "none"

(* A commit of the status column; nobody writes a row that is not visible.  *)
SetStatus(e, s) == status' = [status EXCEPT ![e] = IF Visible(e) THEN s ELSE @]
SetJob(e, phase) == job' = [job EXCEPT ![e] = phase]
SetRequest(e, phase) == request' = [request EXCEPT ![e] = phase]
Fault == faults < MaxFaults /\ faults' = faults + 1
Drop(e) == dropped' = dropped \cup {e}

-----------------------------------------------------------------------------
Init ==
    /\ status = [e \in Execution |-> NoRow]
    /\ hasError = [e \in Execution |-> FALSE]
    /\ taskId = [e \in Execution |-> FALSE]
    /\ trigger = [e \in Execution |-> NoTrigger]
    /\ request = [e \in Execution |-> "none"]
    /\ job = [e \in Execution |-> "none"]
    /\ retries = [e \in Execution |-> 0]
    /\ outcome = [e \in Execution |-> "none"]
    /\ cancel = [e \in Execution |-> FALSE]
    /\ revoke = [e \in Execution |-> FALSE]
    /\ faults = 0
    /\ dropped = {}
    /\ LiteMode \in Modes

-----------------------------------------------------------------------------
(* The handlers that create an execution.                                  *)

NewRow(e, t) ==
    /\ request[e] = "none"
    /\ t \in Triggers
    /\ status' = [status EXCEPT ![e] = "PENDING"]
    /\ trigger' = [trigger EXCEPT ![e] = t]
    /\ UNCHANGED <<hasError, taskId, retries, outcome, cancel, revoke, faults, dropped>>

(* POST /run and POST /hooks: the PENDING row is committed before anything  *)
(* is sent.                                                                 *)
RunWorkflow(e) == NewRow(e, "MANUAL") /\ SetRequest(e, "created") /\ UNCHANGED job
ReceiveWebhook(e) == NewRow(e, "WEBHOOK") /\ SetRequest(e, "created") /\ UNCHANGED job

(* POST /retry of a failed execution: a new row, the failed one untouched.  *)
RetryExecution(e) ==
    /\ \E failed \in Execution : status[failed] = "FAILED"
    /\ NewRow(e, "RETRY") /\ SetRequest(e, "created") /\ UNCHANGED job

(* The published API runs the workflow inside the request: no message, the  *)
(* coroutine is the job.                                                    *)
CallWorkflowApi(e) == NewRow(e, "API") /\ SetRequest(e, "calling") /\ SetJob(e, "queued")

(* queue.enqueue of the committed row.                                      *)
Enqueue(e) ==
    /\ request[e] = "created"
    /\ SetJob(e, "queued")
    /\ SetRequest(e, IF trigger[e] = "WEBHOOK" THEN "replied" ELSE "sent")
    /\ UNCHANGED <<row, retries, outcome, cancel, revoke, faults, dropped>>

(* The broker refuses: the webhook handler marks the row, the others let    *)
(* the exception answer 500.                                                *)
EnqueueFails(e) ==
    /\ ~LiteMode
    /\ request[e] = "created"
    /\ Fault
    /\ SetRequest(e, "failed")
    /\ IF trigger[e] = "WEBHOOK"
         THEN SetStatus(e, "FAILED") /\ hasError' = [hasError EXCEPT ![e] = TRUE]
         ELSE UNCHANGED <<status, hasError>>
    /\ UNCHANGED <<taskId, trigger, job, retries, outcome, cancel, revoke, dropped>>

(* The second commit of the handler stores celery_task_id, and only that.   *)
StoreTaskId(e) ==
    /\ request[e] = "sent"
    /\ trigger[e] # "SCHEDULED"
    /\ taskId' = [taskId EXCEPT ![e] = TRUE]
    /\ SetRequest(e, "replied")
    /\ UNCHANGED <<status, hasError, trigger, job, retries, outcome, cancel, revoke,
                   faults, dropped>>

(* A scheduler tick: the row is flushed, the message sent, and the tick's   *)
(* one commit comes last, whether or not the queue took the message.        *)
FlushScheduled(e) ==
    /\ request[e] = "none"
    /\ "SCHEDULED" \in Triggers
    /\ trigger' = [trigger EXCEPT ![e] = "SCHEDULED"]
    /\ SetRequest(e, "flushed")
    /\ UNCHANGED <<status, hasError, taskId, job, retries, outcome, cancel, revoke,
                   faults, dropped>>

SendScheduled(e) ==
    /\ request[e] = "flushed"
    /\ \/ SetJob(e, "queued") /\ SetRequest(e, "sent") /\ UNCHANGED faults
       \/ ~LiteMode /\ Fault /\ SetRequest(e, "unsent") /\ UNCHANGED job
    /\ UNCHANGED <<row, retries, outcome, cancel, revoke, dropped>>

CommitTick(e) ==
    /\ trigger[e] = "SCHEDULED"
    /\ request[e] \in {"sent", "unsent"}
    /\ status' = [status EXCEPT ![e] = "PENDING"]
    /\ SetRequest(e, IF request[e] = "sent" THEN "replied" ELSE "failed")
    /\ UNCHANGED <<hasError, taskId, trigger, job, retries, outcome, cancel, revoke,
                   faults, dropped>>

-----------------------------------------------------------------------------
(* execute_workflow_logic in a worker (or in the API request).             *)

Start_WithoutMarkRunning(e) ==
    /\ job[e] = "queued"
    /\ outcome' = [outcome EXCEPT ![e] = "none"]
    /\ SetJob(e, "running")
    /\ UNCHANGED <<row, request, retries, cancel, revoke, faults, dropped>>

(* The workflow loads; mark_running is committed whatever the status was,   *)
(* and skipped when the row is not there.                                   *)
Start(e) ==
    /\ job[e] = "queued"
    /\ SetStatus(e, "RUNNING")
    /\ outcome' = [outcome EXCEPT ![e] = "none"]
    /\ SetJob(e, "running")
    /\ UNCHANGED <<hasError, taskId, trigger, request, retries, cancel, revoke, faults,
                   dropped>>

(* The executor returns, with its graph finished or stopped at a wait node: *)
(* both are recorded by mark_completed, and context_data is replaced.       *)
RunReturns(e) ==
    /\ job[e] = "running"
    /\ \E how \in {"completed", "paused"} : outcome' = [outcome EXCEPT ![e] = how]
    /\ SetStatus(e, "COMPLETED")
    /\ hasError' = [hasError EXCEPT ![e] = IF Visible(e) THEN FALSE ELSE @]
    /\ SetJob(e, "done")
    /\ UNCHANGED <<taskId, trigger, request, retries, cancel, revoke, faults, dropped>>

(* The workflow is gone or empty (before mark_running), or the executor     *)
(* raises: the exception is re-raised and the row left as it is.            *)
AttemptFails(e) ==
    /\ \/ job[e] = "queued" /\ UNCHANGED outcome
       \/ job[e] = "running" /\ outcome' = [outcome EXCEPT ![e] = "failed"]
    /\ SetJob(e, "failing")
    /\ UNCHANGED <<row, request, retries, cancel, revoke, faults, dropped>>

(* The task returned: its message is acknowledged, or the API request is    *)
(* answered.                                                                *)
Finish(e) ==
    /\ job[e] = "done"
    /\ SetJob(e, "none")
    /\ IF trigger[e] = "API" THEN SetRequest(e, "replied") ELSE UNCHANGED request
    /\ UNCHANGED <<row, retries, outcome, cancel, revoke, faults, dropped>>

RetryTask_Unbounded(e) ==
    /\ job[e] = "failing"
    /\ ~LiteMode /\ trigger[e] # "API"
    /\ retries' = [retries EXCEPT ![e] = @ + 1]
    /\ SetJob(e, "queued")
    /\ UNCHANGED <<row, request, outcome, cancel, revoke, faults, dropped>>

RetryTask_Uncounted(e) ==
    /\ job[e] = "failing"
    /\ ~LiteMode /\ trigger[e] # "API"
    /\ retries[e] < MaxRetries
    /\ SetJob(e, "queued")
    /\ UNCHANGED <<row, request, retries, outcome, cancel, revoke, faults, dropped>>

(* self.retry: the message goes back with one more retry counted.           *)
RetryTask(e) ==
    /\ job[e] = "failing"
    /\ ~LiteMode /\ trigger[e] # "API"
    /\ retries[e] < MaxRetries
    /\ retries' = [retries EXCEPT ![e] = @ + 1]
    /\ SetJob(e, "queued")
    /\ UNCHANGED <<row, request, outcome, cancel, revoke, faults, dropped>>

Exhausted(e) ==
    /\ job[e] = "failing"
    /\ trigger[e] # "API"
    /\ LiteMode \/ retries[e] >= MaxRetries

(* _mark_execution_failed: mark_failed writes the error into the dict that  *)
(* is already there, a change SQLAlchemy does not see in a plain JSON       *)
(* column, so only the status and the end time reach the database.          *)
MarkFailed(e) ==
    /\ Exhausted(e)
    /\ SetStatus(e, "FAILED")
    /\ SetJob(e, "none")
    /\ UNCHANGED <<hasError, taskId, trigger, request, retries, outcome, cancel, revoke,
                   faults, dropped>>

(* ... or its database error is logged and swallowed.                       *)
MarkFailedSwallowed(e) ==
    /\ Exhausted(e)
    /\ Fault
    /\ SetJob(e, "none")
    /\ Drop(e)
    /\ UNCHANGED <<row, request, retries, outcome, cancel, revoke>>

(* SoftTimeLimitExceeded: marked failed and rejected without requeue. It    *)
(* can strike after the final commit, while the task is winding down. No    *)
(* creating handler is still at work an hour later.                         *)
SoftTimeLimit(e) ==
    /\ ~LiteMode /\ trigger[e] # "API"
    /\ ~InProgress(e) /\ job[e] \in {"running", "done"}
    /\ SetStatus(e, "FAILED")
    /\ SetJob(e, "none")
    /\ UNCHANGED <<hasError, taskId, trigger, request, retries, outcome, cancel, revoke,
                   faults, dropped>>

(* wait_for in the API request gives up; TIMEOUT is written unconditionally.*)
ApiTimeout(e) ==
    /\ trigger[e] = "API" /\ request[e] = "calling" /\ Live(e)
    /\ SetStatus(e, "TIMEOUT")
    /\ SetJob(e, "none")
    /\ SetRequest(e, "failed")
    /\ UNCHANGED <<hasError, taskId, trigger, retries, outcome, cancel, revoke, faults,
                   dropped>>

(* Any other exception answers 500 and writes nothing.                      *)
ApiError(e) ==
    /\ trigger[e] = "API" /\ request[e] = "calling" /\ job[e] = "failing"
    /\ SetJob(e, "none")
    /\ SetRequest(e, "failed")
    /\ UNCHANGED <<row, retries, outcome, cancel, revoke, faults, dropped>>

-----------------------------------------------------------------------------
(* Cancelling and sweeping.                                                *)

(* The row is read, its status checked and the revoke broadcast in one      *)
(* uninterrupted stretch; nothing is revoked in lite mode or while          *)
(* celery_task_id is not stored.                                            *)
CheckCancel(e) ==
    /\ ~cancel[e]
    /\ status[e] \in {"PENDING", "RUNNING"}
    /\ cancel' = [cancel EXCEPT ![e] = TRUE]
    /\ revoke' = [revoke EXCEPT ![e] = @ \/ (taskId[e] /\ ~LiteMode)]
    /\ UNCHANGED <<row, request, job, retries, outcome, faults, dropped>>

(* mark_cancelled and commit, whatever the row has become. The reason goes  *)
(* the way of mark_failed's error: it is not saved.                         *)
CommitCancel(e) ==
    /\ cancel[e]
    /\ SetStatus(e, "CANCELLED")
    /\ cancel' = [cancel EXCEPT ![e] = FALSE]
    /\ UNCHANGED <<hasError, taskId, trigger, request, job, retries, outcome, revoke,
                   faults, dropped>>

(* The broadcast reaches the workers: the task is terminated or discarded.  *)
DeliverRevoke(e) ==
    /\ revoke[e]
    /\ revoke' = [revoke EXCEPT ![e] = FALSE]
    /\ SetJob(e, "none")
    /\ IF Live(e) THEN Drop(e) ELSE UNCHANGED dropped
    /\ UNCHANGED <<row, request, retries, outcome, cancel, faults>>

CleanupStale_AnyStatus(e) ==
    /\ Visible(e)
    /\ job[e] \in {"none", IF LiteMode THEN "running" ELSE "queued"}
    /\ request[e] \in {"replied", "failed"}
    /\ status' = [status EXCEPT ![e] = "FAILED"]
    /\ hasError' = [hasError EXCEPT ![e] = TRUE]
    /\ UNCHANGED <<taskId, trigger, request, job, retries, outcome, cancel, revoke,
                   faults, dropped>>

(* One row of cleanup_stale_executions' bulk UPDATE: PENDING or RUNNING for *)
(* a day. Under Celery's time limits only a row without a task, or with one *)
(* still queued, grows that old; in lite mode a task starts at once and has *)
(* no limit.                                                                *)
CleanupStale(e) ==
    /\ status[e] \in {"PENDING", "RUNNING"}
    /\ job[e] \in {"none", IF LiteMode THEN "running" ELSE "queued"}
    /\ request[e] \in {"replied", "failed"}
    /\ status' = [status EXCEPT ![e] = "FAILED"]
    /\ hasError' = [hasError EXCEPT ![e] = TRUE]
    /\ UNCHANGED <<taskId, trigger, request, job, retries, outcome, cancel, revoke,
                   faults, dropped>>

-----------------------------------------------------------------------------
(* Crashes.                                                                *)

WorkerCrash_AckedEarly(e) ==
    /\ ~LiteMode /\ trigger[e] # "API"
    /\ job[e] \in {"running", "failing", "done"}
    /\ Fault
    /\ SetJob(e, "none")
    /\ UNCHANGED <<row, request, retries, outcome, cancel, revoke, dropped>>

(* A Celery worker dies: acks_late and reject_on_worker_lost put the        *)
(* unacknowledged message back, its retry count unchanged.                  *)
WorkerCrash(e) ==
    /\ ~LiteMode /\ trigger[e] # "API"
    /\ job[e] \in {"running", "failing", "done"}
    /\ Fault
    /\ SetJob(e, "queued")
    /\ UNCHANGED <<row, request, retries, outcome, cancel, revoke, dropped>>

(* The process handling a request dies: a flushed row is rolled back, an    *)
(* API request takes its job along, a cancel never commits.                 *)
RequestCrash(e) ==
    /\ ~LiteMode
    /\ InProgress(e) \/ cancel[e]
    /\ Fault
    /\ SetRequest(e, IF InProgress(e) THEN "failed" ELSE request[e])
    /\ cancel' = [cancel EXCEPT ![e] = FALSE]
    /\ IF trigger[e] = "API" /\ Live(e)
         THEN SetJob(e, "none") /\ Drop(e)
         ELSE UNCHANGED <<job, dropped>>
    /\ UNCHANGED <<row, retries, outcome, revoke>>

(* The lite process restarts: every job and every request in it is gone.    *)
LiteRestart ==
    /\ LiteMode
    /\ Fault
    /\ request' = [e \in Execution |-> IF InProgress(e) THEN "failed" ELSE request[e]]
    /\ job' = [e \in Execution |-> "none"]
    /\ cancel' = [e \in Execution |-> FALSE]
    /\ dropped' = dropped \cup {e \in Execution : Live(e)}
    /\ UNCHANGED <<row, retries, outcome, revoke>>

-----------------------------------------------------------------------------
Create(e) == \/ RunWorkflow(e) \/ ReceiveWebhook(e) \/ RetryExecution(e)
             \/ CallWorkflowApi(e) \/ FlushScheduled(e)
Dispatch(e) == \/ Enqueue(e) \/ EnqueueFails(e) \/ StoreTaskId(e)
               \/ SendScheduled(e) \/ CommitTick(e)
Work(e) == \/ Start(e) \/ RunReturns(e) \/ AttemptFails(e) \/ Finish(e)
           \/ RetryTask(e) \/ MarkFailed(e) \/ MarkFailedSwallowed(e)
           \/ SoftTimeLimit(e) \/ ApiTimeout(e) \/ ApiError(e)
Stop(e) == CheckCancel(e) \/ CommitCancel(e) \/ DeliverRevoke(e) \/ CleanupStale(e)
Crash(e) == WorkerCrash(e) \/ RequestCrash(e)

Step ==
    \/ \E e \in Execution : Create(e) \/ Dispatch(e) \/ Work(e) \/ Stop(e) \/ Crash(e)
    \/ LiteRestart

Next == Step /\ UNCHANGED LiteMode

(* Workers take queued messages and their attempts end (the soft time limit *)
(* sees to it); handlers that have begun run to their end. Nothing obliges  *)
(* a user to act, a fault to happen, or the stale sweep to run.             *)
Fairness == \A e \in Execution :
    /\ WF_vars(Work(e) /\ UNCHANGED LiteMode)
    /\ WF_vars(Dispatch(e) /\ UNCHANGED LiteMode)
    /\ WF_vars(CommitCancel(e) /\ UNCHANGED LiteMode)

Spec == Init /\ [][Next]_vars
FairSpec == Spec /\ Fairness

-----------------------------------------------------------------------------
(* Properties.                                                             *)

TypeOK ==
    /\ status \in [Execution -> ExecutionStatus \cup {NoRow}]
    /\ hasError \in [Execution -> BOOLEAN]
    /\ taskId \in [Execution -> BOOLEAN]
    /\ trigger \in [Execution -> AllTriggers \cup {NoTrigger}]
    /\ request \in [Execution -> RequestPhase]
    /\ job \in [Execution -> JobPhase]
    /\ retries \in [Execution -> 0 .. MaxRetries]
    /\ outcome \in [Execution -> {"none", "completed", "paused", "failed"}]
    /\ cancel \in [Execution -> BOOLEAN]
    /\ revoke \in [Execution -> BOOLEAN]
    /\ faults \in 0 .. MaxFaults
    /\ dropped \subseteq Execution
    /\ LiteMode \in Modes

(* A row that says COMPLETED is backed by the last attempt at the graph:    *)
(* that attempt returned, no worker is inside the graph again, and no error *)
(* of an earlier sweep is left in the row. It rests on mark_running being   *)
(* committed before every attempt (tasks/workflow.py:63) and on the context *)
(* being replaced at the end, redeliveries included.                        *)
Backed(e) ==
    status[e] = "COMPLETED" =>
        outcome[e] \in {"completed", "paused"} /\ job[e] # "running" /\ ~hasError[e]
CompletedIsBacked == \A e \in Execution : Backed(e)

(* The execution's message has been sent after its row was committed.       *)
Accepted(e) == trigger[e] \in {"MANUAL", "RETRY", "WEBHOOK"} /\ request[e] \in {"sent", "replied"}
Unsettled(e) == Accepted(e) /\ status[e] \in {"PENDING", "RUNNING"}

(* An accepted execution that is not settled still has its message or its   *)
(* worker: redelivery, retry and the order of commit and acknowledgement    *)
(* lose nothing. Only a revoke, a restart of the lite process or a swallowed*)
(* database error takes work away (dropped).                                *)
Kept(e) == Unsettled(e) => Live(e) \/ e \in dropped
NotLost == \A e \in Execution : Kept(e)

(* The order of the two systems' writes, on every path but the tick's: no   *)
(* message before the row is committed (executions.py:168, hooks.py:355),   *)
(* and no acknowledgement before a final status is (tasks/workflow.py:122). *)
(* NotLost rests on it.                                                     *)
InOrder(e) ==
    /\ request[e] = "none" =>
           job[e] = "none" /\ ~cancel[e] /\ status[e] = NoRow /\ trigger[e] = NoTrigger
    /\ trigger[e] = NoTrigger => request[e] = "none"
    /\ request[e] = "created" => job[e] = "none" /\ trigger[e] # "SCHEDULED"
    /\ request[e] \in {"flushed", "unsent"} => trigger[e] = "SCHEDULED"
    /\ trigger[e] \notin {NoTrigger, "SCHEDULED"} => Visible(e)
    /\ job[e] = "done" /\ trigger[e] # "SCHEDULED" => Terminal(status[e])
WritesInOrder == \A e \in Execution : InOrder(e)

(* Some handler, task or cancel holds the execution.                        *)
Held(e) == InProgress(e) \/ Live(e) \/ cancel[e]

(* What a reader of the row is promised: see ExecutionRecord.               *)
Record == INSTANCE ExecutionRecord WITH
              record <- status, holders <- {e \in Execution : Held(e)}
RefinesRecord == Record!Spec

(* Every accepted execution reaches a terminal status or was dropped.       *)
EventuallySettled == \A e \in Execution : Unsettled(e) ~> (~Unsettled(e) \/ e \in dropped)

-----------------------------------------------------------------------------
(* What the source says of a status, and the code does not keep.            *)

(* CANCELLED, "Manually cancelled" (execution.py:20) and one of the terminal*)
(* states (execution.py:24): a cancelled execution stays cancelled.         *)
CancelledIsFinal == [][\A e \in Execution :
    status[e] = "CANCELLED" => status'[e] = "CANCELLED"]_vars
=============================================================================
