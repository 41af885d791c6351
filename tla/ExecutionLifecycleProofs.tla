---------------------- MODULE ExecutionLifecycleProofs ----------------------
(* Theorems about ExecutionLifecycle for every set of executions, every     *)
(* retry and fault bound, and both modes.                                   *)
EXTENDS ExecutionLifecycle, TLAPS

(* Every step of the system keeps every variable in its type.               *)
LEMMA TypeStep == TypeOK /\ [Next]_vars => TypeOK'
<1> USE MaxRetriesAssumption, MaxFaultsAssumption, TriggersAssumption
<1> SUFFICES ASSUME TypeOK, [Next]_vars PROVE TypeOK'
  OBVIOUS
<1> USE DEF TypeOK, row, SetStatus, SetJob, SetRequest, Fault, Drop, Visible,
            ExecutionStatus, RequestPhase, JobPhase
<1>0. LiteMode' \in Modes
  BY DEF Next, vars
<1> USE <1>0
<1>1. ASSUME NEW e \in Execution, Create(e) PROVE TypeOK'
  <2>1. CASE RunWorkflow(e) \/ ReceiveWebhook(e) \/ RetryExecution(e) \/ CallWorkflowApi(e)
    BY <2>1 DEF RunWorkflow, ReceiveWebhook, RetryExecution, CallWorkflowApi, NewRow
  <2>2. CASE FlushScheduled(e)
    BY <2>2 DEF FlushScheduled, AllTriggers
  <2> QED BY <1>1, <2>1, <2>2 DEF Create
<1>2. ASSUME NEW e \in Execution, Dispatch(e) PROVE TypeOK'
  <2>0. CASE Enqueue(e)
    BY <2>0 DEF Enqueue
  <2>1. CASE EnqueueFails(e)
    <3>0. /\ taskId' = taskId /\ trigger' = trigger /\ job' = job /\ retries' = retries
          /\ outcome' = outcome /\ cancel' = cancel /\ revoke' = revoke
          /\ dropped' = dropped
      BY <2>1 DEF EnqueueFails
    <3>1. CASE trigger[e] = "WEBHOOK"
      <4>1. status' \in [Execution -> ExecutionStatus \cup {NoRow}]
        BY <2>1, <3>1 DEF EnqueueFails
      <4>2. hasError' \in [Execution -> BOOLEAN]
        BY <2>1, <3>1 DEF EnqueueFails
      <4>3. request' \in [Execution -> RequestPhase] /\ faults' \in 0 .. MaxFaults
        BY <2>1 DEF EnqueueFails
      <4> QED BY <3>0, <4>1, <4>2, <4>3
    <3>2. CASE trigger[e] # "WEBHOOK"
      BY <2>1, <3>2 DEF EnqueueFails
    <3> QED BY <3>1, <3>2
  <2>2. CASE StoreTaskId(e)
    BY <2>2 DEF StoreTaskId
  <2>3. CASE SendScheduled(e)
    BY <2>3 DEF SendScheduled
  <2>4. CASE CommitTick(e)
    BY <2>4 DEF CommitTick
  <2> QED BY <1>2, <2>0, <2>1, <2>2, <2>3, <2>4 DEF Dispatch
<1>3. ASSUME NEW e \in Execution, Work(e) PROVE TypeOK'
  <2>1. CASE Start(e)
    BY <2>1 DEF Start
  <2>2. CASE RunReturns(e)
    BY <2>2 DEF RunReturns
  <2>3. CASE AttemptFails(e)
    BY <2>3 DEF AttemptFails
  <2>4. CASE Finish(e)
    BY <2>4 DEF Finish
  <2>5. CASE RetryTask(e)
    BY <2>5 DEF RetryTask
  <2>6. CASE MarkFailed(e) \/ MarkFailedSwallowed(e)
    BY <2>6 DEF MarkFailed, MarkFailedSwallowed
  <2>7. CASE SoftTimeLimit(e)
    BY <2>7 DEF SoftTimeLimit
  <2>8. CASE ApiTimeout(e) \/ ApiError(e)
    BY <2>8 DEF ApiTimeout, ApiError
  <2> QED BY <1>3, <2>1, <2>2, <2>3, <2>4, <2>5, <2>6, <2>7, <2>8 DEF Work
<1>4. ASSUME NEW e \in Execution, Stop(e) PROVE TypeOK'
  <2>1. CASE CheckCancel(e)
    BY <2>1 DEF CheckCancel
  <2>2. CASE CommitCancel(e)
    BY <2>2 DEF CommitCancel
  <2>3. CASE DeliverRevoke(e)
    BY <2>3 DEF DeliverRevoke
  <2>4. CASE CleanupStale(e)
    BY <2>4 DEF CleanupStale
  <2> QED BY <1>4, <2>1, <2>2, <2>3, <2>4 DEF Stop
<1>5. ASSUME NEW e \in Execution, Crash(e) PROVE TypeOK'
  <2>1. CASE WorkerCrash(e)
    BY <2>1 DEF WorkerCrash
  <2>2. CASE RequestCrash(e)
    <3>1. request' \in [Execution -> RequestPhase] /\ cancel' \in [Execution -> BOOLEAN]
      BY <2>2 DEF RequestCrash, InProgress
    <3>2. job' \in [Execution -> JobPhase] /\ dropped' \subseteq Execution
      BY <2>2 DEF RequestCrash
    <3>3. /\ status' = status /\ hasError' = hasError /\ taskId' = taskId
          /\ trigger' = trigger /\ retries' = retries /\ outcome' = outcome
          /\ revoke' = revoke /\ faults' \in 0 .. MaxFaults
      BY <2>2 DEF RequestCrash
    <3> QED BY <3>1, <3>2, <3>3
  <2> QED BY <1>5, <2>1, <2>2 DEF Crash
<1>6. CASE LiteRestart
  <2>1. request' \in [Execution -> RequestPhase]
    BY <1>6 DEF LiteRestart, InProgress
  <2>2. job' \in [Execution -> JobPhase] /\ cancel' \in [Execution -> BOOLEAN]
    BY <1>6 DEF LiteRestart
  <2>3. faults' \in 0 .. MaxFaults /\ dropped' \subseteq Execution
    BY <1>6 DEF LiteRestart
  <2>4. /\ status' = status /\ hasError' = hasError /\ taskId' = taskId
        /\ trigger' = trigger /\ retries' = retries /\ outcome' = outcome
        /\ revoke' = revoke
    BY <1>6 DEF LiteRestart
  <2> QED BY <2>1, <2>2, <2>3, <2>4
<1>7. CASE UNCHANGED vars
  BY <1>7 DEF vars
<1> QED BY <1>1, <1>2, <1>3, <1>4, <1>5, <1>6, <1>7 DEF Next, Step

(* Every variable stays in its type; in particular the retry count of a     *)
(* task never passes max_retries, whatever is redelivered.                  *)
THEOREM TypeCorrect == Spec => []TypeOK
<1>1. Init => TypeOK
  BY MaxRetriesAssumption, MaxFaultsAssumption
     DEF Init, TypeOK, RequestPhase, JobPhase, NoRow, NoTrigger
<1> QED BY <1>1, TypeStep, PTL DEF Spec

-----------------------------------------------------------------------------
(* A step on one execution.                                                 *)
StepOn(e) == Create(e) \/ Dispatch(e) \/ Work(e) \/ Stop(e) \/ Crash(e)

(* A step on one execution leaves the row, the request, the message and the *)
(* attempt of every other one alone.                                        *)
LEMMA Frame ==
    ASSUME TypeOK, NEW e \in Execution, StepOn(e), NEW x \in Execution, x # e
    PROVE  /\ status'[x] = status[x] /\ trigger'[x] = trigger[x]
           /\ request'[x] = request[x] /\ job'[x] = job[x]
           /\ outcome'[x] = outcome[x] /\ cancel'[x] = cancel[x]
           /\ hasError'[x] = hasError[x]
           /\ x \in dropped => x \in dropped'
<1> USE DEF TypeOK, row, SetStatus, SetJob, SetRequest, Drop
<1>1. CASE Create(e)
  BY <1>1 DEF Create, RunWorkflow, ReceiveWebhook, RetryExecution, CallWorkflowApi,
              NewRow, FlushScheduled
<1>2. CASE Dispatch(e)
  BY <1>2 DEF Dispatch, Enqueue, EnqueueFails, StoreTaskId, SendScheduled, CommitTick
<1>3. CASE Work(e)
  <2>1. CASE Start(e) \/ RunReturns(e) \/ AttemptFails(e) \/ Finish(e)
    BY <2>1 DEF Start, RunReturns, AttemptFails, Finish
  <2>2. CASE RetryTask(e) \/ MarkFailed(e) \/ MarkFailedSwallowed(e) \/ SoftTimeLimit(e)
    BY <2>2 DEF RetryTask, MarkFailed, MarkFailedSwallowed, SoftTimeLimit
  <2>3. CASE ApiTimeout(e) \/ ApiError(e)
    BY <2>3 DEF ApiTimeout, ApiError
  <2> QED BY <1>3, <2>1, <2>2, <2>3 DEF Work
<1>4. CASE Stop(e)
  BY <1>4 DEF Stop, CheckCancel, CommitCancel, DeliverRevoke, CleanupStale
<1>5. CASE Crash(e)
  BY <1>5 DEF Crash, WorkerCrash, RequestCrash
<1> QED BY <1>1, <1>2, <1>3, <1>4, <1>5 DEF StepOn

(* The order of the writes is inductive on its own.                         *)
LEMMA OrderStep == TypeOK /\ WritesInOrder /\ [Next]_vars => WritesInOrder'
<1> SUFFICES ASSUME TypeOK, WritesInOrder, [Next]_vars, NEW x \in Execution
             PROVE  InOrder(x)'
  BY DEF WritesInOrder
<1> USE DEF Visible, Terminal, TERMINAL_STATES, NoRow, NoTrigger
<1>0. InOrder(x)
  BY DEF WritesInOrder
<1>1. ASSUME NEW e \in Execution, StepOn(e), x # e PROVE InOrder(x)'
  BY <1>0, <1>1, Frame DEF InOrder
<1>2. ASSUME StepOn(x) PROVE InOrder(x)'
  <2> USE <1>0 DEF InOrder, TypeOK, row, SetStatus, SetJob, SetRequest
  <2>1. CASE Create(x)
    <3>1. CASE RunWorkflow(x) \/ ReceiveWebhook(x) \/ RetryExecution(x) \/ CallWorkflowApi(x)
      <4>1. \E t \in AllTriggers \ {"SCHEDULED"} : trigger'[x] = t
        BY <3>1 DEF RunWorkflow, ReceiveWebhook, RetryExecution, CallWorkflowApi, NewRow,
                    AllTriggers
      <4>2. status'[x] = "PENDING"
        BY <3>1 DEF RunWorkflow, ReceiveWebhook, RetryExecution, CallWorkflowApi, NewRow
      <4>3. \/ request'[x] = "created" /\ job'[x] = "none"
            \/ request'[x] = "calling" /\ job'[x] = "queued"
        BY <3>1 DEF RunWorkflow, ReceiveWebhook, RetryExecution, CallWorkflowApi, NewRow
      <4> QED BY <4>1, <4>2, <4>3 DEF AllTriggers
    <3>2. CASE FlushScheduled(x)
      BY <3>2 DEF FlushScheduled
    <3> QED BY <2>1, <3>1, <3>2 DEF Create
  <2>2. CASE Dispatch(x)
    <3>1. CASE Enqueue(x)
      BY <3>1 DEF Enqueue
    <3>2. CASE EnqueueFails(x)
      BY <3>2 DEF EnqueueFails
    <3>3. CASE StoreTaskId(x)
      BY <3>3 DEF StoreTaskId
    <3>4. CASE SendScheduled(x)
      BY <3>4 DEF SendScheduled
    <3>5. CASE CommitTick(x)
      BY <3>5 DEF CommitTick
    <3> QED BY <2>2, <3>1, <3>2, <3>3, <3>4, <3>5 DEF Dispatch
  <2>3. CASE Work(x)
    <3>1. CASE Start(x)
      BY <3>1 DEF Start
    <3>2. CASE RunReturns(x)
      BY <3>2 DEF RunReturns
    <3>3. CASE AttemptFails(x)
      BY <3>3 DEF AttemptFails
    <3>4. CASE Finish(x)
      BY <3>4 DEF Finish
    <3>5. CASE RetryTask(x) \/ MarkFailed(x) \/ MarkFailedSwallowed(x)
      BY <3>5 DEF RetryTask, MarkFailed, MarkFailedSwallowed, Exhausted
    <3>6. CASE SoftTimeLimit(x)
      BY <3>6 DEF SoftTimeLimit
    <3>7. CASE ApiTimeout(x) \/ ApiError(x)
      BY <3>7 DEF ApiTimeout, ApiError
    <3> QED BY <2>3, <3>1, <3>2, <3>3, <3>4, <3>5, <3>6, <3>7 DEF Work
  <2>4. CASE Stop(x)
    <3>1. CASE CheckCancel(x)
      BY <3>1 DEF CheckCancel
    <3>2. CASE CommitCancel(x)
      BY <3>2 DEF CommitCancel
    <3>3. CASE DeliverRevoke(x)
      BY <3>3 DEF DeliverRevoke
    <3>4. CASE CleanupStale(x)
      BY <3>4 DEF CleanupStale
    <3> QED BY <2>4, <3>1, <3>2, <3>3, <3>4 DEF Stop
  <2>5. CASE Crash(x)
    <3>1. CASE WorkerCrash(x)
      BY <3>1 DEF WorkerCrash
    <3>2. CASE RequestCrash(x)
      BY <3>2 DEF RequestCrash, InProgress
    <3> QED BY <2>5, <3>1, <3>2 DEF Crash
  <2> QED BY <1>2, <2>1, <2>2, <2>3, <2>4, <2>5 DEF StepOn
<1>3. CASE LiteRestart
  BY <1>0, <1>3 DEF InOrder, LiteRestart, TypeOK, row, InProgress
<1>4. CASE UNCHANGED vars
  BY <1>0, <1>4 DEF InOrder, vars
<1> QED BY <1>1, <1>2, <1>3, <1>4 DEF Next, Step, StepOn

(* What the theorems below rest on: the types and the order of the writes.  *)
THEOREM OrderKept == Spec => []WritesInOrder
<1>1. Init => WritesInOrder
  BY DEF Init, WritesInOrder, InOrder, Visible
<1> QED BY <1>1, OrderStep, TypeCorrect, PTL DEF Spec

-----------------------------------------------------------------------------
(* No step takes the work of an unsettled execution away without a trace:   *)
(* the message leaves only when the status is final, and nothing but a      *)
(* revoke, a restart or a swallowed error (dropped) ends it otherwise.      *)
LEMMA KeptStep == TypeOK /\ WritesInOrder /\ NotLost /\ [Next]_vars => NotLost'
<1> SUFFICES ASSUME TypeOK, WritesInOrder, NotLost, [Next]_vars, NEW x \in Execution
             PROVE  Kept(x)'
  BY DEF NotLost
<1> USE DEF Kept, Unsettled, Accepted, Live
<1>0. InOrder(x) /\ Kept(x)
  BY DEF WritesInOrder, NotLost
<1>1. ASSUME NEW e \in Execution, StepOn(e), x # e PROVE Kept(x)'
  BY <1>0, <1>1, Frame
<1>2. ASSUME StepOn(x) PROVE Kept(x)'
  <2> USE <1>0 DEF InOrder, TypeOK, row, SetStatus, SetJob, SetRequest, Visible, Terminal,
                   TERMINAL_STATES, NoRow, NoTrigger
  <2>1. CASE Create(x)
    BY <2>1 DEF Create, RunWorkflow, ReceiveWebhook, RetryExecution, CallWorkflowApi,
                NewRow, FlushScheduled
  <2>2. CASE Dispatch(x)
    <3>1. CASE Enqueue(x) \/ EnqueueFails(x)
      BY <3>1 DEF Enqueue, EnqueueFails
    <3>2. CASE StoreTaskId(x)
      BY <3>2 DEF StoreTaskId
    <3>3. CASE SendScheduled(x) \/ CommitTick(x)
      BY <3>3 DEF SendScheduled, CommitTick
    <3> QED BY <2>2, <3>1, <3>2, <3>3 DEF Dispatch
  <2>3. CASE Work(x)
    <3>1. CASE Start(x) \/ RunReturns(x) \/ AttemptFails(x)
      BY <3>1 DEF Start, RunReturns, AttemptFails
    <3>2. CASE Finish(x)
      BY <3>2 DEF Finish
    <3>3. CASE RetryTask(x)
      BY <3>3 DEF RetryTask
    <3>4. CASE MarkFailed(x) \/ SoftTimeLimit(x)
      BY <3>4 DEF MarkFailed, SoftTimeLimit
    <3>5. CASE MarkFailedSwallowed(x)
      BY <3>5 DEF MarkFailedSwallowed, Drop
    <3>6. CASE ApiTimeout(x) \/ ApiError(x)
      BY <3>6 DEF ApiTimeout, ApiError
    <3> QED BY <2>3, <3>1, <3>2, <3>3, <3>4, <3>5, <3>6 DEF Work
  <2>4. CASE Stop(x)
    <3>1. CASE CheckCancel(x) \/ CommitCancel(x) \/ CleanupStale(x)
      BY <3>1 DEF CheckCancel, CommitCancel, CleanupStale
    <3>2. CASE DeliverRevoke(x)
      BY <3>2 DEF DeliverRevoke, Drop
    <3> QED BY <2>4, <3>1, <3>2 DEF Stop
  <2>5. CASE Crash(x)
    <3>1. CASE WorkerCrash(x)
      BY <3>1 DEF WorkerCrash
    <3>2. CASE RequestCrash(x)
      BY <3>2 DEF RequestCrash, InProgress, Drop
    <3> QED BY <2>5, <3>1, <3>2 DEF Crash
  <2> QED BY <1>2, <2>1, <2>2, <2>3, <2>4, <2>5 DEF StepOn
<1>3. CASE LiteRestart
  BY <1>0, <1>3 DEF LiteRestart, TypeOK, row, InProgress
<1>4. CASE UNCHANGED vars
  BY <1>0, <1>4 DEF vars
<1> QED BY <1>1, <1>2, <1>3, <1>4 DEF Next, Step, StepOn

(* An accepted execution that is not settled has its message or its worker, *)
(* unless a revoke, a restart or a swallowed error took it.                 *)
THEOREM NothingLost == Spec => []NotLost
<1>1. Init => NotLost
  BY DEF Init, NotLost, Kept, Unsettled, Accepted
<1> QED BY <1>1, KeptStep, TypeCorrect, OrderKept, PTL DEF Spec

-----------------------------------------------------------------------------
(* COMPLETED is written with the outcome it stands for, and no worker goes  *)
(* back into the graph without first writing RUNNING.                       *)
LEMMA BackedStep == TypeOK /\ CompletedIsBacked /\ [Next]_vars => CompletedIsBacked'
<1> SUFFICES ASSUME TypeOK, CompletedIsBacked, [Next]_vars, NEW x \in Execution
             PROVE  Backed(x)'
  BY DEF CompletedIsBacked
<1> USE DEF Backed
<1>0. Backed(x)
  BY DEF CompletedIsBacked
<1>1. ASSUME NEW e \in Execution, StepOn(e), x # e PROVE Backed(x)'
  BY <1>0, <1>1, Frame
<1>2. ASSUME StepOn(x) PROVE Backed(x)'
  <2> USE <1>0 DEF TypeOK, row, SetStatus, SetJob, SetRequest, Visible, NoRow
  <2>1. CASE Create(x)
    BY <2>1 DEF Create, RunWorkflow, ReceiveWebhook, RetryExecution, CallWorkflowApi,
                NewRow, FlushScheduled
  <2>2. CASE Dispatch(x)
    BY <2>2 DEF Dispatch, Enqueue, EnqueueFails, StoreTaskId, SendScheduled, CommitTick
  <2>3. CASE Work(x)
    <3>1. CASE Start(x)
      BY <3>1 DEF Start
    <3>2. CASE RunReturns(x)
      BY <3>2 DEF RunReturns
    <3>3. CASE AttemptFails(x)
      BY <3>3 DEF AttemptFails
    <3>4. CASE Finish(x) \/ RetryTask(x) \/ MarkFailed(x) \/ MarkFailedSwallowed(x)
      BY <3>4 DEF Finish, RetryTask, MarkFailed, MarkFailedSwallowed
    <3>5. CASE SoftTimeLimit(x) \/ ApiTimeout(x) \/ ApiError(x)
      BY <3>5 DEF SoftTimeLimit, ApiTimeout, ApiError
    <3> QED BY <2>3, <3>1, <3>2, <3>3, <3>4, <3>5 DEF Work
  <2>4. CASE Stop(x)
    BY <2>4 DEF Stop, CheckCancel, CommitCancel, DeliverRevoke, CleanupStale
  <2>5. CASE Crash(x)
    BY <2>5 DEF Crash, WorkerCrash, RequestCrash
  <2> QED BY <1>2, <2>1, <2>2, <2>3, <2>4, <2>5 DEF StepOn
<1>3. CASE LiteRestart
  BY <1>0, <1>3 DEF LiteRestart, TypeOK, row
<1>4. CASE UNCHANGED vars
  BY <1>0, <1>4 DEF vars
<1> QED BY <1>1, <1>2, <1>3, <1>4 DEF Next, Step, StepOn

(* A row that says COMPLETED is backed by an attempt that returned, through *)
(* every crash, redelivery, retry and cancel.                               *)
THEOREM CompletedBacked == Spec => []CompletedIsBacked
<1>1. Init => CompletedIsBacked
  BY DEF Init, CompletedIsBacked, Backed, NoRow
<1> QED BY <1>1, BackedStep, TypeCorrect, PTL DEF Spec

-----------------------------------------------------------------------------
(* The lifecycle implements ExecutionRecord.                                *)
Holders == {e \in Execution : Held(e)}

(* A step on one execution takes, keeps or releases that execution only.    *)
LEMMA HoldersFrame ==
    ASSUME TypeOK, NEW e \in Execution, StepOn(e)
    PROVE  /\ Held(e)' => Holders' = Holders \cup {e}
           /\ ~Held(e)' => Holders' = Holders \ {e}
<1>1. ASSUME NEW x \in Execution, x # e PROVE Held(x)' = Held(x)
  BY <1>1, Frame DEF Held, InProgress, Live
<1> QED BY <1>1 DEF Holders

(* What whoever holds an execution may do to its row.                       *)
WriteOrKeep(e) ==
    \/ status' = status
    \/ \E s \in ExecutionStatus : status' = [status EXCEPT ![e] = s]

(* A holder's step is a write, a release or a stutter of the record.        *)
LEMMA HolderStep ==
    ASSUME TypeOK, NEW e \in Execution, StepOn(e), Held(e), WriteOrKeep(e)
    PROVE  [Record!Next]_(Record!vars)
<1>1. e \in Holders
  BY DEF Holders
<1>2. Holders' = Holders \/ Holders' = Holders \ {e}
  BY <1>1, HoldersFrame
<1>3. CASE status' = status
  BY <1>2, <1>3 DEF Record!Next, Record!Release, Record!vars, Holders
<1>4. CASE \E s \in ExecutionStatus : status' = [status EXCEPT ![e] = s]
  <2>1. Record!Write(e)
    BY <1>1, <1>2, <1>4 DEF Record!Write, Holders
  <2> QED BY <2>1 DEF Record!Next
<1> QED BY <1>3, <1>4 DEF WriteOrKeep

(* Every step of the lifecycle is a step of the record, or a stutter.       *)
LEMMA RecordStep ==
    ASSUME TypeOK, WritesInOrder, [Next]_vars
    PROVE  [Record!Next]_(Record!vars)
<1> USE DEF Visible, TERMINAL_STATES, NoRow
<1>1. ASSUME NEW e \in Execution, StepOn(e) PROVE [Record!Next]_(Record!vars)
  <2> USE DEF SetStatus, SetJob, SetRequest, row
  <2>0. InOrder(e)
    BY DEF WritesInOrder
  <2>1. CASE Create(e)
    <3>1. ~Held(e) /\ status[e] = NoRow
      BY <2>0, <2>1 DEF InOrder, Held, InProgress, Live, Create, RunWorkflow, ReceiveWebhook,
             RetryExecution, CallWorkflowApi, NewRow, FlushScheduled
    <3>2. request'[e] \in {"created", "calling", "flushed"}
      BY <2>1 DEF Create, RunWorkflow, ReceiveWebhook, RetryExecution, CallWorkflowApi,
             NewRow, FlushScheduled, TypeOK
    <3>3. Holders' = Holders \cup {e}
      BY <1>1, <3>2, HoldersFrame DEF Held, InProgress
    <3>4. status' = status \/ status' = [status EXCEPT ![e] = "PENDING"]
      BY <2>1 DEF Create, RunWorkflow, ReceiveWebhook, RetryExecution, CallWorkflowApi,
             NewRow, FlushScheduled
    <3>5. Record!Take(e)
      BY <3>1, <3>3, <3>4 DEF Record!Take, Holders
    <3> QED BY <3>5 DEF Record!Next
  <2>2. CASE Dispatch(e)
    <3>1. Held(e)
      BY <2>2 DEF Held, InProgress, Dispatch, Enqueue, EnqueueFails, StoreTaskId,
             SendScheduled, CommitTick
    <3>2. WriteOrKeep(e)
      BY <2>2 DEF WriteOrKeep, Dispatch, Enqueue, EnqueueFails, StoreTaskId,
             SendScheduled, CommitTick, ExecutionStatus, TypeOK
    <3> QED BY <1>1, <3>1, <3>2, HolderStep
  <2>3. CASE Work(e)
    <3>1. Held(e)
      BY <2>3 DEF Held, Live, Work, Start, RunReturns, AttemptFails, Finish, RetryTask,
             MarkFailed, MarkFailedSwallowed, Exhausted, SoftTimeLimit, ApiTimeout, ApiError
    <3>2. WriteOrKeep(e)
      <4>0. CASE AttemptFails(e)
        BY <4>0 DEF WriteOrKeep, AttemptFails
      <4>1. CASE Start(e) \/ RunReturns(e)
        <5>1. status' = status \/ status' = [status EXCEPT ![e] = "RUNNING"]
                               \/ status' = [status EXCEPT ![e] = "COMPLETED"]
          <6>1. CASE Start(e)
            BY <6>1 DEF Start, TypeOK
          <6>2. CASE RunReturns(e)
            BY <6>2 DEF RunReturns, TypeOK
          <6> QED BY <4>1, <6>1, <6>2
        <5> QED BY <5>1 DEF WriteOrKeep, ExecutionStatus
      <4>2. CASE Finish(e) \/ RetryTask(e) \/ MarkFailedSwallowed(e) \/ ApiError(e)
        BY <4>2 DEF WriteOrKeep, Finish, RetryTask, MarkFailedSwallowed, ApiError
      <4>3. CASE MarkFailed(e) \/ SoftTimeLimit(e) \/ ApiTimeout(e)
        <5>1. status' = status \/ status' = [status EXCEPT ![e] = "FAILED"]
                               \/ status' = [status EXCEPT ![e] = "TIMEOUT"]
          BY <4>3 DEF MarkFailed, SoftTimeLimit, ApiTimeout, TypeOK
        <5> QED BY <5>1 DEF WriteOrKeep, ExecutionStatus
      <4> QED BY <2>3, <4>0, <4>1, <4>2, <4>3 DEF Work
    <3> QED BY <1>1, <3>1, <3>2, HolderStep
  <2>4. CASE CheckCancel(e)
    <3>1. Holders' = Holders \cup {e}
      BY <1>1, <2>4, HoldersFrame DEF Held, CheckCancel, TypeOK
    <3>2. CASE Held(e)
      BY <2>4, <3>1, <3>2 DEF Record!vars, Holders, CheckCancel
    <3>3. CASE ~Held(e)
      <4>1. Record!Take(e)
        BY <2>4, <3>1, <3>3 DEF Record!Take, Holders, CheckCancel
      <4> QED BY <4>1 DEF Record!Next
    <3> QED BY <3>2, <3>3
  <2>5. CASE CommitCancel(e) \/ DeliverRevoke(e)
    <3>1. WriteOrKeep(e)
      BY <2>5 DEF WriteOrKeep, CommitCancel, DeliverRevoke, ExecutionStatus, TypeOK
    <3>2. CASE Held(e)
      BY <1>1, <3>1, <3>2, HolderStep
    <3>3. CASE ~Held(e)
      <4>1. status' = status /\ ~Held(e)'
        BY <2>5, <3>3 DEF Held, InProgress, Live, CommitCancel, DeliverRevoke, TypeOK
      <4>2. Holders' = Holders
        BY <1>1, <3>3, <4>1, HoldersFrame DEF Holders
      <4> QED BY <4>1, <4>2 DEF Record!vars, Holders
    <3> QED BY <3>2, <3>3
  <2>6. CASE CleanupStale(e)
    <3>1. status' = [status EXCEPT ![e] = "FAILED"] /\ status[e] \in {"PENDING", "RUNNING"}
      BY <2>6 DEF CleanupStale
    <3>2. CASE Held(e)
      BY <1>1, <3>1, <3>2, HolderStep DEF WriteOrKeep, ExecutionStatus
    <3>3. CASE ~Held(e)
      <4>1. Holders' = Holders
        <5>1. ~Held(e)'
          BY <2>6, <3>3 DEF Held, InProgress, Live, CleanupStale
        <5> QED BY <1>1, <3>3, <5>1, HoldersFrame DEF Holders
      <4>2. Record!Expire(e)
        BY <3>1, <3>3, <4>1 DEF Record!Expire, Holders, ExecutionStatus
      <4> QED BY <4>2 DEF Record!Next
    <3> QED BY <3>2, <3>3
  <2>7. CASE Crash(e)
    <3>1. Held(e)
      BY <2>7 DEF Held, Live, Crash, WorkerCrash, RequestCrash
    <3>2. WriteOrKeep(e)
      BY <2>7 DEF WriteOrKeep, Crash, WorkerCrash, RequestCrash
    <3> QED BY <1>1, <3>1, <3>2, HolderStep
  <2> QED BY <1>1, <2>1, <2>2, <2>3, <2>4, <2>5, <2>6, <2>7 DEF StepOn, Stop
<1>2. CASE LiteRestart
  <2>1. ASSUME NEW x \in Execution, Held(x)' PROVE Held(x)
    BY <1>2, <2>1 DEF LiteRestart, Held, InProgress, Live, TypeOK
  <2>2. Holders' \subseteq Holders /\ status' = status
    BY <1>2, <2>1 DEF Holders, LiteRestart, row
  <2> QED BY <2>2 DEF Record!Next, Record!Release, Holders
<1>3. CASE UNCHANGED vars
  BY <1>3 DEF vars, Record!vars, Held, InProgress, Live
<1> QED BY <1>1, <1>2, <1>3 DEF Next, Step, StepOn

(* The detailed lifecycle keeps the promise of ExecutionRecord: a terminal  *)
(* status nobody holds is final, for every set of executions, every bound   *)
(* and both modes.                                                          *)
THEOREM Implements == Spec => RefinesRecord
<1>1. Init => Record!Init
  BY DEF Init, Record!Init, Held, InProgress, Live
<1>2. TypeOK /\ WritesInOrder /\ [Next]_vars => [Record!Next]_(Record!vars)
  BY RecordStep
<1> QED BY <1>1, <1>2, TypeCorrect, OrderKept, PTL DEF Spec, RefinesRecord, Record!Spec

-----------------------------------------------------------------------------
(***************************************************************************)
(* How much may still be done for an execution: the retries and faults it  *)
(* may see, and how far its message and its request are. A fault or a retry*)
(* may put the message back, which is worth less than what either uses up. *)
(***************************************************************************)
JobRank == [none |-> 0, done |-> 1, failing |-> 2, running |-> 3, queued |-> 4]
RequestRank == [none |-> 8, flushed |-> 7, created |-> 6, sent |-> 1, unsent |-> 1, calling |-> 1,
                replied |-> 0, failed |-> 0]
Left(e) ==
    5 * ((MaxRetries - retries[e]) + (MaxFaults - faults)) + JobRank[job[e]] + RequestRank[request[e]]

LEMMA Ranks ==
    /\ JobRank["none"] = 0 /\ JobRank["done"] = 1 /\ JobRank["failing"] = 2
    /\ JobRank["running"] = 3 /\ JobRank["queued"] = 4
    /\ RequestRank["none"] = 8 /\ RequestRank["flushed"] = 7 /\ RequestRank["created"] = 6
    /\ RequestRank["sent"] = 1 /\ RequestRank["unsent"] = 1 /\ RequestRank["calling"] = 1
    /\ RequestRank["replied"] = 0 /\ RequestRank["failed"] = 0
BY DEF JobRank, RequestRank

LEMMA RanksBounded ==
    /\ \A p \in JobPhase : JobRank[p] \in 0 .. 4
    /\ \A p \in RequestPhase : RequestRank[p] \in 0 .. 8
BY Ranks DEF JobPhase, RequestPhase

LEMMA LeftCounts == TypeOK => \A e \in Execution : Left(e) \in Nat
BY RanksBounded, MaxRetriesAssumption, MaxFaultsAssumption DEF TypeOK, Left

(* It is less once the message or the request has gone on, or has been put  *)
(* back by a retry or a fault.                                              *)
LEMMA LeftFalls ==
    ASSUME TypeOK, TypeOK', NEW e \in Execution,
           \/ /\ retries'[e] = retries[e] /\ faults' = faults
              /\ JobRank[job'[e]] + RequestRank[request'[e]]
                   < JobRank[job[e]] + RequestRank[request[e]]
           \/ /\ retries'[e] + faults' = retries[e] + faults + 1
              /\ RequestRank[request'[e]] <= RequestRank[request[e]]
    PROVE  Left(e)' < Left(e)
<1>1. PICK p \in 0 .. 12, p2 \in 0 .. 12 :
           /\ p = JobRank[job[e]] + RequestRank[request[e]]
           /\ p2 = JobRank[job'[e]] + RequestRank[request'[e]]
           /\ RequestRank[request'[e]] <= RequestRank[request[e]] => p2 <= p + 4
  BY RanksBounded DEF TypeOK
<1>2. PICK u \in Nat, u2 \in Nat :
           /\ u = (MaxRetries - retries[e]) + (MaxFaults - faults)
           /\ u2 = (MaxRetries - retries'[e]) + (MaxFaults - faults')
           /\ retries'[e] = retries[e] /\ faults' = faults => u2 = u
           /\ retries'[e] + faults' = retries[e] + faults + 1 => u2 = u - 1
  <2>1. /\ retries[e] \in 0 .. MaxRetries /\ retries'[e] \in 0 .. MaxRetries
        /\ faults \in 0 .. MaxFaults /\ faults' \in 0 .. MaxFaults
        /\ MaxRetries \in Nat /\ MaxFaults \in Nat
    BY MaxRetriesAssumption, MaxFaultsAssumption DEF TypeOK
  <2> QED
    BY <2>1
<1>3. (u2 = u /\ p2 < p) \/ (u2 = u - 1 /\ p2 <= p + 4)
  BY <1>1, <1>2
<1>4. 5 * u2 + p2 < 5 * u + p
  BY <1>3
<1>5. Left(e) = 5 * u + p /\ Left(e)' = 5 * u2 + p2
  <2>1. /\ JobRank[job[e]] \in Nat /\ RequestRank[request[e]] \in Nat
        /\ JobRank[job'[e]] \in Nat /\ RequestRank[request'[e]] \in Nat
    BY RanksBounded DEF TypeOK
  <2>2. /\ Left(e) = 5 * u + JobRank[job[e]] + RequestRank[request[e]]
        /\ Left(e)' = 5 * u2 + JobRank[job'[e]] + RequestRank[request'[e]]
    BY <1>2 DEF Left
  <2> QED
    BY <1>1, <2>1, <2>2
<1> QED
  BY <1>4, <1>5

(* What is done for it leaves less to do.                                   *)
LEMMA DoneIsLess ==
    ASSUME TypeOK, TypeOK', WritesInOrder, NEW e \in Execution,
           Create(e) \/ Dispatch(e) \/ Work(e) \/ Crash(e)
    PROVE  Left(e)' < Left(e)
<1> USE LeftFalls, Ranks, RanksBounded
<1> USE DEF TypeOK, row, SetJob, SetRequest, Fault
<1>0. request[e] \in {"none", "created", "flushed"} => job[e] = "none" \/ request[e] = "flushed"
  BY DEF WritesInOrder, InOrder
<1>1. CASE Create(e)
  <2>1. job[e] = "none"
    BY <1>1 DEF Create, RunWorkflow, ReceiveWebhook, RetryExecution, CallWorkflowApi, NewRow,
                FlushScheduled, WritesInOrder, InOrder
  <2> QED
    BY <1>1, <2>1 DEF Create, RunWorkflow, ReceiveWebhook, RetryExecution, CallWorkflowApi, NewRow,
                FlushScheduled
<1>2. CASE Dispatch(e)
  <2>1. CASE Enqueue(e)
    BY <2>1 DEF Enqueue
  <2>2. CASE EnqueueFails(e)
    BY <2>2 DEF EnqueueFails
  <2>3. CASE StoreTaskId(e)
    BY <2>3 DEF StoreTaskId
  <2>4. CASE SendScheduled(e)
    BY <2>4 DEF SendScheduled
  <2>5. CASE CommitTick(e)
    BY <2>5 DEF CommitTick
  <2> QED
    BY <1>2, <2>1, <2>2, <2>3, <2>4, <2>5 DEF Dispatch
<1>3. CASE Work(e)
  <2>1. CASE Start(e) \/ RunReturns(e)
    <3>1. /\ retries' = retries /\ faults' = faults /\ request' = request
          /\ \/ job[e] = "queued" /\ job'[e] = "running"
             \/ job[e] = "running" /\ job'[e] = "done"
      BY <2>1 DEF Start, RunReturns
    <3> QED
      BY <3>1
  <2>2. CASE AttemptFails(e) \/ Finish(e)
    BY <2>2 DEF AttemptFails, Finish
  <2>3. CASE RetryTask(e)
    BY <2>3 DEF RetryTask
  <2>4. CASE MarkFailed(e) \/ MarkFailedSwallowed(e)
    BY <2>4 DEF MarkFailed, MarkFailedSwallowed, Exhausted
  <2>5. CASE SoftTimeLimit(e)
    BY <2>5 DEF SoftTimeLimit
  <2>6. CASE ApiTimeout(e) \/ ApiError(e)
    BY <2>6 DEF ApiTimeout, ApiError
  <2> QED
    BY <1>3, <2>1, <2>2, <2>3, <2>4, <2>5, <2>6 DEF Work
<1>4. CASE Crash(e)
  BY <1>4 DEF Crash, WorkerCrash, RequestCrash, InProgress
<1> QED
  BY <1>1, <1>2, <1>3, <1>4

LEMMA FaultsGrow ==
    ASSUME TypeOK, NEW e \in Execution, StepOn(e), NEW x \in Execution, x # e
    PROVE  retries'[x] = retries[x] /\ faults' >= faults
<1> USE DEF TypeOK, Fault
<1>1. CASE Create(e) \/ Stop(e)
  BY <1>1 DEF Create, RunWorkflow, ReceiveWebhook, RetryExecution, CallWorkflowApi, NewRow,
              FlushScheduled, Stop, CheckCancel, CommitCancel, DeliverRevoke, CleanupStale
<1>2. CASE Dispatch(e) \/ Crash(e)
  BY <1>2 DEF Dispatch, Enqueue, EnqueueFails, StoreTaskId, SendScheduled, CommitTick, Crash,
              WorkerCrash, RequestCrash
<1>3. CASE Work(e)
  <2>1. CASE RetryTask(e)
    BY <2>1 DEF RetryTask
  <2>2. CASE MarkFailedSwallowed(e)
    BY <2>2 DEF MarkFailedSwallowed
  <2>3. ASSUME ~RetryTask(e), ~MarkFailedSwallowed(e)
        PROVE  retries' = retries /\ faults' = faults
    BY <1>3, <2>3 DEF Work, Start, RunReturns, AttemptFails, Finish, MarkFailed, SoftTimeLimit,
                      ApiTimeout, ApiError
  <2> QED
    BY <2>1, <2>2, <2>3
<1> QED
  BY <1>1, <1>2, <1>3 DEF StepOn

(* No execution's work grows: what is done for one leaves less of it, a     *)
(* fault anywhere too, and a cancel or a sweep no more than there was. So an*)
(* execution is attempted, redelivered and retried only as often as its     *)
(* retries and the faults allow, which is what its liveness rests on beside *)
(* NotLost: no chain of steps goes on for ever.                             *)
WorkShrinks ==
    \A e \in Execution :
        /\ Left(e) \in Nat /\ Left(e)' <= Left(e)
        /\ Create(e) \/ Dispatch(e) \/ Work(e) \/ Crash(e) => Left(e)' < Left(e)

THEOREM WorkRunsOut == Spec => [][WorkShrinks]_vars
<1>1. TypeOK /\ TypeOK' /\ WritesInOrder /\ [Next]_vars => [WorkShrinks]_vars
  <2> SUFFICES ASSUME TypeOK, TypeOK', WritesInOrder, Next, NEW x \in Execution
               PROVE  Left(x) \in Nat /\ Left(x)' <= Left(x)
    BY DoneIsLess DEF WorkShrinks
  <2>0. Left(x) \in Nat /\ Left(x)' \in Nat
    BY LeftCounts, RanksBounded, MaxRetriesAssumption, MaxFaultsAssumption DEF TypeOK, Left
  <2>1. ASSUME retries'[x] = retries[x], faults' >= faults, job'[x] = job[x], request'[x] = request[x]
        PROVE  Left(x)' <= Left(x)
    BY <2>1, RanksBounded, MaxRetriesAssumption, MaxFaultsAssumption DEF TypeOK, Left
  <2>2. ASSUME NEW e \in Execution, StepOn(e), e # x PROVE Left(x)' <= Left(x)
    <3>1. retries'[x] = retries[x] /\ faults' >= faults
      BY <2>2, FaultsGrow
    <3> QED
      BY <2>1, <2>2, <3>1, Frame
  <2>3. CASE Create(x) \/ Dispatch(x) \/ Work(x) \/ Crash(x)
    BY <2>0, <2>3, DoneIsLess
  <2>4. CASE Stop(x)
    <3>1. retries'[x] = retries[x] /\ faults' = faults /\ request'[x] = request[x]
      BY <2>4 DEF Stop, CheckCancel, CommitCancel, DeliverRevoke, CleanupStale
    <3>2. job'[x] = job[x] \/ job'[x] = "none"
      BY <2>4 DEF Stop, CheckCancel, CommitCancel, DeliverRevoke, CleanupStale, SetJob, TypeOK
    <3>3. JobRank[job'[x]] <= JobRank[job[x]]
      BY <3>2, Ranks, RanksBounded DEF TypeOK
    <3> QED
      BY <3>1, <3>3, RanksBounded, MaxRetriesAssumption, MaxFaultsAssumption DEF TypeOK, Left
  <2>5. CASE LiteRestart
    <3>1. retries'[x] = retries[x] /\ faults' = faults + 1 /\ faults' >= faults
      BY <2>5 DEF LiteRestart, Fault, TypeOK
    <3>2. request'[x] = request[x] \/ request'[x] = "failed"
      BY <2>5 DEF LiteRestart
    <3>3. RequestRank[request'[x]] <= RequestRank[request[x]]
      BY <3>2, Ranks, RanksBounded DEF TypeOK
    <3> QED
      BY <2>0, <3>1, <3>3, LeftFalls DEF TypeOK
  <2>6. (\E e \in Execution : StepOn(e)) \/ LiteRestart
    BY DEF Next, Step, StepOn
  <2>7. CASE StepOn(x)
    BY <2>3, <2>4, <2>7 DEF StepOn
  <2> QED
    BY <2>0, <2>2, <2>5, <2>6, <2>7
<1> QED
  BY <1>1, TypeCorrect, OrderKept, PTL DEF Spec
=============================================================================
