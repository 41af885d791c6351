# Verification of the AI workflow and agent platform

TLA+ models of the server side of this repository, the TLC configurations that
check them on small instances, and theorems about them checked by TLAPS. Paths
below are relative to `src/` of the repository unless they begin otherwise.

## 1. The system

A FastAPI application (`api/`) serves chat agents and visual workflows. It runs
in one of two modes (`core/runtime.py`): *full* (PostgreSQL, Redis, Celery workers
started by docker-compose) and *lite* (one process, SQLite, an in-process queue
and pub/sub). Workflows are graphs that a user draws; an execution of one is a
row in the database, a message in the task queue and, for as long as it runs, a
`WorkflowExecutor` in a worker. Agents are rows with a JSON config; a turn of a
chat reads and appends to the rows of a conversation, whichever way it came in
(the public API, a chat channel).

### Inventory

| component | state it keeps | operations | talks to | what makes it correct |
|---|---|---|---|---|
| execution lifecycle (`tasks/workflow.py`, `models/sql/workflow/execution.py`, `api/v1/routers/workflow/executions.py`) | the execution row | run, retry, cancel, mark_*, stale sweep | queue, executor, scheduler, webhooks, published API | an accepted execution keeps its message and settles; the status tells what happened |
| graph executor (`services/workflow_engine/executor.py`, `context.py`) | queue of nodes, visit counts, outputs, traces | run, _execute_node, fan-outs, loops | nodes, breaker, traces | joins wait, errors surface, nothing runs on, it ends |
| circuit breaker (same file) | state, failures, half-open calls per node type | can_execute, record_* | executor | opens in time, counts its probes |
| logic nodes (`services/workflow_engine/nodes/`) | nothing of their own | decide on their input | executor | a decision rests on what was found |
| integration nodes and their clients (same directory) | requests under way | check, request, repeat, conclude | external services | done as often as it is accounted for |
| code sandbox (`core/sandbox.py`, `tool_code.py`) | containers, children, files | analyse, run, time out, clean up | Docker, subprocesses | a run leaves nothing behind |
| memory node (`tool_memory.py`) | rows of a conversation | add, prune, read, clear | database | bounded, whole |
| scheduler (`tasks/scheduler.py`, `schedules.py`) | next run and counters of each schedule | tick; pause, resume, update | queue, execution rows | never too often, pauses what fails |
| webhook ingress (`hooks.py`, `services/workflow/webhook_verifier.py`) | event rows with a unique key | receive, verify, dispatch | queue, execution rows | each event once, answers that hold |
| workflow store, validation, library (`services/workflow/`, `workflows.py`, `dao/workflow_dao.py`) | workflow and version rows | save, publish, restore, validate; list, copy, import | editor | versions agree with the row; accepted graphs run whole; pages show all |
| templates and picker (`templates.py`, `variables.py`, `executor.py`) | the graph being drawn | pick, preview, validate, render | editor, executor | what is picked resolves |
| connections, knowledge search (`connections.py`, `discovery_service.py`) | credentials; documents, a cache of embeddings | refresh, replace, delete; search, delete | providers | stored credentials are coherent; answers are the caller's |
| reports (`executions.py`) | nothing of their own | status, timeline, analytics, trends | execution rows | parts of a report agree |
| sessions and workflow users (`api/custom_middleware.py`, `services/auth_service.py`, `services/user_service.py`, `deps.py`) | cookies, refresh tokens, two tables of users | login, refresh, logout; sync | every request | a living session is served |
| agents (`agents/agent_manager.py`, `api/v1/routers/agents/`) | agent rows, `config` | create, patch, configure a channel, hand out tokens | channels | settled tokens stay |
| chat turns, agent API, channels (`services/agents/`, `services/channel_adapter/`) | conversation rows | authorise, count, turn, reply | models, channels | questions before replies; the cap |
| lead capture (`services/leads/service.py`) | lead row | extract, merge, notify | agents, mail | no contact is lost or left unmailed |
| rate limiting (`services/limiter/`) | window counters | check | agent API | no window overrun |
| trace streams (`streams.py`, `services/pubsub/`) | sockets, subscriptions | connect, broadcast | executor | a living socket hears every event |
| cleanup (`tasks/cleanup.py`) | nothing of its own | delete in batches | tables | what is reported clean is |
| database switch (`services/database/switch_service.py`) | status file, config.json | check, migrate, copy, persist | the whole process | completed means copied |
| video jobs (`celery_tasks.py`, `lite_tasks.py`) | job rows | submit, work, report | queue | no job is forgotten |

### What is hard here

* **Unlocked rows.** Handlers and workers commit in sessions of their own, mostly
  without a lock or a version: whatever they read may be old when they write.
* **Two systems per step.** A row and its message, an event and its dispatch, a
  file and a status are written one after the other; a crash or an error may
  fall between them.
* **At-least-once delivery.** Celery acknowledges late and redelivers after a
  worker is lost; tasks, nodes and their clients repeat themselves; senders of
  webhooks and chat channels deliver again.
* **Read, then written.** Counters, caps, version numbers, JSON columns and
  tokens are read, waited with, and written back whole.
* **Several queries per answer.** Lists, reports and versioned rows are read by
  queries of different snapshots.
* **Graph traversal.** Joins count visits, fan-outs bypass the queue, loops
  multiply visits.

`PROJECT.json` lists forty hazards of these kinds with their lines and the
properties that watch them.

## 2. The modules

Each component is a module with variables, `Init`, actions, `Next` and `Spec` of
its own (prefixed where several are instantiated together); each is written to be
read alone. Components that interact share variables: `AgentTraffic` composes
`AgentApi` and `ChannelGateway` over the conversations of `AgentChat`;
`CodeSandbox` extends `UserCode`; `NodeOperations` extends `NodeClients`, which
extends `NodeRequests`; `WorkflowUsers` extends `Sessions`, whose accounts it
copies; `ExecutionLifecycle` implements `ExecutionRecord`.

| module | models | proofs |
|---|---|---|
| `ExecutionRecord` | what the status of an execution promises its readers (abstract) | |
| `ExecutionLifecycle` | row, request, message, worker, cancel, sweep, crashes | `ExecutionLifecycleProofs` |
| `GraphExecutor` | one run of a graph | `GraphExecutorProofs` |
| `CircuitBreaker` | the breaker all runs of a process share | `NodeProofs` |
| `LogicNodes` | router, filter, wait, parallel, loop, memory and model nodes, in chains | `PlatformProofs` |
| `NodeRequests`, `NodeClients`, `NodeOperations` | seventeen integration nodes | `NodeProofs` |
| `UserCode`, `CodeSandbox` | the code node's analysis, scripts and executors | `NodeProofs` |
| `ConversationMemory` | the memory node | `NodeProofs` |
| `TemplateSyntax` | a template from the picker to the node's field | `PlatformProofs` |
| `WorkflowScheduler` | the tick against its users | `PlatformProofs` |
| `WebhookIngress`, `TraceStreams` | deliveries, keys, signatures, owner's edits; sockets that watch a run | `BackgroundJobProofs` |
| `GraphValidation` | the static check of a graph | `ServicesProofs` |
| `WorkflowStore` | a workflow's row and its versions | `ServicesProofs` |
| `WorkflowLibrary` | lists, copies, imports, schedules' rows | `StoredRowsProofs` |
| `ConnectionStore`, `KnowledgeSearch` | stored credentials; search | `StoredRowsProofs` |
| `ExecutionReports` | reports made of several queries | `StoredRowsProofs` |
| `Sessions`, `WorkflowUsers` | cookies and refresh tokens; the accounts behind them, copied | `StoredRowsProofs` |
| `AgentAdmin`, `RateWindow` | the owner's calls on one agent; the limit on requests | `AgentProofs` |
| `AgentChat`, `AgentApi`, `ChannelGateway`, `AgentTraffic` | turns, both ways in, the two together | `AgentProofs` |
| `DatabaseSwitch`, `VideoJobs`, `LeadCapture`, `RetentionCleanup` | the switch; video jobs; leads; the cleanup | `BackgroundJobProofs` |
| `MCExecutionLifecycle`, `MCGraphExecutor`, `MCWorkflowScheduler` | instances for TLC | |
| `MCServices`, `MCPlatform` | fifteen and nine components in one instance each | `ServicesProofs`, `PlatformProofs` |

`MCServices` and `MCPlatform` hold a variable `focus`, chosen initially and never
changed: in a behaviour only the component in focus moves, the others rest in an
initial state. The state space is the disjoint union of theirs, so that a
component is checked exactly as by an instance of its own, and every invariant is
one of the run. That a behaviour of the whole is one of each component is proved
(`ServicesImplement`, `PlatformImplements`).

What is left of the plan is at the end of section 8.

## 3. How the modules correspond to the code

An action is what the code does between two points at which somebody else can
act: an `await`, a commit, a lock that is let go. Its guard has the conditions and
early returns on the way, in their order. Names are the code's where there is one;
`PROJECT.json` maps each definition to its lines.

### ExecutionLifecycle

One action is one commit of one session, or one step of a message. The row is
`status`, `hasError` (whether the committed `context_data` has an error), `taskId`
and `trigger`. `request` is the progress of the handler that creates the
execution, `job` that of its message or task, `cancel` that of a cancel handler
between its check and its commit.

* Creation: `RunWorkflow`, `RetryExecution` (`executions.py`), `ReceiveWebhook`
  (`hooks.py`), `CallWorkflowApi` (`workflow_api.py`), `FlushScheduled`
  (`tasks/scheduler.py`). The first three commit the row, then `Enqueue`, then
  `StoreTaskId`; the tick flushes, sends (`SendScheduled`) and commits last
  (`CommitTick`); the published API runs the graph inside the request.
* Work: `Start` is `mark_running`, committed whatever the status was;
  `RunReturns` the final commit; `Finish` the acknowledgement; `RetryTask`,
  `MarkFailed`, `SoftTimeLimit` the three ways an attempt fails.
* `CheckCancel` and `CommitCancel` are the halves of the cancel handler, with the
  revoke broadcast (`DeliverRevoke`) between them; `CleanupStale` is one row of
  the stale sweep. `WorkerCrash` redelivers (acks_late), `RequestCrash` and
  `LiteRestart` lose what the process held.

`mark_failed` and `mark_cancelled` change a plain JSON dict in place, which
SQLAlchemy does not save, so `hasError` is left alone; a run stopped at a wait node
is recorded `COMPLETED`, as `mark_paused` has no caller.

`ExecutionRecord` has two variables, the status and who still holds the execution.
While somebody does, any status may be written; once nobody does, a terminal
status is final. `RefinesRecord` maps `holders` to the executions with a request
in progress, a live job or a pending cancel.

### GraphExecutor and CircuitBreaker

`graph` is one of the constant `Graphs`: the kind of each node, its edges in order
and the pinned nodes. `phase` is where `run()` is: at the head of its loop
(`ready`), waiting for the node it called (`node`), or in an `asyncio.gather`
(`gather`). `calls` are the calls of `_execute_node` under way, the only place
where the coroutine interleaves with itself: `waiting` for the loop's semaphore,
`ready` for the execution semaphore, `running` an attempt, ended `ok` or in
`error`. `SkipJoin` and `CallNode` are the two outcomes of the visit counter;
`Pause`, `StopBranch`, `FanOut`, `Iterate`, `Traverse` the branches of the loop's
body in the code's order; `Cancel` the `wait_for` of the published API.

Each method of the breaker holds its lock and is one action. A caller is a node
execution in whatever run; `Abandon` is a call that ends without a report (a
cancellation is no `Exception`, an error in resolving inputs comes before the
first attempt). `probes` is auxiliary.

### Nodes

* `LogicNodes` runs a chain of nodes. A node's input is `Input`, the merge the
  executor makes of edges, settings and the output of the node before; `Evidence`
  is what it finds out about the world (rules that match, answers of a model,
  sources that are done), drawn anew when the executor runs it again.
* `NodeOperations` has a table row for each operation of seventeen nodes: required
  parameters, those refused for good or for a retry, and the client methods called
  in order. `NodeClients` says what each of these asks for; `NodeRequests` is the
  loop all clients share, with the verdict each passes on an answer. `done` counts
  what the service did, `unsure` the answers that were lost or could not be read.
* `UserCode` has the lists of the static analysis and of both sandboxes and the
  script's output protocol; `CodeSandbox` the runs, with what each leaves outside
  the process and when it is removed.
* `ConversationMemory`: an action is a statement of an operation's transaction.

### Workflows

* `WorkflowStore`: a request reads the row, then its versions, decides, and
  commits what differs from what it read; the unique index on versions refuses.
* `GraphValidation`: the depth-first search for cycles with the order of edges
  free, the static errors, the warnings and the statistics.
* `WorkflowLibrary`: rows in the order of a list, and a walk over its pages made
  of a count and a page each, while rows come, go and move.
* `WorkflowScheduler`: a tick loads the due schedules (`BeginTick`), sends one
  message after another (`Trigger`, `Skip`, `TriggerFails`) and commits all at the
  end (`EndTick`). The session writes back the columns it changed (`Merge`); a row
  deleted meanwhile makes the commit fail (`EndTickStale`), a dead worker loses it
  (`LoseTick`). Time is in minutes, cron slots are multiples of `period`.
* `WebhookIngress`: the handler's three look-ups, the insert under the idempotency
  key, the dispatch and the answer, each ending at an `await`.
* `TemplateSyntax`: editing actions write a template, `Validate` and `Preview` are
  the editor's two endpoints, `RunStep` and `RunTarget` what the executor puts into
  the field. Both environments' filters are operators of the model.
* `ExecutionReports`: each query of a report is a step of its own.

### Users, connections, knowledge

* `Sessions`: `Send`, `Authenticate`, `FindToken`, `ConsumeToken`, `IssueToken`,
  `CallEndpoint` follow the middleware; `Deliver` is the answer's arrival, in any
  order, `LoseAnswer` the fault.
* `WorkflowUsers`: `FindRow` and `InsertRow` are `get_current_user` of `deps.py`.
* `ConnectionStore`: a refresh loads, waits for the provider and stores whole.
* `KnowledgeSearch`: a search takes its vector from the shared cache or makes it,
  asks the database, and falls back to keywords.

### Agents

* `AgentChat`: a turn is `BeginTurn`, `SaveQuestion`, an answer, `SaveReply`;
  `AgentApi` puts authorisation, the cap and the time-out around it,
  `ChannelGateway` the channels' deliveries, and `AgentTraffic` both over the same
  conversations with the owner's switches.
* `AgentAdmin`: `LoadAgent` is the first read, `MergeUpdate` and `CommitUpdate` the
  read, merge and write of `update_agent`; what lies between is Telegram's answer.
* `LeadCapture`: `LookForLead`, `InsertLead`, `MergeLead` are the upsert; the row is
  locked from the read to the commit in `MergeLead`, not while the mail is sent.

### The rest

`RateWindow` (the Redis limiter counts and adds in two steps, the in-memory one in
one), `TraceStreams` (a broadcast copies the sockets under the lock and sends
without it), `RetentionCleanup` (batches of three tables while workers write),
`DatabaseSwitch` (`CheckTarget`, the phases, `RestartProcess`), `VideoJobs`
(request, queue, worker, every write a commit).

## 4. What each run checks

| run | question | bounds | states |
|---|---|---|---|
| `lifecycle_full` | Does an accepted execution keep its message (`NotLost`), is COMPLETED backed by an attempt (`CompletedIsBacked`), is the record implemented (`RefinesRecord`)? Both modes. | 2 executions, 5 creation paths, 1 retry, 1 fault, 1 restart; symmetric executions | 1.4 M |
| `lifecycle_settles` | Does an accepted execution reach a terminal status (`EventuallySettled`)? | 1 execution, 2 retries, 2 faults | 3 k |
| `lifecycle_cancelled` | Violated: a cancelled execution may be started or completed. | 1 execution, no fault | |
| `graph_runs` | Joins, loops, errors, no call left behind, and every run ends (`Terminates`, under `FairSpec`). | every connected acyclic graph of 4 nodes with inner nodes of every kind, 2 items, 2 attempts, 2 faults, both semaphores up to 2 | 0.8 M |
| `graph_join` | Violated: nodes behind a fan-out do not run. | no faults | |
| `graph_scopes` | Violated: nested loops share scopes. | no faults | |
| `breaker_isolation` | Violated: lost probes shut the breaker for good. | 4 callers | |
| `scheduler_cron` | Violated: a slot is run twice. | 1 cron schedule, no faults | |
| `services` | Nineteen properties, one or two per component of `MCServices`. | below | 0.85 M |
| `platform` | Ten properties over the nine components of `MCPlatform`. | below | 1.6 M |
| `node_settings` | Violated: a node runs with a setting of the node before it. | chains of 2 nodes | |
| `report_errors` | Violated: the status of a failed execution comes without its error. | 1 execution | |

The components of `services` and of `platform`:

| focus | what may not go wrong | bounds | states |
|---|---|---|---|
| breaker | `ProbeBound`: too many probes of a service that has just failed. `OpenHolds`: an open breaker lets nobody through before its time | 4 callers, threshold 2, 2 half-open calls, clock to 7, 5 failures, 3 abandons | 48 k |
| webhooks | `SendersServed`: an event dispatched twice, or a success that rests on nothing | 3 deliveries, two of one event, 1 edit | 12 k |
| agents, channels | `QuestionFirst`: more replies than questions in a transcript. `CapOverrun`: the cap passed by more than the conversations that ever awaited a first reply | 3 requests, 1 delivery, 3 threads, cap 1, a lost worker, an owner's edit | 50 k, 44 k |
| leads | `EveryContactAnswered`: a contact overwritten, or stored and never mailed without a cause | 3 messages, two with one number, 1 death | 151 k |
| versions | `ActiveIsNewest`: the row and its newest version disagree, torn restores apart | 2 requests, 2 graphs, 3 versions | 5 k |
| cleanup | `CleanIsEmpty`: a table reported clean that has old rows | 3 executions and traces, batches of 1, 2 batches, 1 write, 1 error | 65 k |
| memory | `MemoriesBounded`: the limit outgrown by more than the executions at work | 2 executions, 4 rows, limit 2 | 65 k |
| limits | `RollingLimitInMemory`: a window overrun in lite mode | 2 callers, 2 hits in 2 seconds, clock to 4, 5 hits | 38 k |
| nodes | `NodeAccounts`: a change done more often than answers explain. `OfferedWorks`: a well-configured operation that cannot succeed | all operations of 17 nodes, 3 attempts of client and executor | 14 k |
| videos | `JobNotLost`: an unfinished job nobody holds | 2 jobs, 2 faults, both modes | 2 k |
| streams | `LiveSocketServed`: a living socket that misses an event for another's death | 2 sockets, 2 events, 1 listener error | 75 k |
| switches | `CompletedIsCopied`: "completed" without the data, or naming another database | 2 switches, 3 databases, 2 starts | 105 k |
| sandbox | `RunsAccounted`: containers, children or files left behind; results nobody put out | 2 runs, one with each thing a piece of code may do wrong (two of what it does at once), both sandboxes | 36 k |
| validation | `VerdictSound`: an accepted cycle without a loop node; a graph accepted without a warning that does not run whole | 4 nodes, up to 4 edges (2 where something else is wrong), 4 typings | 36 k |
| owner | `TokensSettled`: tokens handed out or registered that change without a cause | 3 calls, 1 fault | 99 k |
| schedules | `NeverTooOften`, `AutoPaused`: runs beyond the plan, a schedule that fails and stays ACTIVE | a schedule of each type, 5 minutes, 2 edits, 2 faults (3 together) | 282 k |
| logic | `Grounded`: a branch taken that nothing found supports | chains of 2 nodes, 2 attempts, 2 asks of a model | 89 k |
| templates | `PickedResolves`: what the picker offers fails where its name is the node's own | 3 nodes, 3 edits | 25 k |
| connections | `StoredCoherent`: a token of one account beside the refresh token of another; a deleted row that comes back | 1 row, 3 calls, 2 accounts, 2 renewals | 26 k |
| knowledge | `SearchGrounded`: another user's documents, a stale vector, a failure without a cause | 2 searches, 3 documents, time to live 2, clock to 3 | 45 k |
| reports | `ReportsAgree`: parts of a report that no order of commits explains | 1 execution, 2 nodes, clock to 3 | 310 k |
| library | `WalkShowsAll`: a row that stays in place and is never shown | 4 rows, pages of 1, 2 changes | 185 k |
| sessions | half of `AccountServed`: a browser stranded without a cause | 1 browser, 2 requests at a time, 3 tokens, 1 fault | 564 k |
| users | the other half: an account refused its own row | 2 accounts, 3 emails, 2 requests, 1 move | 58 k |

Why the bounds are enough for the cases meant. Executions meet only through a
retry, which needs a failed execution and a new one: two. A fault can strike at
every step, and what it leaves is a state that the next retry meets; the run for
liveness has two of each. Four callers exceed `half_open_max_calls + 1`, so that a
probe too many is possible. Four nodes are the least with a diamond (a fan-out, two
branches and a join), a loop with a body and something behind it, and a loop within
a loop; and with an edge into a cycle and a chord. Two deliveries of one event meet
in every pair of steps and a third has a key of its own. Three leads are two that
race and one that merges into what they left. A window of two seconds is crossed
twice by a clock of four. Two requests of a browser are the least that can spend
one refresh token; three tokens the least with one issued before and after. Every
other component has two actors of a kind where two can race, a third where a third
matters, and as many rows as exceed its limit by one.

Every property is broken by at least one mutant of the code under the bounds of
its own run (`PROJECT.json`, "mutants"): a dropped guard, a swapped order, a
missing record, a boundary moved by one.

Deadlock is not checked: every system here may stop. A run ends, all executions
settle, and the clocks are bounded.

## 5. Fairness

* `ExecutionLifecycle.FairSpec`: weak fairness of each execution's `Work`,
  `Dispatch` and `CommitCancel`. Workers take queued messages, attempts end (the
  soft time limit of the task sees to it) and a handler that has begun runs on.
  Nothing obliges a user to act, a fault to happen, or the sweep to run: the
  deployment files start no beat.
* `GraphExecutor.FairSpec`: weak fairness of `Progress` as a whole: the event loop
  runs something that is ready, and an attempt ends. Which call goes first is
  left open, and `Cancel` is not fair.
* The other components have no liveness property: nothing outside them is obliged
  to call them, and what they owe is stated at the end of a call, as safety.

## 6. What is proved

Fifty-five theorems in eight modules, for all values of the constants, bounds
included. `PROJECT.json` lists them; those whose property a run checks name it.
Each rests on an inductive invariant; what follows says which, and why the
property alone would not do.

**ExecutionLifecycleProofs.** `TypeCorrect`, then `OrderKept` (the order of a row's
writes is inductive given the types), then `NothingLost`: that a message outlives
the request and the attempts until a final status is committed is inductive only
together with that order, because an acknowledgement (`Finish`) is harmless only
when a terminal status came first. `CompletedBacked` needs the types alone.
`Implements` is the refinement of `ExecutionRecord`: initial states map to initial
states and every action to `Take`, `Write`, `Release`, `Expire` or a stutter. A
frame lemma says that a step of one execution leaves the others alone. `WorkRunsOut`
is the variant behind `EventuallySettled`: the retries and faults an execution may
still see, weighted against how far its message and its request are, fall with every
step done for it and never rise, so no chain of retries and redeliveries goes on for
ever.

**GraphExecutorProofs.** For every set of graphs, cyclic ones too.

* `ShapeKept`: no call between two nodes, one for a node of the queue, finitely many
  in a gather; `TypesKept` is the whole type invariant. `SemaphoresHold` by
  cardinality: one call moves at a time, and any other step replaces all calls by
  waiting ones. `NoErrorSwallowed` (`ErrorsSurface`) and `NothingRunsOn`
  (`QuietWhenOver`) follow from `Surface`: as long as the run is not over, a raised
  error is still among the calls of the current step, and every step on to another
  node is barred by it.
* `JoinsWait` (`JoinWaits`): for each node, its places in the queue and the visits
  counted so far are at most the edges on which something has arrived (one more for
  the start), each edge lets its target be visited once, after its source has
  run, and a node that has not been entered has let nobody through.
* `LoopsServed` (`LoopServed`): of a loop's items, those still to be queued, those
  under way and those returned add up to all of them. The proof found the first
  form of the property false for graphs of five nodes and more, larger than the
  run's: a loop may be called once by a gather and again from the queue. The
  property now says "from the queue".
* `RunDrains` and `OrderFits` are the variant behind `Terminates`. A step tracks
  another node, or lowers the length of the queue, then the phase, then what the
  calls have yet to do (in which an attempt put back costs more faults than it gains).
  Without loops and edges back to the start no node is tracked twice (`JoinsWait`), so
  the order is no longer than the graph and the run takes finitely many steps. With
  loops no such bound is proved, and with an edge back to the start there is none.

**NodeProofs.**

* `EveryRunAccounted` (`RunsAccounted`): `RunInv` follows one run from its script to
  its clean-up; `Earned` says of a result what its code must be, by a lemma about the
  scripts of both sandboxes.
* `MemoriesStayBounded` (`MemoriesBounded`): whichever of the nodes that have counted
  finish, in any order, there is room for their rows (`RoomForAll`). A bound on the
  rows there are is not inductive, since it says nothing of the rows to come.
* `RequestsAccounted` (`NodeAccounts`), for any attempts of the executor and of the
  client within each: by lemmas over the table of operations, a request that changes
  something is the last of its operation and nobody may do without it, so that the
  attempt ends when it is read as a success; `RequestTrue` ties the request under way
  to the ledger. `OfferedSucceeds` (`OfferedWorks`): with nothing wrong, each client
  knows the method an offered operation calls and takes the form of its answer, so
  that an attempt can only go on to the next request and end well; the eight
  operations for which this fails are named by the property.
* The breaker: `TypeCorrect` (its case of `ServicesTypeOK`), `BelowThreshold` and
  `OpenUntilTime` (an action property) follow from the types. `ProbesBounded` and
  `ProbeAwaited` follow from `Account`: while half-open, the probes under way are at
  most `halfOpen + 1`, and together with the calls lost they are at least that many.
  Neither bound is inductive alone, since a lost call lowers one side only.

**BackgroundJobProofs.** `VideoNotLost` (`JobNotLost`): `HandedOver` says that the
message exists exactly when the request is over, that work that was written has
left a status or is known not to have, and that only a lite process loses work.
`SwitchedIsMoved` (`CompletedIsCopied`) for any number of overlapping switches: the
data of a switch that is beyond its copy are on its target, a status of completion
names the database in config.json, and the database in use has its schema.
`ContactsAnswered` (`EveryContactAnswered`) for any number of messages: until a task
has stored, it answers for nothing and needs no row; from then on its contacts are in
the row, and what was new to it is mailed or still to be told of by it. A task that
goes on early changes nobody's share (`StaysEarly`), one that goes on late keeps its
own (`Answers`), and a merge takes over what is new in it (`Merges`).
`CleanedForGood` (`CleanIsEmpty`): a batch smaller than it may be took every row that
was due (by cardinality), and nothing becomes due again.

Events on their way: `SenderServed` (`SendersServed`) for any number of deliveries with
any headers, bodies and signatures. The invariant: at most one handler is at work
for a key, before anything is enqueued for it; every row has its dispatch or an
excuse (a handler at work, one that died, a failure that was answered); and a
success is said only of what is enqueued or of a row that exists.
`LiveSocketsServed` (`LiveSocketServed`) for any number of sockets and events:
everything an open socket awaits was delivered, lies in its queue, or is being
broadcast to it (`Reaches`); a broadcast's remaining sockets are registered ones, and
an event stream has each event once.

**StoredRowsProofs.**

* `CredentialsCoherent` (`StoredCoherent`): what a call has read was coherent and of
  the row's provider, whatever the row has become, and a row that is gone is gone for
  good. `SearchIsGrounded` (`SearchGrounded`): a vector in the cache or in a caller's
  hand has a time of making within its time to live, what was found is the caller's,
  and a failure is remembered until the answer.
* `RowOfOnesOwn`, `SessionsStaySound` and, from both, `AccountsAreServed`
  (`AccountServed`). The table: a row holds an email that its account has or gave up,
  in neither table do two hold the same, and a call is refused only for a row just
  added or an email given up. The sessions: a token on its way to a browser is one
  nobody else has or was sent with (`Unseen`), and a browser whose token is spent
  awaits the answer that brings another (`Awaited`); without the first, two answers
  could bring the same token and spending it once would end both sessions.
* `ReportsStayConsistent` (`ReportsAgree`): what a report has read stays true enough
  while others write. The traces it owes are there, what starts later is outside the
  analytics' window, and the days found lie between the first and the present one.
* `WalksShowAll` (`WalkShowsAll`), for any size of a page: a row that the walk still
  owes lies behind what was shown, because what comes or changes goes before it; in
  the reverse order of schedules the places stay. A page holds no more rows than its
  size (by a surjection from its places), so that a walk which ends for want of more
  has passed the last row.

**AgentProofs.**

* `TrafficTypesCorrect`, and `TrafficIsChat`: the composition of the API, the channels
  and the owner implements `AgentChat` alone, each of its steps being one of a
  conversation or a stutter. So `QuestionsFirst`, proved of `AgentChat`, carries over
  (`QuestionComesFirst`, the property `QuestionFirst`): in every prefix the replies, with
  the turns that have their question and await a reply, are no more than the
  questions.
* `CapOverrunBounded` (`CapOverrun`): the conversations of the API and the requests let
  through to create one (`Reached`) are fewer than the cap and the most that ever
  waited; the count of answered conversations alone is stale when it is used.
* `TokensStaySettled` (`TokensSettled`): a call's copy of the config is as good as the
  one stored as long as no two calls have raced, and fits what it was told by
  Telegram (`CallOK`, `Fits`).
* `LimitRolls` (`RollingLimitInMemory`): the limiter knows one hit for each request of
  the last window, so any window holds no more than were counted when the last of
  them was let in.

**ServicesProofs** and **PlatformProofs** prove about the compositions that the runs
`services` and `platform` check, and about the components without another module.

* `ServicesImplement`, `PlatformImplements`: a step of the component in focus is a step
  of it or a stutter for every other, and the constraints of the instances (calls
  that begin in order, what rests) only take behaviours away; so a behaviour of the
  whole is one of each component, and what is proved of one by itself holds of the
  whole. `ServicesSafe` and `PlatformSafe` say so of all safety properties of the two
  runs at once, `OpenHolds` and (with one ticker) `NeverTooOften` included.
* `ServicesTypesCorrect` (`ServicesTypeOK`), `PlatformTypesCorrect` (`PlatformTypeOK`) rest on
  a type lemma for each component. Some type invariants are inductive (breaker,
  video jobs, switches). What a call carries to its commit has a type only as long as
  the call is at the step that carries it; so the others take the component's
  invariant with them (`ConnTypes`, `ReportsTypes`, `SearchTypes`, `MembersTypes`,
  `LibraryTypes`), follow from it (`StoreTypes`, `SessionsTypes`) or are strengthened by
  what each step carries (`LeadTyped`, `RequestTyped`, `GraphTyped`, `Placed`). That the
  library's list is as long as its set of rows is by a bijection from its places
  (`ShelfIsSet`).
* `VerdictIsSound` (`VerdictSound`), for every graph with its edges in any order. The
  cycles: of the nodes the depth-first search is done with, a way over plain nodes
  leads to such nodes only, and nodes of the present path lead to the later ones
  (`SearchInv`). The warnings: the rounds of the breadth-first search are a recursive
  function; that it exists, grows round by round and stops after as many rounds as
  there are nodes (`MetIsReached`) is proved by induction on the rounds, which
  `FromZeroOn` states of sets of numbers, because a set, unlike a predicate, is
  something the provers can put in its place.
* `ActiveStaysNewest` (`ActiveIsNewest`): the versions are numbered without a gap; what
  a request has read is older than or equal to the row (`Trusted`); and the row has
  the newest graph unless a request can be named whose two reads fell on either side
  of a commit.
* `PausedWhenFailing` (`AutoPaused`) for any number of tickers, overlapping ones
  included, which the runs leave out. The invariant says of each tick what it holds of a row: it was ACTIVE when loaded, and a tick whose error
  count reaches the limit pauses the row in the same commit; `MergeSafe` shows that
  such columns, merged into whatever the row has become, are safe. `NotTooOften`
  (`NeverTooOften`) with one tick at a time (`OneTicker`; overlapping ticks do run
  schedules twice, section 7): a row that no tick has run and not committed knows of
  the last run; a tick that has run it changed the columns that tell of it, so that
  its commit writes them and not what a user wrote meanwhile. That the next run of
  an interval differs from the one loaded needs a period above the look-ahead; below
  it, the look-ahead alone bounds the distance.
* `DecisionsGrounded` (`Grounded`), for chains of any length: a node's decision is
  sound before an edge is taken (`Sound`), and what is handed on has only settings
  whose values the next node knows (`CarriedTrue`).
* `PickedMeansItsNode` (`PickedResolves`): no drawn edge leads back to where it comes
  from, and each form the picker writes is resolved to its node by the two
  environments, unless labels are shared.

Assumptions: the named `ASSUME`s of each module. Numbers are naturals; thresholds,
semaphores, periods, page sizes and the clocks' bounds are positive; callers, turns,
threads, nodes, rows and the vertices of a graph are finite; the editor's steps are
numbered; the graphs are well-formed. `NotTooOften` assumes one ticker besides.

Only model-checked: liveness (`EventuallySettled`, `Terminates`), out of the prover's
reach. That steps run out is proved (above); that one can be taken until then, and is
under the fairness of section 5, is not. Every other property of a passing run is
stated by a theorem. The instances' own constraints and the violated properties of
section 7 are TLC's alone.

## 7. Where the code and its documentation disagree

Found by a run each:

1. `lifecycle_cancelled`: a status called terminal is overwritten, because
   `mark_running` and `mark_completed` are committed without a look at the row.
2. `breaker_isolation`: the breaker that is to isolate runs can be shut for all of
   them by calls that end without a report.
3. `graph_join`: a fan-out calls its direct targets and continues; what is drawn
   behind them never runs, though the run is COMPLETED.
4. `graph_scopes`: the "unique" key of an iteration is a hash of its item, so the
   inner iterations of nested loops overwrite each other.
5. `scheduler_cron`: the look-ahead takes a slot a minute early, and the next run
   worked out then is the same slot again.
6. `node_settings`: "static config overrides" (`executor.py:889`), but the output
   of the node before overrides both.
7. `report_errors`: the error of a failed execution is put into a JSON column in
   place, is not saved, and is missing from the status.

All of them are reachable states but the first, which is an action property.

Also seen while reading, without a run:

* **Executions.** A run that stops at a wait node is COMPLETED, nothing writes
  PAUSED and resume always refuses. A retry of a failed execution loses its input.
  A published-API run that raises leaves its row RUNNING until the sweep. Celery's
  time limit is above the Redis visibility timeout. Nodes that return
  `{"status": "error"}` are recorded SUCCESS (`executor.py:934-971`). The
  "completed" edge of loops and parallel nodes is never followed; a loop with all
  items filtered out follows nothing; `max_concurrency` 0 makes a semaphore of 0.
  Visits are counted per run, so a join in a loop's body waits once
  (`executor.py:701`). Usage is never recorded, so no quota refuses.
* **Scheduler.** Two overlapping ticks run schedules twice; schedules of
  unpublished workflows may fill every batch; `/trigger` says queued and queues
  nothing (`schedules.py:693-714`).
* **Workflows.** Publishing ignores the transition table and a restore racing it may
  publish an invalid graph; the hard delete always fails; version exports are
  ignored by import; `clone_count` loses updates; lists that are filtered or
  ascending miss rows while others change. The validator calls the natural edge
  from a loop's body back to the loop an illegal cycle; its "longest path"
  is a breadth-first depth (`graph_validation.py:620`), `is_connected` is true of
  graphs with unreachable nodes, and its check of edge references is unreachable.
  Reading a seeded template raises (`models/sql/workflow/template.py:96`).
* **Templates.** Preview and run differ (`templates.py:695`): the run leaves json,
  keys and split as written, raises on a bare default, and joins, first, length,
  upper differ; `@previous` is documented and refused; `[*]` paths of the picker
  are syntax errors, and so are its shorthands for the start node; the handles of a
  schedule trigger answer 500 (`trigger_schedule.py:190`); the picker offers
  upstream nodes that a fan-out's target runs without.
* **Logic nodes.** A router without a match takes the first branch although
  `default_branch` is "used when no match found"; an empty AI answer matches the
  first branch; an error of a parallel node follows all edges.
* **Integration nodes.** The RAG node cannot read its credentials
  (`tool_rag.py:376`) and its UPSERT only inserts; the browser's screenshot never
  succeeds; Slack's default auth posts whatever the operation; Discord cannot add
  reactions or read lists (`tool_discord.py:383`); a Supabase RPC answered 204 is an
  error; the Agent node makes errors that are final retryable (`tool_agent.py:330`);
  OpenAI and Anthropic retry unlisted errors; Sheets and Gmail credentials are built
  without an expiry, so their refresh never runs.
* **Code node.** Code that prints ends in an OutputParseError though print is
  offered (`core/sandbox.py:459-470`); inputs with true, false or null are a
  NameError; `import urllib.parse` is refused though listed (`tool_code.py:114`).
* **Connections and search.** A refresh overwrites credentials replaced meanwhile;
  the Google OAuth endpoints always fail; unknown providers accept any credentials;
  `min_similarity` 0 is ignored; a cached embedding is served without a look at the
  connection; a database error in the vector search makes the fallback fail too;
  the cache is unbounded within its time to live; the bulk delete is not atomic.
* **Memory node.** The history is said to be the "most recent memories that fit
  within token budget" and is the oldest of the window (`tool_memory.py:317`, `:338`).
* **Webhooks and limits.** A redelivery after a failed dispatch is answered
  DUPLICATE (`hooks.py:342`); Slack's time stamp serves as an event id; the Redis
  limiter is two pipelines.
* **Streams.** A socket gets an event once for each listener; sockets want a token
  with `sub` signed with SECRET_KEY, which no login issues (`streams.py:56`,
  `:81-95`), so only event streams serve; `/multi` is shadowed.
* **Agents.** `agents.config` loses updates of concurrent calls
  (`agent_manager.py:195`); a PATCH of the instructions leaves
  `config.system_prompt`, "meant to be the same value"; a new token whose
  registration fails stays "verified"; PATCH, DELETE and details check no owner,
  and a PATCH of a missing agent answers 200.
* **Accounts.** Password updates raise a NameError; verify-email and update-me
  answer 500 after their change; parallel refreshes may log a browser out; a logout
  with an expired access token leaves a new one; cookies set for a domain are not
  cleared; a refresh racing a logout leaves a live token; an account whose email
  another held when its row was copied gets 500 on every workflow request
  (`deps.py:237`), and the row's email and `is_active` are never updated.
* **Cleanup, switch.** `max_batches` does not count batches that failed
  (`tasks/cleanup.py:170`); the migration of a switch uses the settings' URL, so the
  target may be left without a schema (`switch_service.py:194`), and "Your local
  database is unchanged." may be wrong; DATABASE_URL of the environment overrides
  a switch.
* **Analytics.** The schedules' summary compares the status with "ACTIVE".

## 8. What is not modelled

* Not run by the program, so without a module: `dao/user_dao.py`,
  `services/workflow/auth_service.py` and its router (not mounted),
  `core/rate_limiter.py` and the rate limiting middleware, the recording half of
  `cost_tracking.py`, `services/workflow/templates.py`, the Google OAuth service,
  the `/multi` stream, the tasks that create and disable schedules from a workflow's
  node, two helpers of `tool_code.py`, the sandbox's health check and sweep, the
  storage service's downloads and deletions, three dependencies of `deps.py`.
* Calls of external services with no state the server shares: deep research,
  retrieval, language and speech models. The frontend: rendering and forms.
* Lifecycle: resuming; two attempts of one execution at once.
* Graph executor: `resume_node_id`, contents of traces, cost sums, the shared
  session, `max_concurrency` below 1. The runs of loops within loops check
  `ScopesApart` alone.
* Scheduler: the runs have one ticker, though the module and its proof allow more.
* Integration nodes: what is put into a request and read from an answer beyond its
  form. Code node: the language; a piece of code is what the lists look at.
* Templates: one expression, one filter. Logic nodes: the expressions' language.
* Streams: the Redis pub/sub and the replay of stored traces. Agents: the list, the
  ingestion of knowledge. Sessions: sign-up, verification, passwords.
* Full mode's limiter: it has no bound to state (section 7).

What the plan has left: overlapping ticks as a run of their own; the Redis pub/sub
beside the one in memory.
