# Verification of Gopherflow

Gopherflow runs workflows: sets of stages with dependencies, started by a cron
schedule. Two Go services share the work. `WorkflowOrchestrator` decides which
stage runs next and keeps the state of a run in Redis and its history in
PostgreSQL; `Event_Handler` executes one stage per Kafka message and answers
with one result. This directory holds TLA+ models of the validation of a
workflow, of its schedule and of one run of it, the TLC configurations that
check them and the TLAPS proofs about them.

Contents: [inventory](#inventory), [modules](#modules),
[properties](#properties), [runs](#runs), [fairness](#fairness),
[proofs](#proofs), [findings](#findings),
[what is abstracted](#what-is-abstracted), [plan](#plan),
[how to run](#how-to-run).

## Inventory

| component | state it keeps | operations | source |
|---|---|---|---|
| run state | Redis keys of a run: stage statuses, attempt and dependency counters, outputs, children lists, seen keys, run counters, failure flag, the `job-trigger` queue | one Redis command each | `worker/runstate.go` |
| run history | PostgreSQL `workflow_runs`, `stage_executions` | create, finalise | `worker/persistence.go`, `models/` |
| Kafka topics | `execute-stage`, `execution-response`, `stage-dlq` | write, read with immediate commit | `producer/`, `consumer/`, `Shared/dlq` |
| worker pool | slots (a buffered channel), the tasks in them, a wait group | `Go`, `Wait` | `worker/pool.go` |
| run initialisation | the loop over the stages | `InitializeWorkflow` | `worker/redisPoller.go` |
| stage poller and dispatch | the member taken from `job-trigger`, one dispatch job per stage | `handleStageTriggers`, `ExecuteJob` | `worker/redisPoller.go`, `worker/taskExecutor.go` |
| result consumer | the result in hand | `processStageResult`, success, retry, exhaustion, skipping | `worker/taskResponseConsumer.go`, `worker/skip.go` |
| Event_Handler | the requests being executed | read, execute, answer, stop | `executors/RequestHandler.go` |
| workflow creation, cron trigger | `workflow-trigger` queue, workflow rows | `createWorkflow`, `handleWorkflowTriggers`, the end of `InitializeWorkflow` | `routes/mainHandler.go`, `worker/redisPoller.go` |
| validation | the maps and the call stack of the search | `ValidateWorkflow`, `checkDependencyLoop`, `ValidateStage` | `util/workflowValidator.go`, `routes/mainHandler.go` |
| priority score | none | `PriorityScore`, `ReadyStagesMaxScore` | `worker/runstate.go` |
| shutdown | the root context, the loops, the pool | `main`, `JobContext` | `main.go`, `Shared/ctxutil` |
| executors, mail, logging, metrics, HTTP queries, configuration | none that a run depends on | I/O | see `PROJECT.json` |

How they interact. `POST /createWorkflow` checks a workflow, stores it and puts
its first trigger into the `workflow-trigger` queue. The poller removes a
trigger that is due and starts `InitializeWorkflow` in the worker pool, whose
last step puts in the next trigger. `InitializeWorkflow` writes the Redis keys
of a new run and queues its root stages in `job-trigger`. The poller (every 500
ms) takes ready members and starts a job for each in the worker pool; the job
counts an attempt and writes a request to Kafka. `Event_Handler` executes it and
writes a response. The single consumer goroutine deduplicates the response with
a seen key, and then releases the children of a finished stage, queues a failed
stage again after a sleep, or marks the stage exhausted, skips what lies below
it, and reports it. Every stage that ends is counted; whoever counts the last
one writes the history and closes the run row.

What is hard about it:

- *No transactions, no locks.* A decision of one goroutine is several Redis
  commands; initialisation, poller, dispatch jobs and consumer interleave
  between them. The queueing loop of a run goes on while its first stages are
  already being executed.
- *Delivery.* Kafka offsets are committed when a message is read. A message may
  be lost with the process that read it, delivered twice, or be stored though
  its writer was told it was not.
- *Partial failure.* A Redis or PostgreSQL error in the middle of a handler
  leaves the first half of its effects. Errors are logged, those of most SETs
  not even that, and the handler goes on; with two exceptions (a failed Kafka
  write, a failed stage) nothing is repeated.
- *Restarts.* In-memory state (a stage the poller removed and has not started,
  a retry that sleeps, a result in hand) is lost, and nothing looks for it.
- *Shutdown.* SIGTERM cancels a context that the HTTP server, the loops, the
  pool and the jobs look at in different places, and `main` waits for them one
  after the other.
- *Counting.* A run is complete when a counter reaches the number of stages, so
  every stage must be counted exactly once, by whatever path it ends.

What makes each component correct: the run state must have a stage in one place
at a time, release a child exactly when its last parent has finished, and never
change a terminal status; the history must say, once per stage, how the stage
ended, and must be written only after the last stage; a key that could not be
written must not lead another stage astray; the pool must not block the
consumer for ever; a run as a whole must be an execution of its
dependency graph and, without unrecoverable faults, must end. Validation must
let through what can run, and only that; the score must order stages by weight
and hide none from the poller; a workflow must have exactly one source of its
next run, and a shutdown must end, with nothing left running. `PROJECT.json`
lists the hazards at their lines, with the properties that cover them.

## Modules

| module | models | extends |
|---|---|---|
| `RunState` | the Redis keys of one run, one operator per command, and the faults | |
| `Persistence` | the run row, the stage rows, `maybeFinalizeRun` | `RunState` |
| `KafkaTopics` | the three topics (external, from how both services use kafka-go) | `RunState` |
| `WorkerPool` | slots and jobs | `RunState` |
| `RunInit` | `InitializeWorkflow` | `Persistence`, `WorkerPool`, `KafkaTopics` |
| `StageDispatch` | the stage poller and `ExecuteJob` | the same |
| `EventHandler` | the executing service and the bound of its pool | `KafkaTopics` |
| `ResultConsumer` | the result consumer and `skipDescendantStages` | as `RunInit` |
| `Orchestration` | all of them together, the crash of the orchestrator, the properties | the four above |
| `DagExecution` | the abstract specification: a run without queues, retries and counters | |
| `MCOrchestration` | small workflows for TLC | `Orchestration` |
| `OrchestrationProofs` | type correctness | `Orchestration` |
| `AttemptProofs` | the bound on attempts | `OrchestrationProofs` |
| `FlowProofs` | one attempt at a time, parents first, ends that stay, keys that tell of them | `AttemptProofs` |
| `DepsProofs` | the dependency counts | `FlowProofs` |
| `CompletionProofs` | the count of ended stages, the history, the refinement of `DagExecution` | `FlowProofs` |
| `Priority` | the score of a queued stage and the poller's bound | |
| `WorkflowValidation` | the checks of `createWorkflow`, with the depth-first search | `Priority` |
| `MCWorkflowValidation` | all submissions of three stages | `WorkflowValidation` |
| `ValidationProofs` | the search and the score | `WorkflowValidation` |
| `OrchestratorProcess` | the loops, the pool's `Go` and `Wait`, SIGTERM, the order in which `main` waits | |
| `CronTrigger` | creation, the trigger half of the poller, rescheduling, restarts | `OrchestratorProcess` |
| `MCCronTrigger` | two workflows, with and without a colon in an id | `CronTrigger` |
| `CronProofs` | one driver per workflow, the bound on losses, the reasons of half-created workflows | `CronTrigger` |

The project has three compositions, one for each stretch of a workflow's life.
`WorkflowValidation` ends where the answer of the checks is known;
`CronTrigger` starts with a submission that passed and follows a workflow from
run to run, with a run reduced to the task that initialises it; `Orchestration`
is one run from that task on.

### A run

One run is modelled, since every key is scoped by workflow and run id.
Variables carry the names of the keys or of the code's variables:

| variable | in the code |
|---|---|
| `stageStatus`, `attempt`, `deps`, `output`, `seenResult`, `runDone`, `runFailed` | the keys of those names in `runstate.go`; `""` or 0 for an absent key |
| `childList` | the lists `children:{wf}:{stage}:{run}` |
| `jobTrigger` | the members of `job-trigger` |
| `runRow`, `executions` | `workflow_runs.status`; the `stage_executions` rows of each stage, with whether the status in it was read from Redis |
| `executeTopic`, `responseTopic`, `dlqTopic` | messages not yet read, as sets |
| `jobs`, `initJob` | goroutines in the pool; a job's `pc` is its next step |
| `initTodo` | the stages the queueing loop has not reached |
| `polled` | the stage between `ZRem` and `pool.Go` in the poller |
| `executing` | requests `Event_Handler` has read and not answered |
| `consumer` | the consumer's next step, the response in hand, the stages its loop still has to visit |
| `fate` | history: how the code has ended a stage, `open` until it does |
| `statusLost`, `outputLost` | history: the stages whose status or output key lacks the last write |
| `faults` | how many faults have happened (a bound, not code state) |

The history variables are there because the code drops the error of every SET of
a status, an output and the failure flag and goes on as if it had happened
(`taskResponseConsumer.go:106-107`, `135-136`, `148-149`, `skip.go:43`,
`taskExecutor.go:40`, `47`, `84`). What the code has decided of a stage and what
the key says of it are then two things, and a property has to say which one it
is about: `fate` is set where the code decides (`EndStage`), `stageStatus` where
the SET takes effect. No guard reads the history.

An action is a stretch of a handler in which no other goroutine can tell where
it is, and ends where another one can: `ExecuteJob`, for instance, is
`StartJob` (count the attempt, set RUNNING), `FetchStage`, `PublishStage`,
`PublishReturns` and the error paths `RequeueUnpublished`,
`ReportDispatchFailure`, `RecordUndispatched`, `FinalizeUndispatched`.
`PROJECT.json` maps every definition to its lines.

### Validation

`pc` is the check under way or the verdict; `named`, `stages`, `dependsOn`,
`weight` and `wellFormed` are what the checks look at in the submitted body, any
of which may be wrong. `visited` and `recStack` are the maps of
`checkDependencyLoop`, `keys` are the keys of `graph` that its range loop has
not reached (each is taken once), and `calls` is the stack of the calls of
`dfs`: each has its node and the neighbours its loop has not reached. `Dfs` is a
call with its three outcomes, `SearchFrom` the one for a key of the graph,
`Visit` the one for a neighbour, `Return` the end of a call.

### Schedule and process

| variable | in the code |
|---|---|
| `main` | what `main` waits for: the signal, the HTTP server, `pool.Wait`, `wg.Wait`; `exited` after it returned |
| `ctxDone` | the root context is cancelled |
| `loop` | the poller and the consumer: about to go round, in `pool.Go`, returned |
| `slot` | the task in each place of the pool's channel and its next step |
| `stored` | the workflow rows, with what `cron.ParseStandard` says of the expression |
| `scheduled`, `due` | how many triggers of a workflow `workflow-trigger` has, with a score later or earlier than now |
| `request` | the `createWorkflow` requests that passed the checks, before the row or before the trigger |
| `polled` | the workflow the poller read from a trigger it has removed |
| `accepted` | history: the workflows whose creation was answered with 201 |
| `cutOff` | history: those whose request ended early with the row stored, by an error of a store or the end of the process |
| `faults`, `crashes`, `stops` | bounds, not code state |

`pool.Go` looks at the context twice, and the two looks are two steps: `CallGo`
passes the first, and the `select` then takes a slot (`TakeSlot`) or, if the
context is cancelled, may return (`GoCancelled`); of two ready cases it picks
any. `TakeTrigger` is the ZREM and the call of `pool.Go` in one step, since no
other goroutine can tell the two apart.

### Faults of a run

A fault is a branch of the action it strikes, guarded by `Fault(kind)`: the
kind must be in `Faults` and fewer than `MaxFaults` faults may have happened.

| kind | effect |
|---|---|
| `redis` | a command fails. Where the code looks at the error (INCR, SETNX, DECR, ZADD, GET, LRANGE) it takes that path, with the command done or not; where it does not (the SETs of statuses, outputs and the failure flag, the RPUSH of a child, the ZADD of a rejected publish, the GETs of statuses and of the flag when a run is closed) it goes on. Several commands of one step may fail, each at the cost of a fault (`RedisErrors`) |
| `db` | a PostgreSQL statement fails: loading a stage, creating the run, inserting a row |
| `publish` | a Kafka write of the orchestrator fails |
| `publish_timeout` | a write is reported failed, but the broker has stored the message |
| `respond` | the response of `Event_Handler` is not written |
| `duplicate` | a message is delivered again after it was read |
| `crash` | the orchestrator stops and restarts; jobs, poller, consumer and a result in hand (marked as seen or not) are gone |
| `handler_crash` | `Event_Handler` stops, by a crash or by SIGTERM; the requests it was executing are gone |

In `CronTrigger` the kinds are `redis`, `db` and `mail`: the notification of a
mail server that does not answer keeps its slot for ever, since `smtp.SendMail`
has no deadline (`HangTask`). A command that fails may have
had its effect: ZADD stores the trigger and its reply is lost, ZREM removes one
and the poller takes it for not removed, the row is stored and the request
answered with 500. Crashes and graceful stops have bounds of their own.

## Properties

| property | says | hazard |
|---|---|---|
| `TypeOK` (one per composition) | the type invariant | rows or messages of a wrong shape on an error path |
| `AttemptBudget` | a stage has at most `MaxStageAttempts` attempts plus one per fault | a redelivery, a lost process or a repeated publish restarts the count |
| `AttemptsAccounted` | every attempt of a stage, taken or still to come, is its first or is paid for by the first result of an earlier attempt or by a fault | queueing a stage twice for one reason |
| `OneAttemptAtATime` | a stage waits in one place, or has one attempt under way, never both | queueing twice: two parents decrement, a retry and a redelivery, a restart |
| `StartsAfterParents` | no attempt before all parents have finished; the output key of each then holds its result, unless the SET of that result failed | a DECR that reaches 0 early, a stale output |
| `TerminalStable` | a stage ends once, and no other status is written after its end | a late result of an earlier attempt |
| `KeysTellFate` | the status key tells how a stage ended unless the SET of it failed, and never of an end that did not happen | a RUNNING or FAILED-RETRY written late |
| `CountedOnce` | `run:done` never exceeds the stages that the code has ended | counting a stage on two paths |
| `FinalizedAllTerminal` | in a closed run every stage has ended, and its row says how, unless its status could not be written before or read then | closing early, flushing half of the rows |
| `OneOutcomePerStage` | one row per stage | two finalisations |
| `SkipJustified` | a stage the code skips was never attempted and has a parent that the code exhausted or skipped | skipping below a stage that is retried |
| `DepsCountsRemaining` | `deps` equals the number of parents that have not released the stage | a count set after a parent ended |
| `ExhaustionPropagates` | a closed run is COMPLETED exactly when no stage is exhausted, and below an exhausted stage all is SKIPPED | a flag or a skip that comes too late |
| `RunFinalizes` | the run is closed eventually | a lost wake-up, a miscount, the consumer and the jobs waiting for slots |
| `ImplementsDag` | the run refines `DagExecution` | all of the above together |
| `AttemptLimit` | at most `MaxStageAttempts` attempts (violated) | a failed publish uses up an attempt |
| `AcceptedCanRun` | no set of stages of a workflow that passes the search waits for itself, and all dependencies exist | a cycle that the search misses from some start |
| `LoopIsReal` | a workflow turned down for a cycle has one | a stage met twice is taken for a cycle |
| `RecursionBounded` | `dfs` is never nested deeper than there are stages | recursion round a cycle until the stack is full |
| `HeavierFirst` | of two stages of an accepted workflow the heavier has the lower score, whenever they are queued with their own weights | a late heavy stage behind an early light one |
| `ReadyCovered` | the poller's bound takes in every stage queued up to now | a light stage that no poll ever sees |
| `OneDriver` | a workflow has at most one of: a trigger, a place in the poller's hands, a task or request that will write a trigger | racing and repeated creations, a lost reply, a restart: two runs per cron time |
| `LossBounded` | accepted workflows without a driver: at most one per error or graceful stop, and per crash one more than the pool has slots | the trigger is removed before the next one is written |
| `HalfCreatedExplained` | a workflow that is stored, not accepted and without a driver has an invalid expression, or its own request was cut off by an error or by the end of the process | check, row, expression and trigger are not one transaction |
| `AcceptedRunsAgain` | an accepted workflow is initialised again and again, unless something failed or stopped | a trigger that is consumed and not replaced; an id with a colon (violated in `colon_id`) |
| `StopEnds` | a shutdown ends, unless a notification hangs | `main` waits for the pool, the loops for a slot |
| `StopsWithIdlePool` | no task is in the pool when the process has stopped (violated) | `pool.Wait` comes before `wg.Wait` |

Properties that speak of an end (`StartsAfterParents`, `TerminalStable`,
`CountedOnce`, `SkipJustified`, `FinalizedAllTerminal`) are about `fate`: with a
lost SET the code releases, skips and counts by what it decided, and that is
what has to be right. `KeysTellFate` is the link to the keys. A row with a wrong
status because a SET or a GET failed is what the code does
(`persistence.go:49-56` writes PENDING or SKIPPED for a status it cannot read);
`FinalizedAllTerminal` says that no row is wrong for another reason.
`HeavierFirst` is about own weights because the stages that a result queues get
weight 1 when `loadStageWeights` fails (`taskResponseConsumer.go:83`).

The abstract specification `DagExecution` has a stage outcome and a run
outcome. `Orchestration!StageOutcome` maps FIN, FAILED-EXHAUSTED and SKIPPED to
the three outcomes and every other status to open; the run is open until its
row is COMPLETED or PARTIAL_FAILURE. `ImplementsDag` says that each step of the
code's model is a step of the graph (a stage ends after its parents, or below
one that failed; the row is closed last, with the right status) or changes
nothing the abstract specification sees, and that abstract progress is made.

## Runs

| run | workflow | faults | attempts, pool | shows |
|---|---|---|---|---|
| `all_faults` | a, then b | all eight kinds, 2 | 2, 1 | `TypeOK`, `AttemptBudget`, `AttemptsAccounted` |
| `join_safety` | a and b, then c | all but `publish_timeout`, 2 | 2, 2 | `OneAttemptAtATime`, `StartsAfterParents`, `TerminalStable`, `SkipJustified`, `KeysTellFate` |
| `forest_safety` | a, then b and c | all but `db`, `publish_timeout`, 2 | 2, 2 | `CountedOnce`, `FinalizedAllTerminal`, `OneOutcomePerStage` |
| `progress` | a and b, then c | `publish`, `duplicate`, 1 | 3, 1 | `DepsCountsRemaining`, `ExhaustionPropagates`, `RunFinalizes`, `ImplementsDag` |
| `double_skip` | a and b, then c; d | none | 2, 2 | `FinalizedAllTerminal` fails |
| `init_race` | a and b, then c | none | 2, 2 | `DepsCountsRemaining` fails |
| `dispatch_failure` | a, then b | `db`, 1 | 2, 2 | `ExhaustionPropagates` fails |
| `publish_retries` | a, then b | `publish`, 1 | 3, 2 | `AttemptLimit` fails |

| run | instance | shows |
|---|---|---|
| `validation` | every submission over three stage ids | its `TypeOK`, `AcceptedCanRun`, `LoopIsReal`, `HeavierFirst`, `ReadyCovered`, `RecursionBounded` |
| `cron_triggers` | 2 workflows, 2 clients, 1 slot; one fault (`redis`, `db` or `mail`), one crash and one stop | its `TypeOK`, `OneDriver`, `LossBounded`, `HalfCreatedExplained`, `AcceptedRunsAgain`, `StopEnds` |
| `stop_with_task` | 2 workflows, 1 client, 2 slots; one stop | `StopsWithIdlePool` fails |
| `colon_id` | 2 workflows, the id of one starts with the other's and a colon; 1 client, 1 slot; no fault | `AcceptedRunsAgain` fails |

Bounds, and why they are enough:

- *Stages.* Two stages in a chain have a release, a skip and a finalisation.
  Three add what two cannot show: two parents racing on one counter (join), two
  children released or skipped in one walk (fork). Four are needed only for the
  early close: a stage skipped twice beside one that still runs.
- *Attempts.* With `MaxStageAttempts = 2` a stage has a retry and an
  exhaustion. `progress` and `publish_retries` use the code's own value 3.
- *Faults.* Two per behaviour: one that creates an unusual state (a lost
  result, a skipped DECR, a restart) and one that strikes it. `progress` has
  one, of a kind the code recovers from; the other kinds can end in a run that
  is never closed.
- *Pool.* Two slots let the initialisation job and a dispatch job, or two
  dispatch jobs, run together. `progress` has one, where waiting for a slot
  could turn into waiting for ever. `all_faults` has one as well: with ambiguous
  writes up to three attempts of a stage are under way at a time, and with two
  slots the state space grows sixfold; what it checks is proved for any number
  of slots.
- *Pool of `Event_Handler`* (`HandlerPoolSize`): the same size. Its reader holds
  one request more than there are slots, so with one slot and three stages it
  does make requests wait in the topic.
- *Submissions.* Three ids have cycles of length one, two and three, a stage
  reached over two paths (which must not count as a cycle), a cycle that is met
  in the middle, and graphs whose parts are not connected. The weights are none
  (which becomes 1), the heaviest, and one out of range. `PriorityScale` is 3
  instead of 10^13, with times 0 to 2: a band that is as full as it can be. The
  theorems have any number of stages, any weights and any width.
- *Schedules.* Two workflows and two clients let two requests race for one id,
  and two triggers be due at once. One slot makes the poller wait behind another
  task. One fault, one crash and one stop in a behaviour let each strike what
  another has left behind. After a crash the bound of `LossBounded` is 2, which
  is every workflow there is: the run checks its other terms (one loss per
  error, one per stop), and the term for crashes is left to the theorem.
  `stop_with_task` needs two slots only to show that the task is one that a loop
  started while another one was ending; `colon_id` needs no fault at all.
- *Symmetry.* The two roots of the join and the two leaves of the fork may be
  swapped. It is not used with the liveness property.

Which properties hold where is part of the result:

- `join_safety` excludes `publish_timeout` because the code has no answer to
  it: with two attempts under way, the older one's result can put a
  finished stage back to FAILED-RETRY, and none of the five properties holds.
  `AttemptBudget` holds with it.
- `forest_safety` has one parent per stage because a stage below two exhausted
  parents is counted twice (`double_skip`); it leaves out `db`, since a dispatch
  failure skips nothing (`dispatch_failure`) and its job may finalise a run
  together with the consumer, and `publish_timeout` for the reason above. So
  partial rows and the race of two finalisers are not in the run; what holds
  with `db` is the theorem `ClosedRunEnded`.
- `progress` and `dispatch_failure` set `InitBeforePolling`: the queueing loop
  ends before the poller's next tick. The loop is a handful of Redis round
  trips and a tick 500 ms, so this is the usual case, but nothing in the code
  makes it so; `init_race` shows what happens otherwise. The safety runs do
  not assume it.

Deadlock: `Done` lets a closed run with nothing left to do stay as it is. The
passing runs switch deadlock checking off because a fault can leave a run that
nobody continues, which is a state of the real system; in `progress` the
property `RunFinalizes` is the stronger statement. `cron_triggers` does the same
because a mail that hangs keeps a shutdown, and then everything, from going on.

## Fairness

`FairSpec` assumes weak fairness of each goroutine (initialisation job, poller,
dispatch jobs together, result consumer) and of `Event_Handler`. Each is a loop
or a goroutine that the Go scheduler does not starve, and Kafka and Redis answer
within their timeouts. Weak fairness is enough: a step of a goroutine stays
enabled until it takes it, with one exception, a wait for a pool slot, which
other goroutines can fill again. That happens finitely often, because attempts
and faults are bounded, so the wait ends. Fairness of all dispatch jobs as one
action suffices for the same reason. Faults and `Crash` have no fairness: they
may, and need not, happen. Two things are assumed that the code does not ensure:
an executor returns (the SFTP one has no timeout), and so does `smtp.SendMail`,
which has none either.

`CronTrigger!FairSpec` assumes weak fairness of the tasks in the pool, of the
steps that end a shutdown and of the passing of time (`BecomesDue`).
Initialisation and dispatch run under deadlines; a notification ends unless its
mail hangs, which is the fault `mail` and stays for good. Two waits are strongly
fair. The poller reads due triggers in the order of their scores, so one that is
due is not overtaken for ever (`TakeTrigger`). Goroutines blocked on a Go
channel are served in order, so a poller that waits for a slot gets one,
although other tasks take slots in between (`StartInit`). Nothing is assumed of
clients, of faults, crashes and signals, or of a restart. `StopEnds` does not
need the strong conditions: that both loops leave `pool.Go` follows from the
cancelled context.

## Proofs

From the named `ASSUME`s of the modules alone.

### A run

For every finite set of stages, every dependency function, every attempt limit,
pool size and set and number of faults:

- `TypeCorrect` (`OrchestrationProofs`): `Spec => []TypeOK`.
- `AttemptsAreBounded` (`AttemptProofs`): `Spec => []AttemptBudget`.
- `AttemptsAreAccounted` (`AttemptProofs`): `Spec => []AttemptsAccounted`.

`TypeOK` is inductive as stated, for two reasons put into it: `ConsumerTypeOK`
says that the consumer holds a response whenever it is not idle (otherwise the
actions of its later steps, which read `consumer.resp`, would have no type), and
`Idle` is the only state with `NoResponse`. The proof has a lemma per shared
operator (`Fault`, the Redis commands, the pool, the topics, finalisation) and a
lemma per component with a step per action; the theorem puts them together.

`AttemptBudget` says nothing about where a stage is, so it is not inductive.
What makes it so is an account per stage, `Accounted(s)`: the attempts taken,
plus one for each place in which the stage waits for another (not yet
scheduled, in `job-trigger`, in the poller's hands, in the consumer's sleep, in
a dispatch job about to queue it again), never exceed one plus the retries
granted plus the faults. A retry is granted by the first result of an attempt
below `MaxStageAttempts`, so there are at most `MaxStageAttempts - 1`, and the
bound follows. `AttemptInv` adds three facts to the account: finitely many jobs
(`JobsFinite`), attempts counted from 1 (`AttemptsNumbered`; a failed attempt 0
would be granted a retry for nothing) and no positive dependency count before
Init's loop has set it (`CountedAfterInit`; otherwise a count could reach 0
before the loop and again after it). Most actions give a stage neither an
attempt nor a place to wait in, which lemma `Kept` settles once; the other nine
move an attempt from one place to the next. TLC checked the account in
`all_faults`, and the other facts with it, before the proof.

Under the assumption `NoAmbiguousWrites` (`publish_timeout` is not among the
faults; with it the five statements are false), and with every other kind of
fault in any number, `FlowProofs` shows:

- `OneAttempt`: `Spec => []OneAttemptAtATime`.
- `AfterParents`: `Spec => []StartsAfterParents`.
- `SkipsJustified`: `Spec => []SkipJustified`.
- `KeysTell`: `Spec => []KeysTellFate`.
- `EndsAreStable`: `Spec => TerminalStable`.

All of them are about `fate`, and hold whichever SETs, list entries and
decrements are lost. None is inductive and none can be proved without the
others: a stage is in one place because it is scheduled once, it is scheduled
once because its parents' releases are counted right, a release is right because
a finished stage stays finished, and that is so because the stage is in no other
place. `FlowInv` ties them together:

- `Numbered`: every attempt under way, and every one whose result was taken, has
  a number up to `attempt[s]`, so the number of a new attempt is free. This is
  what the seen keys rely on.
- `OwnAttempt`: an attempt has one dispatch job, and no message before the job
  has published it, so a rejected write leaves no trace of the attempt.
- `Exclusive(s)`: of "not yet scheduled", `job-trigger`, the poller's hands, the
  consumer's sleep, a job about to requeue and an attempt under way, a stage is
  in at most one.
- `InOrder(s)`: a positive `deps` is at least the number of parents still to
  release it (it may be more: a lost decrement only makes a stage wait); a stage
  in any place but the first has finished parents only; a finished or exhausted
  stage was attempted and is in no place; a finished one has its result under
  its output key unless that SET was the one that failed.
- `KeyTells(s)`: what `KeysTellFate` says of one stage.
- `ListsSound`: a children list, which may lack children, has no others.
- `SkippedBelowLost(s)`, `HandSound` (what the consumer is about to release
  belongs to a finished stage, what it is about to skip is below a lost one) and
  `NothingBeforeInit`.

The proof does not go action by action but by what is gained: one lemma per
place says which step puts a stage there (`TriggerGain`, `PolledGain`,
`RetryGain`, `RequeueGain`, `UnansweredStep`), `StatusStep` says who writes a
status, `DepsStep` who changes a count; a step that gains nothing keeps
`Exclusive` by `FewerPlaces`. TLC checked `FlowInv` on the instance of
`join_safety` and on a diamond of four stages before the proof.

### The dependency counts

- `CountsRemaining` (`DepsProofs`): `Spec => []DepsCountsRemaining`, for every
  workflow, under `NoAmbiguousWrites` and `CountsKept`.

`FlowInv` has one half of it: a positive count is at least the number of parents
still to release the stage. The other half is false when a decrement is lost, so
`CountsKept` leaves out Redis errors and crashes of the orchestrator, and asks
that Init be over before the poller starts (`init_race` is the other case: a
parent decrements a count that Init then sets). All other faults stay, in any
number. The half that is new is inductive on top of `FlowInv` with `StartInv`:
while Init runs, and in a run whose row could not be written, no stage was ever
taken from `job-trigger`, so no parent has ended when Init sets a count to the
number of parents (`NothingFinished`). `ListsFull` adds
that no RPUSH was lost. Afterwards a release takes one from the
count and one parent from those still to come (`ReleaseTakesOne`), and no other
step does either (`ReleaseKept`, `UnreleasedKept`).

### The end of a run

`run:done` decides when a run is over, and three paths add to it: the consumer
for the stage in its hands, its walk for each descendant it skips, and a
dispatch job that gave its stage up. `CompletionProofs` shows:

- `CountsEnds`: `Spec => [](WalksApart => CountedOnce)`.
- `ClosedRunEnded`: `Spec => [](WalksApart => FinalizedAllTerminal)`.
- `OneRow`: `Spec => [](WalksApart => OneOutcomePerStage)`.
- `ExhaustionShows`: `Spec => [](WalksApart => ExhaustionPropagates)`.
- `StepsImplementDag`: `Spec /\ []WalksApart => Dag!DagInit /\
  [][Dag!DagNext]_(Dag!dagVars)`, the safety part of `ImplementsDag`.

`WalksApart` is a condition on the state: no stage has two lost parents
(exhausted or skipped), or at most one stage of the run was exhausted. It holds
at all times in a workflow whose stages have one parent at most
(`ForestWalksApart`), in every run without an exhausted stage, and in every run
with one, joins and diamonds included, since a single walk remembers where it
was. It is exactly what `double_skip` violates, and a run in which it has become
false keeps it false (`ApartBefore`), which is why it can stand inside the box:
the statements hold up to the moment two walks meet.

The condition, too, is about `fate`: a lost SET of FAILED-EXHAUSTED does not
make a stage look less lost than it is, so a run in which two walks met is never
taken for one in which they did not.

Every theorem assumes `NoAmbiguousWrites`, as the ones before. `OneRow` and the
two after it assume that no database call fails (`NoDatabaseErrors`): a write of
the history that fails half way leaves rows that a second call repeats, and
a stage that cannot be loaded is given up without the failure flag
(`dispatch_failure`). The last two assume that no Redis call fails
(`NoRedisErrors`): a failure flag that cannot be written or read counts as not
set, and a skip that cannot be written is seen by nobody. Then `NothingLost`
holds, and the keys, of which these two speak, say the same as `fate`. Crashes
of both services, lost and repeated results, handler errors and rejected
writes are allowed in any number throughout.

The argument is an account again. `Uncounted(s)` says that an ended stage is in
the hands of one of those who will count it; `OneCounter`, that it is in one
hand only; `CountedStages` are the ended ones in none, and `Tally`, that
`run:done` is at most their number. A step that counts makes one more stage
counted (`NewlyCounted`): for the walk this needs `WalkFresh`, that no stage
ahead of it is skipped already, so that what it skips had not ended. `WalkFresh`
comes from `WalkSound` if one stage was exhausted (what the walk has before it,
it has not visited, and it has visited whatever is skipped), and from
`OneLostParent` otherwise (a stage skipped before, and again ahead of the walk,
would have two lost parents). A run that looks complete has `Tally` at its
limit, so every stage has ended and is counted (`CompleteRun`), which gives
`RowsSound`: rows are written, and the run is closed, only then, and a row that
was read from a key that was written says how the stage ended (`RowTells`).
`ClosedOnce` adds that nothing is left to count afterwards, so maybeFinalizeRun
is not called again, and `FailureFlagged` that the flag says whether a stage was
exhausted. With these a step of the composition that ends a stage is a `Finish`,
a `Fail` or a `Skip` of `DagExecution` (`EndIsDagStep`), the closing of the row
is its `Close` (`CloseIsDagStep`), and any other step leaves what it sees
unchanged.

TLC checked the invariants, with the faults each of them allows, on forests, on
a diamond and on two shapes with joins before the proof.

### Validation and the score

For every set of stage ids, every dependency relation, and every order in which
the search may meet stages and neighbours:

- `ValidationTypes` (`ValidationProofs`): `Spec => []TypeOK`.
- `AcceptedWorkflowsCanRun`: `Spec => []AcceptedCanRun`.
- `ReportedLoopsAreReal`: `Spec => []LoopIsReal`.
- `RecursionEnds`: `Spec => []RecursionBounded`.
- `QueueOrderedByWeight`: `Spec => []HeavierFirst`, for every width of the bands
  and every pair of times that fit in one.
- `ReadyStagesAreSeen`: `Spec => []ReadyCovered`.

`SearchInv` is what makes the verdicts inductive. The stages on `recStack` are
exactly the nodes of the calls under way, each once (`StackIsCalls`), every call
was made for a neighbour of the one around it (`CallsFollowEdges`), and what a
call has put behind it is finished or is the call it waits for
(`PastIsFinished`). From these follows the core, `FinishedCanRun`: finished
nodes depend on finished nodes only, and no set of them waits for itself. When a
call returns, all its neighbours are finished; a set that waits for itself and
holds the new node would, without it, wait for itself among the old ones, or
have the node depend on itself, which is on the stack. When the search ends,
all stages are finished. A loop that is reported is real because the calls from
the node met again to the innermost one form a set that waits for itself. The
recursion is bounded because the calls under way have different nodes.

"No set of stages waits for itself" is the absence of cycles without a path: it
is what a run needs, since the set of stages that have not ended always has one
all of whose parents have. It needs no induction over paths, which the provers
do not have.

### Schedule

For every set of workflows, and finite sets of clients and slots, every kind and
number of faults, stops and crashes:

- `CronTypes` (`CronProofs`): `Spec => []TypeOK`.
- `OneDriverPerWorkflow`: `Spec => []OneDriver`.
- `LossesAreBounded`: `Spec => []LossBounded`.
- `HalfCreatedIsExplained`: `Spec => []HalfCreatedExplained`.

`OneDriverPerWorkflow` and `LossesAreBounded` assume `PlainNames`, that ids have
no colon; `colon_id` shows what happens otherwise. `TypeOK` needs `Shape`: a
request, a task and the poller have a workflow exactly when they are at work on
one. `OneDriver` is inductive workflow by workflow: `Apart(w)` says which pairs
of drivers exclude each other, and that a workflow without a row has none; a
creation gets past `RowFree` once, and every later driver replaces one before
it. `LossBounded` is not inductive, because a workflow can be lost before any
step that looks like a loss: a trigger in the poller's hands is lost by the
signal, although it is dropped later. `LossInv` therefore counts the workflows
at `Risk`, those that may end up without a driver with no further fault, against
the `Budget`. A step either puts nothing at risk, or one workflow and is paid
for by a fault or a stop, or is a crash and may put at risk one workflow for the
poller and one for each slot.

`HalfCreatedExplained` is not inductive either: while a request is between its
row and its trigger, the request is what drives the workflow, and nothing yet
says what becomes of it. `Explained` covers that stretch: a stored workflow is
accepted, has an invalid expression, was cut off, or has a request that will go
on to the trigger. A row is only stored by a request that goes on or is cut off
there; a request ends by accepting, by an error, on an invalid expression, or
with the process, and each of these leaves its mark. Nothing is assumed of the
ids, and a second request for the same workflow changes nothing.

### Model-checked only

Every invariant that the passing runs check has a theorem, and so has the action
property `TerminalStable`. What is temporal beyond `[]` stays with TLC:
`RunFinalizes`, `AcceptedRunsAgain`, `StopEnds` and the fairness part of
`ImplementsDag` need liveness under fairness and ENABLED, which the prover does
not support. Induction over data and RECURSIVE operators are out of the prover's
reach as well; no module has one of the latter. What a run refutes is in the
next section.

## Findings

Each is a run that TLC refutes, with the documentation it contradicts quoted in
`PROJECT.json`.

1. `double_skip` (`skip.go:43`): a stage below two exhausted parents is counted
   twice, and the run is closed while another stage is RUNNING.
2. `init_race` (`redisPoller.go:149`): a dependency count is set after a parent
   has decremented it; the child waits for ever.
3. `dispatch_failure` (`taskExecutor.go:47`): a stage that cannot be loaded
   when it is dispatched ends FAILED-EXHAUSTED in a run that is COMPLETED.
4. `publish_retries` (`taskExecutor.go:85`): a failed Kafka write takes an
   attempt number without a look at the limit, so a stage has a fourth.
5. `stop_with_task` (`main.go:129`): a loop that is between its look at the
   context and the `select` of `pool.Go` when SIGTERM arrives can take a slot
   after `pool.Wait` has returned; `main` waits for the loop and returns while
   the task runs. (A loop already blocked in the `select` is woken by the
   context.)
6. `colon_id` (`redisPoller.go:76`): the poller reads a workflow id up to its
   first colon, and validation accepts ids with colons; such a workflow is
   created with 201 and never initialised.

## What is abstracted

- Payloads: an output is nothing, a result or an error text; what an executor
  computes is a free choice of SUCCESS or FAILURE.
- `dependsOn` is a set without duplicates. The order of the stages and of a
  children list is free: they come from a query without ORDER BY.
- Expiry of keys (24 h, 48 h), the score of a `job-trigger` member (it orders a
  batch that is taken whole) and the weight hash.
- The Redis client has its default options (`main.go:60`). Should these repeat a
  command whose reply was lost, an INCR or DECR would count twice; the client is
  not part of the repository, and a command has its effect once or not at all
  here. The EXPIRE after an INCR or an RPUSH is left out with expiry.
- A step may have several commands, and several of them may fail, but the
  process does not crash between them unless that is said below.
- INCR of the attempt and SET RUNNING are one step, SETNX and the status and
  output it leads to are one step (a crash between them is covered by
  `LoseResultInHand`), reading the run counters and writing the history are one
  step. The INCR of `run:done` and that reading are two.
- In the model of a run a graceful shutdown is a crash: what it adds, the order
  in which tasks, loops and pool end, is in `CronTrigger`.
- Branches no message of the system reaches: invalid results and requests, an
  attempt below 1.
- Submissions that fail the checks or find the id in use change nothing and are
  left out of `CronTrigger`. So are duplicate stage ids in `WorkflowValidation`:
  the unique index on `(workflow_id, stage_id)` makes their creation fail.
- Which fields of a workflow or a stage are missing: one Boolean each. The
  expression's syntax: one bit, which the creation does not look at before it
  stores the row (it then answers with an error, and the row stays; such a
  workflow is half created without any fault).
- Tasks other than `InitializeWorkflow` only take up slots in `CronTrigger`
  (`OtherTask`), and one loop starts them all.
- Time: a trigger becomes due at any moment, a score is computed from a clock
  between 0 and the width of a band (10^13 seconds), and a handler's timeout is
  the error it ends in.
- A float64 score is an integer: below 2^53 it is exact.

Not modelled, because they are I/O without state that a workflow depends on: the
executors (a script, an SFTP transfer, an HTTP call, a prompt; the SFTP one has
no timeout, so the assumption that an executor returns is made for it, not
shown), the text of a mail, logging, metrics, HTTP queries and migration.
Configuration is a set of constants here; its defaults are in no property
(`README.md` of the repository gives the pool's default as 8, `config.go` as
16). A workflow without stages passes validation and gets a run that is never
closed: the properties of a run say nothing about it.

## Plan

Done: the life of one run, then its surroundings (validation, score, schedule,
process). What is left:

1. Theorems: the counts when an ambiguous write may repeat an attempt (what
   is left of `CountedOnce` then).
2. Invalid messages and the dead-letter topic of `Event_Handler`, if another
   writer of its topic appears.
3. Expiry of the keys of a run that takes longer than their 48 hours.

## How to run

    tlc -workers 2 -config Progress.cfg MCOrchestration
    tlc -workers 2 -config Validation.cfg MCWorkflowValidation
    tlc -workers 2 -config CronTriggers.cfg MCCronTrigger
    tlapm OrchestrationProofs.tla
    tlapm AttemptProofs.tla
    tlapm FlowProofs.tla
    tlapm DepsProofs.tla
    tlapm CompletionProofs.tla
    tlapm ValidationProofs.tla
    tlapm CronProofs.tla
