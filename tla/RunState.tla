------------------------------ MODULE RunState ------------------------------
(***************************************************************************)
(* The Redis state of one workflow run and the operations on it            *)
(* (WorkflowOrchestrator/worker/runstate.go).  Every key of the code is    *)
(* scoped by workflow and run id, so one run is modelled and the two ids   *)
(* are dropped.  Each operator below is one Redis command; the components  *)
(* that EXTEND this module interleave at those commands.                   *)
(*                                                                         *)
(* Expiry (24h and 48h TTLs) is left out: a run is far shorter.  The score *)
(* of a job-trigger member is left out here: the poller takes every member *)
(* that is ready at each tick, so the score orders a batch and no more.    *)
(***************************************************************************)
EXTENDS Integers, FiniteSets, Sequences

CONSTANTS
  Stage,             \* the stages of the workflow definition
  DependentOn,       \* stage -> the stages it lists in dependsOn
  MaxStageAttempts,  \* shared_models.MaxStageAttempts
  Faults,            \* the kinds of environment fault that may happen
  MaxFaults          \* how many of them a behaviour may have

(***************************************************************************)
(* "redis" and "db": a Redis command or a PostgreSQL statement returns an  *)
(* error.  "publish": a Kafka write of the orchestrator fails.             *)
(* "publish_timeout": it is reported failed though the broker has it.      *)
(* "respond": the Event_Handler's write of a response fails.               *)
(* "duplicate": Kafka delivers a message again.  "crash" and               *)
(* "handler_crash": a process stops and loses what it holds in memory.     *)
(***************************************************************************)
FaultKind == {"redis", "db", "publish", "publish_timeout", "respond",
              "duplicate", "crash", "handler_crash"}

ASSUME StageAssumption == IsFiniteSet(Stage)
ASSUME DependentOnAssumption == DependentOn \in [Stage -> SUBSET Stage]
ASSUME AttemptsAssumption == MaxStageAttempts \in Nat \ {0}
ASSUME FaultsAssumption == Faults \subseteq FaultKind /\ MaxFaults \in Nat

VARIABLES
  stageStatus,  \* stage-status:{wf}:{run}:{stage}, "" when the key is absent
  attempt,      \* attempt:{wf}:{run}:{stage}, 0 when absent
  deps,         \* deps:{wf}:{stage}:{run}, 0 when absent (DECR starts from 0)
  childList,    \* the lists children:{wf}:{stage}:{run}
  output,       \* output:{wf}:{stage}:{run}
  jobTrigger,   \* the members of the job-trigger ZSET
  seenResult,   \* the seen:{wf}:{run}:{stage}:{attempt} keys
  runDone,      \* run:done:{wf}:{run}
  runFailed,    \* run:failed:{wf}:{run} exists
  faults        \* how many faults have happened so far

\* History variables.  The code drops the errors of most of its SETs and goes
\* on; these say what it has decided and which of those writes are missing.
\* No guard of an action reads them.
VARIABLES
  fate,         \* how the code has ended each stage, "open" until it does
  statusLost,   \* the stages whose status key lacks the last write
  outputLost    \* the stages whose output key lacks the last write

statusVars == <<stageStatus, statusLost, fate>>
outputVars == <<output, outputLost>>
redisVars == <<statusVars, outputVars, attempt, deps, childList, jobTrigger,
               seenResult, runDone, runFailed>>

StageStatus == {"PENDING", "RUNNING", "FIN", "FAILED-RETRY",
                "FAILED-EXHAUSTED", "SKIPPED"}

\* No code path is meant to leave these statuses.
Terminal == {"FIN", "FAILED-EXHAUSTED", "SKIPPED"}

\* A stage's payload: nothing yet, the result of a success, or an error text.
Output == {"", "result", "error"}

\* The stages that list s in dependsOn.
Children(s) == {c \in Stage : s \in DependentOn[c]}

\* run:total:{wf}:{run}
RunTotal == Cardinality(Stage)

Fault(kind) ==
  /\ kind \in Faults
  /\ faults < MaxFaults
  /\ faults' = faults + 1

NoFault == UNCHANGED faults

Flag(condition) == IF condition THEN 1 ELSE 0

\* n commands of one step return an error and the code goes on.  others is how
\* many faults of another kind the step has.
RedisErrors(n, others) ==
  /\ n > 0 => "redis" \in Faults
  /\ faults' = faults + n + others
  /\ faults' <= MaxFaults

-----------------------------------------------------------------------------

\* done: the SET took effect.  Every caller drops its error.
SetStageStatus(s, status, done) ==
  IF done THEN /\ stageStatus' = [stageStatus EXCEPT ![s] = status]
               /\ statusLost' = statusLost \ {s}
          ELSE /\ statusLost' = statusLost \cup {s}
               /\ UNCHANGED stageStatus

\* The write of a status that the stage is meant to keep.
EndStage(s, how, done) ==
  /\ SetStageStatus(s, how, done)
  /\ fate' = [fate EXCEPT ![s] = how]

SetOutput(s, out, done) ==
  IF done THEN /\ output' = [output EXCEPT ![s] = out]
               /\ outputLost' = outputLost \ {s}
          ELSE /\ outputLost' = outputLost \cup {s}
               /\ UNCHANGED output

IncrementAttempt(s) == attempt' = [attempt EXCEPT ![s] = @ + 1]

ScheduleStage(s) == jobTrigger' = jobTrigger \cup {s}

\* Mutant: the dedup key is not consulted.
FirstSeenAlways(s, n) == TRUE

\* SETNX of the seen key succeeds.
FirstSeen(s, n) == <<s, n>> \notin seenResult

MarkResultSeen(s, n) == seenResult' = seenResult \cup {<<s, n>>}

IncrementRunDone == runDone' = runDone + 1

MarkRunFailed(done) == runFailed' = (runFailed \/ done)

\* Mutant: the child is queued one dependency early.
ReadyWhenOneLeft(remaining) == remaining <= 1

\* What DECR returns for the last dependency.
Ready(remaining) == remaining = 0

CountDown(s) == deps' = [deps EXCEPT ![s] = @ - 1]

\* decrementDepsAndMaybeSchedule without a Redis error.
DecrementDeps(s) ==
  /\ CountDown(s)
  /\ IF Ready(deps[s] - 1) THEN ScheduleStage(s) ELSE UNCHANGED jobTrigger

-----------------------------------------------------------------------------

RunStateInit ==
  /\ stageStatus = [s \in Stage |-> ""]
  /\ attempt = [s \in Stage |-> 0]
  /\ deps = [s \in Stage |-> 0]
  /\ childList = [s \in Stage |-> {}]
  /\ output = [s \in Stage |-> ""]
  /\ jobTrigger = {}
  /\ seenResult = {}
  /\ runDone = 0
  /\ runFailed = FALSE
  /\ faults = 0
  /\ fate = [s \in Stage |-> "open"]
  /\ statusLost = {}
  /\ outputLost = {}

RunStateTypeOK ==
  /\ stageStatus \in [Stage -> StageStatus \cup {""}]
  /\ attempt \in [Stage -> Nat]
  /\ deps \in [Stage -> Int]
  /\ childList \in [Stage -> SUBSET Stage]
  /\ output \in [Stage -> Output]
  /\ jobTrigger \subseteq Stage
  /\ seenResult \subseteq Stage \X Nat
  /\ runDone \in Nat
  /\ runFailed \in BOOLEAN
  /\ faults \in 0..MaxFaults
  /\ fate \in [Stage -> Terminal \cup {"open"}]
  /\ statusLost \subseteq Stage
  /\ outputLost \subseteq Stage

=============================================================================
