------------------------------ MODULE RunInit ------------------------------
(***************************************************************************)
(* InitializeWorkflow (WorkflowOrchestrator/worker/redisPoller.go) for one *)
(* run.  Everything before the queueing loop is one step: the run id is    *)
(* fresh and job-trigger has no member of it, so nobody else can see those *)
(* keys.  The queueing loop is one step per stage: from its first ZADD on  *)
(* the poller may dispatch a stage while the loop still sets dependency    *)
(* counts.  The stages come from a Preload without ORDER BY, so the loop   *)
(* takes them in any order.                                                *)
(***************************************************************************)
EXTENDS Persistence, WorkerPool, KafkaTopics

VARIABLE initTodo  \* the stages the queueing loop has not reached

\* Mutant: a stage waits for one dependency fewer than it lists.
DependencyCountOffByOne(s) == Cardinality(DependentOn[s]) - 1

DependencyCount(s) == Cardinality(DependentOn[s])

\* The PENDING statuses and the children lists.  The errors of these SETs and
\* RPUSHs are dropped: unset are the stages left without a status, unlisted
\* the pairs of a parent and a child that its list lacks.
PrepareStages(unset, unlisted) ==
  /\ RedisErrors(Cardinality(unset) + Cardinality(unlisted), 0)
  /\ stageStatus' = [s \in Stage |-> IF s \in unset THEN "" ELSE "PENDING"]
  /\ statusLost' = unset
  /\ childList' = [p \in Stage |-> {c \in Children(p) : <<p, c>> \notin unlisted}]

Edges == {e \in Stage \X Stage : e[1] \in DependentOn[e[2]]}

\* The workflow is loaded, the run row, the counters, the statuses and the
\* lists are written.  A database error ends the job before the row exists, a
\* Redis error on the counters or the weights after it.
BeginRun ==
  /\ initJob = "load"
  /\ UNCHANGED <<fate, outputVars, attempt, deps, jobTrigger, seenResult,
                 runDone, runFailed, executions, topicVars, jobs>>
  /\ \/ /\ runRow' = "RUNNING"
        /\ \E unset \in SUBSET Stage, unlisted \in SUBSET Edges :
             PrepareStages(unset, unlisted)
        /\ initJob' = "queue"
        /\ initTodo' = Stage
     \/ /\ Fault("db")
        /\ initJob' = "done"
        /\ UNCHANGED <<runRow, stageStatus, statusLost, childList, initTodo>>
     \/ /\ Fault("redis")
        /\ runRow' = "RUNNING"
        /\ initJob' = "done"
        /\ UNCHANGED <<stageStatus, statusLost, childList, initTodo>>

\* One turn of the loop: a root stage is queued, any other stage gets its
\* dependency count.  A Redis error is logged and the loop goes on.
QueueStage(s) ==
  /\ initJob = "queue"
  /\ s \in initTodo
  /\ initTodo' = initTodo \ {s}
  /\ UNCHANGED <<statusVars, outputVars, attempt, childList, seenResult,
                 runDone, runFailed, pgVars, topicVars, poolVars>>
  /\ \/ /\ DependentOn[s] = {}
        /\ ScheduleStage(s)
        /\ NoFault
        /\ UNCHANGED deps
     \/ /\ DependentOn[s] # {}
        /\ deps' = [deps EXCEPT ![s] = DependencyCount(s)]
        /\ NoFault
        /\ UNCHANGED jobTrigger
     \/ /\ Fault("redis")
        /\ UNCHANGED <<jobTrigger, deps>>

\* The loop is over and the job returns its slot.  Rescheduling the cron
\* trigger concerns no key of this run.
EndInit ==
  /\ initJob = "queue"
  /\ initTodo = {}
  /\ initJob' = "done"
  /\ UNCHANGED <<redisVars, faults, pgVars, topicVars, jobs, initTodo>>

InitNext ==
  \/ BeginRun
  \/ \E s \in Stage : QueueStage(s)
  \/ EndInit

RunInitInit == initTodo = {}

RunInitTypeOK == initTodo \subseteq Stage

=============================================================================
