--------------------------- MODULE StageDispatch ---------------------------
(***************************************************************************)
(* The stage half of the Redis poller (handleStageTriggers in              *)
(* WorkflowOrchestrator/worker/redisPoller.go) and the job it starts for   *)
(* each stage (ExecuteJob in taskExecutor.go).  The poller removes a       *)
(* member from job-trigger, then waits for a pool slot; the job counts the *)
(* attempt, loads the stage, writes the request to Kafka and ends.         *)
(***************************************************************************)
EXTENDS Persistence, WorkerPool, KafkaTopics

CONSTANT InitBeforePolling
  \* TRUE assumes that Init's queueing loop, a few Redis round trips, is over
  \* before the next 500 ms tick of the poller.  Nothing in the code waits.

ASSUME InitBeforePollingAssumption == InitBeforePolling \in BOOLEAN

VARIABLE polled  \* the stage the poller removed and has not started, if any

\* Mutant: the member stays in the queue when it is taken.
LeaveInQueue(s) == UNCHANGED jobTrigger

\* ZREM from job-trigger.
TakeFromQueue(s) == jobTrigger' = jobTrigger \ {s}

\* If the error of the ZREM is a lost reply, the stage is in nobody's hands.
PollStage(s) ==
  /\ polled = {}
  /\ s \in jobTrigger
  /\ InitBeforePolling => initJob = "done"
  /\ TakeFromQueue(s)
  /\ \/ polled' = {s} /\ NoFault
     \/ Fault("redis") /\ UNCHANGED polled
  /\ UNCHANGED <<statusVars, outputVars, attempt, deps, childList, seenResult,
                 runDone, runFailed, pgVars, topicVars, poolVars>>

\* pool.Go gets a slot and the job takes its attempt number.  A Redis error
\* on the counter, counted or not, ends the job at once.
StartJob(s) ==
  /\ s \in polled
  /\ polled' = {}
  /\ UNCHANGED <<fate, outputVars, deps, childList, jobTrigger, seenResult,
                 runDone, runFailed, pgVars, topicVars>>
  /\ \/ /\ Go([stage |-> s, attempt |-> attempt[s] + 1, pc |-> "fetch"])
        /\ IncrementAttempt(s)
        /\ \E set \in BOOLEAN : /\ SetStageStatus(s, "RUNNING", set)
                                /\ RedisErrors(Flag(~set), 0)
     \/ /\ SlotFree
        /\ Fault("redis")
        /\ IncrementAttempt(s) \/ UNCHANGED attempt
        /\ UNCHANGED <<stageStatus, statusLost, poolVars>>

\* fetchStageDetailsFromDB, then the parents' outputs are read.
FetchStage(j) ==
  /\ j \in jobs
  /\ j.pc = "fetch"
  /\ UNCHANGED <<outputVars, attempt, deps, childList, jobTrigger, seenResult,
                 runDone, runFailed, pgVars, topicVars>>
  /\ \/ /\ Advance(j, "publish")
        /\ NoFault
        /\ UNCHANGED statusVars
     \/ /\ "db" \in Faults
        /\ \E set \in BOOLEAN : /\ EndStage(j.stage, "FAILED-EXHAUSTED", set)
                                /\ RedisErrors(Flag(~set), 1)
        /\ Advance(j, "dlq")

\* The broker has the request, or the write fails before it gets there.
PublishStage(j) ==
  /\ j \in jobs
  /\ j.pc = "publish"
  /\ UNCHANGED <<redisVars, pgVars>>
  /\ \/ /\ WriteExecuteMessage([stage |-> j.stage, attempt |-> j.attempt])
        /\ Advance(j, "written")
        /\ NoFault
     \/ /\ Fault("publish")
        /\ Advance(j, "requeue")
        /\ UNCHANGED topicVars

\* WriteMessages returns: with nil, or with an error for a request that the
\* broker did store (the 10 s context ran out, an acknowledgement was lost).
PublishReturns(j) ==
  /\ j \in jobs
  /\ j.pc = "written"
  /\ UNCHANGED <<redisVars, pgVars, topicVars>>
  /\ \/ Finish(j) /\ NoFault
     \/ Advance(j, "requeue") /\ Fault("publish_timeout")

\* A failed publish: FAILED-RETRY and back to job-trigger, without a look at
\* the attempt number.  The errors of both commands are dropped.
RequeueUnpublished(j) ==
  /\ j \in jobs
  /\ j.pc = "requeue"
  /\ Finish(j)
  /\ UNCHANGED <<fate, outputVars, attempt, deps, childList, seenResult,
                 runDone, runFailed, pgVars, topicVars>>
  /\ \E set, queued \in BOOLEAN :
       /\ SetStageStatus(j.stage, "FAILED-RETRY", set)
       /\ IF queued THEN ScheduleStage(j.stage) ELSE UNCHANGED jobTrigger
       /\ RedisErrors(Flag(~set) + Flag(~queued), 0)

ReportDispatchFailure(j) ==
  /\ j \in jobs
  /\ j.pc = "dlq"
  /\ PublishDLQ(j.stage, j.attempt, "dispatch_failed")
  /\ Advance(j, "record")
  /\ UNCHANGED <<redisVars, pgVars>>

\* recordTerminalStage, first half: a Redis error, counted or not, skips the
\* second.
RecordUndispatched(j) ==
  /\ j \in jobs
  /\ j.pc = "record"
  /\ UNCHANGED <<statusVars, outputVars, attempt, deps, childList, jobTrigger,
                 seenResult, runFailed, pgVars, topicVars>>
  /\ \/ IncrementRunDone /\ Advance(j, "finalize") /\ NoFault
     \/ /\ Fault("redis")
        /\ IncrementRunDone \/ UNCHANGED runDone
        /\ Finish(j)

\* recordTerminalStage, second half.
FinalizeUndispatched(j) ==
  /\ j \in jobs
  /\ j.pc = "finalize"
  /\ MaybeFinalizeRun
  /\ Finish(j)
  /\ UNCHANGED <<redisVars, topicVars>>

\* The job sendFailureNotification ends.
NotificationSent(j) ==
  /\ j \in jobs
  /\ j.pc = "notify"
  /\ Finish(j)
  /\ UNCHANGED <<redisVars, faults, pgVars, topicVars>>

PollNext == \E s \in Stage : PollStage(s) \/ StartJob(s)

JobNext ==
  /\ \E j \in jobs :
       \/ FetchStage(j)
       \/ PublishStage(j)
       \/ PublishReturns(j)
       \/ RequeueUnpublished(j)
       \/ ReportDispatchFailure(j)
       \/ RecordUndispatched(j)
       \/ FinalizeUndispatched(j)
       \/ NotificationSent(j)
  /\ UNCHANGED polled

DispatchInit == polled = {}

DispatchTypeOK == polled \subseteq Stage

=============================================================================
