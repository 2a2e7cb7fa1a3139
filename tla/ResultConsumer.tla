--------------------------- MODULE ResultConsumer ---------------------------
(***************************************************************************)
(* The goroutine that reads stage results                                  *)
(* (WorkflowOrchestrator/worker/taskResponseConsumer.go and skip.go).  It  *)
(* handles one response at a time; consumer.pc is the step it is about to  *)
(* take on consumer.resp:                                                  *)
(*   "read"      waiting for a response                                    *)
(*   "release"   decrementing the dependency counts of consumer.todo       *)
(*   "retry"     sleeping before the stage is queued again                 *)
(*   "skip"      examining the descendants in consumer.todo                *)
(*   "finalize"  the stage was counted, the run may be complete            *)
(*   "dlq", "notify"  reporting an exhausted stage                         *)
(***************************************************************************)
EXTENDS Persistence, WorkerPool, KafkaTopics

CONSTANT NoResponse  \* consumer.resp of a consumer that handles nothing

ASSUME NoResponseAssumption == NoResponse \notin Response

VARIABLE consumer

ConsumerPc == {"read", "release", "retry", "skip", "finalize", "dlq", "notify"}

Idle == [pc |-> "read", resp |-> NoResponse, todo |-> {}, visited |-> {}]

Handle(r, pc, todo, visited) ==
  consumer' = [pc |-> pc, resp |-> r, todo |-> todo, visited |-> visited]

\* Mutant: one attempt more than the limit is retried.
RetryableOffByOne(n) == n <= MaxStageAttempts

Retryable(n) == n < MaxStageAttempts

\* What skipDescendantStages does not pass over.
Skippable(status) == status \notin {"", "FIN", "RUNNING", "FAILED-RETRY"}

\* A result whose seen key exists is dropped.
DropSeenResult(r) ==
  /\ consumer.pc = "read"
  /\ ReadResponse(r, 0)
  /\ ~FirstSeen(r.stage, r.attempt)
  /\ UNCHANGED <<redisVars, pgVars, executeTopic, dlqTopic, poolVars, consumer>>

\* SETNX returns an error, with or without effect: the result is dropped,
\* though its offset is committed.
LoseResult(r) ==
  /\ consumer.pc = "read"
  /\ r \in responseTopic
  /\ Fault("redis")
  /\ responseTopic' = responseTopic \ {r}
  /\ MarkResultSeen(r.stage, r.attempt) \/ UNCHANGED seenResult
  /\ UNCHANGED <<statusVars, outputVars, attempt, deps, childList, jobTrigger,
                 runDone, runFailed, pgVars, executeTopic, dlqTopic, poolVars,
                 consumer>>

\* handleStageSuccess up to the release of the children, which goes on when
\* the status or the output could not be stored.
StageSucceeds(r) ==
  /\ consumer.pc = "read"
  /\ FirstSeen(r.stage, r.attempt)
  /\ MarkResultSeen(r.stage, r.attempt)
  /\ r.status = "SUCCESS"
  /\ \E set, kept \in BOOLEAN :
       /\ ReadResponse(r, Flag(~set) + Flag(~kept))
       /\ EndStage(r.stage, "FIN", set)
       /\ SetOutput(r.stage, "result", kept)
  /\ Handle(r, "release", childList[r.stage], {})
  /\ UNCHANGED <<attempt, deps, childList, jobTrigger, runDone, runFailed,
                 pgVars, executeTopic, dlqTopic, poolVars>>

\* handleStageFailure, an attempt that may be repeated, up to the sleep.
StageFailsRetryably(r) ==
  /\ consumer.pc = "read"
  /\ FirstSeen(r.stage, r.attempt)
  /\ MarkResultSeen(r.stage, r.attempt)
  /\ r.status = "FAILURE"
  /\ Retryable(r.attempt)
  /\ \E set, kept \in BOOLEAN :
       /\ ReadResponse(r, Flag(~set) + Flag(~kept))
       /\ SetStageStatus(r.stage, "FAILED-RETRY", set)
       /\ SetOutput(r.stage, "error", kept)
  /\ Handle(r, "retry", {}, {})
  /\ UNCHANGED <<fate, attempt, deps, childList, jobTrigger, runDone, runFailed,
                 pgVars, executeTopic, dlqTopic, poolVars>>

\* Mutant: the status of a stage that is tried again.
LeaveForRetry(s, done) == SetStageStatus(s, "FAILED-RETRY", done) /\ UNCHANGED fate

ExhaustStage(s, done) == EndStage(s, "FAILED-EXHAUSTED", done)

\* handleStageFailure, the last attempt, up to the walk of the descendants.
StageExhausts(r) ==
  /\ consumer.pc = "read"
  /\ FirstSeen(r.stage, r.attempt)
  /\ MarkResultSeen(r.stage, r.attempt)
  /\ r.status = "FAILURE"
  /\ ~Retryable(r.attempt)
  /\ \E set, flagged \in BOOLEAN :
       /\ ReadResponse(r, Flag(~set) + Flag(~flagged))
       /\ ExhaustStage(r.stage, set)
       /\ MarkRunFailed(flagged)
  /\ Handle(r, "skip", childList[r.stage], {r.stage})
  /\ UNCHANGED <<outputVars, attempt, deps, childList, jobTrigger, runDone,
                 pgVars, executeTopic, dlqTopic, poolVars>>

\* One turn of the loop in UnblockChildStages.  The first Redis error, on the
\* DECR or on the ZADD after it, ends the loop, whether or not the command
\* that returned it took effect.
ReleaseChild(c) ==
  /\ consumer.pc = "release"
  /\ c \in consumer.todo
  /\ UNCHANGED <<statusVars, outputVars, attempt, childList, seenResult, runDone,
                 runFailed, pgVars, topicVars, poolVars>>
  /\ \/ /\ DecrementDeps(c)
        /\ consumer' = [consumer EXCEPT !.todo = @ \ {c}]
        /\ NoFault
     \/ /\ Fault("redis")
        /\ \/ UNCHANGED <<deps, jobTrigger>>
           \/ CountDown(c) /\ UNCHANGED jobTrigger
           \/ DecrementDeps(c)
        /\ consumer' = [consumer EXCEPT !.todo = {}]

\* After the sleep.  A Redis error is logged and the stage stays unqueued.
RequeueStage ==
  /\ consumer.pc = "retry"
  /\ consumer' = Idle
  /\ UNCHANGED <<statusVars, outputVars, attempt, deps, childList, seenResult,
                 runDone, runFailed, pgVars, topicVars, poolVars>>
  /\ \/ ScheduleStage(consumer.resp.stage) /\ NoFault
     \/ Fault("redis") /\ UNCHANGED jobTrigger

\* Mutant: a skipped stage does not add to run:done.
SkipUncounted == UNCHANGED runDone

\* What a skipped stage adds to run:done.
CountSkipped == IncrementRunDone

\* One child looked at by skipDescendantStages.  The queue of parents and the
\* list of children under the cursor are one set of stages still to look at.
\* The walk goes on when the SET or the INCR fails, and past the children of c
\* when their list cannot be read.
SkipDescendant(c) ==
  /\ consumer.pc = "skip"
  /\ c \in consumer.todo
  /\ Skippable(stageStatus[c])
  /\ \E set, counted, listed \in BOOLEAN :
       /\ RedisErrors(Flag(~set) + Flag(~counted) + Flag(~listed), 0)
       /\ EndStage(c, "SKIPPED", set)
       /\ IF counted THEN CountSkipped ELSE UNCHANGED runDone
       /\ LET visited == consumer.visited \cup {c}
              below == IF listed THEN childList[c] ELSE {}
          IN  Handle(consumer.resp, "skip",
                     (consumer.todo \cup below) \ visited, visited)
  /\ UNCHANGED <<outputVars, attempt, deps, childList, jobTrigger, seenResult,
                 runFailed, pgVars, topicVars, poolVars>>

\* A child that has finished or is under way is passed over, and so is one
\* whose status cannot be read.
PassOver(c) ==
  /\ consumer.pc = "skip"
  /\ c \in consumer.todo
  /\ \/ ~Skippable(stageStatus[c]) /\ NoFault
     \/ Fault("redis")
  /\ Handle(consumer.resp, "skip", consumer.todo \ {c}, consumer.visited \cup {c})
  /\ UNCHANGED <<redisVars, pgVars, topicVars, poolVars>>

\* The failed stage's own children cannot be read: nothing is skipped.
SkipNothing ==
  /\ consumer.pc = "skip"
  /\ consumer.visited = {consumer.resp.stage}
  /\ consumer.todo # {}
  /\ Fault("redis")
  /\ consumer' = [consumer EXCEPT !.todo = {}]
  /\ UNCHANGED <<redisVars, pgVars, topicVars, poolVars>>

\* Where a handler goes when it is done with the run's counters.
AfterRecord == IF consumer.resp.status = "SUCCESS"
               THEN Idle
               ELSE [consumer EXCEPT !.pc = "dlq", !.visited = {}]

\* recordTerminalStage, first half: a Redis error, counted or not, skips the
\* second.
RecordStage ==
  /\ consumer.pc \in {"release", "skip"}
  /\ consumer.todo = {}
  /\ UNCHANGED <<statusVars, outputVars, attempt, deps, childList, jobTrigger,
                 seenResult, runFailed, pgVars, topicVars, poolVars>>
  /\ \/ /\ IncrementRunDone
        /\ consumer' = [consumer EXCEPT !.pc = "finalize", !.visited = {}]
        /\ NoFault
     \/ /\ Fault("redis")
        /\ IncrementRunDone \/ UNCHANGED runDone
        /\ consumer' = AfterRecord

\* recordTerminalStage, second half.
FinalizeRun ==
  /\ consumer.pc = "finalize"
  /\ MaybeFinalizeRun
  /\ consumer' = AfterRecord
  /\ UNCHANGED <<redisVars, topicVars, poolVars>>

ReportExhausted ==
  /\ consumer.pc = "dlq"
  /\ PublishDLQ(consumer.resp.stage, consumer.resp.attempt, "retry_exhausted")
  /\ consumer' = [consumer EXCEPT !.pc = "notify"]
  /\ UNCHANGED <<redisVars, pgVars, poolVars>>

\* pool.Go for the notification: the consumer waits here for a slot.
StartNotification ==
  /\ consumer.pc = "notify"
  /\ Go([stage |-> consumer.resp.stage, attempt |-> consumer.resp.attempt,
         pc |-> "notify"])
  /\ consumer' = Idle
  /\ UNCHANGED <<redisVars, faults, pgVars, topicVars>>

ConsumerNext ==
  \/ \E r \in responseTopic :
       \/ DropSeenResult(r)
       \/ LoseResult(r)
       \/ StageSucceeds(r)
       \/ StageFailsRetryably(r)
       \/ StageExhausts(r)
  \/ \E c \in Stage : ReleaseChild(c) \/ SkipDescendant(c) \/ PassOver(c)
  \/ SkipNothing
  \/ RequeueStage
  \/ RecordStage
  \/ FinalizeRun
  \/ ReportExhausted
  \/ StartNotification

ConsumerInit == consumer = Idle

\* It has a response in hand unless it waits for one.
ConsumerTypeOK ==
  \/ consumer = Idle
  \/ consumer \in [pc : ConsumerPc \ {"read"}, resp : Response,
                   todo : SUBSET Stage, visited : SUBSET Stage]

=============================================================================
