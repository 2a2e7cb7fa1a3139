---------------------------- MODULE Orchestration ----------------------------
(***************************************************************************)
(* One run of one workflow, from the moment its initialisation job starts: *)
(* the orchestrator's initialisation job, poller, dispatch jobs and result *)
(* consumer, the Event_Handler, and the Redis keys, PostgreSQL rows and    *)
(* Kafka topics they share.  Each component has a module of its own; this  *)
(* one interleaves them, adds the crash of the orchestrator and states     *)
(* what a run promises.                                                    *)
(***************************************************************************)
EXTENDS RunInit, StageDispatch, EventHandler, ResultConsumer

vars == <<redisVars, faults, pgVars, topicVars, poolVars, initTodo, polled,
          executing, consumer>>

Init ==
  /\ RunStateInit
  /\ PersistenceInit
  /\ KafkaInit
  /\ PoolInit
  /\ RunInitInit
  /\ DispatchInit
  /\ HandlerInit
  /\ ConsumerInit

InitStep == InitNext /\ UNCHANGED <<polled, executing, consumer>>
PollStep == PollNext /\ UNCHANGED <<initTodo, executing, consumer>>
JobStep == JobNext /\ UNCHANGED <<initTodo, executing, consumer>>
HandlerStep ==
  HandlerNext /\ UNCHANGED <<pgVars, poolVars, initTodo, polled, consumer>>
ConsumerStep == ConsumerNext /\ UNCHANGED <<initTodo, polled, executing>>

\* A result the consumer has read, and perhaps marked as seen, is in neither
\* Kafka nor Redis any more.
LoseResultInHand ==
  \E r \in responseTopic :
    /\ consumer.pc = "read"
    /\ responseTopic' = responseTopic \ {r}
    /\ \/ UNCHANGED seenResult
       \/ MarkResultSeen(r.stage, r.attempt)
    /\ UNCHANGED <<executeTopic, dlqTopic>>

\* The orchestrator stops and is started again.  What it held in memory is
\* gone; nothing looks for it at start-up.
Crash ==
  /\ Fault("crash")
  /\ jobs' = {}
  /\ initJob' = "done"
  /\ initTodo' = {}
  /\ polled' = {}
  /\ consumer' = Idle
  /\ LoseResultInHand \/ UNCHANGED <<topicVars, seenResult>>
  /\ UNCHANGED <<statusVars, outputVars, attempt, deps, childList, jobTrigger,
                 runDone, runFailed, pgVars, executing>>

Finalized == runRow \in {"COMPLETED", "PARTIAL_FAILURE"}

Quiescent ==
  /\ jobTrigger = {} /\ polled = {} /\ jobs = {} /\ initJob = "done"
  /\ executeTopic = {} /\ executing = {} /\ responseTopic = {}
  /\ consumer = Idle

\* A finished run stays as it is; any other stop is a deadlock.
Done == Finalized /\ Quiescent /\ UNCHANGED vars

Next ==
  \/ InitStep
  \/ PollStep
  \/ JobStep
  \/ HandlerStep
  \/ ConsumerStep
  \/ Crash
  \/ Done

Spec == Init /\ [][Next]_vars

\* Every goroutine and the other service keep running.
Fairness ==
  /\ WF_vars(InitStep)
  /\ WF_vars(PollStep)
  /\ WF_vars(JobStep)
  /\ WF_vars(HandlerStep)
  /\ WF_vars(ConsumerStep)

FairSpec == Spec /\ Fairness

TypeOK ==
  /\ RunStateTypeOK
  /\ PersistenceTypeOK
  /\ KafkaTypeOK
  /\ PoolTypeOK
  /\ RunInitTypeOK
  /\ DispatchTypeOK
  /\ HandlerTypeOK
  /\ ConsumerTypeOK

-----------------------------------------------------------------------------
(* What a run promises.                                                    *)

\* A request or response for attempt n of s whose result is not yet taken.
Unanswered(s) ==
  {n \in 1..attempt[s] :
     /\ FirstSeen(s, n)
     /\ \/ \E j \in jobs : j.stage = s /\ j.attempt = n
                          /\ j.pc \in {"fetch", "publish", "written"}
        \/ \E m \in executeTopic \cup executing \cup responseTopic :
             m.stage = s /\ m.attempt = n}

\* The consumer sleeps before it queues s again.
Retrying(s) == consumer.pc = "retry" /\ consumer.resp.stage = s

\* The dispatch jobs of s that are about to queue it again.
Requeuing(s) == {j \in jobs : j.stage = s /\ j.pc = "requeue"}

\* The places from which s will get one more attempt.
Waiting(s) ==
  (IF s \in jobTrigger THEN {"job-trigger"} ELSE {})
  \cup (IF s \in polled THEN {"poller"} ELSE {})
  \cup (IF Retrying(s) THEN {"consumer"} ELSE {})
  \cup Requeuing(s)

\* A stage is in one place at a time: it waits for an attempt in at most one
\* queue, goroutine or timer, or has at most one attempt under way, and never
\* both.  The code keeps no lock per stage; dedup by the seen key and the
\* ZREM of the poller are all there is.
OneAttemptAtATime ==
  \A s \in Stage : Cardinality(Waiting(s)) + Cardinality(Unanswered(s)) <= 1

\* No stage is attempted before every stage it depends on has succeeded, and
\* the output key that ExecuteJob reads for a parent then holds the parent's
\* result, not the error text of a failed attempt or nothing, unless the SET
\* of that very result failed: the code drops its error and releases the
\* children all the same.
StartsAfterParents ==
  \A s \in Stage : attempt[s] > 0 =>
    \A p \in DependentOn[s] :
      /\ fate[p] = "FIN"
      /\ output[p] = "result" \/ p \in outputLost

\* A stage ends once: neither the consumer nor the dispatch jobs end it in a
\* second way, and its status key, once it has ended, is written again only
\* to say so.
TerminalStable ==
  [][\A s \in Stage : fate[s] # "open" =>
       /\ fate'[s] = fate[s]
       /\ stageStatus'[s] \in {stageStatus[s], fate[s]}]_<<fate, stageStatus>>

\* The status key of a stage tells how it ended unless the SET that was to say
\* so failed, and never tells of an end that did not happen: no late write of
\* RUNNING or FAILED-RETRY hides an end.
KeysTellFate ==
  \A s \in Stage :
    /\ stageStatus[s] \in Terminal => stageStatus[s] = fate[s]
    /\ fate[s] # "open" => stageStatus[s] = fate[s] \/ s \in statusLost

\* Retries never take a stage past MaxStageAttempts.
AttemptLimit == \A s \in Stage : attempt[s] <= MaxStageAttempts

\* Whatever goes wrong, each fault costs a stage at most one attempt beyond
\* MaxStageAttempts: a redelivered result or a lost process never restarts
\* the count.
AttemptBudget == \A s \in Stage : attempt[s] <= MaxStageAttempts + faults

\* The first attempt of s is still to be scheduled, by Init or by a parent.
Unscheduled(s) == initJob = "load" \/ s \in initTodo \/ deps[s] > 0

\* How many more attempts s will get from where it waits.
Chances(s) ==
  Flag(Unscheduled(s)) + Flag(s \in jobTrigger) + Flag(s \in polled)
  + Flag(Retrying(s)) + Cardinality(Requeuing(s))

\* The attempts whose first result may have granted s a retry.
RetriesGranted(s) == {n \in 1..(MaxStageAttempts - 1) : ~FirstSeen(s, n)}

\* Every attempt of s, taken or still to come, is its first one or is paid
\* for by the first result of an earlier attempt or by a fault.  This is why
\* AttemptBudget holds.
Accounted(s) ==
  attempt[s] + Chances(s) <= 1 + Cardinality(RetriesGranted(s)) + faults

AttemptsAccounted == \A s \in Stage : Accounted(s)

\* The parents of s that have not yet decremented its dependency count.
Unreleased(s) ==
  {p \in DependentOn[s] :
     \/ fate[p] # "FIN"
     \/ consumer.pc = "release" /\ consumer.resp.stage = p
        /\ s \in consumer.todo}

Counted(s) == DependentOn[s] # {} /\ initJob # "load" /\ s \notin initTodo

\* deps:{wf}:{stage}:{run} is the number of parents the stage still waits for.
DepsCountsRemaining ==
  \A s \in Stage : Counted(s) /\ runRow # "" =>
                      deps[s] = Cardinality(Unreleased(s))

\* run:done never runs ahead of the stages that the code has ended, so that
\* maybeFinalizeRun cannot close a run with a stage under way.
CountedOnce ==
  runDone <= Cardinality({s \in Stage : fate[s] # "open"})

\* A stage is skipped only below a stage that failed for good or was skipped
\* itself, and only if it was never attempted.
SkipJustified ==
  \A s \in Stage : fate[s] = "SKIPPED" =>
    /\ attempt[s] = 0
    /\ \E p \in DependentOn[s] : fate[p] \in {"FAILED-EXHAUSTED", "SKIPPED"}

\* When the run row is closed every stage has ended, and the stage_executions
\* row written for it says how, unless the stage's status could not be written
\* before or could not be read then.
FinalizedAllTerminal ==
  Finalized => \A s \in Stage :
    /\ fate[s] # "open"
    /\ executions[s] # <<>>
    /\ \/ executions[s][1].status = fate[s]
       \/ s \in statusLost
       \/ ~executions[s][1].read

\* stage_executions gets one row per stage and run.
OneOutcomePerStage == \A s \in Stage : Len(executions[s]) <= 1

\* A closed run with an exhausted stage is a PARTIAL_FAILURE in which all
\* dependents of the stage were skipped; a run without one is COMPLETED.
ExhaustionPropagates ==
  Finalized =>
    /\ runRow = "COMPLETED" <=>
         \A s \in Stage : stageStatus[s] # "FAILED-EXHAUSTED"
    /\ \A s \in Stage : stageStatus[s] = "FAILED-EXHAUSTED" =>
         \A c \in Children(s) : stageStatus[c] = "SKIPPED"

\* Every run that was started is closed in PostgreSQL.
RunFinalizes == <>Finalized

-----------------------------------------------------------------------------
(* The refinement of DagExecution.                                         *)

StageOutcome(s) ==
  CASE stageStatus[s] = "FIN"              -> "finished"
    [] stageStatus[s] = "FAILED-EXHAUSTED" -> "failed"
    [] stageStatus[s] = "SKIPPED"          -> "skipped"
    [] OTHER                               -> "open"

Dag == INSTANCE DagExecution WITH
         outcome <- [s \in Stage |-> StageOutcome(s)],
         run <- IF Finalized THEN runRow ELSE "open"

\* Seen through its status keys and its run row, a run is an execution of its
\* dependency graph: stages end once, in dependency order, and the row is
\* closed after the last of them with the status they call for.
ImplementsDag == Dag!DagSpec

=============================================================================
