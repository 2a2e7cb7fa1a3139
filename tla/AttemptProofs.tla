---------------------------- MODULE AttemptProofs ----------------------------
(***************************************************************************)
(* The bound on the attempts of a stage, for every workflow and every set  *)
(* and number of faults.  The argument is an account kept per stage        *)
(* (Accounted in Orchestration): a stage waits in as many places as it has *)
(* attempts to its credit, and credit comes only from the run's start, the *)
(* first result of a failed attempt and the faults.                        *)
(***************************************************************************)
EXTENDS OrchestrationProofs

USE DEF statusVars, outputVars

\* Finitely many jobs, so that they can be counted.
JobsFinite == IsFiniteSet(jobs)

\* Attempts are counted from 1, so that the first result of each failed
\* attempt is worth one of the MaxStageAttempts - 1 retries.
AttemptsNumbered ==
  /\ \A m \in executeTopic \cup executing \cup responseTopic : m.attempt > 0
  /\ \A j \in jobs : j.pc # "notify" => j.attempt > 0

\* A dependency count is positive only once Init's loop has set it, so that
\* DECR brings it to 0 once.
CountedAfterInit ==
  \A s \in Stage : initJob = "load" \/ s \in initTodo => deps[s] <= 0

AttemptInv ==
  /\ TypeOK
  /\ JobsFinite
  /\ AttemptsNumbered
  /\ CountedAfterInit
  /\ AttemptsAccounted

-----------------------------------------------------------------------------
(* The three supporting facts.                                             *)

\* A step starts at most one job.
LEMMA JobsFiniteStep ==
  ASSUME JobsFinite, [Next]_vars
  PROVE  JobsFinite'
<1>1. \E j : jobs' \subseteq jobs \cup {j}
  <2>1. CASE InitStep
    BY <2>1 DEF InitStep, InitNext, BeginRun, QueueStage, EndInit, poolVars
  <2>2. CASE PollStep
    BY <2>2 DEF PollStep, PollNext, PollStage, StartJob, Go, poolVars
  <2>3. CASE JobStep
    BY <2>3 DEF JobStep, JobNext, FetchStage, PublishStage, PublishReturns,
                RequeueUnpublished, ReportDispatchFailure, RecordUndispatched,
                FinalizeUndispatched, NotificationSent, Advance, Finish
  <2>4. CASE HandlerStep
    BY <2>4 DEF HandlerStep, poolVars
  <2>5. CASE ConsumerStep
    BY <2>5 DEF ConsumerStep, ConsumerNext, DropSeenResult, LoseResult,
                StageSucceeds, StageFailsRetryably, StageExhausts, ReleaseChild,
                SkipDescendant, PassOver, SkipNothing, RequeueStage,
                RecordStage, FinalizeRun, ReportExhausted, StartNotification,
                Go, poolVars
  <2>6. CASE Crash
    BY <2>6 DEF Crash
  <2>7. CASE UNCHANGED vars
    BY <2>7 DEF vars, poolVars
  <2>8. QED
    BY <2>1, <2>2, <2>3, <2>4, <2>5, <2>6, <2>7 DEF Next, Done
<1>2. PICK j : jobs' \subseteq jobs \cup {j}
  BY <1>1
<1>3. IsFiniteSet(jobs \cup {j})
  BY FS_AddElement DEF JobsFinite
<1>4. QED
  BY <1>2, <1>3, FS_Subset DEF JobsFinite

LEMMA AttemptsNumberedStep ==
  ASSUME TypeOK, AttemptsNumbered, [Next]_vars
  PROVE  AttemptsNumbered'
<1>1. CASE InitStep
  BY <1>1 DEF AttemptsNumbered, InitStep, InitNext, BeginRun, QueueStage,
              EndInit, poolVars, topicVars
<1>2. CASE PollStep
  <2>1. ASSUME NEW s \in Stage
        PROVE  attempt[s] + 1 > 0
    <3>1. attempt \in [Stage -> Nat]
      BY DEF TypeOK, RunStateTypeOK
    <3>2. QED
      BY <3>1
  <2>2. QED
    BY <1>2, <2>1
       DEF AttemptsNumbered, PollStep, PollNext, PollStage, StartJob, Go,
           poolVars, topicVars
<1>3. CASE JobStep
  <2>1. PICK j \in jobs :
             \/ FetchStage(j)
             \/ PublishStage(j)
             \/ PublishReturns(j)
             \/ RequeueUnpublished(j)
             \/ ReportDispatchFailure(j)
             \/ RecordUndispatched(j)
             \/ FinalizeUndispatched(j)
             \/ NotificationSent(j)
    BY <1>3 DEF JobStep, JobNext
  <2>2. j.pc # "notify" => j.attempt > 0
    BY DEF AttemptsNumbered
  <2>3. \A k \in jobs' : k.pc # "notify" => k.attempt > 0
    <3>1. \/ jobs' \subseteq jobs
          \/ j.pc # "notify" /\ \E pc \in JobPc : Advance(j, pc)
      BY <2>1
         DEF FetchStage, PublishStage, PublishReturns, RequeueUnpublished,
             ReportDispatchFailure, RecordUndispatched, FinalizeUndispatched,
             NotificationSent, Finish, JobPc
    <3>2. ASSUME NEW pc \in JobPc, j.pc # "notify", Advance(j, pc)
          PROVE  \A k \in jobs' : k.pc # "notify" => k.attempt > 0
      <4>1. [j EXCEPT !.pc = pc].attempt = j.attempt
        BY DEF TypeOK, PoolTypeOK, Job
      <4>2. jobs' = (jobs \ {j}) \cup {[j EXCEPT !.pc = pc]}
        BY <3>2 DEF Advance
      <4>3. QED
        BY <2>2, <3>2, <4>1, <4>2 DEF AttemptsNumbered
    <3>3. QED
      BY <3>1, <3>2 DEF AttemptsNumbered
  <2>4. /\ executeTopic' \subseteq
             executeTopic \cup {[stage |-> j.stage, attempt |-> j.attempt]}
        /\ j.pc = "notify" => UNCHANGED executeTopic
        /\ UNCHANGED responseTopic
    BY <2>1 DEF FetchStage, PublishStage, PublishReturns,
           RequeueUnpublished, ReportDispatchFailure, RecordUndispatched,
           FinalizeUndispatched, NotificationSent, WriteExecuteMessage,
           PublishDLQ, topicVars
  <2>5. QED
    BY <1>3, <2>2, <2>3, <2>4 DEF AttemptsNumbered, JobStep
<1>4. CASE HandlerStep
  BY <1>4 DEF AttemptsNumbered, HandlerStep, HandlerNext, ReceiveRequest,
              ReadExecute, Respond, HandlerCrash, poolVars, topicVars
<1>5. CASE ConsumerStep
  <2>1. /\ responseTopic' \subseteq responseTopic
        /\ UNCHANGED <<executeTopic, executing>>
    BY <1>5
       DEF ConsumerStep, ConsumerNext, DropSeenResult, LoseResult,
           StageSucceeds, StageFailsRetryably, StageExhausts, ReleaseChild,
           SkipDescendant, PassOver, SkipNothing, RequeueStage, RecordStage,
           FinalizeRun, ReportExhausted, StartNotification, ReadResponse,
           PublishDLQ, topicVars
  <2>2. StartNotification \/ UNCHANGED jobs
    BY <1>5
       DEF ConsumerStep, ConsumerNext, DropSeenResult, LoseResult,
           StageSucceeds, StageFailsRetryably, StageExhausts, ReleaseChild,
           SkipDescendant, PassOver, SkipNothing, RequeueStage, RecordStage,
           FinalizeRun, ReportExhausted, poolVars
  <2>3. \A j \in jobs' : j \in jobs \/ j.pc = "notify"
    BY <2>2 DEF StartNotification, Go
  <2>4. QED
    BY <2>1, <2>3 DEF AttemptsNumbered
<1>6. CASE Crash
  BY <1>6 DEF AttemptsNumbered, Crash, LoseResultInHand, topicVars
<1>7. CASE UNCHANGED vars
  BY <1>7 DEF AttemptsNumbered, vars, poolVars, topicVars
<1>8. QED
  BY <1>1, <1>2, <1>3, <1>4, <1>5, <1>6, <1>7 DEF Next, Done

\* Only Init's loop makes a dependency count positive.
LEMMA CountedAfterInitStep ==
  ASSUME TypeOK, CountedAfterInit, [Next]_vars
  PROVE  CountedAfterInit'
<1>a. deps \in [Stage -> Int] /\ deps' \in [Stage -> Int]
  BY NextType DEF TypeOK, RunStateTypeOK
<1>1. CASE InitStep
  <2>1. CASE BeginRun
    BY <2>1 DEF BeginRun, CountedAfterInit
  <2>2. ASSUME NEW s \in Stage, QueueStage(s) PROVE CountedAfterInit'
    <3>1. /\ initTodo' = initTodo \ {s}
          /\ initJob = "queue" /\ initJob' = "queue"
          /\ \A t \in Stage \ {s} : deps'[t] = deps[t]
      BY <2>2, <1>a DEF QueueStage, poolVars
    <3>2. QED
      BY <3>1 DEF CountedAfterInit
  <2>3. CASE EndInit
    BY <2>3 DEF EndInit, redisVars, CountedAfterInit
  <2>4. QED
    BY <1>1, <2>1, <2>2, <2>3 DEF InitStep, InitNext
<1>2. ASSUME NEW c \in Stage, ReleaseChild(c), UNCHANGED initTodo
      PROVE  CountedAfterInit'
  <2>1. UNCHANGED <<initJob, initTodo>>
        /\ (UNCHANGED deps \/ deps' = [deps EXCEPT ![c] = @ - 1])
    BY <1>2 DEF ReleaseChild, DecrementDeps, CountDown, poolVars
  <2>2. \A s \in Stage : deps'[s] <= deps[s]
    BY <1>a, <2>1
  <2>3. QED
    BY <1>a, <2>1, <2>2 DEF CountedAfterInit
<1>3. ASSUME UNCHANGED deps, initJob' = "load" => initJob = "load",
             initTodo' \subseteq initTodo
      PROVE  CountedAfterInit'
  BY <1>3 DEF CountedAfterInit
<1>4. CASE PollStep
  BY <1>3, <1>4 DEF PollStep, PollNext, PollStage, StartJob, Go, poolVars
<1>5. CASE JobStep
  BY <1>3, <1>5
     DEF JobStep, JobNext, FetchStage, PublishStage, PublishReturns,
         RequeueUnpublished, ReportDispatchFailure, RecordUndispatched,
         FinalizeUndispatched, NotificationSent, Advance, Finish, redisVars
<1>6. CASE HandlerStep
  BY <1>3, <1>6 DEF HandlerStep, HandlerNext, ReceiveRequest, Respond,
                    HandlerCrash, poolVars, redisVars
<1>7. CASE ConsumerStep
  BY <1>2, <1>3, <1>7
     DEF ConsumerStep, ConsumerNext, DropSeenResult, LoseResult,
         StageSucceeds, StageFailsRetryably, StageExhausts,
         SkipDescendant, PassOver, SkipNothing, RequeueStage, RecordStage,
         FinalizeRun, ReportExhausted, StartNotification, Go, poolVars,
         redisVars
<1>8. CASE Crash
  BY <1>3, <1>8 DEF Crash
<1>9. CASE UNCHANGED vars
  BY <1>3, <1>9 DEF vars, redisVars, poolVars
<1>10. QED
  BY <1>1, <1>4, <1>5, <1>6, <1>7, <1>8, <1>9 DEF Next, Done

-----------------------------------------------------------------------------
(* The account.                                                            *)

\* The entries of the account are natural numbers.
LEMMA Numbers ==
  ASSUME TypeOK, JobsFinite, NEW s \in Stage
  PROVE  /\ attempt[s] \in Nat
         /\ faults \in Nat
         /\ IsFiniteSet(Requeuing(s)) /\ Cardinality(Requeuing(s)) \in Nat
<1>1. attempt \in [Stage -> Nat] /\ faults \in 0..MaxFaults
  BY DEF TypeOK, RunStateTypeOK
<1>2. Requeuing(s) \subseteq jobs
  BY DEF Requeuing
<1>3. IsFiniteSet(Requeuing(s))
  BY <1>2, FS_Subset DEF JobsFinite
<1>4. QED
  BY <1>1, <1>3, MaxFaultsType, FS_CardinalityType

LEMMA NumbersNext ==
  ASSUME TypeOK', JobsFinite', NEW s \in Stage
  PROVE  /\ attempt'[s] \in Nat
         /\ faults' \in Nat
         /\ IsFiniteSet(Requeuing(s)') /\ Cardinality(Requeuing(s)') \in Nat
<1>1. attempt' \in [Stage -> Nat] /\ faults' \in 0..MaxFaults
  BY DEF TypeOK, RunStateTypeOK
<1>2. Requeuing(s)' \subseteq jobs'
  BY DEF Requeuing
<1>3. IsFiniteSet(Requeuing(s)')
  BY <1>2, FS_Subset DEF JobsFinite
<1>4. QED
  BY <1>1, <1>3, MaxFaultsType, FS_CardinalityType

\* A stage is granted at most MaxStageAttempts - 1 retries.
LEMMA RetriesBounded ==
  ASSUME NEW s
  PROVE  /\ IsFiniteSet(RetriesGranted(s))
         /\ Cardinality(RetriesGranted(s)) \in 0..(MaxStageAttempts - 1)
<1>1. MaxStageAttempts \in Nat \ {0}
  BY AttemptsAssumption
<1>2. /\ IsFiniteSet(1..(MaxStageAttempts - 1))
      /\ Cardinality(1..(MaxStageAttempts - 1)) = MaxStageAttempts - 1
  BY <1>1, FS_Interval
<1>3. RetriesGranted(s) \subseteq 1..(MaxStageAttempts - 1)
  BY DEF RetriesGranted
<1>4. /\ IsFiniteSet(RetriesGranted(s))
      /\ Cardinality(RetriesGranted(s)) <= Cardinality(1..(MaxStageAttempts - 1))
  BY <1>2, <1>3, FS_Subset
<1>5. QED
  BY <1>1, <1>2, <1>4, FS_CardinalityType

\* What was granted stays granted.
LEMMA RetriesGrow ==
  ASSUME NEW s, seenResult \subseteq seenResult'
  PROVE  /\ IsFiniteSet(RetriesGranted(s)')
         /\ Cardinality(RetriesGranted(s)) \in Nat
         /\ Cardinality(RetriesGranted(s)') \in Nat
         /\ Cardinality(RetriesGranted(s)) <= Cardinality(RetriesGranted(s)')
<1>1. RetriesGranted(s) \subseteq RetriesGranted(s)'
  BY DEF RetriesGranted, FirstSeen
<1>2. MaxStageAttempts \in Nat \ {0}
  BY AttemptsAssumption
<1>3. IsFiniteSet(1..(MaxStageAttempts - 1))
  BY <1>2, FS_Interval
<1>4. RetriesGranted(s)' \subseteq 1..(MaxStageAttempts - 1)
  BY DEF RetriesGranted
<1>5. IsFiniteSet(RetriesGranted(s)')
  BY <1>3, <1>4, FS_Subset
<1>6. IsFiniteSet(RetriesGranted(s))
  BY <1>1, <1>5, FS_Subset
<1>7. QED
  BY <1>1, <1>5, <1>6, FS_Subset, FS_CardinalityType

\* Faults are only ever added, seen keys only ever set.
LEMMA Grow ==
  ASSUME TypeOK, [Next]_vars
  PROVE  faults <= faults' /\ seenResult \subseteq seenResult'
<1>a. faults \in Nat /\ faults' \in Nat
  <2>1. TypeOK'
    BY NextType
  <2>2. faults \in 0..MaxFaults /\ faults' \in 0..MaxFaults
    BY <2>1 DEF TypeOK, RunStateTypeOK
  <2>3. QED
    BY <2>2, MaxFaultsType
<1>b. ASSUME NEW k, Fault(k) \/ NoFault
      PROVE  faults <= faults'
  BY <1>a, <1>b DEF Fault, NoFault
<1>c. ASSUME UNCHANGED faults PROVE faults <= faults'
  BY <1>a, <1>c
<1>d. ASSUME NEW n \in Nat, NEW m \in Nat, RedisErrors(n, m)
      PROVE  faults <= faults'
  BY <1>a, <1>d DEF RedisErrors
<1>e. \A a, b, c : /\ Flag(a) \in Nat /\ Flag(a) + Flag(b) \in Nat
                   /\ Flag(a) + Flag(b) + Flag(c) \in Nat
  BY FlagType
<1>f. ASSUME MaybeFinalizeRun PROVE faults <= faults'
  <2>1. \A a, S : S \in SUBSET Stage => Flag(a) + Cardinality(S) \in Nat
    BY FlagType, StageAssumption, FS_Subset, FS_CardinalityType
  <2>2. CASE LeaveRunOpen
    BY <1>b, <2>2 DEF LeaveRunOpen
  <2>3. CASE FinalizeWorkflowRun
    BY <1>d, <2>1, <2>3 DEF FinalizeWorkflowRun, ReadRun
  <2>4. CASE FinalizePartly
    BY <1>d, <2>1, <2>4 DEF FinalizePartly, ReadRun
  <2>5. QED
    BY <1>f, <2>2, <2>3, <2>4 DEF MaybeFinalizeRun
<1>g. ASSUME NEW r, NEW n \in Nat, ReadResponse(r, n) PROVE faults <= faults'
  BY <1>b, <1>d, <1>g DEF ReadResponse
<1>1. CASE InitStep
  <2>1. CASE BeginRun
    <3>1. ASSUME NEW unset \in SUBSET Stage, NEW unlisted \in SUBSET Edges
          PROVE  Cardinality(unset) + Cardinality(unlisted) \in Nat
      <4>1. IsFiniteSet(Stage \X Stage)
        BY StageAssumption, FS_Product
      <4>2. IsFiniteSet(unset) /\ IsFiniteSet(unlisted)
        BY <4>1, StageAssumption, FS_Subset DEF Edges
      <4> QED
        BY <4>2, FS_CardinalityType
    <3> QED
      BY <1>b, <1>d, <2>1, <3>1 DEF BeginRun, PrepareStages
  <2> QED
    BY <1>1, <1>b, <1>c, <2>1 DEF InitStep, InitNext, BeginRun, QueueStage, EndInit, redisVars
<1>2. CASE PollStep
  BY <1>2, <1>b, <1>c, <1>d, <1>e DEF PollStep, PollNext, PollStage, StartJob
<1>3. CASE JobStep
  <2>1. faults <= faults'
    BY <1>3, <1>b, <1>c, <1>d, <1>e, <1>f
       DEF JobStep, JobNext, FetchStage, PublishStage, PublishReturns,
           RequeueUnpublished, ReportDispatchFailure, RecordUndispatched,
           FinalizeUndispatched, NotificationSent, PublishDLQ
  <2>2. UNCHANGED seenResult
    BY <1>3
       DEF JobStep, JobNext, FetchStage, PublishStage, PublishReturns,
           RequeueUnpublished, ReportDispatchFailure, RecordUndispatched,
           FinalizeUndispatched, NotificationSent, redisVars
  <2>3. QED
    BY <2>1, <2>2
<1>4. CASE HandlerStep
  BY <1>4, <1>b, <1>c
     DEF HandlerStep, HandlerNext, ReceiveRequest, ReadExecute, Respond,
         HandlerCrash, redisVars
<1>5. CASE ConsumerStep
  <2>1. faults <= faults'
    BY <1>5, <1>b, <1>c, <1>d, <1>e, <1>f, <1>g
       DEF ConsumerStep, ConsumerNext, DropSeenResult, LoseResult,
           StageSucceeds, StageFailsRetryably, StageExhausts, ReleaseChild,
           SkipDescendant, PassOver, SkipNothing, RequeueStage, RecordStage,
           FinalizeRun, ReportExhausted, StartNotification, PublishDLQ
  <2>2. seenResult \subseteq seenResult'
    BY <1>5
       DEF ConsumerStep, ConsumerNext, DropSeenResult, LoseResult,
           StageSucceeds, StageFailsRetryably, StageExhausts, ReleaseChild,
           SkipDescendant, PassOver, SkipNothing, RequeueStage, RecordStage,
           FinalizeRun, ReportExhausted, StartNotification, MarkResultSeen,
           redisVars
  <2>3. QED
    BY <2>1, <2>2
<1>6. CASE Crash
  BY <1>6, <1>b DEF Crash, LoseResultInHand, MarkResultSeen
<1>7. CASE UNCHANGED vars
  BY <1>7, <1>c DEF vars, redisVars
<1>8. QED
  BY <1>1, <1>2, <1>3, <1>4, <1>5, <1>6, <1>7 DEF Next, Done

\* A step that gives s no attempt and no new place to wait in.
LEMMA Kept ==
  ASSUME TypeOK, TypeOK', JobsFinite, JobsFinite', NEW s \in Stage,
         Accounted(s),
         faults <= faults', seenResult \subseteq seenResult',
         attempt'[s] = attempt[s],
         Unscheduled(s)' => Unscheduled(s),
         s \in jobTrigger' => s \in jobTrigger,
         s \in polled' => s \in polled,
         Retrying(s)' => Retrying(s),
         Requeuing(s)' \subseteq Requeuing(s)
  PROVE  Accounted(s)'
<1>1. Cardinality(Requeuing(s)') <= Cardinality(Requeuing(s))
  BY Numbers, FS_Subset
<1>2. /\ attempt[s] \in Nat /\ attempt'[s] \in Nat
      /\ faults \in Nat /\ faults' \in Nat
      /\ Cardinality(Requeuing(s)) \in Nat /\ Cardinality(Requeuing(s)') \in Nat
  BY Numbers, NumbersNext
<1>3. QED
  BY <1>1, <1>2, RetriesGrow DEF Accounted, Chances, Flag

\* The steps of Init: a stage that the loop reaches is no longer to be
\* scheduled, or waits for the parents that were just counted.
LEMMA InitStepAccounted ==
  ASSUME AttemptInv, TypeOK', JobsFinite', InitStep, NEW s \in Stage,
         faults <= faults', seenResult \subseteq seenResult'
  PROVE  Accounted(s)'
<1> USE DEF AttemptInv
<1>a. Accounted(s) /\ UNCHANGED <<polled, consumer, jobs, attempt>>
  BY DEF AttemptsAccounted, InitStep, InitNext, BeginRun, QueueStage, EndInit,
         poolVars, redisVars
<1>b. /\ Retrying(s)' = Retrying(s) /\ Requeuing(s)' = Requeuing(s)
      /\ s \in polled' <=> s \in polled
  BY <1>a DEF Retrying, Requeuing
<1>1. CASE BeginRun
  BY <1>1, <1>a, <1>b, Kept DEF BeginRun, Unscheduled
<1>2. CASE EndInit
  BY <1>2, <1>a, <1>b, Kept DEF EndInit, Unscheduled, redisVars
<1>3. ASSUME NEW t \in Stage, t # s, QueueStage(t) PROVE Accounted(s)'
  <2>1. deps \in [Stage -> Int]
    BY DEF TypeOK, RunStateTypeOK
  <2>2. deps'[s] = deps[s] /\ UNCHANGED initJob
        /\ (s \in initTodo' <=> s \in initTodo)
        /\ (s \in jobTrigger' => s \in jobTrigger)
    BY <1>3, <2>1 DEF QueueStage, ScheduleStage, poolVars
  <2>3. QED
    BY <2>2, <1>a, <1>b, Kept DEF Unscheduled
<1>4. CASE QueueStage(s)
  <2>1. Unscheduled(s)
    BY <1>4 DEF QueueStage, Unscheduled
  <2>2. CASE UNCHANGED jobTrigger
    BY <2>1, <2>2, <1>a, <1>b, Kept
  <2>3. CASE ScheduleStage(s) /\ UNCHANGED deps
    <3>1. ~ Unscheduled(s)'
      <4>1. initJob' = "queue" /\ s \in initTodo /\ s \notin initTodo'
        BY <1>4 DEF QueueStage, poolVars
      <4>2. deps \in [Stage -> Int] /\ deps[s] <= 0
        BY <4>1 DEF CountedAfterInit, TypeOK, RunStateTypeOK
      <4>3. ~ (deps'[s] > 0)
        BY <2>3, <4>2
      <4>4. QED
        BY <4>1, <4>3 DEF Unscheduled
    <3>2. QED
      BY <2>1, <3>1, <1>a, <1>b, Numbers, NumbersNext, RetriesGrow
         DEF Accounted, Chances, Flag
  <2>4. QED
    BY <1>4, <2>2, <2>3 DEF QueueStage
<1>5. QED
  BY <1>1, <1>2, <1>3, <1>4 DEF InitStep, InitNext

\* The steps of the poller: the member it takes moves from the queue to its
\* hands, and becomes an attempt when a job starts.
LEMMA PollStepAccounted ==
  ASSUME AttemptInv, TypeOK', JobsFinite', PollStep, NEW s \in Stage,
         faults <= faults', seenResult \subseteq seenResult'
  PROVE  Accounted(s)'
<1> USE DEF AttemptInv
<1>a. Accounted(s) /\ UNCHANGED <<consumer, initJob, initTodo, deps>>
  BY DEF AttemptsAccounted, PollStep, PollNext, PollStage, StartJob, Go, poolVars
<1>b. /\ Retrying(s)' = Retrying(s) /\ Unscheduled(s)' = Unscheduled(s)
  BY <1>a DEF Retrying, Unscheduled
<1>c. Requeuing(s)' = Requeuing(s)
  BY DEF Requeuing, PollStep, PollNext, PollStage, StartJob, Go, poolVars
<1>d. attempt \in [Stage -> Nat]
  BY DEF TypeOK, RunStateTypeOK
<1>1. ASSUME NEW t \in Stage, t # s, PollStage(t) PROVE Accounted(s)'
  BY <1>1, <1>a, <1>b, <1>c, Kept DEF PollStage, TakeFromQueue
<1>2. CASE PollStage(s)
  <2>1. /\ s \in jobTrigger /\ s \notin jobTrigger'
        /\ s \notin polled /\ UNCHANGED attempt
    BY <1>2 DEF PollStage, TakeFromQueue
  <2>2. QED
    BY <2>1, <1>a, <1>b, <1>c, Numbers, NumbersNext, RetriesGrow
       DEF Accounted, Chances, Flag
<1>3. ASSUME NEW t \in Stage, t # s, StartJob(t) PROVE Accounted(s)'
  <2>1. attempt'[s] = attempt[s]
    BY <1>3, <1>d DEF StartJob, IncrementAttempt
  <2>2. QED
    BY <1>3, <2>1, <1>a, <1>b, <1>c, Kept DEF StartJob
<1>4. CASE StartJob(s)
  <2>1. /\ s \in polled /\ s \notin polled' /\ UNCHANGED jobTrigger
        /\ attempt'[s] = attempt[s] \/ attempt'[s] = attempt[s] + 1
    BY <1>4, <1>d DEF StartJob, IncrementAttempt
  <2>2. QED
    BY <2>1, <1>a, <1>b, <1>c, Numbers, NumbersNext, RetriesGrow
       DEF Accounted, Chances, Flag
<1>5. QED
  BY <1>1, <1>2, <1>3, <1>4 DEF PollStep, PollNext

\* The steps of a dispatch job: a write that fails, or seems to, is a fault
\* that pays for the job's return to the queue.
LEMMA JobStepAccounted ==
  ASSUME AttemptInv, TypeOK', JobsFinite', JobStep, NEW s \in Stage,
         faults <= faults', seenResult \subseteq seenResult'
  PROVE  Accounted(s)'
<1> USE DEF AttemptInv
<1>a. Accounted(s)
      /\ UNCHANGED <<consumer, initJob, initTodo, deps, attempt, polled>>
  BY DEF AttemptsAccounted, JobStep, JobNext, FetchStage, PublishStage,
         PublishReturns, RequeueUnpublished, ReportDispatchFailure,
         RecordUndispatched, FinalizeUndispatched, NotificationSent, Advance,
         Finish, redisVars
<1>b. /\ Retrying(s)' = Retrying(s) /\ Unscheduled(s)' = Unscheduled(s)
      /\ s \in polled' <=> s \in polled
  BY <1>a DEF Retrying, Unscheduled
<1>1. ASSUME NEW j \in jobs, NEW pc \in JobPc \ {"requeue"},
             Advance(j, pc) \/ Finish(j), UNCHANGED jobTrigger
      PROVE  Accounted(s)'
  <2>1. [j EXCEPT !.pc = pc].pc = pc
    BY DEF TypeOK, PoolTypeOK, Job
  <2>2. Requeuing(s)' \subseteq Requeuing(s)
    BY <1>1, <2>1 DEF Requeuing, Advance, Finish
  <2>3. QED
    BY <1>1, <2>2, <1>a, <1>b, Kept
<1>2. ASSUME NEW j \in jobs, NEW k, Advance(j, "requeue"), Fault(k),
             UNCHANGED jobTrigger
      PROVE  Accounted(s)'
  <2>1. PICK back : Requeuing(s)' \subseteq Requeuing(s) \cup {back}
    BY <1>2 DEF Requeuing, Advance
  <2>2. IsFiniteSet(Requeuing(s)) /\ Cardinality(Requeuing(s)) \in Nat
    BY Numbers
  <2>3. /\ IsFiniteSet(Requeuing(s) \cup {back})
        /\ Cardinality(Requeuing(s) \cup {back}) <= Cardinality(Requeuing(s)) + 1
    BY <2>2, FS_AddElement
  <2>4. Cardinality(Requeuing(s)') <= Cardinality(Requeuing(s)) + 1
    <3>1. Cardinality(Requeuing(s)') <= Cardinality(Requeuing(s) \cup {back})
      BY <2>1, <2>3, FS_Subset
    <3>2. /\ Cardinality(Requeuing(s)') \in Nat
          /\ Cardinality(Requeuing(s) \cup {back}) \in Nat
      BY <2>3, NumbersNext, FS_CardinalityType
    <3>3. QED
      BY <2>2, <2>3, <3>1, <3>2
  <2>5. faults' = faults + 1
    BY <1>2 DEF Fault
  <2>6. QED
    BY <1>2, <2>4, <2>5, <1>a, <1>b, Numbers, NumbersNext, RetriesGrow
       DEF Accounted, Chances, Flag
<1>3. ASSUME NEW j \in jobs, RequeueUnpublished(j) PROVE Accounted(s)'
  <2>1. Requeuing(s)' = Requeuing(s) \ {j}
    BY <1>3 DEF RequeueUnpublished, Requeuing, Finish
  <2>2. CASE j.stage # s
    BY <1>3, <2>1, <2>2, <1>a, <1>b, Kept DEF RequeueUnpublished, ScheduleStage
  <2>3. CASE j.stage = s
    <3>1. j \in Requeuing(s)
      BY <1>3, <2>3 DEF Requeuing, RequeueUnpublished
    <3>2. Cardinality(Requeuing(s)') = Cardinality(Requeuing(s)) - 1
      BY <2>1, <3>1, Numbers, FS_RemoveElement
    <3>3. QED
      BY <3>2, <1>a, <1>b, Numbers, NumbersNext, RetriesGrow
         DEF Accounted, Chances, Flag
  <2>4. QED
    BY <2>2, <2>3
<1>4. PICK j \in jobs :
           \/ FetchStage(j)
           \/ PublishStage(j)
           \/ PublishReturns(j)
           \/ RequeueUnpublished(j)
           \/ ReportDispatchFailure(j)
           \/ RecordUndispatched(j)
           \/ FinalizeUndispatched(j)
           \/ NotificationSent(j)
  BY DEF JobStep, JobNext
<1>5. QED
  BY <1>1, <1>2, <1>3, <1>4
     DEF FetchStage, PublishStage, PublishReturns, ReportDispatchFailure,
         RecordUndispatched, FinalizeUndispatched, NotificationSent, JobPc,
         redisVars

\* The steps of the consumer: only the first result of a failed attempt below
\* the limit makes it wait to queue the stage again, and that result is then
\* marked as seen.
LEMMA ConsumerStepAccounted ==
  ASSUME AttemptInv, TypeOK', JobsFinite', ConsumerStep, NEW s \in Stage,
         faults <= faults', seenResult \subseteq seenResult'
  PROVE  Accounted(s)'
<1> USE DEF AttemptInv
<1>a. Accounted(s) /\ UNCHANGED <<initJob, initTodo, attempt, polled>>
  BY DEF AttemptsAccounted, ConsumerStep, ConsumerNext, DropSeenResult,
         LoseResult, StageSucceeds, StageFailsRetryably, StageExhausts,
         ReleaseChild, SkipDescendant, PassOver, SkipNothing, RequeueStage,
         RecordStage, FinalizeRun, ReportExhausted, StartNotification, Go,
         poolVars, redisVars
<1>b. Requeuing(s)' = Requeuing(s)
  <2>1. StartNotification \/ UNCHANGED jobs
    BY DEF ConsumerStep, ConsumerNext, DropSeenResult, LoseResult,
           StageSucceeds, StageFailsRetryably, StageExhausts, ReleaseChild,
           SkipDescendant, PassOver, SkipNothing, RequeueStage, RecordStage,
           FinalizeRun, ReportExhausted, poolVars
  <2>2. QED
    BY <2>1 DEF StartNotification, Go, Requeuing
<1>c. deps \in [Stage -> Int] /\ deps' \in [Stage -> Int]
  BY DEF TypeOK, RunStateTypeOK
<1>d. consumer.pc # "read" =>
        consumer \in [pc : ConsumerPc \ {"read"}, resp : Response,
                      todo : SUBSET Stage, visited : SUBSET Stage]
  <2>1. Idle.pc = "read"
    BY DEF Idle
  <2>2. QED
    BY <2>1 DEF TypeOK, ConsumerTypeOK
<1>e. ASSUME NEW c, ReleaseChild(c) PROVE ~ Retrying(s) /\ ~ Retrying(s)'
  <2>1. consumer.pc = "release" /\ consumer'.pc = "release"
    BY <1>d, <1>e DEF ReleaseChild
  <2>2. QED
    BY <2>1 DEF Retrying
<1>1. ASSUME UNCHANGED <<deps, jobTrigger>>,
             UNCHANGED consumer \/ consumer'.pc # "retry"
      PROVE  Accounted(s)'
  BY <1>1, <1>a, <1>b, Kept DEF Unscheduled, Retrying
<1>2. ASSUME NEW r \in responseTopic, StageFailsRetryably(r)
      PROVE  Accounted(s)'
  <2>1. /\ UNCHANGED <<deps, jobTrigger>>
        /\ ~ Retrying(s)
        /\ Retrying(s)' <=> r.stage = s
        /\ seenResult' = seenResult \cup {<<r.stage, r.attempt>>}
        /\ <<r.stage, r.attempt>> \notin seenResult
    BY <1>2 DEF StageFailsRetryably, Handle, Retrying, MarkResultSeen, FirstSeen
  <2>2. Unscheduled(s)' = Unscheduled(s)
    BY <2>1, <1>a DEF Unscheduled
  <2>3. CASE r.stage # s
    BY <2>1, <2>2, <2>3, <1>a, <1>b, Kept
  <2>4. CASE r.stage = s
    <3>1. r.attempt \in 1..(MaxStageAttempts - 1)
      <4>1. r.attempt \in Nat /\ r.attempt > 0
        BY DEF AttemptsNumbered, TypeOK, KafkaTypeOK, Response
      <4>2. r.attempt < MaxStageAttempts
        BY <1>2 DEF StageFailsRetryably, Retryable
      <4>3. QED
        BY <4>1, <4>2, AttemptsAssumption
    <3>2. /\ RetriesGranted(s)' = RetriesGranted(s) \cup {r.attempt}
          /\ r.attempt \notin RetriesGranted(s)
      BY <2>1, <2>4, <3>1 DEF RetriesGranted, FirstSeen
    <3>3. Cardinality(RetriesGranted(s)') = Cardinality(RetriesGranted(s)) + 1
      BY <3>2, RetriesBounded, FS_AddElement
    <3>4. QED
      BY <2>1, <2>2, <3>3, <1>a, <1>b, Numbers, NumbersNext, RetriesGrow
         DEF Accounted, Chances, Flag
  <2>5. QED
    BY <2>3, <2>4
<1>3. ASSUME NEW c \in Stage, c # s, ReleaseChild(c) PROVE Accounted(s)'
  <2>1. /\ deps'[s] = deps[s]
        /\ s \in jobTrigger' => s \in jobTrigger
        /\ ~ Retrying(s)'
    BY <1>3, <1>c, <1>e DEF ReleaseChild, DecrementDeps, CountDown, ScheduleStage
  <2>2. QED
    BY <2>1, <1>a, <1>b, Kept DEF Unscheduled
<1>4. CASE ReleaseChild(s)
  <2>1. ~ Retrying(s) /\ ~ Retrying(s)'
    BY <1>4, <1>e
  <2>2. deps' = deps \/ deps' = [deps EXCEPT ![s] = @ - 1]
    BY <1>4 DEF ReleaseChild, DecrementDeps, CountDown
  <2>3. deps'[s] <= deps[s]
    BY <2>2, <1>c
  <2>4. Unscheduled(s)' => Unscheduled(s)
    BY <2>3, <1>a, <1>c DEF Unscheduled
  <2>5. CASE UNCHANGED jobTrigger
    BY <2>1, <2>4, <2>5, <1>a, <1>b, Kept
  <2>6. CASE ~ UNCHANGED jobTrigger
    <3>1. Ready(deps[s] - 1) /\ deps' = [deps EXCEPT ![s] = @ - 1]
      BY <1>4, <2>6 DEF ReleaseChild, DecrementDeps, CountDown
    <3>2. deps[s] = 1 /\ deps'[s] = 0
      BY <3>1, <1>c DEF Ready
    <3>3. initJob # "load" /\ s \notin initTodo
      BY <3>2 DEF CountedAfterInit
    <3>4. Unscheduled(s)
      BY <3>2 DEF Unscheduled
    <3>5. ~ Unscheduled(s)'
      <4>1. ~ (deps'[s] > 0)
        BY <3>2
      <4>2. QED
        BY <3>3, <4>1, <1>a DEF Unscheduled
    <3>6. QED
      BY <2>1, <3>4, <3>5, <1>a, <1>b, Numbers, NumbersNext, RetriesGrow
         DEF Accounted, Chances, Flag
  <2>7. QED
    BY <2>5, <2>6
<1>5. CASE RequeueStage
  <2>1. /\ ~ Retrying(s)'
        /\ UNCHANGED deps
        /\ s \in jobTrigger' => s \in jobTrigger \/ Retrying(s)
    BY <1>5 DEF RequeueStage, Retrying, Idle, ScheduleStage
  <2>2. Unscheduled(s)' = Unscheduled(s)
    BY <2>1, <1>a DEF Unscheduled
  <2>3. QED
    BY <2>1, <2>2, <1>a, <1>b, Numbers, NumbersNext, RetriesGrow
       DEF Accounted, Chances, Flag
<1>6. ASSUME consumer' = AfterRecord, consumer.pc # "retry"
      PROVE  consumer'.pc # "retry"
  <2>1. CASE consumer.resp.status = "SUCCESS"
    BY <1>6, <2>1 DEF AfterRecord, Idle
  <2>2. CASE consumer.resp.status # "SUCCESS"
    BY <1>6, <2>2 DEF AfterRecord, TypeOK, ConsumerTypeOK, Idle
  <2>3. QED
    BY <2>1, <2>2
<1>7. ASSUME NEW r \in responseTopic,
             \/ DropSeenResult(r)
             \/ LoseResult(r)
             \/ StageSucceeds(r)
             \/ StageExhausts(r)
      PROVE  Accounted(s)'
  BY <1>7, <1>1 DEF DropSeenResult, LoseResult, StageSucceeds, StageExhausts,
                    Handle, redisVars
<1>8. ASSUME NEW c \in Stage, SkipDescendant(c) \/ PassOver(c)
      PROVE  Accounted(s)'
  BY <1>8, <1>1 DEF SkipDescendant, PassOver, Handle, redisVars
<1>9. ASSUME SkipNothing \/ RecordStage \/ FinalizeRun \/ ReportExhausted
             \/ StartNotification
      PROVE  Accounted(s)'
  <2>1. UNCHANGED <<deps, jobTrigger>>
    BY <1>9 DEF SkipNothing, RecordStage, FinalizeRun, ReportExhausted,
                StartNotification, redisVars
  <2>2. /\ consumer.pc \notin {"read", "retry"}
        /\ consumer \in [pc : ConsumerPc \ {"read"}, resp : Response,
                         todo : SUBSET Stage, visited : SUBSET Stage]
    BY <1>d, <1>9 DEF SkipNothing, RecordStage, FinalizeRun, ReportExhausted,
                      StartNotification
  <2>3. consumer'.pc # "retry"
    <3>1. CASE consumer' = AfterRecord
      BY <1>6, <2>2, <3>1
    <3>2. CASE \E set \in SUBSET Stage : consumer' = [consumer EXCEPT !.todo = set]
      BY <2>2, <3>2
    <3>3. CASE consumer' = [consumer EXCEPT !.pc = "finalize", !.visited = {}]
      BY <2>2, <3>3
    <3>4. CASE consumer' = [consumer EXCEPT !.pc = "notify"]
      BY <2>2, <3>4
    <3>5. CASE consumer' = Idle
      BY <3>5 DEF Idle
    <3>6. QED
      BY <1>9, <3>1, <3>2, <3>3, <3>4, <3>5
         DEF SkipNothing, RecordStage, FinalizeRun, ReportExhausted,
             StartNotification
  <2>4. QED
    BY <1>1, <2>1, <2>3
<1>10. QED
  BY <1>2, <1>3, <1>4, <1>5, <1>7, <1>8, <1>9 DEF ConsumerStep, ConsumerNext

\* The other steps take chances away or touch none.
LEMMA OtherStepAccounted ==
  ASSUME AttemptInv, TypeOK', JobsFinite', HandlerStep \/ Crash \/ UNCHANGED vars,
         NEW s \in Stage, faults <= faults', seenResult \subseteq seenResult'
  PROVE  Accounted(s)'
<1>1. CASE HandlerStep \/ UNCHANGED vars
  <2>1. UNCHANGED <<attempt, deps, jobTrigger, poolVars, initTodo, polled, consumer>>
    BY <1>1 DEF HandlerStep, HandlerNext, ReceiveRequest, Respond, HandlerCrash,
                vars, redisVars
  <2>2. QED
    BY <2>1, Kept
       DEF AttemptInv, AttemptsAccounted, Unscheduled, Retrying, Requeuing,
           poolVars
<1>2. CASE Crash
  <2>1. /\ UNCHANGED <<attempt, deps, jobTrigger>>
        /\ initJob' = "done" /\ initTodo' = {} /\ polled' = {} /\ jobs' = {}
        /\ consumer'.pc = "read"
    BY <1>2 DEF Crash, Idle
  <2>2. QED
    BY <2>1, Kept
       DEF AttemptInv, AttemptsAccounted, Unscheduled, Retrying, Requeuing
<1>3. QED
  BY <1>1, <1>2

LEMMA AttemptInvInit == Init => AttemptInv
<1> SUFFICES ASSUME Init PROVE AttemptInv
  OBVIOUS
<1>1. TypeOK
  BY InitTypeOK
<1>2. JobsFinite
  BY FS_EmptySet DEF Init, PoolInit, JobsFinite
<1>3. AttemptsNumbered
  BY DEF Init, PoolInit, KafkaInit, HandlerInit, AttemptsNumbered
<1>4. \A s \in Stage : attempt[s] = 0 /\ deps[s] = 0
  BY DEF Init, RunStateInit
<1>5. CountedAfterInit
  BY <1>4 DEF CountedAfterInit
<1>6. ASSUME NEW s \in Stage PROVE Accounted(s)
  <2>1. s \notin jobTrigger /\ s \notin polled /\ ~ Retrying(s) /\ faults = 0
    BY DEF Init, RunStateInit, DispatchInit, ConsumerInit, Idle, Retrying
  <2>2. Cardinality(Requeuing(s)) = 0
    BY FS_EmptySet DEF Init, PoolInit, Requeuing
  <2>3. Cardinality(RetriesGranted(s)) \in Nat
    BY RetriesBounded, AttemptsAssumption
  <2>4. QED
    BY <1>4, <2>1, <2>2, <2>3 DEF Accounted, Chances, Flag
<1>7. QED
  BY <1>1, <1>2, <1>3, <1>5, <1>6 DEF AttemptInv, AttemptsAccounted

LEMMA AttemptInvNext == AttemptInv /\ [Next]_vars => AttemptInv'
<1> SUFFICES ASSUME AttemptInv, [Next]_vars PROVE AttemptInv'
  OBVIOUS
<1>1. TypeOK' /\ JobsFinite' /\ AttemptsNumbered' /\ CountedAfterInit'
  BY NextType, JobsFiniteStep, AttemptsNumberedStep, CountedAfterInitStep
     DEF AttemptInv
<1>2. faults <= faults' /\ seenResult \subseteq seenResult'
  BY Grow DEF AttemptInv
<1>3. ASSUME NEW s \in Stage PROVE Accounted(s)'
  BY <1>1, <1>2, InitStepAccounted, PollStepAccounted, JobStepAccounted,
     ConsumerStepAccounted, OtherStepAccounted
     DEF Next, Done
<1>4. QED
  BY <1>1, <1>3 DEF AttemptInv, AttemptsAccounted

LEMMA AttemptInvImpliesBudget == AttemptInv => AttemptBudget
<1> SUFFICES ASSUME AttemptInv, NEW s \in Stage
             PROVE  attempt[s] <= MaxStageAttempts + faults
  BY DEF AttemptBudget
<1>1. attempt[s] \in Nat /\ faults \in Nat /\ Cardinality(Requeuing(s)) \in Nat
  BY Numbers DEF AttemptInv
<1>2. Cardinality(RetriesGranted(s)) \in 0..(MaxStageAttempts - 1)
  BY RetriesBounded
<1>3. Accounted(s)
  BY DEF AttemptInv, AttemptsAccounted
<1>4. QED
  BY <1>1, <1>2, <1>3, AttemptsAssumption DEF Accounted, Chances, Flag

\* Every attempt of a stage, taken or still to come, is its first one or is
\* paid for by the first result of a failed attempt or by a fault: nothing in
\* the orchestrator queues a stage twice for one reason.
THEOREM AttemptsAreAccounted == Spec => []AttemptsAccounted
<1>1. AttemptInv => AttemptsAccounted
  BY DEF AttemptInv
<1>2. QED
  BY <1>1, AttemptInvInit, AttemptInvNext, PTL DEF Spec

\* A stage is attempted at most MaxStageAttempts times plus once per fault,
\* whatever the workflow and whatever goes wrong: redelivered results and
\* restarts never reset the count that handleStageFailure compares.
THEOREM AttemptsAreBounded == Spec => []AttemptBudget
  BY AttemptInvInit, AttemptInvNext, AttemptInvImpliesBudget, PTL DEF Spec

=============================================================================
