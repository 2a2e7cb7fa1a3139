------------------------- MODULE OrchestrationProofs -------------------------
(***************************************************************************)
(* Theorems about Orchestration, for every workflow, every number of       *)
(* attempts and every set and number of faults.                            *)
(***************************************************************************)
EXTENDS Orchestration, FiniteSetTheorems, TLAPS

USE DEF statusVars, outputVars

-----------------------------------------------------------------------------
(* Type correctness.                                                       *)

LEMMA MaxFaultsType == MaxFaults \in Nat
  BY FaultsAssumption

LEMMA InitTypeOK == Init => TypeOK
<1> SUFFICES ASSUME Init PROVE TypeOK
  OBVIOUS
<1>1. RunStateTypeOK
  <2>1. stageStatus \in [Stage -> StageStatus \cup {""}]
    BY DEF Init, RunStateInit
  <2>2. output \in [Stage -> Output]
    BY DEF Init, RunStateInit, Output
  <2>3. attempt = [s \in Stage |-> 0] /\ deps = [s \in Stage |-> 0]
    BY DEF Init, RunStateInit
  <2>4. attempt \in [Stage -> Nat] /\ deps \in [Stage -> Int]
    BY <2>3
  <2>5. faults = 0 /\ runDone = 0 /\ runFailed \in BOOLEAN
    BY DEF Init, RunStateInit
  <2>6. faults \in 0..MaxFaults /\ runDone \in Nat
    BY <2>5, MaxFaultsType
  <2>7. jobTrigger \subseteq Stage /\ seenResult \subseteq Stage \X Nat
    BY DEF Init, RunStateInit
  <2>8. /\ childList \in [Stage -> SUBSET Stage]
        /\ fate \in [Stage -> Terminal \cup {"open"}]
        /\ statusLost \subseteq Stage /\ outputLost \subseteq Stage
    BY DEF Init, RunStateInit
  <2>9. QED
    BY <2>1, <2>2, <2>4, <2>5, <2>6, <2>7, <2>8 DEF RunStateTypeOK
<1>2. PersistenceTypeOK
  <2>1. executions = [s \in Stage |-> <<>>]
    BY DEF Init, PersistenceInit
  <2>2. executions \in [Stage -> Seq(ExecutionRow)]
    <3>1. <<>> \in Seq(ExecutionRow)
      OBVIOUS
    <3>2. QED
      BY <2>1, <3>1
  <2>3. QED
    BY <2>2 DEF Init, PersistenceInit, PersistenceTypeOK
<1>3. KafkaTypeOK /\ PoolTypeOK
  BY DEF Init, KafkaInit, KafkaTypeOK, PoolInit, PoolTypeOK
<1>4. RunInitTypeOK /\ DispatchTypeOK
  BY DEF Init, RunInitInit, RunInitTypeOK, DispatchInit, DispatchTypeOK
<1>5. HandlerTypeOK /\ ConsumerTypeOK
  BY DEF Init, HandlerInit, HandlerTypeOK, ConsumerInit, ConsumerTypeOK
<1>6. QED
  BY <1>1, <1>2, <1>3, <1>4, <1>5 DEF TypeOK

LEMMA FaultType ==
  ASSUME faults \in 0..MaxFaults, NEW k, Fault(k) \/ NoFault
  PROVE  faults' \in 0..MaxFaults
  BY MaxFaultsType DEF Fault, NoFault

LEMMA FlagType == \A b : Flag(b) \in Nat
  BY DEF Flag

LEMMA ErrorsType ==
  ASSUME faults \in 0..MaxFaults, NEW n \in Nat, NEW m \in Nat, RedisErrors(n, m)
  PROVE  faults' \in 0..MaxFaults /\ faults <= faults'
  BY MaxFaultsType DEF RedisErrors

\* What finalising a run leaves of the rows, finished or not.
LEMMA FinalizeType ==
  ASSUME RunStateTypeOK, PersistenceTypeOK, MaybeFinalizeRun
  PROVE  PersistenceTypeOK' /\ faults' \in 0..MaxFaults
<1>0. faults \in 0..MaxFaults
  BY DEF RunStateTypeOK
<1>a. ASSUME NEW failed \in BOOLEAN, NEW unread \in SUBSET Stage, NEW n \in {0, 1},
             ReadRun(failed, unread, n)
      PROVE  faults' \in 0..MaxFaults
  <2>1. Flag(failed # runFailed) + Cardinality(unread) \in Nat
    BY FlagType, StageAssumption, FS_Subset, FS_CardinalityType
  <2>2. n \in Nat /\ RedisErrors(Flag(failed # runFailed) + Cardinality(unread), n)
    BY <1>a DEF ReadRun
  <2> QED
    BY <1>0, <2>1, <2>2, ErrorsType
<1>1. faults' \in 0..MaxFaults
  <2>1. CASE LeaveRunOpen
    BY <1>0, <2>1, FaultType DEF LeaveRunOpen
  <2>2. CASE FinalizeWorkflowRun
    BY <1>a, <2>2 DEF FinalizeWorkflowRun
  <2>3. CASE FinalizePartly
    BY <1>a, <2>3 DEF FinalizePartly
  <2>4. QED
    BY <2>1, <2>2, <2>3 DEF MaybeFinalizeRun
<1>2. \A s \in Stage : \A failed, unread : Outcome(s, failed, unread) \in ExecutionRow
  BY DEF RunStateTypeOK, Outcome, ExecutionRow, StageStatus
<1>3. ASSUME NEW stages, NEW failed, NEW unread, AppendOutcomes(stages, failed, unread)
      PROVE  executions' \in [Stage -> Seq(ExecutionRow)]
  <2>1. executions \in [Stage -> Seq(ExecutionRow)]
    BY DEF PersistenceTypeOK
  <2>2. \A s \in Stage :
          Append(executions[s], Outcome(s, failed, unread)) \in Seq(ExecutionRow)
    BY <1>2, <2>1
  <2>3. QED
    BY <1>3, <2>1, <2>2 DEF AppendOutcomes
<1>4. PersistenceTypeOK'
  <2>1. CASE LeaveRunOpen
    BY <2>1 DEF LeaveRunOpen, pgVars, PersistenceTypeOK
  <2>2. CASE FinalizeWorkflowRun
    BY <2>2, <1>3 DEF FinalizeWorkflowRun, FinalStatus, RunStatus, PersistenceTypeOK
  <2>3. CASE FinalizePartly
    BY <2>3, <1>3 DEF FinalizePartly, PersistenceTypeOK
  <2>4. QED
    BY <2>1, <2>2, <2>3 DEF MaybeFinalizeRun
<1>5. QED
  BY <1>1, <1>4

\* What each Redis command leaves of the run's keys.
LEMMA RedisTypes ==
  ASSUME RunStateTypeOK, NEW s \in Stage
  PROVE  /\ \A x \in StageStatus, done \in BOOLEAN : SetStageStatus(s, x, done) =>
              /\ stageStatus' \in [Stage -> StageStatus \cup {""}]
              /\ statusLost' \subseteq Stage
         /\ \A x \in Terminal, done \in BOOLEAN : EndStage(s, x, done) =>
              /\ stageStatus' \in [Stage -> StageStatus \cup {""}]
              /\ statusLost' \subseteq Stage
              /\ fate' \in [Stage -> Terminal \cup {"open"}]
         /\ \A x \in Output, done \in BOOLEAN : SetOutput(s, x, done) =>
              output' \in [Stage -> Output] /\ outputLost' \subseteq Stage
         /\ IncrementAttempt(s) => attempt' \in [Stage -> Nat]
         /\ \A n \in Int : deps' = [deps EXCEPT ![s] = n] =>
              deps' \in [Stage -> Int]
         /\ ScheduleStage(s) => jobTrigger' \subseteq Stage
         /\ \A n \in Nat : MarkResultSeen(s, n) =>
              seenResult' \subseteq Stage \X Nat
         /\ IncrementRunDone => runDone' \in Nat
         /\ \A done \in BOOLEAN : MarkRunFailed(done) => runFailed' \in BOOLEAN
<1>1. ASSUME NEW x \in StageStatus, NEW done \in BOOLEAN, SetStageStatus(s, x, done)
      PROVE  /\ stageStatus' \in [Stage -> StageStatus \cup {""}]
             /\ statusLost' \subseteq Stage
  BY <1>1 DEF RunStateTypeOK, SetStageStatus
<1>a. ASSUME NEW x \in Terminal, NEW done \in BOOLEAN, EndStage(s, x, done)
      PROVE  /\ stageStatus' \in [Stage -> StageStatus \cup {""}]
             /\ statusLost' \subseteq Stage
             /\ fate' \in [Stage -> Terminal \cup {"open"}]
  <2>1. x \in StageStatus
    BY DEF Terminal, StageStatus
  <2>2. fate' \in [Stage -> Terminal \cup {"open"}]
    BY <1>a DEF RunStateTypeOK, EndStage
  <2> QED
    BY <1>1, <1>a, <2>1, <2>2 DEF EndStage
<1>2. \A x \in Output, done \in BOOLEAN : SetOutput(s, x, done) =>
        output' \in [Stage -> Output] /\ outputLost' \subseteq Stage
  BY DEF RunStateTypeOK, SetOutput
<1>3. /\ attempt \in [Stage -> Nat] /\ deps \in [Stage -> Int]
      /\ runDone \in Nat /\ seenResult \subseteq Stage \X Nat
  BY DEF RunStateTypeOK
<1>4. IncrementAttempt(s) => attempt' \in [Stage -> Nat]
  BY <1>3 DEF IncrementAttempt
<1>5. \A n \in Int : deps' = [deps EXCEPT ![s] = n] => deps' \in [Stage -> Int]
  BY <1>3
<1>6. ScheduleStage(s) => jobTrigger' \subseteq Stage
  BY DEF RunStateTypeOK, ScheduleStage
<1>7. \A n \in Nat : MarkResultSeen(s, n) => seenResult' \subseteq Stage \X Nat
  BY <1>3 DEF MarkResultSeen
<1>8. IncrementRunDone => runDone' \in Nat
  BY <1>3 DEF IncrementRunDone
<1>9. \A done \in BOOLEAN : MarkRunFailed(done) => runFailed' \in BOOLEAN
  BY DEF RunStateTypeOK, MarkRunFailed
<1>10. QED
  BY <1>1, <1>a, <1>2, <1>4, <1>5, <1>6, <1>7, <1>8, <1>9

\* What the pool's operations leave of the jobs.
LEMMA PoolTypes ==
  ASSUME PoolTypeOK
  PROVE  /\ \A j \in Job : Go(j) => PoolTypeOK'
         /\ \A j \in jobs, pc \in JobPc : Advance(j, pc) => PoolTypeOK'
         /\ \A j \in jobs : Finish(j) => PoolTypeOK'
  BY DEF PoolTypeOK, Go, Advance, Finish, Job

\* What reading and writing the topics leaves of them.
LEMMA TopicTypes ==
  ASSUME KafkaTypeOK
  PROVE  /\ \A s \in Stage, n \in Nat :
              /\ WriteExecuteMessage([stage |-> s, attempt |-> n]) => KafkaTypeOK'
              /\ PublishDLQ(s, n, "retry_exhausted") => KafkaTypeOK'
              /\ PublishDLQ(s, n, "dispatch_failed") => KafkaTypeOK'
         /\ \A m : ReadExecute(m) /\ UNCHANGED <<responseTopic, dlqTopic>>
              => KafkaTypeOK'
         /\ \A r, n : ReadResponse(r, n) /\ UNCHANGED <<executeTopic, dlqTopic>>
              => KafkaTypeOK'
         /\ UNCHANGED topicVars => KafkaTypeOK'
<1>1. ASSUME NEW s \in Stage, NEW n \in Nat,
             WriteExecuteMessage([stage |-> s, attempt |-> n])
      PROVE  KafkaTypeOK'
  BY <1>1 DEF KafkaTypeOK, WriteExecuteMessage, Request
<1>2. ASSUME NEW s \in Stage, NEW n \in Nat,
             NEW reason \in {"retry_exhausted", "dispatch_failed"},
             PublishDLQ(s, n, reason)
      PROVE  KafkaTypeOK'
  BY <1>2 DEF KafkaTypeOK, PublishDLQ, DlqMessage
<1>3. \A m : ReadExecute(m) /\ UNCHANGED <<responseTopic, dlqTopic>> => KafkaTypeOK'
  BY DEF KafkaTypeOK, ReadExecute
<1>4. \A r, n : ReadResponse(r, n) /\ UNCHANGED <<executeTopic, dlqTopic>> => KafkaTypeOK'
  BY DEF KafkaTypeOK, ReadResponse
<1>5. UNCHANGED topicVars => KafkaTypeOK'
  BY DEF KafkaTypeOK, topicVars
<1>6. QED
  BY <1>1, <1>2, <1>3, <1>4, <1>5

-----------------------------------------------------------------------------

LEMMA InitStepType == ASSUME TypeOK, InitStep PROVE TypeOK'
<1> USE DEF InitStep, TypeOK
<1>1. CASE BeginRun
  <2>0. faults \in 0..MaxFaults
    BY DEF RunStateTypeOK
  <2>1. ASSUME NEW unset \in SUBSET Stage, NEW unlisted \in SUBSET Edges,
               PrepareStages(unset, unlisted)
        PROVE  /\ faults' \in 0..MaxFaults
               /\ stageStatus' \in [Stage -> StageStatus \cup {""}]
               /\ statusLost' \subseteq Stage
               /\ childList' \in [Stage -> SUBSET Stage]
    <3>1. Cardinality(unset) + Cardinality(unlisted) \in Nat
      <4>1. IsFiniteSet(Stage \X Stage)
        BY StageAssumption, FS_Product
      <4>2. IsFiniteSet(unset) /\ IsFiniteSet(unlisted)
        BY <4>1, StageAssumption, FS_Subset DEF Edges
      <4> QED
        BY <4>2, FS_CardinalityType
    <3>2. faults' \in 0..MaxFaults
      BY <2>0, <2>1, <3>1, ErrorsType DEF PrepareStages
    <3> QED
      BY <2>1, <3>2 DEF PrepareStages, StageStatus, Children
  <2>2. /\ faults' \in 0..MaxFaults
        /\ stageStatus' \in [Stage -> StageStatus \cup {""}]
        /\ statusLost' \subseteq Stage
        /\ childList' \in [Stage -> SUBSET Stage]
    <3>1. CASE \E unset \in SUBSET Stage, unlisted \in SUBSET Edges :
                 PrepareStages(unset, unlisted)
      BY <2>1, <3>1
    <3>2. CASE /\ UNCHANGED <<stageStatus, statusLost, childList>>
               /\ Fault("db") \/ Fault("redis")
      BY <2>0, <3>2, FaultType DEF RunStateTypeOK
    <3> QED
      BY <1>1, <3>1, <3>2 DEF BeginRun
  <2>3. RunStateTypeOK'
    BY <1>1, <2>2 DEF BeginRun, RunStateTypeOK
  <2>4. QED
    BY <1>1, <2>3, TopicTypes
       DEF BeginRun, PersistenceTypeOK, RunStatus, PoolTypeOK, RunInitTypeOK,
           DispatchTypeOK, HandlerTypeOK, ConsumerTypeOK
<1>2. ASSUME NEW s \in Stage, QueueStage(s) PROVE TypeOK'
  <2>1. faults' \in 0..MaxFaults
    BY <1>2, FaultType DEF QueueStage, RunStateTypeOK
  <2>2. DependencyCount(s) \in Nat
    BY StageAssumption, DependentOnAssumption, FS_Subset, FS_CardinalityType
       DEF DependencyCount
  <2>3. deps' \in [Stage -> Int]
    <3>1. deps' = deps \/ deps' = [deps EXCEPT ![s] = DependencyCount(s)]
      BY <1>2 DEF QueueStage
    <3>2. deps \in [Stage -> Int]
      BY DEF RunStateTypeOK
    <3>3. QED
      BY <2>2, <3>1, <3>2
  <2>4. jobTrigger' \subseteq Stage
    BY <1>2 DEF QueueStage, ScheduleStage, RunStateTypeOK
  <2>5. RunStateTypeOK'
    BY <1>2, <2>1, <2>3, <2>4 DEF QueueStage, RunStateTypeOK
  <2>6. QED
    BY <1>2, <2>5, TopicTypes
       DEF QueueStage, pgVars, poolVars, PersistenceTypeOK, PoolTypeOK,
           RunInitTypeOK, DispatchTypeOK, HandlerTypeOK, ConsumerTypeOK
<1>3. CASE EndInit
  BY <1>3, TopicTypes
     DEF EndInit, redisVars, pgVars, RunStateTypeOK, PersistenceTypeOK,
         PoolTypeOK, RunInitTypeOK, DispatchTypeOK, HandlerTypeOK, ConsumerTypeOK
<1>4. QED
  BY <1>1, <1>2, <1>3 DEF InitNext

LEMMA PollStepType == ASSUME TypeOK, PollStep PROVE TypeOK'
<1> USE DEF PollStep, TypeOK
<1>1. ASSUME NEW s \in Stage, PollStage(s) PROVE TypeOK'
  <2>1. faults' \in 0..MaxFaults
    BY <1>1, FaultType DEF PollStage, RunStateTypeOK
  <2>2. RunStateTypeOK' /\ polled' \subseteq Stage
    BY <1>1, <2>1 DEF PollStage, TakeFromQueue, RunStateTypeOK, DispatchTypeOK
  <2> QED
    BY <1>1, <2>2, TopicTypes
       DEF PollStage, pgVars, poolVars, PersistenceTypeOK, PoolTypeOK, RunInitTypeOK,
           DispatchTypeOK, HandlerTypeOK, ConsumerTypeOK
<1>2. ASSUME NEW s \in Stage, StartJob(s) PROVE TypeOK'
  <2>1. faults' \in 0..MaxFaults
    BY <1>2, FaultType, ErrorsType, FlagType DEF StartJob, RunStateTypeOK
  <2>2. /\ attempt' \in [Stage -> Nat]
        /\ stageStatus' \in [Stage -> StageStatus \cup {""}]
        /\ statusLost' \subseteq Stage
    BY <1>2, RedisTypes DEF StartJob, RunStateTypeOK, StageStatus
  <2>3. RunStateTypeOK'
    BY <1>2, <2>1, <2>2 DEF StartJob, RunStateTypeOK
  <2>4. [stage |-> s, attempt |-> attempt[s] + 1, pc |-> "fetch"] \in Job
    <3>1. attempt \in [Stage -> Nat]
      BY DEF RunStateTypeOK
    <3>2. attempt[s] + 1 \in Nat
      BY <3>1
    <3>3. QED
      BY <3>2 DEF Job, JobPc
  <2>5. PoolTypeOK'
    BY <1>2, <2>4, PoolTypes DEF StartJob, poolVars, PoolTypeOK
  <2>6. QED
    BY <1>2, <2>3, <2>5, TopicTypes
       DEF StartJob, pgVars, PersistenceTypeOK, RunInitTypeOK, DispatchTypeOK,
           HandlerTypeOK, ConsumerTypeOK
<1>3. QED
  BY <1>1, <1>2 DEF PollNext

LEMMA JobStepType == ASSUME TypeOK, JobStep PROVE TypeOK'
<1> USE DEF JobStep, JobNext, TypeOK
<1>a. /\ RunInitTypeOK' /\ DispatchTypeOK' /\ HandlerTypeOK' /\ ConsumerTypeOK'
      /\ UNCHANGED pgVars => PersistenceTypeOK'
  BY DEF RunInitTypeOK, DispatchTypeOK, HandlerTypeOK, ConsumerTypeOK, pgVars,
         PersistenceTypeOK
<1>b. ASSUME NEW j \in jobs PROVE j.stage \in Stage /\ j.attempt \in Nat
  BY DEF PoolTypeOK, Job
<1>1. ASSUME NEW j \in jobs, FetchStage(j) PROVE TypeOK'
  <2>1. faults' \in 0..MaxFaults
    BY <1>1, FaultType, ErrorsType, FlagType DEF FetchStage, RunStateTypeOK
  <2>2. /\ stageStatus' \in [Stage -> StageStatus \cup {""}]
        /\ statusLost' \subseteq Stage
        /\ fate' \in [Stage -> Terminal \cup {"open"}]
    BY <1>1, <1>b, RedisTypes DEF FetchStage, RunStateTypeOK, Terminal
  <2>3. RunStateTypeOK'
    BY <1>1, <2>1, <2>2 DEF FetchStage, RunStateTypeOK
  <2>4. PoolTypeOK'
    BY <1>1, PoolTypes DEF FetchStage, JobPc
  <2>5. QED
    BY <1>1, <1>a, <2>3, <2>4, TopicTypes DEF FetchStage
<1>2. ASSUME NEW j \in jobs, PublishStage(j) PROVE TypeOK'
  <2>1. faults' \in 0..MaxFaults
    BY <1>2, FaultType DEF PublishStage, RunStateTypeOK
  <2>2. RunStateTypeOK'
    BY <1>2, <2>1 DEF PublishStage, redisVars, RunStateTypeOK
  <2>3. PoolTypeOK' /\ KafkaTypeOK'
    BY <1>2, <1>b, PoolTypes, TopicTypes DEF PublishStage, JobPc
  <2>4. QED
    BY <1>2, <1>a, <2>2, <2>3 DEF PublishStage
<1>3. ASSUME NEW j \in jobs, PublishReturns(j) PROVE TypeOK'
  <2>1. faults' \in 0..MaxFaults
    BY <1>3, FaultType DEF PublishReturns, RunStateTypeOK
  <2>2. RunStateTypeOK'
    BY <1>3, <2>1 DEF PublishReturns, redisVars, RunStateTypeOK
  <2>3. PoolTypeOK'
    BY <1>3, PoolTypes DEF PublishReturns, JobPc
  <2>4. QED
    BY <1>3, <1>a, <2>2, <2>3, TopicTypes DEF PublishReturns
<1>4. ASSUME NEW j \in jobs, RequeueUnpublished(j) PROVE TypeOK'
  <2>1. faults' \in 0..MaxFaults
    <3> SUFFICES ASSUME NEW set \in BOOLEAN, NEW queued \in BOOLEAN,
                        RedisErrors(Flag(~set) + Flag(~queued), 0)
                 PROVE  faults' \in 0..MaxFaults
      BY <1>4 DEF RequeueUnpublished
    <3>1. Flag(~set) + Flag(~queued) \in Nat
      BY FlagType
    <3> QED
      BY <3>1, ErrorsType DEF RunStateTypeOK
  <2>2. /\ stageStatus' \in [Stage -> StageStatus \cup {""}]
        /\ statusLost' \subseteq Stage
        /\ jobTrigger' \subseteq Stage
    <3>1. PICK set, queued \in BOOLEAN :
            /\ SetStageStatus(j.stage, "FAILED-RETRY", set)
            /\ IF queued THEN ScheduleStage(j.stage) ELSE UNCHANGED jobTrigger
      BY <1>4 DEF RequeueUnpublished
    <3>2. jobTrigger' \subseteq Stage
      BY <1>b, <3>1, RedisTypes DEF RunStateTypeOK
    <3> QED
      BY <1>b, <3>1, <3>2, RedisTypes DEF StageStatus
  <2>3. RunStateTypeOK'
    BY <1>4, <2>1, <2>2 DEF RequeueUnpublished, RunStateTypeOK
  <2>4. PoolTypeOK'
    BY <1>4, PoolTypes DEF RequeueUnpublished
  <2>5. QED
    BY <1>4, <1>a, <2>3, <2>4, TopicTypes DEF RequeueUnpublished
<1>5. ASSUME NEW j \in jobs, ReportDispatchFailure(j) PROVE TypeOK'
  <2>1. faults' \in 0..MaxFaults
    BY <1>5, FaultType DEF ReportDispatchFailure, PublishDLQ, RunStateTypeOK
  <2>2. RunStateTypeOK'
    BY <1>5, <2>1 DEF ReportDispatchFailure, redisVars, RunStateTypeOK
  <2>3. PoolTypeOK' /\ KafkaTypeOK'
    BY <1>5, <1>b, PoolTypes, TopicTypes DEF ReportDispatchFailure, JobPc
  <2>4. QED
    BY <1>5, <1>a, <2>2, <2>3 DEF ReportDispatchFailure
<1>6. ASSUME NEW j \in jobs, RecordUndispatched(j) PROVE TypeOK'
  <2>1. faults' \in 0..MaxFaults
    BY <1>6, FaultType DEF RecordUndispatched, RunStateTypeOK
  <2>2. runDone' \in Nat
    BY <1>6, <1>b, RedisTypes DEF RecordUndispatched, RunStateTypeOK
  <2>3. RunStateTypeOK'
    BY <1>6, <2>1, <2>2 DEF RecordUndispatched, RunStateTypeOK
  <2>4. PoolTypeOK'
    BY <1>6, PoolTypes DEF RecordUndispatched, JobPc
  <2>5. QED
    BY <1>6, <1>a, <2>3, <2>4, TopicTypes DEF RecordUndispatched
<1>7. ASSUME NEW j \in jobs, FinalizeUndispatched(j) PROVE TypeOK'
  <2>1. PersistenceTypeOK' /\ faults' \in 0..MaxFaults
    BY <1>7, FinalizeType DEF FinalizeUndispatched
  <2>2. RunStateTypeOK'
    BY <1>7, <2>1 DEF FinalizeUndispatched, redisVars, RunStateTypeOK
  <2>3. PoolTypeOK'
    BY <1>7, PoolTypes DEF FinalizeUndispatched
  <2>4. QED
    BY <1>7, <1>a, <2>1, <2>2, <2>3, TopicTypes DEF FinalizeUndispatched
<1>8. ASSUME NEW j \in jobs, NotificationSent(j) PROVE TypeOK'
  <2>1. RunStateTypeOK'
    BY <1>8 DEF NotificationSent, redisVars, RunStateTypeOK
  <2>2. QED
    BY <1>8, <1>a, <2>1, PoolTypes, TopicTypes DEF NotificationSent
<1>9. QED
  BY <1>1, <1>2, <1>3, <1>4, <1>5, <1>6, <1>7, <1>8

LEMMA HandlerStepType == ASSUME TypeOK, HandlerStep PROVE TypeOK'
<1> USE DEF HandlerStep, TypeOK
<1>a. /\ PersistenceTypeOK' /\ PoolTypeOK' /\ RunInitTypeOK'
      /\ DispatchTypeOK' /\ ConsumerTypeOK'
  BY DEF pgVars, poolVars, PersistenceTypeOK, PoolTypeOK, RunInitTypeOK,
         DispatchTypeOK, ConsumerTypeOK
<1>1. ASSUME NEW m \in executeTopic, ReceiveRequest(m) PROVE TypeOK'
  <2>1. faults' \in 0..MaxFaults
    BY <1>1, FaultType DEF ReceiveRequest, ReadExecute, RunStateTypeOK
  <2>2. RunStateTypeOK'
    BY <1>1, <2>1 DEF ReceiveRequest, redisVars, RunStateTypeOK
  <2>3. HandlerTypeOK'
    BY <1>1 DEF ReceiveRequest, HandlerTypeOK, KafkaTypeOK
  <2>4. QED
    BY <1>1, <1>a, <2>2, <2>3, TopicTypes DEF ReceiveRequest
<1>2. ASSUME NEW m \in executing, NEW status \in {"SUCCESS", "FAILURE"},
             Respond(m, status)
      PROVE  TypeOK'
  <2>1. faults' \in 0..MaxFaults
    BY <1>2, FaultType DEF Respond, RunStateTypeOK
  <2>2. RunStateTypeOK'
    BY <1>2, <2>1 DEF Respond, redisVars, RunStateTypeOK
  <2>3. HandlerTypeOK' /\ KafkaTypeOK'
    BY <1>2 DEF Respond, HandlerTypeOK, KafkaTypeOK, Request, Response
  <2>4. QED
    BY <1>a, <2>2, <2>3
<1>3. CASE HandlerCrash
  <2>1. faults' \in 0..MaxFaults
    BY <1>3, FaultType DEF HandlerCrash, RunStateTypeOK
  <2>2. RunStateTypeOK'
    BY <1>3, <2>1 DEF HandlerCrash, redisVars, RunStateTypeOK
  <2>3. QED
    BY <1>3, <1>a, <2>2, TopicTypes DEF HandlerCrash, HandlerTypeOK
<1>4. QED
  BY <1>1, <1>2, <1>3 DEF HandlerNext

LEMMA ReadErrors ==
  ASSUME faults \in 0..MaxFaults, NEW r, NEW n \in Nat, ReadResponse(r, n)
  PROVE  faults' \in 0..MaxFaults
  BY ErrorsType DEF ReadResponse

LEMMA ConsumerStepType == ASSUME TypeOK, ConsumerStep PROVE TypeOK'
<1> USE DEF ConsumerStep, TypeOK
<1>a. /\ RunInitTypeOK' /\ DispatchTypeOK' /\ HandlerTypeOK'
      /\ UNCHANGED pgVars => PersistenceTypeOK'
      /\ UNCHANGED poolVars => PoolTypeOK'
  BY DEF RunInitTypeOK, DispatchTypeOK, HandlerTypeOK, pgVars,
         PersistenceTypeOK, poolVars, PoolTypeOK
<1>b. ASSUME NEW r \in responseTopic
      PROVE  r \in Response /\ r.stage \in Stage /\ r.attempt \in Nat
  BY DEF KafkaTypeOK, Response
<1>c. consumer.pc # "read" =>
        /\ consumer \in [pc : ConsumerPc \ {"read"}, resp : Response,
                         todo : SUBSET Stage, visited : SUBSET Stage]
        /\ consumer.resp \in Response
        /\ consumer.resp.stage \in Stage /\ consumer.resp.attempt \in Nat
        /\ consumer.todo \subseteq Stage /\ consumer.visited \subseteq Stage
  <2>1. Idle.pc = "read"
    BY DEF Idle
  <2>2. QED
    BY <2>1 DEF ConsumerTypeOK, Response
<1>1. ASSUME NEW r \in responseTopic, DropSeenResult(r) PROVE TypeOK'
  <2>1. faults' \in 0..MaxFaults
    BY <1>1, ReadErrors DEF DropSeenResult, RunStateTypeOK
  <2>2. RunStateTypeOK'
    BY <1>1, <2>1 DEF DropSeenResult, redisVars, RunStateTypeOK
  <2>3. QED
    BY <1>1, <1>a, <2>2, TopicTypes DEF DropSeenResult, ConsumerTypeOK
<1>2. ASSUME NEW r \in responseTopic, LoseResult(r) PROVE TypeOK'
  <2>1. faults' \in 0..MaxFaults
    BY <1>2, FaultType DEF LoseResult, RunStateTypeOK
  <2>2. seenResult' \subseteq Stage \X Nat
    BY <1>2, <1>b, RedisTypes DEF LoseResult, RunStateTypeOK
  <2>4. RunStateTypeOK'
    BY <1>2, <2>1, <2>2 DEF LoseResult, RunStateTypeOK
  <2>3. QED
    BY <1>2, <1>a, <2>4 DEF LoseResult, KafkaTypeOK, ConsumerTypeOK
<1>3. ASSUME NEW r \in responseTopic, StageSucceeds(r) PROVE TypeOK'
  <2>1. faults' \in 0..MaxFaults
    <3>1. \A b, c : Flag(b) + Flag(c) \in Nat
      BY FlagType
    <3> QED
      BY <1>3, <3>1, ReadErrors DEF StageSucceeds, RunStateTypeOK
  <2>2. /\ stageStatus' \in [Stage -> StageStatus \cup {""}]
        /\ statusLost' \subseteq Stage
        /\ fate' \in [Stage -> Terminal \cup {"open"}]
        /\ output' \in [Stage -> Output] /\ outputLost' \subseteq Stage
        /\ seenResult' \subseteq Stage \X Nat
    BY <1>3, <1>b, RedisTypes DEF StageSucceeds, Terminal, Output
  <2>3. RunStateTypeOK'
    BY <1>3, <2>1, <2>2 DEF StageSucceeds, RunStateTypeOK
  <2>4. ConsumerTypeOK'
    BY <1>3, <1>b DEF StageSucceeds, Handle, ConsumerTypeOK, ConsumerPc, RunStateTypeOK
  <2>5. QED
    BY <1>3, <1>a, <2>3, <2>4, TopicTypes DEF StageSucceeds
<1>4. ASSUME NEW r \in responseTopic, StageFailsRetryably(r) PROVE TypeOK'
  <2>1. faults' \in 0..MaxFaults
    <3>1. \A b, c : Flag(b) + Flag(c) \in Nat
      BY FlagType
    <3> QED
      BY <1>4, <3>1, ReadErrors DEF StageFailsRetryably, RunStateTypeOK
  <2>2. /\ stageStatus' \in [Stage -> StageStatus \cup {""}]
        /\ statusLost' \subseteq Stage
        /\ output' \in [Stage -> Output] /\ outputLost' \subseteq Stage
        /\ seenResult' \subseteq Stage \X Nat
    BY <1>4, <1>b, RedisTypes DEF StageFailsRetryably, StageStatus, Output
  <2>3. RunStateTypeOK'
    BY <1>4, <2>1, <2>2 DEF StageFailsRetryably, RunStateTypeOK
  <2>4. ConsumerTypeOK'
    BY <1>4, <1>b DEF StageFailsRetryably, Handle, ConsumerTypeOK, ConsumerPc
  <2>5. QED
    BY <1>4, <1>a, <2>3, <2>4, TopicTypes DEF StageFailsRetryably
<1>5. ASSUME NEW r \in responseTopic, StageExhausts(r) PROVE TypeOK'
  <2>1. faults' \in 0..MaxFaults
    <3>1. \A b, c : Flag(b) + Flag(c) \in Nat
      BY FlagType
    <3> QED
      BY <1>5, <3>1, ReadErrors DEF StageExhausts, RunStateTypeOK
  <2>2. /\ stageStatus' \in [Stage -> StageStatus \cup {""}]
        /\ statusLost' \subseteq Stage
        /\ fate' \in [Stage -> Terminal \cup {"open"}]
        /\ seenResult' \subseteq Stage \X Nat
        /\ runFailed' \in BOOLEAN
    BY <1>5, <1>b, RedisTypes DEF StageExhausts, ExhaustStage, Terminal
  <2>3. RunStateTypeOK'
    BY <1>5, <2>1, <2>2 DEF StageExhausts, RunStateTypeOK
  <2>4. ConsumerTypeOK'
    BY <1>5, <1>b DEF StageExhausts, Handle, ConsumerTypeOK, ConsumerPc, RunStateTypeOK
  <2>5. QED
    BY <1>5, <1>a, <2>3, <2>4, TopicTypes DEF StageExhausts
<1>6. ASSUME NEW c \in Stage, ReleaseChild(c) PROVE TypeOK'
  <2>1. faults' \in 0..MaxFaults
    BY <1>6, FaultType DEF ReleaseChild, RunStateTypeOK
  <2>2. deps' \in [Stage -> Int] /\ jobTrigger' \subseteq Stage
    <3>1. /\ deps' = deps \/ deps' = [deps EXCEPT ![c] = @ - 1]
          /\ ScheduleStage(c) \/ UNCHANGED jobTrigger
      BY <1>6 DEF ReleaseChild, DecrementDeps, CountDown
    <3>2. deps \in [Stage -> Int] /\ jobTrigger \subseteq Stage
      BY DEF RunStateTypeOK
    <3>3. QED
      BY <3>1, <3>2 DEF ScheduleStage
  <2>3. RunStateTypeOK'
    BY <1>6, <2>1, <2>2 DEF ReleaseChild, RunStateTypeOK
  <2>4. ConsumerTypeOK'
    BY <1>6, <1>c DEF ReleaseChild, ConsumerTypeOK
  <2>5. QED
    BY <1>6, <1>a, <2>3, <2>4, TopicTypes DEF ReleaseChild
<1>7. ASSUME NEW c \in Stage, SkipDescendant(c) PROVE TypeOK'
  <2>1. faults' \in 0..MaxFaults
    <3>1. \A x, y, z : Flag(x) + Flag(y) + Flag(z) \in Nat
      BY FlagType
    <3> QED
      BY <1>7, <3>1, ErrorsType DEF SkipDescendant, RunStateTypeOK
  <2>2. /\ stageStatus' \in [Stage -> StageStatus \cup {""}]
        /\ statusLost' \subseteq Stage
        /\ fate' \in [Stage -> Terminal \cup {"open"}]
        /\ runDone' \in Nat
    BY <1>7, RedisTypes DEF SkipDescendant, CountSkipped, Terminal, RunStateTypeOK
  <2>3. RunStateTypeOK'
    BY <1>7, <2>1, <2>2 DEF SkipDescendant, RunStateTypeOK
  <2>4. ConsumerTypeOK'
    <3>1. PICK listed \in BOOLEAN :
            LET visited == consumer.visited \cup {c}
                below == IF listed THEN childList[c] ELSE {}
            IN  Handle(consumer.resp, "skip",
                       (consumer.todo \cup below) \ visited, visited)
      BY <1>7 DEF SkipDescendant
    <3>2. childList[c] \subseteq Stage /\ consumer.pc # "read"
      BY <1>7 DEF SkipDescendant, RunStateTypeOK
    <3> QED
      BY <1>c, <3>1, <3>2 DEF Handle, ConsumerTypeOK, ConsumerPc
  <2>5. QED
    BY <1>7, <1>a, <2>3, <2>4, TopicTypes DEF SkipDescendant
<1>8. ASSUME NEW c \in Stage, PassOver(c) PROVE TypeOK'
  <2>1. faults' \in 0..MaxFaults
    BY <1>8, FaultType DEF PassOver, RunStateTypeOK
  <2>2. RunStateTypeOK'
    BY <1>8, <2>1 DEF PassOver, redisVars, RunStateTypeOK
  <2>3. ConsumerTypeOK'
    BY <1>8, <1>c DEF PassOver, Handle, ConsumerTypeOK, ConsumerPc
  <2>4. QED
    BY <1>8, <1>a, <2>2, <2>3, TopicTypes DEF PassOver
<1>9. CASE SkipNothing
  <2>1. faults' \in 0..MaxFaults
    BY <1>9, FaultType DEF SkipNothing, RunStateTypeOK
  <2>2. RunStateTypeOK'
    BY <1>9, <2>1 DEF SkipNothing, redisVars, RunStateTypeOK
  <2>3. ConsumerTypeOK'
    BY <1>9, <1>c DEF SkipNothing, ConsumerTypeOK
  <2>4. QED
    BY <1>9, <1>a, <2>2, <2>3, TopicTypes DEF SkipNothing
<1>10. CASE RequeueStage
  <2>1. faults' \in 0..MaxFaults
    BY <1>10, FaultType DEF RequeueStage, RunStateTypeOK
  <2>2. jobTrigger' \subseteq Stage
    BY <1>10, <1>c, RedisTypes DEF RequeueStage, RunStateTypeOK
  <2>3. RunStateTypeOK'
    BY <1>10, <2>1, <2>2 DEF RequeueStage, RunStateTypeOK
  <2>4. QED
    BY <1>10, <1>a, <2>3, TopicTypes DEF RequeueStage, ConsumerTypeOK
<1>d. ASSUME consumer.pc # "read", consumer' = AfterRecord PROVE ConsumerTypeOK'
  BY <1>d, <1>c DEF AfterRecord, ConsumerTypeOK, ConsumerPc
<1>11. CASE RecordStage
  <2>1. faults' \in 0..MaxFaults
    BY <1>11, FaultType DEF RecordStage, RunStateTypeOK
  <2>2. runDone' \in Nat
    BY <1>11, <1>c, RedisTypes DEF RecordStage, RunStateTypeOK
  <2>3. RunStateTypeOK'
    BY <1>11, <2>1, <2>2 DEF RecordStage, RunStateTypeOK
  <2>4. ConsumerTypeOK'
    BY <1>11, <1>c, <1>d DEF RecordStage, ConsumerTypeOK, ConsumerPc
  <2>5. QED
    BY <1>11, <1>a, <2>3, <2>4, TopicTypes DEF RecordStage
<1>12. CASE FinalizeRun
  <2>1. PersistenceTypeOK' /\ faults' \in 0..MaxFaults
    BY <1>12, FinalizeType DEF FinalizeRun
  <2>2. RunStateTypeOK'
    BY <1>12, <2>1 DEF FinalizeRun, redisVars, RunStateTypeOK
  <2>3. QED
    BY <1>12, <1>a, <1>d, <2>1, <2>2, TopicTypes DEF FinalizeRun
<1>13. CASE ReportExhausted
  <2>1. faults' \in 0..MaxFaults
    BY <1>13, FaultType DEF ReportExhausted, PublishDLQ, RunStateTypeOK
  <2>2. RunStateTypeOK'
    BY <1>13, <2>1 DEF ReportExhausted, redisVars, RunStateTypeOK
  <2>3. ConsumerTypeOK' /\ KafkaTypeOK'
    BY <1>13, <1>c, TopicTypes DEF ReportExhausted, ConsumerTypeOK, ConsumerPc
  <2>4. QED
    BY <1>13, <1>a, <2>2, <2>3 DEF ReportExhausted
<1>14. CASE StartNotification
  <2>1. RunStateTypeOK'
    BY <1>14 DEF StartNotification, redisVars, RunStateTypeOK
  <2>2. PoolTypeOK'
    BY <1>14, <1>c, PoolTypes DEF StartNotification, Job, JobPc
  <2>3. QED
    BY <1>14, <1>a, <2>1, <2>2, TopicTypes DEF StartNotification, ConsumerTypeOK
<1>15. QED
  BY <1>1, <1>2, <1>3, <1>4, <1>5, <1>6, <1>7, <1>8, <1>9, <1>10, <1>11,
     <1>12, <1>13, <1>14
     DEF ConsumerNext

LEMMA CrashType == ASSUME TypeOK, Crash PROVE TypeOK'
<1> USE DEF TypeOK
<1>1. faults' \in 0..MaxFaults
  BY FaultType DEF Crash, RunStateTypeOK
<1>2. KafkaTypeOK' /\ seenResult' \subseteq Stage \X Nat
  <2>1. CASE UNCHANGED <<topicVars, seenResult>>
    BY <2>1, TopicTypes DEF RunStateTypeOK
  <2>2. ASSUME NEW r \in responseTopic,
               responseTopic' = responseTopic \ {r},
               UNCHANGED seenResult \/ MarkResultSeen(r.stage, r.attempt),
               UNCHANGED <<executeTopic, dlqTopic>>
        PROVE  KafkaTypeOK' /\ seenResult' \subseteq Stage \X Nat
    <3>1. r.stage \in Stage /\ r.attempt \in Nat
      BY DEF KafkaTypeOK, Response
    <3>2. seenResult' \subseteq Stage \X Nat
      BY <2>2, <3>1, RedisTypes DEF RunStateTypeOK
    <3>3. QED
      BY <2>2, <3>2 DEF KafkaTypeOK
  <2>3. QED
    BY <2>1, <2>2 DEF Crash, LoseResultInHand
<1>3. RunStateTypeOK'
  BY <1>1, <1>2 DEF Crash, RunStateTypeOK
<1>4. QED
  BY <1>2, <1>3
     DEF Crash, pgVars, PersistenceTypeOK, PoolTypeOK, RunInitTypeOK,
         DispatchTypeOK, HandlerTypeOK, ConsumerTypeOK

LEMMA StutterType == ASSUME TypeOK, UNCHANGED vars PROVE TypeOK'
<1>1. /\ UNCHANGED <<redisVars, faults>> /\ UNCHANGED <<pgVars, poolVars>>
      /\ UNCHANGED topicVars /\ UNCHANGED <<initTodo, polled, executing, consumer>>
  BY DEF vars
<1>2. RunStateTypeOK'
  BY <1>1 DEF TypeOK, RunStateTypeOK, redisVars
<1>3. QED
  BY <1>1, <1>2, TopicTypes
     DEF TypeOK, pgVars, poolVars, PersistenceTypeOK, PoolTypeOK,
         RunInitTypeOK, DispatchTypeOK, HandlerTypeOK, ConsumerTypeOK

LEMMA NextType == TypeOK /\ [Next]_vars => TypeOK'
  BY InitStepType, PollStepType, JobStepType, HandlerStepType,
     ConsumerStepType, CrashType, StutterType
     DEF Next, Done

\* Every reachable state is one of the right type: in particular the consumer
\* holds a response whenever it is not waiting for one, and every row written
\* to stage_executions has a stage status and a counted attempt.
THEOREM TypeCorrect == Spec => []TypeOK
<1>1. Init => TypeOK
  BY InitTypeOK
<1>2. TypeOK /\ [Next]_vars => TypeOK'
  BY NextType
<1>3. QED
  BY <1>1, <1>2, PTL DEF Spec

====
