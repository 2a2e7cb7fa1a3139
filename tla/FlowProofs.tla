----------------------------- MODULE FlowProofs -----------------------------
(***************************************************************************)
(* The order and the number of attempts, for every workflow and every set  *)
(* and number of faults but ambiguous writes: one attempt of a stage at a  *)
(* time, after its parents, and an end that nothing overwrites.            *)
(***************************************************************************)
EXTENDS AttemptProofs

USE DEF statusVars, outputVars

\* A failed write is one that the broker does not have.
NoAmbiguousWrites == "publish_timeout" \notin Faults

-----------------------------------------------------------------------------
(* The invariant.                                                          *)

Sending(j) == j.pc \in {"fetch", "publish", "written"}

Messages == executeTopic \cup executing \cup responseTopic

\* Attempt n of s is in a dispatch job or in a message.
Carried(s, n) ==
  \/ \E j \in jobs : Sending(j) /\ j.stage = s /\ j.attempt = n
  \/ \E m \in Messages : m.stage = s /\ m.attempt = n

\* The attempts under way, and those whose result was taken, have been counted.
Numbered ==
  \A s \in Stage, n \in Nat :
    Carried(s, n) \/ ~FirstSeen(s, n) => n \in 1..attempt[s]

\* An attempt has one dispatch job, and no message or result before it is
\* published.
OwnAttempt ==
  /\ \A j, k \in jobs :
       Sending(j) /\ Sending(k) /\ j.stage = k.stage /\ j.attempt = k.attempt
         => j = k
  /\ \A j \in jobs : j.pc \in {"fetch", "publish"} =>
       /\ FirstSeen(j.stage, j.attempt)
       /\ \A m \in Messages : ~(m.stage = j.stage /\ m.attempt = j.attempt)

Active(s) ==
  \/ s \in jobTrigger
  \/ s \in polled
  \/ Retrying(s)
  \/ Requeuing(s) # {}
  \/ Unanswered(s) # {}

\* A stage is in one place.
Exclusive(s) ==
  /\ Unscheduled(s) => ~Active(s)
  /\ s \in jobTrigger => /\ s \notin polled /\ ~Retrying(s)
                         /\ Requeuing(s) = {} /\ Unanswered(s) = {}
  /\ s \in polled => ~Retrying(s) /\ Requeuing(s) = {} /\ Unanswered(s) = {}
  /\ Retrying(s) => Requeuing(s) = {} /\ Unanswered(s) = {}
  /\ Requeuing(s) # {} => Unanswered(s) = {}
  /\ \A j, k \in Requeuing(s) : j = k
  /\ \A m, n \in Unanswered(s) : m = n

\* It is scheduled once, after its parents, and when it has ended it is
\* nowhere.
InOrder(s) ==
  /\ deps[s] > 0 => Cardinality(Unreleased(s)) <= deps[s]
  /\ attempt[s] > 0 => ~Unscheduled(s)
  /\ attempt[s] > 0 \/ Active(s) =>
       \A p \in DependentOn[s] : fate[p] = "FIN"
  /\ fate[s] = "FIN" => output[s] = "result" \/ s \in outputLost
  /\ fate[s] \in {"FIN", "FAILED-EXHAUSTED"} =>
       attempt[s] > 0 /\ ~Active(s)

Lost == {"FAILED-EXHAUSTED", "SKIPPED"}

\* s is below a stage that will never finish.
BelowLost(s) == \E p \in DependentOn[s] : fate[p] \in Lost

SkippedBelowLost(s) == fate[s] = "SKIPPED" => attempt[s] = 0 /\ BelowLost(s)

NothingBeforeInit == initJob = "load" => \A s \in Stage : fate[s] = "open"

\* The lists of children have no stage that is none, though they may lack one.
ListsSound == \A s \in Stage : childList[s] \subseteq Children(s)

\* The status key against the end of the stage.
KeyTells(s) ==
  /\ stageStatus[s] \in Terminal => stageStatus[s] = fate[s]
  /\ fate[s] # "open" => stageStatus[s] = fate[s] \/ s \in statusLost

\* The consumer releases the children of a finished stage, and skips what is
\* below a lost one.
HandSound ==
  /\ consumer.pc = "release" =>
       /\ fate[consumer.resp.stage] = "FIN"
       /\ consumer.todo \subseteq Children(consumer.resp.stage)
  /\ consumer.pc = "skip" => \A c \in consumer.todo : BelowLost(c)

FlowInv ==
  /\ TypeOK
  /\ CountedAfterInit
  /\ Numbered
  /\ OwnAttempt
  /\ NothingBeforeInit
  /\ ListsSound
  /\ HandSound
  /\ \A s \in Stage :
       Exclusive(s) /\ InOrder(s) /\ SkippedBelowLost(s) /\ KeyTells(s)

-----------------------------------------------------------------------------
(* What a step may add to the traces of an attempt.                        *)

LEMMA Functions ==
  ASSUME TypeOK
  PROVE  /\ stageStatus \in [Stage -> StageStatus \cup {""}]
         /\ attempt \in [Stage -> Nat]
         /\ deps \in [Stage -> Int]
         /\ output \in [Stage -> Output]
         /\ fate \in [Stage -> Terminal \cup {"open"}]
         /\ childList \in [Stage -> SUBSET Stage]
         /\ statusLost \subseteq Stage /\ outputLost \subseteq Stage
         /\ jobs \subseteq Job
         /\ \A m \in Messages : m.stage \in Stage /\ m.attempt \in Nat
         /\ consumer.pc # "read" =>
              /\ consumer \in [pc : ConsumerPc \ {"read"}, resp : Response,
                               todo : SUBSET Stage, visited : SUBSET Stage]
              /\ consumer.resp.stage \in Stage
<1>1. /\ stageStatus \in [Stage -> StageStatus \cup {""}]
      /\ attempt \in [Stage -> Nat]
      /\ deps \in [Stage -> Int]
      /\ output \in [Stage -> Output]
      /\ fate \in [Stage -> Terminal \cup {"open"}]
      /\ childList \in [Stage -> SUBSET Stage]
      /\ statusLost \subseteq Stage /\ outputLost \subseteq Stage
      /\ jobs \subseteq Job
  BY DEF TypeOK, RunStateTypeOK, PoolTypeOK
<1>2. \A m \in Messages : m.stage \in Stage /\ m.attempt \in Nat
  BY DEF TypeOK, KafkaTypeOK, HandlerTypeOK, Messages, Request, Response
<1>3. consumer.pc # "read" =>
        consumer \in [pc : ConsumerPc \ {"read"}, resp : Response,
                      todo : SUBSET Stage, visited : SUBSET Stage]
  BY DEF TypeOK, ConsumerTypeOK, Idle
<1>4. consumer.pc # "read" => consumer.resp.stage \in Stage
  BY <1>3 DEF Response
<1> QED
  BY <1>1, <1>2, <1>3, <1>4

\* A dispatch job goes on to its next step.
LEMMA JobMoves ==
  ASSUME jobs \subseteq Job, NEW j \in jobs, NEW pc \in JobPc, Advance(j, pc)
  PROVE  \E k \in Job : /\ k.stage = j.stage /\ k.attempt = j.attempt /\ k.pc = pc
                        /\ jobs' = (jobs \ {j}) \cup {k}
<1> DEFINE k == [j EXCEPT !.pc = pc]
<1>1. k \in Job /\ k.stage = j.stage /\ k.attempt = j.attempt /\ k.pc = pc
  BY DEF Job
<1> QED
  BY <1>1 DEF Advance

\* The eight steps of a job.
LEMMA JobSteps ==
  ASSUME JobStep
  PROVE  \E j \in jobs :
           \/ FetchStage(j) \/ PublishStage(j) \/ PublishReturns(j)
           \/ RequeueUnpublished(j) \/ ReportDispatchFailure(j)
           \/ RecordUndispatched(j) \/ FinalizeUndispatched(j)
           \/ NotificationSent(j)
  BY DEF JobStep, JobNext

\* A message repeats the ids of another, or of the job that publishes it.
LEMMA MessageStep ==
  ASSUME TypeOK, [Next]_vars, NEW m \in Messages'
  PROVE  \/ \E o \in Messages : o.stage = m.stage /\ o.attempt = m.attempt
         \/ \E j \in jobs : /\ PublishStage(j) /\ Advance(j, "written")
                            /\ j.stage = m.stage /\ j.attempt = m.attempt
<1> SUFFICES ASSUME m \notin Messages
             PROVE  \/ \E o \in Messages : o.stage = m.stage /\ o.attempt = m.attempt
                    \/ \E j \in jobs : /\ PublishStage(j) /\ Advance(j, "written")
                                       /\ j.stage = m.stage /\ j.attempt = m.attempt
  OBVIOUS
<1>1. CASE UNCHANGED <<executeTopic, executing, responseTopic>>
  BY <1>1 DEF Messages
<1>2. CASE InitStep
  BY <1>1, <1>2 DEF InitStep, InitNext, BeginRun, QueueStage, EndInit, topicVars
<1>3. CASE PollStep
  BY <1>1, <1>3 DEF PollStep, PollNext, PollStage, StartJob, topicVars
<1>4. CASE JobStep
  <2>1. PICK j \in jobs :
           \/ FetchStage(j) \/ PublishStage(j) \/ PublishReturns(j)
           \/ RequeueUnpublished(j) \/ ReportDispatchFailure(j)
           \/ RecordUndispatched(j) \/ FinalizeUndispatched(j)
           \/ NotificationSent(j)
    BY <1>4, JobSteps
  <2>2. CASE PublishStage(j)
    <3>1. /\ executing' = executing /\ responseTopic' = responseTopic
          /\ \/ /\ executeTopic' = executeTopic \cup
                      {[stage |-> j.stage, attempt |-> j.attempt]}
                /\ Advance(j, "written")
             \/ executeTopic' = executeTopic
      BY <1>4, <2>2 DEF PublishStage, WriteExecuteMessage, topicVars, JobStep
    <3>2. /\ Advance(j, "written")
          /\ m = [stage |-> j.stage, attempt |-> j.attempt]
      BY <3>1 DEF Messages
    <3> QED
      BY <2>2, <3>1, <3>2
  <2>3. CASE ReportDispatchFailure(j)
    BY <1>1, <1>4, <2>3 DEF ReportDispatchFailure, PublishDLQ, JobStep
  <2> QED
    BY <1>1, <1>4, <2>1, <2>2, <2>3
    DEF FetchStage, PublishReturns, RequeueUnpublished, RecordUndispatched,
        FinalizeUndispatched, NotificationSent, topicVars, JobStep
<1>5. CASE HandlerStep
  <2>1. CASE \E q \in executeTopic : ReceiveRequest(q)
    BY <2>1 DEF ReceiveRequest, ReadExecute, Messages
  <2>2. CASE \E q \in executing, status \in {"SUCCESS", "FAILURE"} : Respond(q, status)
    <3>1. PICK q \in executing, status \in {"SUCCESS", "FAILURE"} : Respond(q, status)
      BY <2>2
    <3>2. m = [stage |-> q.stage, attempt |-> q.attempt, status |-> status]
      BY <3>1 DEF Respond, Messages
    <3> QED
      BY <3>2 DEF Messages
  <2>3. CASE HandlerCrash
    BY <2>3 DEF HandlerCrash, topicVars, Messages
  <2> QED
    BY <1>5, <2>1, <2>2, <2>3 DEF HandlerStep, HandlerNext
<1>6. CASE ConsumerStep
  BY <1>6
  DEF ConsumerStep, ConsumerNext, DropSeenResult, LoseResult, StageSucceeds,
      StageFailsRetryably, StageExhausts, ReleaseChild, SkipDescendant, PassOver,
      SkipNothing, RequeueStage, RecordStage, FinalizeRun, ReportExhausted,
      StartNotification, ReadResponse, PublishDLQ, topicVars, Messages
<1>7. CASE Crash
  BY <1>7 DEF Crash, LoseResultInHand, topicVars, Messages
<1>8. CASE UNCHANGED vars
  BY <1>1, <1>8 DEF vars, topicVars
<1> QED
  BY <1>2, <1>3, <1>4, <1>5, <1>6, <1>7, <1>8 DEF Next, Done

NewJob(s) == [stage |-> s, attempt |-> attempt[s] + 1, pc |-> "fetch"]

\* The poller starts the next attempt of s.
StartsAttempt(s) ==
  /\ s \in Stage
  /\ PollStep
  /\ StartJob(s)
  /\ attempt' = [attempt EXCEPT ![s] = @ + 1]
  /\ jobs' = jobs \cup {NewJob(s)}

\* Job k takes the place of job j.
Moves(j, k) ==
  /\ j \in jobs
  /\ k.stage = j.stage
  /\ k.attempt = j.attempt
  /\ jobs' = (jobs \ {j}) \cup {k}

\* The steps from which a job still publishes or requeues its stage.
LEMMA NewJobs ==
  ASSUME TypeOK, NoAmbiguousWrites, [Next]_vars, NEW k \in jobs', k \notin jobs
  PROVE  \/ \E s \in Stage : StartsAttempt(s) /\ k = NewJob(s)
         \/ k.pc \in {"dlq", "record", "finalize", "notify"}
         \/ \E j \in jobs :
              /\ JobStep
              /\ Moves(j, k)
              /\ \/ FetchStage(j) /\ k.pc = "publish"
                 \/ PublishStage(j) /\ k.pc = "written"
                 \/ PublishStage(j) /\ k.pc = "requeue" /\ UNCHANGED topicVars
<1>1. CASE InitStep \/ HandlerStep \/ Crash \/ UNCHANGED vars
  BY <1>1
  DEF InitStep, InitNext, BeginRun, QueueStage, EndInit, HandlerStep, Crash, vars,
              poolVars
<1>2. CASE PollStep
  BY <1>2 DEF PollStep, PollNext, PollStage, StartJob, StartsAttempt, NewJob,
              IncrementAttempt, Go, poolVars
<1>3. CASE JobStep
  <2>1. PICK j \in jobs :
           \/ FetchStage(j) \/ PublishStage(j) \/ PublishReturns(j)
           \/ RequeueUnpublished(j) \/ ReportDispatchFailure(j)
           \/ RecordUndispatched(j) \/ FinalizeUndispatched(j)
           \/ NotificationSent(j)
    BY <1>3, JobSteps
  <2>2. PICK pc \in {"publish", "written", "requeue", "dlq", "record", "finalize"} :
          /\ Advance(j, pc)
          /\ pc = "publish" => FetchStage(j)
          /\ pc = "written" => PublishStage(j)
          /\ pc = "requeue" => PublishStage(j) /\ UNCHANGED topicVars
    BY <2>1
    DEF FetchStage, PublishStage, PublishReturns, RequeueUnpublished,
        ReportDispatchFailure,
        RecordUndispatched, FinalizeUndispatched, NotificationSent, Finish, Fault,
        NoAmbiguousWrites
  <2>3. PICK l \in Job : /\ l.stage = j.stage /\ l.attempt = j.attempt /\ l.pc = pc
                         /\ jobs' = (jobs \ {j}) \cup {l}
    <3>1. jobs \subseteq Job
      BY Functions
    <3>2. pc \in JobPc
      BY DEF JobPc
    <3> QED
      BY <2>2, <3>1, <3>2, JobMoves
  <2>4. k = l
    BY <2>3
  <2> QED
    BY <1>3, <2>2, <2>3, <2>4 DEF Moves
<1>4. CASE ConsumerStep
  <2>1. StartNotification
    BY <1>4
    DEF ConsumerStep, ConsumerNext, DropSeenResult, LoseResult, StageSucceeds,
        StageFailsRetryably, StageExhausts, ReleaseChild, SkipDescendant, PassOver,
        SkipNothing, RequeueStage, RecordStage, FinalizeRun, ReportExhausted, poolVars
  <2> QED
    BY <2>1 DEF StartNotification, Go
<1> QED
  BY <1>1, <1>2, <1>3, <1>4 DEF Next, Done

\* A result is taken from a message, and never forgotten.
LEMMA SeenStep ==
  ASSUME TypeOK, [Next]_vars, NEW s, NEW n, FirstSeen(s, n) # FirstSeen(s, n)'
  PROVE  /\ FirstSeen(s, n)
         /\ \E m \in Messages : m.stage = s /\ m.attempt = n
         /\ attempt' = attempt
<1>1. UNCHANGED attempt /\ seenResult \subseteq seenResult'
        /\ \A e \in seenResult' \ seenResult :
             \E r \in responseTopic : e = <<r.stage, r.attempt>>
  <2>0. seenResult # seenResult'
    BY DEF FirstSeen
  <2>1. CASE InitStep
    BY <2>0, <2>1 DEF InitStep, InitNext, BeginRun, QueueStage, EndInit, redisVars
  <2>2. CASE PollStep
    BY <2>0, <2>2 DEF PollStep, PollNext, PollStage, StartJob
  <2>3. CASE JobStep
    BY <2>0, <2>3
    DEF JobStep, JobNext, FetchStage, PublishStage, PublishReturns, RequeueUnpublished,
        ReportDispatchFailure, RecordUndispatched, FinalizeUndispatched,
        NotificationSent,
        redisVars
  <2>4. CASE HandlerStep
    BY <2>0, <2>4
    DEF HandlerStep, HandlerNext, ReceiveRequest, Respond, HandlerCrash, redisVars
  <2>5. CASE ConsumerStep
    <3>1. PICK r \in responseTopic : MarkResultSeen(r.stage, r.attempt) /\ UNCHANGED attempt
      BY <2>0, <2>5
      DEF ConsumerStep, ConsumerNext, DropSeenResult, LoseResult, StageSucceeds,
          StageFailsRetryably, StageExhausts, ReleaseChild, SkipDescendant, PassOver,
          SkipNothing, RequeueStage, RecordStage, FinalizeRun, ReportExhausted,
          StartNotification, redisVars
    <3> QED
      BY <3>1 DEF MarkResultSeen
  <2>6. CASE Crash
    BY <2>0, <2>6 DEF Crash, LoseResultInHand, MarkResultSeen
  <2>7. CASE UNCHANGED vars
    BY <2>0, <2>7 DEF vars, redisVars
  <2> QED
    BY <2>1, <2>2, <2>3, <2>4, <2>5, <2>6, <2>7 DEF Next, Done
<1>2. <<s, n>> \in seenResult' \ seenResult
  BY <1>1 DEF FirstSeen
<1>3. PICK r \in responseTopic : r.stage = s /\ r.attempt = n
  BY <1>1, <1>2
<1> QED
  BY <1>1, <1>2, <1>3 DEF FirstSeen, Messages

\* An attempt is counted when the poller starts it, even if it comes to
\* nothing.
LEMMA AttemptStep ==
  ASSUME TypeOK, [Next]_vars, NEW s \in Stage
  PROVE  \/ attempt'[s] = attempt[s]
         \/ s \in polled /\ attempt'[s] = attempt[s] + 1
<1>0. attempt \in [Stage -> Nat]
  BY Functions
<1>1. attempt' = attempt \/ \E t \in polled : IncrementAttempt(t)
  <2>1. CASE InitStep
    BY <2>1 DEF InitStep, InitNext, BeginRun, QueueStage, EndInit, redisVars
  <2>2. CASE PollStep
    BY <2>2 DEF PollStep, PollNext, PollStage, StartJob
  <2>3. CASE JobStep
    BY <2>3
    DEF JobStep, JobNext, FetchStage, PublishStage, PublishReturns, RequeueUnpublished,
        ReportDispatchFailure, RecordUndispatched, FinalizeUndispatched,
        NotificationSent,
        redisVars
  <2>4. CASE HandlerStep
    BY <2>4
    DEF HandlerStep, HandlerNext, ReceiveRequest, Respond, HandlerCrash, redisVars
  <2>5. CASE ConsumerStep
    BY <2>5
    DEF ConsumerStep, ConsumerNext, DropSeenResult, LoseResult, StageSucceeds,
        StageFailsRetryably, StageExhausts, ReleaseChild, SkipDescendant, PassOver,
        SkipNothing, RequeueStage, RecordStage, FinalizeRun, ReportExhausted,
        StartNotification, redisVars
  <2>6. CASE Crash
    BY <2>6 DEF Crash
  <2>7. CASE UNCHANGED vars
    BY <2>7 DEF vars, redisVars
  <2> QED
    BY <2>1, <2>2, <2>3, <2>4, <2>5, <2>6, <2>7 DEF Next, Done
<1>2. CASE \E t \in polled : IncrementAttempt(t)
  BY <1>0, <1>2 DEF IncrementAttempt
<1> QED
  BY <1>1, <1>2

\* An attempt is under way from the start of its job; nothing starts another.
LEMMA CarriedStep ==
  ASSUME TypeOK, NoAmbiguousWrites, [Next]_vars,
         NEW s, NEW n, Carried(s, n)', ~Carried(s, n)
  PROVE  StartsAttempt(s) /\ n = attempt[s] + 1
<1>1. CASE \E m \in Messages' : m.stage = s /\ m.attempt = n
  BY <1>1, MessageStep DEF Carried, Sending, PublishStage
<1>2. CASE \E j \in jobs' : Sending(j) /\ j.stage = s /\ j.attempt = n
  <2>1. PICK k \in jobs' : Sending(k) /\ k.stage = s /\ k.attempt = n
    BY <1>2
  <2>2. k \notin jobs
    BY <2>1 DEF Carried
  <2>3. ASSUME NEW j \in jobs, Moves(j, k), FetchStage(j) \/ PublishStage(j)
        PROVE  FALSE
    BY <2>1, <2>3 DEF Moves, FetchStage, PublishStage, Carried, Sending
  <2>4. PICK t \in Stage : StartsAttempt(t) /\ k = NewJob(t)
    BY <2>1, <2>2, <2>3, NewJobs DEF Sending
  <2> QED
    BY <2>1, <2>4 DEF NewJob
<1> QED
  BY <1>1, <1>2 DEF Carried, Sending

-----------------------------------------------------------------------------
(* The numbering of the attempts.                                          *)

LEMMA NumberedStep ==
  ASSUME TypeOK, NoAmbiguousWrites, Numbered, [Next]_vars
  PROVE  Numbered'
<1> SUFFICES ASSUME NEW s \in Stage, NEW n \in Nat, Carried(s, n)' \/ ~FirstSeen(s, n)'
             PROVE  n \in 1..attempt'[s]
  BY DEF Numbered
<1>1. attempt[s] \in Nat /\ attempt'[s] \in {attempt[s], attempt[s] + 1}
  BY AttemptStep, Functions
<1>2. CASE Carried(s, n) \/ ~FirstSeen(s, n)
  <2>1. n \in 1..attempt[s]
    BY <1>2 DEF Numbered
  <2> QED
    BY <1>1, <2>1
<1>3. CASE ~Carried(s, n) /\ FirstSeen(s, n)
  <2>1. Carried(s, n)'
    BY <1>3, SeenStep DEF Carried
  <2>2. StartsAttempt(s) /\ n = attempt[s] + 1
    BY <1>3, <2>1, CarriedStep
  <2>3. attempt'[s] = attempt[s] + 1
    BY <2>2, Functions DEF StartsAttempt
  <2> QED
    BY <1>1, <2>2, <2>3
<1> QED
  BY <1>2, <1>3

\* The number of a new attempt is free.
LEMMA NextNumberFree ==
  ASSUME TypeOK, Numbered, NEW s \in Stage
  PROVE  ~Carried(s, attempt[s] + 1) /\ FirstSeen(s, attempt[s] + 1)
<1>1. attempt[s] \in Nat
  BY Functions
<1> QED
  BY <1>1 DEF Numbered

LEMMA OwnAttemptStep ==
  ASSUME TypeOK, NoAmbiguousWrites, Numbered, OwnAttempt, [Next]_vars
  PROVE  OwnAttempt'
<1>1. ASSUME NEW k \in jobs', Sending(k), k \notin jobs
      PROVE  \/ \E s \in Stage : StartsAttempt(s) /\ k = NewJob(s)
             \/ \E j \in jobs : Sending(j) /\ Moves(j, k)
  BY <1>1, NewJobs DEF Sending, FetchStage, PublishStage
<1>2. ASSUME NEW j \in jobs', NEW k \in jobs', Sending(j), Sending(k), k \notin jobs,
             j.stage = k.stage, j.attempt = k.attempt, j # k
      PROVE  FALSE
  <2>1. CASE \E s \in Stage : StartsAttempt(s) /\ k = NewJob(s)
    <3>1. PICK s \in Stage : StartsAttempt(s) /\ k = NewJob(s)
      BY <2>1
    <3>2. j \in jobs /\ j.stage = s /\ j.attempt = attempt[s] + 1
      BY <1>2, <3>1 DEF StartsAttempt, NewJob
    <3> QED
      BY <1>2, <3>2, NextNumberFree DEF Carried
  <2>2. CASE \E i \in jobs : Sending(i) /\ Moves(i, k)
    BY <1>2, <2>2 DEF Moves, OwnAttempt
  <2> QED
    BY <1>1, <1>2, <2>1, <2>2
<1>3. ASSUME NEW j \in jobs', NEW k \in jobs', Sending(j), Sending(k),
             j.stage = k.stage, j.attempt = k.attempt
      PROVE  j = k
  BY <1>2, <1>3 DEF OwnAttempt
<1>4. ASSUME NEW k \in jobs', k.pc \in {"fetch", "publish"}
      PROVE  /\ FirstSeen(k.stage, k.attempt)
             /\ \A m \in Messages : ~(m.stage = k.stage /\ m.attempt = k.attempt)
             /\ \A j \in jobs : j.pc = "publish" /\ j.stage = k.stage /\ j.attempt = k.attempt
                               => j = k
  <2>1. CASE k \in jobs
    BY <1>4, <2>1 DEF OwnAttempt, Sending
  <2>2. CASE \E s \in Stage : StartsAttempt(s) /\ k = NewJob(s)
    BY <2>2, NextNumberFree DEF NewJob, Carried, Sending
  <2>3. CASE \E j \in jobs : Moves(j, k) /\ FetchStage(j)
    BY <2>3 DEF Moves, FetchStage, OwnAttempt, Sending
  <2> QED
    BY <1>4, <2>1, <2>2, <2>3, NewJobs
<1>5. ASSUME NEW k \in jobs', k.pc \in {"fetch", "publish"}
      PROVE  FirstSeen(k.stage, k.attempt)'
  BY <1>4, <1>5, SeenStep
<1>6. ASSUME NEW k \in jobs', k.pc \in {"fetch", "publish"},
             NEW m \in Messages', m.stage = k.stage, m.attempt = k.attempt
      PROVE  FALSE
  <2>1. PICK j \in jobs : /\ PublishStage(j) /\ Advance(j, "written")
                         /\ j.stage = m.stage /\ j.attempt = m.attempt
    BY <1>4, <1>6, MessageStep
  <2>2. j = k
    BY <1>4, <1>6, <2>1 DEF PublishStage
  <2>3. j \in Job
    BY Functions
  <2> QED
    BY <1>6, <2>1, <2>2, <2>3 DEF Advance, PublishStage, Job
<1> QED
  BY <1>3, <1>5, <1>6 DEF OwnAttempt, Sending

-----------------------------------------------------------------------------
(* The places of a stage.                                                  *)

\* A message or a job of a result that is not yet taken.
LEMMA InHand ==
  ASSUME TypeOK, Numbered, OwnAttempt
  PROVE  /\ \A m \in Messages : FirstSeen(m.stage, m.attempt) =>
                                m.attempt \in Unanswered(m.stage)
         /\ \A j \in jobs : j.pc \in {"fetch", "publish"} =>
                            j.attempt \in Unanswered(j.stage)
<1>1. ASSUME NEW s \in Stage, NEW n \in Nat, Carried(s, n), FirstSeen(s, n)
      PROVE  n \in Unanswered(s)
  <2>1. n \in 1..attempt[s]
    BY <1>1 DEF Numbered
  <2> QED
    BY <1>1, <2>1 DEF Unanswered, Carried, Sending, Messages
<1>2. \A j \in jobs : j.stage \in Stage /\ j.attempt \in Nat
  BY Functions DEF Job
<1>3. \A m \in Messages : m.stage \in Stage /\ m.attempt \in Nat
  BY Functions
<1> QED
  BY <1>1, <1>2, <1>3 DEF Carried, OwnAttempt, Sending

LEMMA UnansweredStep ==
  ASSUME TypeOK, NoAmbiguousWrites, Numbered, [Next]_vars, NEW s \in Stage,
         NEW n \in Unanswered(s)'
  PROVE  \/ n \in Unanswered(s)
         \/ StartsAttempt(s) /\ n = attempt[s] + 1
<1>1. n \in Nat /\ FirstSeen(s, n)' /\ Carried(s, n)'
  BY DEF Unanswered, Carried, Sending, Messages
<1>2. FirstSeen(s, n)
  BY <1>1, SeenStep
<1>3. CASE Carried(s, n)
  <2>1. n \in 1..attempt[s]
    BY <1>1, <1>3 DEF Numbered
  <2> QED
    BY <1>2, <1>3, <2>1 DEF Unanswered, Carried, Sending, Messages
<1> QED
  BY <1>1, <1>3, CarriedStep

\* A stage has no attempt under way once the result of one is taken, or the
\* attempt is given up.
LEMMA LastUnanswered ==
  ASSUME TypeOK, NoAmbiguousWrites, Numbered, [Next]_vars, NEW s \in Stage,
         Exclusive(s), ~StartsAttempt(s), NEW n \in Unanswered(s),
         ~FirstSeen(s, n)' \/ ~Carried(s, n)'
  PROVE  Unanswered(s)' = {}
<1> SUFFICES ASSUME NEW k \in Unanswered(s)'
             PROVE  FALSE
  OBVIOUS
<1>1. k \in Unanswered(s)
  BY UnansweredStep
<1>2. k = n
  BY <1>1 DEF Exclusive
<1> QED
  BY <1>2 DEF Unanswered, Carried, Sending, Messages

LEMMA TriggerGain ==
  ASSUME TypeOK, [Next]_vars, NEW s \in Stage, s \in jobTrigger', s \notin jobTrigger
  PROVE  \/ InitStep /\ QueueStage(s) /\ DependentOn[s] = {} /\ UNCHANGED deps
         \/ /\ ConsumerStep /\ ReleaseChild(s) /\ deps[s] = 1
            /\ deps' = [deps EXCEPT ![s] = @ - 1]
         \/ ConsumerStep /\ RequeueStage /\ Retrying(s)
         \/ JobStep /\ \E j \in jobs : RequeueUnpublished(j) /\ j.stage = s
<1>1. CASE InitStep
  BY <1>1
  DEF InitStep, InitNext, BeginRun, QueueStage, EndInit, redisVars, ScheduleStage
<1>2. CASE PollStep
  BY <1>2 DEF PollStep, PollNext, PollStage, StartJob, TakeFromQueue
<1>3. CASE JobStep
  <2>1. PICK j \in jobs :
           \/ FetchStage(j) \/ PublishStage(j) \/ PublishReturns(j)
           \/ RequeueUnpublished(j) \/ ReportDispatchFailure(j)
           \/ RecordUndispatched(j) \/ FinalizeUndispatched(j)
           \/ NotificationSent(j)
    BY <1>3, JobSteps
  <2>2. RequeueUnpublished(j)
    BY <2>1
    DEF FetchStage, PublishStage, PublishReturns, ReportDispatchFailure,
        RecordUndispatched, FinalizeUndispatched, NotificationSent, redisVars
  <2> QED
    BY <1>3, <2>2 DEF RequeueUnpublished, ScheduleStage
<1>4. CASE HandlerStep
  BY <1>4 DEF HandlerStep, HandlerNext, ReceiveRequest, Respond, HandlerCrash, redisVars
<1>5. CASE ConsumerStep
  <2>1. RequeueStage \/ \E c \in Stage : ReleaseChild(c)
    BY <1>5
    DEF ConsumerStep, ConsumerNext, DropSeenResult, LoseResult, StageSucceeds,
        StageFailsRetryably, StageExhausts, SkipDescendant, PassOver,
        SkipNothing, RecordStage, FinalizeRun, ReportExhausted,
        StartNotification, redisVars
  <2>2. CASE RequeueStage
    BY <1>5, <2>2 DEF RequeueStage, ScheduleStage, Retrying
  <2>3. ASSUME NEW c \in Stage, ReleaseChild(c)
        PROVE  c = s /\ deps[s] = 1 /\ deps' = [deps EXCEPT ![s] = @ - 1]
    <3>1. DecrementDeps(c)
      BY <2>3 DEF ReleaseChild, CountDown
    <3>2. deps[c] - 1 = 0 /\ c = s
      BY <3>1 DEF DecrementDeps, ScheduleStage, Ready
    <3>3. deps[c] \in Int
      BY Functions
    <3> QED
      BY <3>1, <3>2, <3>3 DEF DecrementDeps, CountDown
  <2> QED
    BY <1>5, <2>1, <2>2, <2>3
<1>6. CASE Crash \/ UNCHANGED vars
  BY <1>6 DEF Crash, vars, redisVars
<1> QED
  BY <1>1, <1>2, <1>3, <1>4, <1>5, <1>6 DEF Next, Done

LEMMA PolledGain ==
  ASSUME [Next]_vars, NEW s \in Stage, s \in polled', s \notin polled
  PROVE  PollStep /\ PollStage(s)
<1>1. PollStep
  BY DEF Next, Done, InitStep, JobStep, JobNext, HandlerStep, ConsumerStep, Crash, vars
<1> QED
  BY <1>1 DEF PollStep, PollNext, PollStage, StartJob

LEMMA RetryGain ==
  ASSUME TypeOK, [Next]_vars, NEW s \in Stage, Retrying(s)', ~Retrying(s)
  PROVE  /\ ConsumerStep
         /\ \E r \in responseTopic : StageFailsRetryably(r) /\ r.stage = s
<1>1. consumer' # consumer /\ consumer' # Idle
  BY DEF Retrying, Idle
<1>2. ConsumerStep
  BY <1>1 DEF Next, Done, InitStep, PollStep, JobStep, HandlerStep, Crash, vars
<1>3. consumer.pc # "read" =>
        /\ consumer.pc # "retry" \/ consumer.resp.stage # s
        /\ \A pc \in ConsumerPc : [consumer EXCEPT !.pc = pc].pc = pc
        /\ \A pc \in ConsumerPc : [consumer EXCEPT !.pc = pc, !.visited = {}].pc = pc
        /\ \A S \in SUBSET Stage :
             /\ [consumer EXCEPT !.todo = S].pc = consumer.pc
             /\ [consumer EXCEPT !.todo = S].resp = consumer.resp
  BY Functions DEF Retrying
<1>4. CASE \E r \in responseTopic : StageFailsRetryably(r)
  <2>1. PICK r \in responseTopic : StageFailsRetryably(r)
    BY <1>4
  <2>2. consumer'.resp = r
    BY <2>1 DEF StageFailsRetryably, Handle
  <2> QED
    BY <1>2, <2>1, <2>2 DEF Retrying
<1>5. CASE \E r \in responseTopic : StageSucceeds(r) \/ StageExhausts(r)
  BY <1>5 DEF StageSucceeds, StageExhausts, Handle, Retrying
<1>6. CASE \E c \in Stage : SkipDescendant(c) \/ PassOver(c)
  BY <1>6 DEF SkipDescendant, PassOver, Handle, Retrying
<1>7. CASE SkipNothing \/ \E c \in Stage : ReleaseChild(c)
  <2>1. consumer.pc \in {"skip", "release"}
    BY <1>7 DEF SkipNothing, ReleaseChild
  <2>2. consumer.todo \subseteq Stage
    BY <2>1, Functions
  <2>3. PICK S \in SUBSET Stage : consumer' = [consumer EXCEPT !.todo = S]
    BY <1>7, <2>2 DEF SkipNothing, ReleaseChild
  <2> QED
    BY <1>3, <2>1, <2>3 DEF Retrying
<1>8. CASE RecordStage \/ FinalizeRun \/ ReportExhausted
  <2>1. consumer.pc \in {"skip", "release", "finalize", "dlq"}
    BY <1>8 DEF RecordStage, FinalizeRun, ReportExhausted
  <2>2. \/ consumer' = Idle
        \/ consumer' = [consumer EXCEPT !.pc = "finalize", !.visited = {}]
        \/ consumer' = [consumer EXCEPT !.pc = "dlq", !.visited = {}]
        \/ consumer' = [consumer EXCEPT !.pc = "notify"]
    BY <1>8 DEF RecordStage, FinalizeRun, ReportExhausted, AfterRecord
  <2> QED
    BY <1>1, <1>3, <2>1, <2>2 DEF Retrying, ConsumerPc
<1>9. CASE RequeueStage \/ StartNotification
  BY <1>1, <1>9 DEF RequeueStage, StartNotification
<1> QED
  BY <1>1, <1>2, <1>4, <1>5, <1>6, <1>7, <1>8, <1>9
  DEF ConsumerStep, ConsumerNext, DropSeenResult, LoseResult

LEMMA UnscheduledStep ==
  ASSUME TypeOK, CountedAfterInit, [Next]_vars, NEW s \in Stage, Unscheduled(s)'
  PROVE  Unscheduled(s)
<1>0. deps \in [Stage -> Int]
  BY Functions
<1>1. CASE InitStep
  BY <1>0, <1>1
  DEF InitStep, InitNext, BeginRun, QueueStage, EndInit, redisVars, poolVars,
      Unscheduled
<1>2. CASE UNCHANGED <<initJob, initTodo, deps>>
  BY <1>2 DEF Unscheduled
<1>3. CASE UNCHANGED <<initJob, initTodo>> /\ \E c \in Stage : ReleaseChild(c)
  <2>1. PICK c \in Stage : ReleaseChild(c)
    BY <1>3
  <2>2. deps' = deps \/ deps' = [deps EXCEPT ![c] = @ - 1]
    BY <2>1 DEF ReleaseChild, DecrementDeps, CountDown
  <2>3. deps'[s] > 0 => deps[s] > 0
    BY <1>0, <2>2
  <2> QED
    BY <1>3, <2>3 DEF Unscheduled
<1>4. CASE PollStep
  BY <1>2, <1>4 DEF PollStep, PollNext, PollStage, StartJob, poolVars, Go
<1>5. CASE JobStep
  BY <1>2, <1>5
  DEF JobStep, JobNext, FetchStage, PublishStage, PublishReturns, RequeueUnpublished,
      ReportDispatchFailure, RecordUndispatched, FinalizeUndispatched, NotificationSent,
      redisVars, Advance, Finish
<1>6. CASE HandlerStep
  BY <1>2, <1>6
  DEF HandlerStep, HandlerNext, ReceiveRequest, Respond, HandlerCrash, redisVars,
      poolVars
<1>7. CASE ConsumerStep
  BY <1>2, <1>3, <1>7
  DEF ConsumerStep, ConsumerNext, DropSeenResult, LoseResult, StageSucceeds,
      StageFailsRetryably, StageExhausts, ReleaseChild, SkipDescendant, PassOver,
      SkipNothing, RequeueStage, RecordStage, FinalizeRun, ReportExhausted,
      StartNotification, redisVars, poolVars, Go
<1>8. CASE Crash \/ UNCHANGED vars
  BY <1>8 DEF Crash, vars, redisVars, poolVars, Unscheduled
<1> QED
  BY <1>1, <1>4, <1>5, <1>6, <1>7, <1>8 DEF Next, Done

LEMMA RequeueGain ==
  ASSUME TypeOK, NoAmbiguousWrites, [Next]_vars, NEW s \in Stage,
         NEW k \in Requeuing(s)', k \notin Requeuing(s)
  PROVE  \E j \in jobs : /\ JobStep /\ PublishStage(j) /\ UNCHANGED topicVars
                        /\ Moves(j, k) /\ j.stage = s
<1>1. k \in jobs' /\ k \notin jobs /\ k.pc = "requeue" /\ k.stage = s
  BY DEF Requeuing
<1> QED
  BY <1>1, NewJobs DEF NewJob, Moves

LEMMA FewerPlaces ==
  ASSUME NEW s, Exclusive(s),
         Unscheduled(s)' => Unscheduled(s),
         s \in jobTrigger' => s \in jobTrigger,
         s \in polled' => s \in polled,
         Retrying(s)' => Retrying(s),
         Requeuing(s)' \subseteq Requeuing(s),
         Unanswered(s)' \subseteq Unanswered(s)
  PROVE  Exclusive(s)'
BY DEF Exclusive, Active

\* A stage leaves a place for another; the parents release it when it is in
\* none.
LEMMA ExclusiveStep ==
  ASSUME TypeOK, NoAmbiguousWrites, CountedAfterInit, Numbered, OwnAttempt, [Next]_vars,
         NEW s \in Stage, Exclusive(s)
  PROVE  Exclusive(s)'
<1>0. deps \in [Stage -> Int] /\ attempt \in [Stage -> Nat] /\ deps[s] \in Int
  BY Functions
<1>1. Unscheduled(s)' => Unscheduled(s)
  BY UnscheduledStep
<1>2. CASE s \in jobTrigger' /\ s \notin jobTrigger
  <2>0. ~StartsAttempt(s)
    BY <1>2 DEF StartsAttempt, StartJob
  <2>1. Unanswered(s)' \subseteq Unanswered(s)
    BY <2>0, UnansweredStep
  <2>2. CASE InitStep /\ QueueStage(s) /\ UNCHANGED deps
    <3>1. Unscheduled(s) /\ ~Unscheduled(s)'
      BY <1>0, <2>2 DEF QueueStage, Unscheduled, CountedAfterInit, poolVars
    <3>2. UNCHANGED <<polled, consumer, jobs>>
      BY <2>2 DEF InitStep, QueueStage, poolVars
    <3> QED
      BY <2>1, <3>1, <3>2 DEF Exclusive, Active, Retrying, Requeuing
  <2>3. CASE /\ ConsumerStep /\ ReleaseChild(s) /\ deps[s] = 1
             /\ deps' = [deps EXCEPT ![s] = @ - 1]
    <3>1. UNCHANGED <<polled, initTodo, jobs, initJob>>
      BY <2>3 DEF ConsumerStep, ReleaseChild, poolVars
    <3>2. Unscheduled(s) /\ ~Unscheduled(s)'
      BY <1>0, <2>3, <3>1 DEF Unscheduled, CountedAfterInit
    <3>3. ~Retrying(s)'
      BY <2>3, RetryGain, <3>2 DEF Exclusive, Active, ReleaseChild, StageFailsRetryably
    <3> QED
      BY <2>1, <3>1, <3>2, <3>3 DEF Exclusive, Active, Requeuing
  <2>4. CASE ConsumerStep /\ RequeueStage /\ Retrying(s)
    <3>1. UNCHANGED <<polled, jobs>> /\ ~Retrying(s)'
      BY <2>4 DEF ConsumerStep, RequeueStage, poolVars, Retrying, Idle
    <3> QED
      BY <1>1, <2>1, <2>4, <3>1 DEF Exclusive, Active, Requeuing
  <2>5. CASE JobStep /\ \E j \in jobs : RequeueUnpublished(j) /\ j.stage = s
    <3>1. PICK j \in jobs : RequeueUnpublished(j) /\ j.stage = s
      BY <2>5
    <3>2. UNCHANGED <<polled, consumer>> /\ jobs' = jobs \ {j} /\ j \in Requeuing(s)
      BY <2>5, <3>1 DEF JobStep, JobNext, RequeueUnpublished, Finish, Requeuing
    <3>3. Requeuing(s)' = {}
      BY <3>2 DEF Exclusive, Requeuing
    <3> QED
      BY <1>1, <2>1, <3>2, <3>3 DEF Exclusive, Active, Retrying
  <2> QED
    BY <1>2, <2>2, <2>3, <2>4, <2>5, TriggerGain
<1>3. CASE s \in polled' /\ s \notin polled
  <2>1. PollStep /\ PollStage(s)
    BY <1>3, PolledGain
  <2>2. UNCHANGED <<consumer, jobs>> /\ s \in jobTrigger /\ s \notin jobTrigger'
    BY <2>1 DEF PollStep, PollStage, TakeFromQueue, poolVars
  <2>3. Unanswered(s)' \subseteq Unanswered(s)
    BY <1>3, UnansweredStep DEF StartsAttempt, StartJob
  <2> QED
    BY <1>1, <2>2, <2>3 DEF Exclusive, Active, Retrying, Requeuing
<1>4. CASE Retrying(s)' /\ ~Retrying(s)
  <2>1. PICK r \in responseTopic : ConsumerStep /\ StageFailsRetryably(r) /\ r.stage = s
    BY <1>4, RetryGain
  <2>2. UNCHANGED <<jobTrigger, polled, jobs, attempt>>
    BY <2>1 DEF ConsumerStep, StageFailsRetryably, poolVars
  <2>3. r.attempt \in Unanswered(s) /\ ~FirstSeen(s, r.attempt)'
    BY <2>1, InHand DEF StageFailsRetryably, Messages, MarkResultSeen, FirstSeen
  <2>4. ~StartsAttempt(s)
    BY <1>0, <2>2 DEF StartsAttempt
  <2>5. Unanswered(s)' = {}
    BY <2>3, <2>4, LastUnanswered
  <2> QED
    BY <1>1, <2>2, <2>3, <2>5 DEF Exclusive, Active, Requeuing
<1>5. CASE \E k \in Requeuing(s)' : k \notin Requeuing(s)
  <2>1. PICK k \in Requeuing(s)' : k \notin Requeuing(s)
    BY <1>5
  <2>2. PICK j \in jobs : /\ JobStep /\ PublishStage(j) /\ UNCHANGED topicVars
                         /\ Moves(j, k) /\ j.stage = s
    BY <2>1, RequeueGain
  <2>3. UNCHANGED <<jobTrigger, polled, consumer, attempt, Messages>>
    BY <2>2 DEF JobStep, JobNext, PublishStage, redisVars, topicVars, Messages
  <2>4. j.attempt \in Unanswered(s) /\ j.pc = "publish"
    BY <2>2, InHand DEF PublishStage
  <2>5. k.pc = "requeue"
    BY <2>1 DEF Requeuing
  <2>6. ~Carried(s, j.attempt)'
    BY <2>2, <2>3, <2>4, <2>5 DEF Moves, Carried, OwnAttempt, Sending
  <2>7. ~StartsAttempt(s)
    BY <1>0, <2>3 DEF StartsAttempt
  <2>8. Unanswered(s)' = {}
    BY <2>4, <2>6, <2>7, LastUnanswered
  <2>9. Requeuing(s) = {}
    BY <2>4 DEF Exclusive
  <2>10. \A i \in Requeuing(s)' : i = k
    BY <2>2, <2>9 DEF Requeuing, Moves
  <2> QED
    BY <1>1, <2>3, <2>4, <2>8, <2>10 DEF Exclusive, Active, Retrying
<1>6. CASE \E n \in Unanswered(s)' : n \notin Unanswered(s)
  <2>1. StartsAttempt(s)
    BY <1>6, UnansweredStep
  <2>2. s \in polled /\ s \notin polled' /\ UNCHANGED <<jobTrigger, consumer>>
    BY <2>1 DEF StartsAttempt, StartJob, PollStep
  <2>3. Requeuing(s)' = Requeuing(s)
    BY <2>1 DEF StartsAttempt, NewJob, Requeuing
  <2>4. \A n \in Unanswered(s)' : n = attempt[s] + 1
    BY <2>2, UnansweredStep DEF Exclusive
  <2> QED
    BY <1>1, <2>2, <2>3, <2>4 DEF Exclusive, Active, Retrying
<1> QED
  BY <1>1, <1>2, <1>3, <1>4, <1>5, <1>6, FewerPlaces

\* A stage gets into the first place from Init, as a root, or from its last
\* parent.
LEMMA ActiveStep ==
  ASSUME TypeOK, NoAmbiguousWrites, CountedAfterInit, Numbered, OwnAttempt, [Next]_vars,
         NEW s \in Stage, Active(s)', ~Active(s)
  PROVE  /\ Unscheduled(s)
         /\ DependentOn[s] = {} \/ (ReleaseChild(s) /\ deps[s] = 1)
<1>1. s \in jobTrigger' /\ s \notin jobTrigger
  <2>1. s \in polled' => s \in polled
    BY PolledGain DEF PollStage, Active
  <2>2. ~Retrying(s)'
    <3>1. SUFFICES ASSUME Retrying(s)'
                   PROVE  FALSE
      OBVIOUS
    <3>2. PICK r \in responseTopic : StageFailsRetryably(r) /\ r.stage = s
      BY <3>1, RetryGain DEF Active
    <3> QED
      BY <3>2, InHand DEF StageFailsRetryably, Messages, Active
  <2>3. Requeuing(s)' = {}
    <3>1. SUFFICES ASSUME NEW k \in Requeuing(s)'
                   PROVE  FALSE
      OBVIOUS
    <3>2. PICK j \in jobs : PublishStage(j) /\ j.stage = s
      BY <3>1, RequeueGain DEF Active
    <3> QED
      BY <3>2, InHand DEF PublishStage, Active
  <2>4. Unanswered(s)' = {}
    BY UnansweredStep DEF StartsAttempt, StartJob, Active
  <2> QED
    BY <2>1, <2>2, <2>3, <2>4 DEF Active
<1>2. ~(RequeueStage /\ Retrying(s))
  BY DEF Active
<1>3. ~\E j \in jobs : RequeueUnpublished(j) /\ j.stage = s
  BY DEF Active, Requeuing, RequeueUnpublished
<1>4. CASE QueueStage(s) /\ DependentOn[s] = {}
  BY <1>4 DEF QueueStage, Unscheduled
<1>5. CASE ReleaseChild(s) /\ deps[s] = 1
  BY <1>5 DEF Unscheduled
<1> QED
  BY <1>1, <1>2, <1>3, <1>4, <1>5, TriggerGain

\* The first result of an attempt.
TakesResult(r) ==
  /\ ConsumerStep
  /\ FirstSeen(r.stage, r.attempt)
  /\ MarkResultSeen(r.stage, r.attempt)
  /\ UNCHANGED <<attempt, deps, jobTrigger, poolVars, polled, initTodo>>

\* The status key is written, or the write fails and is missing.
Writes(s, status) ==
  \/ stageStatus'[s] = status /\ s \notin statusLost'
  \/ stageStatus'[s] = stageStatus[s] /\ s \in statusLost'

Ends(s, how) == fate'[s] = how /\ Writes(s, how)

SameStatus(s) ==
  /\ stageStatus'[s] = stageStatus[s]
  /\ fate'[s] = fate[s]
  /\ s \in statusLost' <=> s \in statusLost

LEMMA StatusWrites ==
  ASSUME TypeOK, NEW s \in Stage, NEW t \in Stage, NEW done \in BOOLEAN
  PROVE  /\ \A x : SetStageStatus(t, x, done) /\ UNCHANGED fate =>
              \/ s = t /\ Writes(s, x) /\ UNCHANGED fate
              \/ SameStatus(s)
         /\ \A x : EndStage(t, x, done) => (s = t /\ Ends(s, x)) \/ SameStatus(s)
<1>0. stageStatus \in [Stage -> StageStatus \cup {""}] /\ fate \in [Stage -> Terminal \cup {"open"}]
  BY Functions
<1>1. ASSUME NEW x, SetStageStatus(t, x, done), s # t
      PROVE  stageStatus'[s] = stageStatus[s] /\ (s \in statusLost' <=> s \in statusLost)
  BY <1>0, <1>1 DEF SetStageStatus
<1>2. ASSUME NEW x, SetStageStatus(t, x, done), s = t
      PROVE  Writes(s, x)
  BY <1>0, <1>2 DEF SetStageStatus, Writes
<1>3. ASSUME NEW x, EndStage(t, x, done)
      PROVE  (s = t /\ Ends(s, x)) \/ SameStatus(s)
  BY <1>0, <1>1, <1>2, <1>3 DEF EndStage, Ends, SameStatus
<1>4. ASSUME NEW x, SetStageStatus(t, x, done), UNCHANGED fate
      PROVE  (s = t /\ Writes(s, x)) \/ SameStatus(s)
  BY <1>1, <1>2, <1>4 DEF SameStatus
<1> QED
  BY <1>3, <1>4

\* Who writes a status, or fails to.
LEMMA StatusStep ==
  ASSUME TypeOK, [Next]_vars, NEW s \in Stage, ~SameStatus(s)
  PROVE  \/ /\ initJob = "load" /\ initJob' = "queue"
            /\ stageStatus'[s] \in {"", "PENDING"} /\ UNCHANGED fate
         \/ s \in polled /\ Writes(s, "RUNNING") /\ UNCHANGED fate
         \/ \E j \in jobs : /\ JobStep /\ j.stage = s /\ j.pc = "fetch" /\ Advance(j, "dlq")
                            /\ Ends(s, "FAILED-EXHAUSTED")
                            /\ UNCHANGED <<jobTrigger, attempt, topicVars>>
         \/ Requeuing(s) # {} /\ Writes(s, "FAILED-RETRY") /\ UNCHANGED fate
         \/ \E r \in responseTopic :
              /\ TakesResult(r) /\ r.stage = s
              /\ \/ /\ StageSucceeds(r) /\ Ends(s, "FIN")
                    /\ output'[s] = "result" \/ s \in outputLost'
                 \/ StageFailsRetryably(r) /\ Writes(s, "FAILED-RETRY") /\ UNCHANGED fate
                 \/ StageExhausts(r) /\ Ends(s, "FAILED-EXHAUSTED")
         \/ SkipDescendant(s) /\ Ends(s, "SKIPPED")
<1>0. output \in [Stage -> Output]
  BY Functions
<1>a. <<stageStatus, fate, statusLost>>' # <<stageStatus, fate, statusLost>>
  BY DEF SameStatus
<1>1. CASE InitStep
  BY <1>a, <1>1
  DEF InitStep, InitNext, BeginRun, PrepareStages, QueueStage, EndInit, redisVars
<1>2. CASE PollStep
  <2>1. PICK t \in Stage, done \in BOOLEAN :
          t \in polled /\ SetStageStatus(t, "RUNNING", done) /\ UNCHANGED fate
    BY <1>a, <1>2 DEF PollStep, PollNext, PollStage, StartJob
  <2> QED
    BY <2>1, StatusWrites
<1>3. CASE JobStep
  <2>1. PICK j \in jobs :
           \/ FetchStage(j) \/ PublishStage(j) \/ PublishReturns(j)
           \/ RequeueUnpublished(j) \/ ReportDispatchFailure(j)
           \/ RecordUndispatched(j) \/ FinalizeUndispatched(j)
           \/ NotificationSent(j)
    BY <1>3, JobSteps
  <2>2. FetchStage(j) \/ RequeueUnpublished(j)
    BY <1>a, <2>1
    DEF PublishStage, PublishReturns, ReportDispatchFailure,
        RecordUndispatched, FinalizeUndispatched, NotificationSent, redisVars
  <2>3. j.stage \in Stage
    BY Functions DEF Job
  <2>4. CASE FetchStage(j)
    <3>1. /\ \E done \in BOOLEAN : EndStage(j.stage, "FAILED-EXHAUSTED", done)
          /\ Advance(j, "dlq") /\ j.pc = "fetch"
          /\ UNCHANGED <<jobTrigger, attempt, topicVars>>
      BY <1>a, <2>4 DEF FetchStage
    <3>2. j.stage = s /\ Ends(s, "FAILED-EXHAUSTED")
      BY <2>3, <3>1, StatusWrites
    <3> QED
      BY <1>3, <3>1, <3>2
  <2>5. CASE RequeueUnpublished(j)
    <3>1. \E done \in BOOLEAN : SetStageStatus(j.stage, "FAILED-RETRY", done)
                                /\ UNCHANGED fate
      BY <2>5 DEF RequeueUnpublished
    <3>2. j.stage = s /\ Writes(s, "FAILED-RETRY") /\ UNCHANGED fate
      BY <2>3, <3>1, StatusWrites
    <3> QED
      BY <2>5, <3>2 DEF RequeueUnpublished, Requeuing
  <2> QED
    BY <2>2, <2>4, <2>5
<1>4. CASE HandlerStep
  BY <1>a, <1>4 DEF HandlerStep, HandlerNext, ReceiveRequest, Respond, HandlerCrash, redisVars
<1>5. CASE ConsumerStep
  <2>1. \/ \E r \in responseTopic :
             StageSucceeds(r) \/ StageFailsRetryably(r) \/ StageExhausts(r)
        \/ \E c \in Stage : SkipDescendant(c)
    BY <1>a, <1>5
    DEF ConsumerStep, ConsumerNext, DropSeenResult, LoseResult, ReleaseChild, PassOver,
        SkipNothing, RequeueStage, RecordStage, FinalizeRun, ReportExhausted,
        StartNotification, redisVars
  <2>2. ASSUME NEW c \in Stage, SkipDescendant(c)
        PROVE  c = s /\ Ends(s, "SKIPPED")
    BY <2>2, StatusWrites DEF SkipDescendant
  <2>3. ASSUME NEW r \in responseTopic,
               StageSucceeds(r) \/ StageFailsRetryably(r) \/ StageExhausts(r)
        PROVE  /\ TakesResult(r) /\ r.stage = s
               /\ \/ /\ StageSucceeds(r) /\ Ends(s, "FIN")
                     /\ output'[s] = "result" \/ s \in outputLost'
                  \/ StageFailsRetryably(r) /\ Writes(s, "FAILED-RETRY") /\ UNCHANGED fate
                  \/ StageExhausts(r) /\ Ends(s, "FAILED-EXHAUSTED")
    <3>1. r.stage \in Stage
      BY Functions DEF Messages
    <3>2. TakesResult(r)
      BY <1>5, <2>3
      DEF ConsumerStep, StageSucceeds, StageFailsRetryably, StageExhausts,
          TakesResult
    <3>3. ASSUME StageSucceeds(r)
          PROVE  /\ r.stage = s /\ Ends(s, "FIN")
                 /\ output'[s] = "result" \/ s \in outputLost'
      <4>1. PICK set, kept \in BOOLEAN : /\ EndStage(r.stage, "FIN", set)
                                         /\ SetOutput(r.stage, "result", kept)
        BY <3>3 DEF StageSucceeds
      <4>2. r.stage = s /\ Ends(s, "FIN")
        BY <3>1, <4>1, StatusWrites
      <4> QED
        BY <1>0, <4>1, <4>2 DEF SetOutput
    <3>4. ASSUME StageFailsRetryably(r)
          PROVE  r.stage = s /\ Writes(s, "FAILED-RETRY") /\ UNCHANGED fate
      <4>1. \E set \in BOOLEAN : SetStageStatus(r.stage, "FAILED-RETRY", set)
                                 /\ UNCHANGED fate
        BY <3>4 DEF StageFailsRetryably
      <4> QED
        BY <3>1, <4>1, StatusWrites
    <3>5. ASSUME StageExhausts(r)
          PROVE  r.stage = s /\ Ends(s, "FAILED-EXHAUSTED")
      <4>1. \E set \in BOOLEAN : EndStage(r.stage, "FAILED-EXHAUSTED", set)
        BY <3>5 DEF StageExhausts, ExhaustStage
      <4> QED
        BY <3>1, <4>1, StatusWrites
    <3> QED
      BY <2>3, <3>2, <3>3, <3>4, <3>5
  <2> QED
    BY <2>1, <2>2, <2>3
<1>6. CASE Crash \/ UNCHANGED vars
  BY <1>a, <1>6 DEF Crash, vars, redisVars
<1> QED
  BY <1>1, <1>2, <1>3, <1>4, <1>5, <1>6 DEF Next, Done

-----------------------------------------------------------------------------
(* An end is not overwritten.                                              *)

LEMMA ActiveNotEnded ==
  ASSUME NEW s \in Stage, InOrder(s), SkippedBelowLost(s), Active(s)
  PROVE  fate[s] \notin Terminal
BY DEF InOrder, SkippedBelowLost, BelowLost, Lost, Terminal

\* A status is written for a stage that is under way, by Init before there is
\* any other, or below a lost stage.  It is a terminal one when the stage ends.
LEMMA Writer ==
  ASSUME FlowInv, [Next]_vars, NEW s \in Stage, ~SameStatus(s)
  PROVE  \/ Active(s) /\ \/ fate'[s] \in Terminal /\ Writes(s, fate'[s])
                         \/ /\ fate'[s] = fate[s]
                            /\ Writes(s, "RUNNING") \/ Writes(s, "FAILED-RETRY")
         \/ /\ initJob = "load" /\ initJob' = "queue"
            /\ fate'[s] = fate[s] /\ stageStatus'[s] \in {"", "PENDING"}
         \/ SkipDescendant(s) /\ Ends(s, "SKIPPED") /\ BelowLost(s)
<1>0. TypeOK /\ Numbered /\ OwnAttempt /\ HandSound
  BY DEF FlowInv
<1>1. ASSUME NEW j \in jobs, j.stage = s, j.pc = "fetch"
      PROVE  Active(s)
  BY <1>0, <1>1, InHand DEF Active
<1>2. ASSUME NEW r \in responseTopic, TakesResult(r), r.stage = s
      PROVE  Active(s)
  BY <1>0, <1>2, InHand DEF TakesResult, Messages, Active
<1>3. SkipDescendant(s) => BelowLost(s)
  BY <1>0 DEF SkipDescendant, HandSound
<1>4. \A how \in Terminal : Ends(s, how) => fate'[s] \in Terminal /\ Writes(s, fate'[s])
  BY DEF Ends
<1>5. {"FIN", "FAILED-EXHAUSTED"} \subseteq Terminal
  BY DEF Terminal
<1> QED
  BY <1>0, <1>1, <1>2, <1>3, <1>4, <1>5, StatusStep DEF Active

LEMMA Stable ==
  ASSUME FlowInv, [Next]_vars, NEW s \in Stage, fate[s] # "open"
  PROVE  fate'[s] = fate[s] /\ (SameStatus(s) \/ Writes(s, fate[s]))
<1> SUFFICES ASSUME ~SameStatus(s)
             PROVE  fate'[s] = fate[s] /\ Writes(s, fate[s])
  BY DEF SameStatus
<1>0. /\ InOrder(s) /\ SkippedBelowLost(s) /\ NothingBeforeInit
      /\ fate[s] \in Terminal
  BY Functions DEF FlowInv
<1>1. ~Active(s)
  BY <1>0, ActiveNotEnded
<1>2. initJob # "load"
  BY <1>0 DEF NothingBeforeInit
<1>3. Ends(s, "SKIPPED") /\ BelowLost(s)
  BY <1>1, <1>2, Writer
<1>4. fate[s] = "SKIPPED"
  BY <1>0, <1>3 DEF InOrder, BelowLost, Lost, Terminal
<1> QED
  BY <1>3, <1>4 DEF Ends

LEMMA KeyTellsStep ==
  ASSUME FlowInv, [Next]_vars, NEW s \in Stage
  PROVE  KeyTells(s)'
<1>0. KeyTells(s) /\ fate[s] \in Terminal \cup {"open"} /\ "open" \notin Terminal
  BY Functions DEF FlowInv, Terminal
<1>1. CASE SameStatus(s)
  BY <1>0, <1>1 DEF KeyTells, SameStatus
<1>2. CASE fate[s] # "open" /\ ~SameStatus(s)
  <2>1. fate'[s] = fate[s] /\ Writes(s, fate[s])
    BY <1>2, Stable
  <2> QED
    BY <1>0, <1>2, <2>1 DEF KeyTells, Writes
<1>3. CASE fate[s] = "open" /\ ~SameStatus(s)
  <2>0. stageStatus[s] \notin Terminal
    BY <1>0, <1>3 DEF KeyTells
  <2>1. {"RUNNING", "FAILED-RETRY", "", "PENDING"} \cap Terminal = {}
    BY DEF Terminal
  <2>2. ASSUME fate'[s] \in Terminal, Writes(s, fate'[s])
        PROVE  KeyTells(s)'
    BY <2>0, <2>2 DEF KeyTells, Writes
  <2>3. ASSUME fate'[s] = fate[s], stageStatus'[s] \notin Terminal
        PROVE  KeyTells(s)'
    BY <1>3, <2>3 DEF KeyTells
  <2>4. Writes(s, "RUNNING") \/ Writes(s, "FAILED-RETRY") => stageStatus'[s] \notin Terminal
    BY <2>0, <2>1 DEF Writes
  <2>5. Ends(s, "SKIPPED") => fate'[s] \in Terminal /\ Writes(s, fate'[s])
    BY DEF Ends, Terminal
  <2> QED
    BY <1>3, <2>1, <2>2, <2>3, <2>4, <2>5, Writer
<1> QED
  BY <1>1, <1>2, <1>3

LEMMA BelowLostStep ==
  ASSUME FlowInv, [Next]_vars, NEW s \in Stage, BelowLost(s)
  PROVE  BelowLost(s)'
<1>1. PICK p \in DependentOn[s] : fate[p] \in Lost
  BY DEF BelowLost
<1>2. p \in Stage
  BY DependentOnAssumption
<1>3. fate'[p] = fate[p]
  BY <1>1, <1>2, Stable DEF Lost
<1> QED
  BY <1>1, <1>3 DEF BelowLost

LEMMA NothingBeforeInitStep ==
  ASSUME FlowInv, [Next]_vars
  PROVE  NothingBeforeInit'
<1> SUFFICES ASSUME initJob' = "load", NEW s \in Stage, fate'[s] # "open"
             PROVE  FALSE
  BY DEF NothingBeforeInit
<1>1. initJob = "load"
  <2>1. CASE InitStep
    BY <2>1 DEF InitStep, InitNext, BeginRun, QueueStage, EndInit, poolVars
  <2>2. CASE PollStep
    BY <2>2 DEF PollStep, PollNext, PollStage, StartJob, Go, poolVars
  <2>3. CASE JobStep
    BY <2>3
    DEF JobStep, JobNext, FetchStage, PublishStage, PublishReturns, RequeueUnpublished,
        ReportDispatchFailure, RecordUndispatched, FinalizeUndispatched,
        NotificationSent,
        Advance, Finish
  <2>4. CASE HandlerStep
    BY <2>4 DEF HandlerStep, poolVars
  <2>5. CASE ConsumerStep
    BY <2>5
    DEF ConsumerStep, ConsumerNext, DropSeenResult, LoseResult, StageSucceeds,
        StageFailsRetryably, StageExhausts, ReleaseChild, SkipDescendant, PassOver,
        SkipNothing, RequeueStage, RecordStage, FinalizeRun, ReportExhausted,
        StartNotification, Go, poolVars
  <2>6. CASE Crash \/ UNCHANGED vars
    BY <2>6 DEF Crash, vars, poolVars
  <2> QED
    BY <2>1, <2>2, <2>3, <2>4, <2>5, <2>6 DEF Next, Done
<1>2. \A t \in Stage : fate[t] = "open"
  BY <1>1 DEF FlowInv, NothingBeforeInit
<1>3. ~Active(s)
  BY <1>1 DEF FlowInv, Exclusive, Unscheduled
<1>4. ~BelowLost(s)
  BY <1>2, DependentOnAssumption DEF BelowLost, Lost
<1>5. ~SameStatus(s) /\ fate'[s] # fate[s]
  BY <1>2 DEF SameStatus
<1> QED
  BY <1>3, <1>4, <1>5, Writer

LEMMA ListsStep ==
  ASSUME [Next]_vars
  PROVE  /\ UNCHANGED childList
            \/ (initJob = "load" /\ \A p \in Stage : childList'[p] \subseteq Children(p))
         /\ ListsSound => ListsSound'
<1>1. UNCHANGED childList
        \/ (initJob = "load" /\ \A p \in Stage : childList'[p] \subseteq Children(p))
  <2>1. CASE InitStep
    BY <2>1 DEF InitStep, InitNext, BeginRun, PrepareStages, QueueStage, EndInit, redisVars
  <2>2. CASE PollStep
    BY <2>2 DEF PollStep, PollNext, PollStage, StartJob
  <2>3. CASE JobStep
    BY <2>3
    DEF JobStep, JobNext, FetchStage, PublishStage, PublishReturns, RequeueUnpublished,
        ReportDispatchFailure, RecordUndispatched, FinalizeUndispatched,
        NotificationSent, redisVars
  <2>4. CASE HandlerStep
    BY <2>4 DEF HandlerStep, HandlerNext, ReceiveRequest, Respond, HandlerCrash, redisVars
  <2>5. CASE ConsumerStep
    BY <2>5
    DEF ConsumerStep, ConsumerNext, DropSeenResult, LoseResult, StageSucceeds,
        StageFailsRetryably, StageExhausts, ReleaseChild, SkipDescendant, PassOver,
        SkipNothing, RequeueStage, RecordStage, FinalizeRun, ReportExhausted,
        StartNotification, redisVars
  <2>6. CASE Crash \/ UNCHANGED vars
    BY <2>6 DEF Crash, vars, redisVars
  <2> QED
    BY <2>1, <2>2, <2>3, <2>4, <2>5, <2>6 DEF Next, Done
<1> QED
  BY <1>1 DEF ListsSound, Children

-----------------------------------------------------------------------------
(* What the consumer does to the stages around the one in its hands.       *)

LEMMA HandStep ==
  ASSUME TypeOK, [Next]_vars, consumer' # consumer, consumer'.pc \in {"release", "skip"}
  PROVE  \/ \E r \in responseTopic :
              /\ TakesResult(r) /\ r.stage \in Stage
              /\ consumer'.resp = r /\ consumer'.todo = childList[r.stage]
              /\ \/ consumer'.pc = "release" /\ fate'[r.stage] = "FIN"
                 \/ consumer'.pc = "skip" /\ fate'[r.stage] = "FAILED-EXHAUSTED"
         \/ /\ consumer'.pc = consumer.pc /\ consumer'.resp = consumer.resp
            /\ consumer'.todo \subseteq consumer.todo
         \/ \E c \in Stage : /\ SkipDescendant(c)
                            /\ consumer.pc = "skip" /\ consumer'.pc = "skip"
                            /\ consumer'.resp = consumer.resp
                            /\ fate'[c] = "SKIPPED"
                            /\ consumer'.todo \subseteq consumer.todo \cup childList[c]
<1>0. fate \in [Stage -> Terminal \cup {"open"}]
  BY Functions
<1>1. consumer' # Idle
  BY DEF Idle
<1>2. ConsumerStep
  BY <1>1 DEF Next, Done, InitStep, PollStep, JobStep, HandlerStep, Crash, vars
<1>3. consumer.pc # "read" =>
        /\ \A pc \in ConsumerPc : [consumer EXCEPT !.pc = pc].pc = pc
        /\ \A pc \in ConsumerPc : [consumer EXCEPT !.pc = pc, !.visited = {}].pc = pc
        /\ \A S \in SUBSET Stage :
             /\ [consumer EXCEPT !.todo = S].pc = consumer.pc
             /\ [consumer EXCEPT !.todo = S].resp = consumer.resp
             /\ [consumer EXCEPT !.todo = S].todo = S
        /\ consumer.todo \subseteq Stage
  BY Functions
<1>4. CASE \E r \in responseTopic :
             StageSucceeds(r) \/ StageFailsRetryably(r) \/ StageExhausts(r)
  <2>1. PICK r \in responseTopic :
            StageSucceeds(r) \/ StageFailsRetryably(r) \/ StageExhausts(r)
    BY <1>4
  <2>2. r.stage \in Stage
    BY Functions DEF Messages
  <2>3. TakesResult(r)
    BY <1>2, <2>1
    DEF ConsumerStep, StageSucceeds, StageFailsRetryably, StageExhausts, TakesResult
  <2>4. /\ consumer'.resp = r
        /\ StageSucceeds(r) => consumer'.pc = "release" /\ consumer'.todo = childList[r.stage]
        /\ StageFailsRetryably(r) => consumer'.pc = "retry"
        /\ StageExhausts(r) => consumer'.pc = "skip" /\ consumer'.todo = childList[r.stage]
    BY <2>1 DEF StageSucceeds, StageFailsRetryably, StageExhausts, Handle
  <2>5. /\ StageSucceeds(r) => fate'[r.stage] = "FIN"
        /\ StageExhausts(r) => fate'[r.stage] = "FAILED-EXHAUSTED"
    BY <1>0, <2>2 DEF StageSucceeds, StageExhausts, EndStage, ExhaustStage
  <2> QED
    BY <2>1, <2>2, <2>3, <2>4, <2>5
<1>5. CASE SkipNothing \/ \E c \in Stage : ReleaseChild(c)
  <2>1. consumer.pc \in {"skip", "release"}
    BY <1>5 DEF SkipNothing, ReleaseChild
  <2>2. PICK S \in SUBSET Stage : /\ consumer' = [consumer EXCEPT !.todo = S]
                                  /\ S \subseteq consumer.todo
    BY <1>3, <1>5, <2>1 DEF SkipNothing, ReleaseChild
  <2> QED
    BY <1>3, <2>1, <2>2
<1>6. CASE \E c \in Stage : PassOver(c)
  BY <1>6 DEF PassOver, Handle
<1>7. ASSUME NEW c \in Stage, SkipDescendant(c)
      PROVE  /\ consumer.pc = "skip" /\ consumer'.pc = "skip"
             /\ consumer'.resp = consumer.resp
             /\ fate'[c] = "SKIPPED"
             /\ consumer'.todo \subseteq consumer.todo \cup childList[c]
  <2>1. consumer.pc = "skip" /\ fate'[c] = "SKIPPED"
    BY <1>0, <1>7 DEF SkipDescendant, EndStage
  <2> QED
    BY <1>7, <2>1 DEF SkipDescendant, Handle
<1>8. CASE RecordStage \/ FinalizeRun \/ ReportExhausted
  <2>1. consumer.pc \in {"skip", "release", "finalize", "dlq"}
    BY <1>8 DEF RecordStage, FinalizeRun, ReportExhausted
  <2>2. \/ consumer' = Idle
        \/ consumer' = [consumer EXCEPT !.pc = "finalize", !.visited = {}]
        \/ consumer' = [consumer EXCEPT !.pc = "dlq", !.visited = {}]
        \/ consumer' = [consumer EXCEPT !.pc = "notify"]
    BY <1>8 DEF RecordStage, FinalizeRun, ReportExhausted, AfterRecord
  <2> QED
    BY <1>1, <1>3, <2>1, <2>2 DEF ConsumerPc
<1>9. CASE RequeueStage \/ StartNotification
  BY <1>1, <1>9 DEF RequeueStage, StartNotification
<1> QED
  BY <1>2, <1>4, <1>5, <1>6, <1>7, <1>8, <1>9
  DEF ConsumerStep, ConsumerNext, DropSeenResult, LoseResult

LEMMA HandSoundStep ==
  ASSUME FlowInv, [Next]_vars
  PROVE  HandSound'
<1>0. TypeOK /\ HandSound /\ ListsSound
  BY DEF FlowInv
<1>1. consumer.pc # "read" =>
        /\ consumer.resp.stage \in Stage
        /\ consumer.todo \subseteq Stage
  BY <1>0, Functions
<1>2. ASSUME consumer.pc = "release"
      PROVE  fate'[consumer.resp.stage] = "FIN"
  BY <1>0, <1>1, <1>2, Stable DEF HandSound
<1>3. ASSUME consumer.pc = "skip"
      PROVE  \A c \in consumer.todo : BelowLost(c)'
  BY <1>0, <1>1, <1>3, BelowLostStep DEF HandSound
<1>4. \A s \in Stage : fate'[s] \in Lost => \A c \in Children(s) : BelowLost(c)'
  BY DEF Children, BelowLost
<1>5. CASE consumer' = consumer
  BY <1>0, <1>2, <1>3, <1>5 DEF HandSound, Children
<1>6. CASE consumer' # consumer /\ consumer'.pc = "release"
  <2>1. \/ /\ fate'[consumer'.resp.stage] = "FIN"
           /\ consumer'.todo = childList[consumer'.resp.stage] /\ consumer'.resp.stage \in Stage
        \/ /\ consumer.pc = "release" /\ consumer'.resp = consumer.resp
           /\ consumer'.todo \subseteq consumer.todo
    BY <1>0, <1>6, HandStep
  <2>2. /\ fate'[consumer'.resp.stage] = "FIN"
        /\ consumer'.todo \subseteq Children(consumer'.resp.stage)
    BY <1>0, <1>2, <2>1 DEF HandSound, ListsSound
  <2> QED
    BY <1>6, <2>2 DEF HandSound, Children
<1>7. CASE consumer' # consumer /\ consumer'.pc = "skip"
  <2>1. \/ \E s \in Stage : /\ fate'[s] \in Lost
                           /\ \/ consumer'.todo = childList[s]
                              \/ /\ consumer.pc = "skip"
                                 /\ consumer'.todo \subseteq consumer.todo \cup childList[s]
        \/ consumer.pc = "skip" /\ consumer'.todo \subseteq consumer.todo
    BY <1>0, <1>7, HandStep DEF Lost
  <2>2. \A c \in consumer'.todo : BelowLost(c)'
    BY <1>0, <1>3, <1>4, <2>1 DEF ListsSound
  <2> QED
    BY <1>7, <2>2 DEF HandSound
<1> QED
  BY <1>5, <1>6, <1>7 DEF HandSound

-----------------------------------------------------------------------------
(* The order of the stages.                                                *)

\* Only the release of s, which takes its parent away, changes a positive
\* count.
LEMMA DepsStep ==
  ASSUME TypeOK, [Next]_vars, NEW s \in Stage, deps'[s] # deps[s]
  PROVE  \/ QueueStage(s) /\ deps'[s] = Cardinality(DependentOn[s])
         \/ /\ ReleaseChild(s) /\ deps'[s] = deps[s] - 1
            /\ consumer'.resp = consumer.resp /\ s \notin consumer'.todo
<1>0. deps \in [Stage -> Int]
  BY Functions
<1>1. CASE InitStep
  <2>1. PICK c \in Stage : QueueStage(c)
    BY <1>1 DEF InitStep, InitNext, BeginRun, EndInit, redisVars
  <2>2. deps' = [deps EXCEPT ![c] = Cardinality(DependentOn[c])]
    BY <2>1 DEF QueueStage, DependencyCount
  <2> QED
    BY <1>0, <2>1, <2>2
<1>2. CASE PollStep
  BY <1>2 DEF PollStep, PollNext, PollStage, StartJob
<1>3. CASE JobStep
  BY <1>3
  DEF JobStep, JobNext, FetchStage, PublishStage, PublishReturns, RequeueUnpublished,
      ReportDispatchFailure, RecordUndispatched, FinalizeUndispatched, NotificationSent,
      redisVars
<1>4. CASE HandlerStep
  BY <1>4 DEF HandlerStep, HandlerNext, ReceiveRequest, Respond, HandlerCrash, redisVars
<1>5. CASE ConsumerStep
  <2>1. PICK c \in Stage : ReleaseChild(c)
    BY <1>5
    DEF ConsumerStep, ConsumerNext, DropSeenResult, LoseResult, StageSucceeds,
        StageFailsRetryably, StageExhausts, SkipDescendant, PassOver, SkipNothing,
        RequeueStage, RecordStage, FinalizeRun, ReportExhausted, StartNotification,
        redisVars
  <2>2. deps' = [deps EXCEPT ![c] = @ - 1]
    BY <2>1 DEF ReleaseChild, DecrementDeps, CountDown
  <2>3. c = s /\ deps'[s] = deps[s] - 1
    BY <1>0, <2>2
  <2>4. /\ consumer' \in {[consumer EXCEPT !.todo = @ \ {s}], [consumer EXCEPT !.todo = {}]}
        /\ consumer.pc # "read"
    BY <2>1, <2>3 DEF ReleaseChild
  <2>5. consumer'.resp = consumer.resp /\ s \notin consumer'.todo
    BY <2>4, Functions
  <2> QED
    BY <2>1, <2>3, <2>5
<1>6. CASE Crash \/ UNCHANGED vars
  BY <1>6 DEF Crash, vars, redisVars
<1> QED
  BY <1>1, <1>2, <1>3, <1>4, <1>5, <1>6 DEF Next, Done

LEMMA UnreleasedStep ==
  ASSUME FlowInv, [Next]_vars, NEW s \in Stage
  PROVE  Unreleased(s)' \subseteq Unreleased(s)
<1> SUFFICES ASSUME NEW p \in Unreleased(s)'
             PROVE  p \in Unreleased(s)
  OBVIOUS
<1>0. TypeOK /\ p \in DependentOn[s] /\ p \in Stage
  BY DependentOnAssumption DEF FlowInv, Unreleased
<1>1. CASE fate'[p] # "FIN"
  BY <1>0, <1>1, Stable DEF Unreleased
<1>2. CASE consumer'.pc = "release" /\ consumer'.resp.stage = p /\ s \in consumer'.todo
  <2>1. CASE consumer.pc = "release" /\ consumer.resp.stage = p /\ s \in consumer.todo
    BY <1>0, <2>1 DEF Unreleased
  <2>2. CASE \E r \in responseTopic : TakesResult(r) /\ r.stage = p
    <3>1. Active(p)
      BY <1>0, <2>2, InHand DEF FlowInv, TakesResult, Messages, Active
    <3>2. fate[p] # "FIN"
      BY <1>0, <3>1, ActiveNotEnded DEF FlowInv, Terminal
    <3> QED
      BY <1>0, <3>2 DEF Unreleased
  <2> QED
    BY <1>0, <1>2, <2>1, <2>2, HandStep
<1> QED
  BY <1>1, <1>2 DEF Unreleased

LEMMA UnreleasedFinite ==
  ASSUME NEW s \in Stage
  PROVE  /\ IsFiniteSet(Unreleased(s)) /\ Cardinality(Unreleased(s)) \in Nat
         /\ Cardinality(Unreleased(s)) <= Cardinality(DependentOn[s])
<1>1. DependentOn[s] \subseteq Stage /\ Unreleased(s) \subseteq DependentOn[s]
  BY DependentOnAssumption DEF Unreleased
<1>2. IsFiniteSet(DependentOn[s])
  BY <1>1, StageAssumption, FS_Subset
<1> QED
  BY <1>1, <1>2, FS_Subset, FS_CardinalityType

LEMMA DepsCover ==
  ASSUME FlowInv, [Next]_vars, NEW s \in Stage, deps'[s] > 0
  PROVE  Cardinality(Unreleased(s)') <= deps'[s]
<1>0. TypeOK /\ HandSound /\ InOrder(s) /\ deps[s] \in Int /\ s \in Stage
  BY Functions DEF FlowInv
<1>1. Unreleased(s)' \subseteq Unreleased(s)
  BY UnreleasedStep
<1>2. /\ IsFiniteSet(Unreleased(s)) /\ Cardinality(Unreleased(s)) \in Nat
      /\ IsFiniteSet(Unreleased(s)') /\ Cardinality(Unreleased(s)') \in Nat
      /\ Cardinality(Unreleased(s)') <= Cardinality(Unreleased(s))
      /\ Cardinality(Unreleased(s)) <= Cardinality(DependentOn[s])
  BY <1>1, UnreleasedFinite, FS_Subset, FS_CardinalityType
<1>3. CASE deps'[s] = deps[s]
  BY <1>0, <1>2, <1>3 DEF InOrder
<1>4. CASE deps'[s] = Cardinality(DependentOn[s])
  <2>1. deps'[s] \in Int
    BY <1>0, NextType, RedisTypes DEF TypeOK, RunStateTypeOK
  <2> QED
    BY <1>2, <1>4, <2>1
<1>5. CASE /\ ReleaseChild(s) /\ deps'[s] = deps[s] - 1
           /\ consumer'.resp = consumer.resp /\ s \notin consumer'.todo
  <2> DEFINE p == consumer.resp.stage
  <2>1. /\ p \in Stage /\ s \in consumer.todo /\ consumer.pc = "release"
        /\ fate[p] = "FIN" /\ p \in DependentOn[s]
    BY <1>0, <1>5, Functions DEF ReleaseChild, HandSound, Children
  <2>2. p \in Unreleased(s)
    BY <2>1 DEF Unreleased
  <2>3. fate'[p] = "FIN"
    BY <2>1, Stable
  <2>4. p \notin Unreleased(s)'
    BY <1>5, <2>3 DEF Unreleased
  <2>5. Unreleased(s)' \subseteq Unreleased(s) \ {p}
    BY <1>1, <2>4
  <2>6. Cardinality(Unreleased(s) \ {p}) = Cardinality(Unreleased(s)) - 1
    BY <1>2, <2>2, FS_RemoveElement
  <2>7. Cardinality(Unreleased(s)') <= Cardinality(Unreleased(s)) - 1
    BY <1>2, <2>5, <2>6, FS_RemoveElement, FS_Subset
  <2>8. Cardinality(Unreleased(s)) <= deps[s]
    BY <1>0, <1>5 DEF InOrder
  <2> QED
    BY <1>0, <1>2, <1>5, <2>7, <2>8
<1> QED
  BY <1>0, <1>3, <1>4, <1>5, DepsStep

\* A stage that gets its first place has no unfinished parent.
LEMMA LastParent ==
  ASSUME FlowInv, NEW s \in Stage, ReleaseChild(s), deps[s] = 1
  PROVE  \A p \in DependentOn[s] : fate[p] = "FIN"
<1> DEFINE q == consumer.resp.stage
<1>1. q \in Unreleased(s) /\ fate[q] = "FIN"
  BY Functions DEF FlowInv, ReleaseChild, HandSound, Children, Unreleased
<1>2. Cardinality(Unreleased(s)) <= 1
  BY DEF FlowInv, InOrder
<1>3. IsFiniteSet(Unreleased(s)) /\ Cardinality(Unreleased(s)) \in Nat
  BY UnreleasedFinite
<1>4. Cardinality(Unreleased(s) \ {q}) = Cardinality(Unreleased(s)) - 1
  BY <1>1, <1>3, FS_RemoveElement
<1>5. IsFiniteSet(Unreleased(s) \ {q}) /\ Cardinality(Unreleased(s) \ {q}) \in Nat
  BY <1>3, FS_RemoveElement, FS_CardinalityType
<1>6. Cardinality(Unreleased(s) \ {q}) = 0
  BY <1>2, <1>3, <1>4, <1>5
<1>7. Unreleased(s) \ {q} = {}
  BY <1>5, <1>6, FS_EmptySet
<1> QED
  BY <1>1, <1>7 DEF Unreleased

\* Only a result writes the output of a stage.
LEMMA OutputStep ==
  ASSUME FlowInv, [Next]_vars, NEW s \in Stage, ~Active(s)
  PROVE  output'[s] = output[s] /\ (s \in outputLost' <=> s \in outputLost)
<1>0. TypeOK /\ Numbered /\ OwnAttempt /\ output \in [Stage -> Output]
  BY Functions DEF FlowInv
<1>1. CASE InitStep
  BY <1>1 DEF InitStep, InitNext, BeginRun, PrepareStages, QueueStage, EndInit, redisVars
<1>2. CASE PollStep
  BY <1>2 DEF PollStep, PollNext, PollStage, StartJob
<1>3. CASE JobStep
  BY <1>3
  DEF JobStep, JobNext, FetchStage, PublishStage, PublishReturns, RequeueUnpublished,
      ReportDispatchFailure, RecordUndispatched, FinalizeUndispatched, NotificationSent,
      redisVars
<1>4. CASE HandlerStep
  BY <1>4 DEF HandlerStep, HandlerNext, ReceiveRequest, Respond, HandlerCrash, redisVars
<1>5. CASE \E r \in responseTopic : StageSucceeds(r) \/ StageFailsRetryably(r)
  <2>1. PICK r \in responseTopic : StageSucceeds(r) \/ StageFailsRetryably(r)
    BY <1>5
  <2>2. Active(r.stage)
    BY <1>0, <2>1, InHand DEF StageSucceeds, StageFailsRetryably, Messages, Active
  <2>3. r.stage # s
    BY <2>2
  <2> QED
    BY <1>0, <2>1, <2>3 DEF StageSucceeds, StageFailsRetryably, SetOutput
<1>6. CASE ConsumerStep
  BY <1>5, <1>6
  DEF ConsumerStep, ConsumerNext, DropSeenResult, LoseResult, StageExhausts,
      ReleaseChild,
      SkipDescendant, PassOver, SkipNothing, RequeueStage, RecordStage, FinalizeRun,
      ReportExhausted, StartNotification, redisVars
<1>7. CASE Crash \/ UNCHANGED vars
  BY <1>7 DEF Crash, vars, redisVars
<1> QED
  BY <1>1, <1>2, <1>3, <1>4, <1>6, <1>7 DEF Next, Done

\* A stage ends when its result is taken, or when its job gives it up.
LEMMA EndingStep ==
  ASSUME FlowInv, [Next]_vars, NEW s \in Stage, fate'[s] # fate[s],
         fate'[s] \in {"FIN", "FAILED-EXHAUSTED"}
  PROVE  \E n \in Unanswered(s) : /\ ~FirstSeen(s, n)' \/ ~Carried(s, n)'
                                 /\ Requeuing(s)' = Requeuing(s) /\ ~Retrying(s)'
                                 /\ UNCHANGED <<jobTrigger, polled, attempt>>
<1>0. TypeOK /\ Numbered /\ OwnAttempt /\ Exclusive(s) /\ jobs \subseteq Job
  BY Functions DEF FlowInv
<1>1. ASSUME NEW j \in jobs, JobStep, j.stage = s, j.pc = "fetch", Advance(j, "dlq"),
             UNCHANGED <<jobTrigger, attempt, topicVars>>
      PROVE  /\ j.attempt \in Unanswered(s) /\ ~Carried(s, j.attempt)'
             /\ Requeuing(s)' = Requeuing(s) /\ ~Retrying(s)' /\ UNCHANGED polled
  <2>1. j.attempt \in Unanswered(s)
    BY <1>0, <1>1, InHand
  <2>2. PICK k \in Job : /\ k.stage = j.stage /\ k.attempt = j.attempt /\ k.pc = "dlq"
                         /\ jobs' = (jobs \ {j}) \cup {k}
    BY <1>0, <1>1, JobMoves DEF JobPc
  <2>3. Messages' = Messages /\ UNCHANGED <<polled, consumer>>
    BY <1>1 DEF JobStep, JobNext, topicVars, Messages
  <2>4. ~Carried(s, j.attempt)'
    BY <1>0, <1>1, <2>2, <2>3 DEF Carried, OwnAttempt, Sending
  <2>5. Requeuing(s)' = Requeuing(s)
    BY <1>1, <2>2 DEF Requeuing
  <2>6. ~Retrying(s)'
    BY <1>0, <2>1, <2>3 DEF Exclusive, Retrying
  <2> QED
    BY <2>1, <2>3, <2>4, <2>5, <2>6
<1>2. ASSUME NEW r \in responseTopic, TakesResult(r), r.stage = s,
             StageSucceeds(r) \/ StageExhausts(r)
      PROVE  /\ r.attempt \in Unanswered(s) /\ ~FirstSeen(s, r.attempt)'
             /\ Requeuing(s)' = Requeuing(s) /\ ~Retrying(s)'
             /\ UNCHANGED <<jobTrigger, polled, attempt>>
  <2>1. r.attempt \in Unanswered(s) /\ ~FirstSeen(s, r.attempt)'
    BY <1>0, <1>2, InHand DEF TakesResult, Messages, MarkResultSeen, FirstSeen
  <2>2. UNCHANGED <<jobTrigger, polled, attempt, jobs>>
    BY <1>2 DEF TakesResult, poolVars, ConsumerStep
  <2>3. ~Retrying(s)'
    BY <1>2 DEF StageSucceeds, StageExhausts, Handle, Retrying
  <2> QED
    BY <2>1, <2>2, <2>3 DEF Requeuing
<1>3. ~SameStatus(s)
  BY DEF SameStatus
<1>4. ~Ends(s, "SKIPPED")
  BY DEF Ends
<1> QED
  BY <1>0, <1>1, <1>2, <1>3, <1>4, StatusStep

LEMMA InOrderStep ==
  ASSUME NoAmbiguousWrites, FlowInv, [Next]_vars, NEW s \in Stage
  PROVE  InOrder(s)'
<1>0. /\ TypeOK /\ CountedAfterInit /\ Numbered /\ OwnAttempt /\ NothingBeforeInit
      /\ Exclusive(s) /\ InOrder(s) /\ SkippedBelowLost(s)
      /\ attempt[s] \in Nat /\ attempt \in [Stage -> Nat] /\ output \in [Stage -> Output]
  BY Functions DEF FlowInv
<1>1. \/ attempt'[s] = attempt[s]
      \/ attempt'[s] = attempt[s] + 1 /\ Active(s)
  BY <1>0, AttemptStep DEF Active
<1>2. Unscheduled(s)' => Unscheduled(s)
  BY <1>0, UnscheduledStep
<1>3. deps'[s] > 0 => Cardinality(Unreleased(s)') <= deps'[s]
  BY DepsCover
<1>4. attempt'[s] > 0 => ~Unscheduled(s)'
  BY <1>0, <1>1, <1>2 DEF InOrder, Exclusive
<1>5. ASSUME attempt'[s] > 0 \/ Active(s)', NEW p \in DependentOn[s]
      PROVE  fate'[p] = "FIN"
  <2>1. p \in Stage
    BY DependentOnAssumption
  <2>2. CASE attempt[s] > 0 \/ Active(s)
    BY <1>0, <2>1, <2>2, Stable DEF InOrder
  <2>3. CASE Active(s)' /\ ~Active(s)
    BY <1>0, <2>1, <2>3, ActiveStep, LastParent, Stable
  <2> QED
    BY <1>1, <1>5, <2>2, <2>3
<1>6. ASSUME fate'[s] = "FIN"
      PROVE  output'[s] = "result" \/ s \in outputLost'
  <2>1. CASE fate'[s] # fate[s]
    BY <1>0, <1>6, <2>1, StatusStep DEF SameStatus, Ends
  <2>2. CASE fate[s] = "FIN"
    <3>1. ~Active(s) /\ (output[s] = "result" \/ s \in outputLost)
      BY <1>0, <2>2, ActiveNotEnded DEF Terminal, InOrder
    <3>2. output'[s] = output[s] /\ (s \in outputLost' <=> s \in outputLost)
      BY <1>0, <3>1, OutputStep
    <3> QED
      BY <3>1, <3>2
  <2> QED
    BY <1>6, <2>1, <2>2
<1>7. ASSUME fate'[s] \in {"FIN", "FAILED-EXHAUSTED"}
      PROVE  attempt'[s] > 0 /\ ~Active(s)'
  <2>1. CASE fate'[s] = fate[s]
    <3>1. attempt[s] > 0 /\ ~Active(s) /\ ~Unscheduled(s)
      BY <1>0, <1>7, <2>1 DEF InOrder
    <3> QED
      BY <1>0, <1>1, <3>1, ActiveStep
  <2>2. CASE fate'[s] # fate[s]
    <3>1. PICK n \in Unanswered(s) : /\ ~FirstSeen(s, n)' \/ ~Carried(s, n)'
                                     /\ Requeuing(s)' = Requeuing(s) /\ ~Retrying(s)'
                                     /\ UNCHANGED <<jobTrigger, polled, attempt>>
      BY <1>0, <1>7, <2>2, EndingStep
    <3>2. attempt[s] > 0
      BY <1>0, <3>1 DEF Unanswered
    <3>3. Unanswered(s)' = {}
      <4>1. ~StartsAttempt(s)
        BY <1>0, <3>1 DEF StartsAttempt
      <4> QED
        BY <1>0, <3>1, <4>1, LastUnanswered
    <3> QED
      BY <1>0, <3>1, <3>2, <3>3 DEF Active, Exclusive
  <2> QED
    BY <2>1, <2>2
<1> QED
  BY <1>3, <1>4, <1>5, <1>6, <1>7 DEF InOrder

LEMMA SkippedBelowLostStep ==
  ASSUME FlowInv, [Next]_vars, NEW s \in Stage
  PROVE  SkippedBelowLost(s)'
<1> SUFFICES ASSUME fate'[s] = "SKIPPED"
             PROVE  attempt'[s] = 0 /\ BelowLost(s)'
  BY DEF SkippedBelowLost
<1>1. TypeOK /\ InOrder(s) /\ SkippedBelowLost(s) /\ attempt[s] \in Nat
  BY Functions DEF FlowInv
<1>2. BelowLost(s)
  <2>1. CASE fate[s] = "SKIPPED"
    BY <1>1, <2>1 DEF SkippedBelowLost
  <2>2. CASE fate'[s] # fate[s]
    <3>1. SkipDescendant(s)
      BY <1>1, <2>2, StatusStep DEF SameStatus, Ends
    <3> QED
      BY <3>1 DEF FlowInv, HandSound, SkipDescendant
  <2> QED
    BY <2>1, <2>2
<1>3. attempt[s] = 0 /\ ~Active(s)
  BY <1>1, <1>2 DEF InOrder, BelowLost, Lost
<1>4. attempt'[s] = 0
  BY <1>1, <1>3, AttemptStep DEF Active
<1> QED
  BY <1>2, <1>4, BelowLostStep

-----------------------------------------------------------------------------
(* Without Redis errors no command of a step fails.                        *)

LEMMA NoErrors ==
  ASSUME "redis" \notin Faults, NEW n \in Nat, NEW m, RedisErrors(n, m)
  PROVE  n = 0
BY DEF RedisErrors

LEMMA NoFlags ==
  /\ \A a \in BOOLEAN : Flag(~a) \in Nat /\ (Flag(~a) = 0 => a)
  /\ \A a, b \in BOOLEAN :
       Flag(~a) + Flag(~b) \in Nat /\ (Flag(~a) + Flag(~b) = 0 => a /\ b)
  /\ \A a, b, c \in BOOLEAN :
       /\ Flag(~a) + Flag(~b) + Flag(~c) \in Nat
       /\ Flag(~a) + Flag(~b) + Flag(~c) = 0 => a /\ b /\ c
BY DEF Flag

LEMMA Prepared ==
  ASSUME "redis" \notin Faults, NEW unset \in SUBSET Stage,
         NEW unlisted \in SUBSET Edges, PrepareStages(unset, unlisted)
  PROVE  /\ statusLost' = {}
         /\ \A s \in Stage : childList'[s] = Children(s)
<1>1. IsFiniteSet(Stage \X Stage)
  BY StageAssumption, FS_Product
<1>2. IsFiniteSet(unset) /\ IsFiniteSet(unlisted)
  BY <1>1, StageAssumption, FS_Subset DEF Edges
<1>3. Cardinality(unset) \in Nat /\ Cardinality(unlisted) \in Nat
  BY <1>2, FS_CardinalityType
<1>4. Cardinality(unset) + Cardinality(unlisted) = 0
  <2>1. Cardinality(unset) + Cardinality(unlisted) \in Nat
    BY <1>3
  <2>2. RedisErrors(Cardinality(unset) + Cardinality(unlisted), 0)
    BY DEF PrepareStages
  <2> QED
    BY <2>1, <2>2, NoErrors
<1>5. Cardinality(unset) = 0 /\ Cardinality(unlisted) = 0
  BY <1>3, <1>4
<1>6. unset = {} /\ unlisted = {}
  BY <1>2, <1>5, FS_EmptySet
<1> QED
  BY <1>6 DEF PrepareStages, Children

-----------------------------------------------------------------------------
(* The theorems.                                                           *)

LEMMA FlowInvInit == Init => FlowInv
<1> SUFFICES ASSUME Init
             PROVE  FlowInv
  OBVIOUS
<1>1. /\ jobs = {} /\ executeTopic = {} /\ responseTopic = {} /\ executing = {}
      /\ jobTrigger = {} /\ polled = {} /\ consumer.pc = "read" /\ seenResult = {}
      /\ initJob = "load"
  BY DEF Init, RunStateInit, PoolInit, KafkaInit, DispatchInit, HandlerInit, ConsumerInit, Idle
<1>2. /\ \A s \in Stage : attempt[s] = 0
      /\ \A s \in Stage : deps[s] = 0
  BY DEF Init, RunStateInit
<1>3. /\ \A s \in Stage : stageStatus[s] = ""
      /\ \A s \in Stage : fate[s] = "open" /\ childList[s] = {}
  BY DEF Init, RunStateInit
<1>4. \A s, n : ~Carried(s, n) /\ FirstSeen(s, n)
  BY <1>1 DEF Carried, Messages, FirstSeen
<1>5. \A s : ~Active(s) /\ Requeuing(s) = {} /\ Unanswered(s) = {}
  BY <1>1 DEF Active, Retrying, Requeuing, Unanswered
<1>6. TypeOK /\ CountedAfterInit
  <2>1. \A s \in Stage : deps[s] <= 0
    BY <1>2
  <2> QED
    BY <2>1, InitTypeOK DEF CountedAfterInit
<1>7. Numbered /\ OwnAttempt /\ NothingBeforeInit /\ ListsSound /\ HandSound
  BY <1>1, <1>3, <1>4 DEF Numbered, OwnAttempt, NothingBeforeInit, ListsSound, HandSound
<1>8. ASSUME NEW s \in Stage
      PROVE  Exclusive(s) /\ InOrder(s) /\ SkippedBelowLost(s) /\ KeyTells(s)
  <2>1. ~(attempt[s] > 0) /\ ~(deps[s] > 0)
    BY <1>2
  <2>2. Exclusive(s)
    BY <1>1, <1>5 DEF Exclusive, Retrying
  <2> QED
    BY <1>3, <1>5, <2>1, <2>2 DEF InOrder, SkippedBelowLost, KeyTells, Terminal
<1> QED
  BY <1>6, <1>7, <1>8 DEF FlowInv

LEMMA FlowInvNext ==
  ASSUME NoAmbiguousWrites
  PROVE  FlowInv /\ [Next]_vars => FlowInv'
<1> SUFFICES ASSUME FlowInv, [Next]_vars
             PROVE  FlowInv'
  OBVIOUS
<1>1. TypeOK /\ CountedAfterInit /\ Numbered /\ OwnAttempt
  BY DEF FlowInv
<1>2. TypeOK' /\ CountedAfterInit'
  BY <1>1, NextType, CountedAfterInitStep
<1>3. Numbered' /\ OwnAttempt'
  BY <1>1, NumberedStep, OwnAttemptStep
<1>4. NothingBeforeInit' /\ ListsSound' /\ HandSound'
  BY NothingBeforeInitStep, ListsStep, HandSoundStep DEF FlowInv
<1>5. ASSUME NEW s \in Stage
      PROVE  Exclusive(s)' /\ InOrder(s)' /\ SkippedBelowLost(s)' /\ KeyTells(s)'
  BY <1>1, ExclusiveStep, InOrderStep, SkippedBelowLostStep, KeyTellsStep DEF FlowInv
<1> QED
  BY <1>2, <1>3, <1>4, <1>5 DEF FlowInv

LEMMA FlowInvAlways == ASSUME NoAmbiguousWrites PROVE Spec => []FlowInv
  BY FlowInvInit, FlowInvNext, PTL DEF Spec

LEMMA AtMostOne ==
  ASSUME NEW S, \A m, n \in S : m = n
  PROVE  Cardinality(S) \in {0, 1}
<1>1. CASE S = {}
  BY <1>1, FS_EmptySet
<1>2. CASE S # {}
  <2>1. PICK e \in S : S = {e}
    BY <1>2
  <2> QED
    BY <2>1, FS_Singleton
<1> QED
  BY <1>1, <1>2

\* Without ambiguous writes a stage waits in one place or has one attempt
\* under way, never both, whatever is lost, repeated or restarted: ZREM, the
\* seen keys and the dependency counts stand in for a lock.
THEOREM OneAttempt == ASSUME NoAmbiguousWrites PROVE Spec => []OneAttemptAtATime
<1>1. FlowInv => OneAttemptAtATime
  <2> SUFFICES ASSUME FlowInv, NEW s \in Stage
               PROVE  Cardinality(Waiting(s)) + Cardinality(Unanswered(s)) <= 1
    BY DEF OneAttemptAtATime
  <2>1. Exclusive(s) /\ jobs \subseteq Job
    BY Functions DEF FlowInv
  <2>2. /\ \A m, n \in Unanswered(s) : m = n
        /\ Waiting(s) # {} => Unanswered(s) = {}
    BY <2>1 DEF Exclusive, Waiting
  <2>3. \A m, n \in Waiting(s) : m = n
    BY <2>1 DEF Exclusive, Waiting
  <2>4. Cardinality(Unanswered(s)) \in {0, 1} /\ Cardinality(Waiting(s)) \in {0, 1}
    BY <2>2, <2>3, AtMostOne
  <2>5. Cardinality(Unanswered(s)) = 0 \/ Cardinality(Waiting(s)) = 0
    BY <2>2, FS_EmptySet
  <2> QED
    BY <2>4, <2>5
<1> QED
  BY <1>1, FlowInvAlways, PTL

\* No attempt of a stage starts before all its parents have finished, and
\* what it reads of them is their results unless a parent's output could not
\* be stored.  A lost decrement leaves a stage waiting; no lost write, count or
\* list of children starts one early.
THEOREM AfterParents == ASSUME NoAmbiguousWrites PROVE Spec => []StartsAfterParents
<1>1. FlowInv => StartsAfterParents
  <2> SUFFICES ASSUME FlowInv, NEW s \in Stage, attempt[s] > 0, NEW p \in DependentOn[s]
               PROVE  fate[p] = "FIN" /\ (output[p] = "result" \/ p \in outputLost)
    BY DEF StartsAfterParents
  <2>1. p \in Stage
    BY DependentOnAssumption
  <2> QED
    BY <2>1 DEF FlowInv, InOrder
<1> QED
  BY <1>1, FlowInvAlways, PTL

\* A stage is skipped only below a stage that will never finish, and never
\* after an attempt, with any interleaving of the walk and the dispatch and
\* even if the status key that the walk reads is missing the last write.
THEOREM SkipsJustified == ASSUME NoAmbiguousWrites PROVE Spec => []SkipJustified
<1>1. FlowInv => SkipJustified
  BY DEF FlowInv, SkipJustified, SkippedBelowLost, BelowLost, Lost
<1> QED
  BY <1>1, FlowInvAlways, PTL

\* The status key never tells of an end that did not happen, and hides one
\* only when the write of that end failed.
THEOREM KeysTell == ASSUME NoAmbiguousWrites PROVE Spec => []KeysTellFate
<1>1. FlowInv => KeysTellFate
  BY DEF FlowInv, KeysTellFate, KeyTells
<1> QED
  BY <1>1, FlowInvAlways, PTL

\* FIN, FAILED-EXHAUSTED and SKIPPED are final: no late result, retry, skip or
\* dispatch failure ends a stage again or writes over the end in its key.
THEOREM EndsAreStable == ASSUME NoAmbiguousWrites PROVE Spec => TerminalStable
<1>1. FlowInv /\ [Next]_vars =>
        [\A s \in Stage : fate[s] # "open" =>
           /\ fate'[s] = fate[s]
           /\ stageStatus'[s] \in {stageStatus[s], fate[s]}]_<<fate, stageStatus>>
  BY Stable DEF SameStatus, Writes
<1> QED
  BY <1>1, FlowInvAlways, PTL DEF Spec, TerminalStable

=============================================================================
