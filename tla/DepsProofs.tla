----------------------------- MODULE DepsProofs -----------------------------
(***************************************************************************)
(* The dependency counts in Redis, for every workflow, joins included: a   *)
(* count is the number of parents its stage still waits for.  It is not    *)
(* after a Redis error or a crash, which lose a decrement, nor when the    *)
(* poller dispatches a stage before Init has set the counts (run           *)
(* init_race).                                                             *)
(***************************************************************************)
EXTENDS FlowProofs

USE DEF statusVars, outputVars

\* No decrement is lost, and Init is over before the poller starts.
CountsKept ==
  /\ {"redis", "crash"} \cap Faults = {}
  /\ InitBeforePolling

-----------------------------------------------------------------------------
(* Before the first dispatch.                                              *)

\* No stage of the run was ever taken from job-trigger.
Undispatched ==
  /\ polled = {} /\ jobs = {} /\ consumer.pc = "read"
  /\ \A s \in Stage : attempt[s] = 0

\* Init runs alone, and a run whose row could not be written never starts.
StartInv ==
  /\ initJob # "done" \/ runRow = "" => Undispatched
  /\ initJob = "load" \/ runRow = "" => jobTrigger = {}
  /\ initJob = "load" => runRow = ""
  /\ initJob = "queue" => runRow # ""

\* Before the first dispatch only Init and the poller can move.
LEMMA UndispatchedStep ==
  ASSUME FlowInv, Undispatched, [Next]_vars
  PROVE  \/ InitStep
         \/ \E s \in jobTrigger : PollStage(s)
         \/ Undispatched' /\ UNCHANGED <<jobTrigger, runRow, initJob>>
         \/ Undispatched' /\ UNCHANGED <<jobTrigger, runRow>> /\ initJob' = "done" /\ Crash
<1>0. TypeOK /\ Numbered /\ attempt \in [Stage -> Nat]
  BY Functions DEF FlowInv
<1>1. responseTopic = {}
  <2> SUFFICES ASSUME NEW r \in responseTopic
               PROVE  FALSE
    OBVIOUS
  <2>1. r.stage \in Stage /\ r.attempt \in Nat
    BY <1>0, Functions DEF Messages
  <2>2. r.attempt \in 1..attempt[r.stage]
    BY <1>0, <2>1 DEF Numbered, Carried, Messages
  <2>3. attempt[r.stage] = 0
    BY <2>1 DEF Undispatched
  <2> QED
    BY <2>1, <2>2, <2>3
<1>2. CASE PollStep
  BY <1>2 DEF PollStep, PollNext, PollStage, StartJob, Undispatched
<1>3. CASE JobStep
  BY <1>3 DEF JobStep, JobNext, Undispatched
<1>4. CASE HandlerStep
  <2>1. UNCHANGED <<jobTrigger, attempt, pgVars, poolVars, polled, consumer>>
    BY <1>4 DEF HandlerStep, HandlerNext, ReceiveRequest, Respond, HandlerCrash, redisVars
  <2> QED
    BY <2>1 DEF Undispatched, pgVars, poolVars
<1>5. CASE ConsumerStep
  BY <1>1, <1>5
  DEF ConsumerStep, ConsumerNext, ReleaseChild, SkipDescendant, PassOver, SkipNothing,
      RequeueStage, RecordStage, FinalizeRun, ReportExhausted, StartNotification,
      Undispatched
<1>6. CASE Crash
  BY <1>6 DEF Crash, Idle, Undispatched, pgVars
<1>7. CASE UNCHANGED vars
  BY <1>7 DEF vars, redisVars, pgVars, poolVars, Undispatched
<1> QED
  BY <1>2, <1>3, <1>4, <1>5, <1>6, <1>7 DEF Next, Done

\* No step but Init's own leaves the run without a row, or Init where it was.
LEMMA StartInvStep ==
  ASSUME InitBeforePolling, FlowInv, StartInv, [Next]_vars
  PROVE  StartInv'
<1>1. CASE InitStep
  <2>1. UNCHANGED <<polled, jobs, consumer, attempt>> /\ initJob # "done"
    BY <1>1
    DEF InitStep, InitNext, BeginRun, QueueStage, EndInit, poolVars, redisVars
  <2>2. Undispatched'
    BY <2>1 DEF StartInv, Undispatched
  <2>3. CASE BeginRun
    BY <2>2, <2>3 DEF BeginRun, StartInv
  <2>4. CASE EndInit \/ \E s \in Stage : QueueStage(s)
    <3>1. initJob = "queue" /\ initJob' \in {"queue", "done"} /\ UNCHANGED runRow
      BY <2>4 DEF EndInit, QueueStage, poolVars, pgVars
    <3> QED
      BY <2>2, <3>1 DEF StartInv
  <2> QED
    BY <1>1, <2>3, <2>4 DEF InitStep, InitNext
<1>2. CASE ~InitStep /\ (initJob # "done" \/ runRow = "")
  <2>1. Undispatched /\ (initJob = "done" => jobTrigger = {})
    BY <1>2 DEF StartInv
  <2>2. ~ \E s \in jobTrigger : PollStage(s)
    BY <2>1 DEF PollStage
  <2>3. Undispatched' /\ UNCHANGED <<jobTrigger, runRow>>
        /\ (initJob' = initJob \/ initJob' = "done")
    BY <1>2, <2>1, <2>2, UndispatchedStep
  <2> QED
    BY <1>2, <2>3 DEF StartInv
<1>3. CASE ~InitStep /\ initJob = "done" /\ runRow # ""
  <2>1. initJob' = "done"
    BY <1>3
    DEF Next, Done, PollStep, PollNext, PollStage, StartJob, JobStep, JobNext, FetchStage,
        PublishStage, PublishReturns, RequeueUnpublished, ReportDispatchFailure,
        RecordUndispatched, FinalizeUndispatched, NotificationSent, HandlerStep,
        ConsumerStep, ConsumerNext, DropSeenResult, LoseResult, StageSucceeds,
        StageFailsRetryably, StageExhausts, ReleaseChild, SkipDescendant, PassOver,
        SkipNothing, RequeueStage, RecordStage, FinalizeRun, ReportExhausted,
        StartNotification, Crash, Go, Advance, Finish, poolVars, vars
  <2>2. runRow' # ""
    BY <1>3
    DEF Next, Done, PollStep, PollNext, PollStage, StartJob, JobStep, JobNext, FetchStage,
        PublishStage, PublishReturns, RequeueUnpublished, ReportDispatchFailure,
        RecordUndispatched, FinalizeUndispatched, NotificationSent, HandlerStep,
        ConsumerStep, ConsumerNext, DropSeenResult, LoseResult, StageSucceeds,
        StageFailsRetryably, StageExhausts, ReleaseChild, SkipDescendant, PassOver,
        SkipNothing, RequeueStage, RecordStage, FinalizeRun, ReportExhausted,
        StartNotification, Crash, MaybeFinalizeRun, LeaveRunOpen, FinalizeWorkflowRun,
        FinalizePartly, FinalStatus, pgVars, vars
  <2> QED
    BY <2>1, <2>2 DEF StartInv
<1> QED
  BY <1>1, <1>2, <1>3 DEF StartInv

-----------------------------------------------------------------------------
(* The counts.                                                             *)

\* A run that has a row has its lists of children.
ListsFull == runRow # "" => \A s \in Stage : childList[s] = Children(s)

LEMMA ListsFullStep ==
  ASSUME CountsKept, FlowInv, StartInv, ListsFull, [Next]_vars
  PROVE  ListsFull'
<1> SUFFICES ASSUME runRow' # ""
             PROVE  \A s \in Stage : childList'[s] = Children(s)
  BY DEF ListsFull, Children
<1>1. CASE runRow # ""
  <2>1. initJob # "load"
    BY <1>1 DEF StartInv
  <2>2. UNCHANGED childList
    BY <2>1, ListsStep
  <2> QED
    BY <1>1, <2>2 DEF ListsFull
<1>2. CASE runRow = ""
  <2>1. Undispatched /\ jobTrigger = {}
    BY <1>2 DEF StartInv
  <2>2. InitStep
    BY <1>2, <2>1, UndispatchedStep
  <2>3. BeginRun
    BY <1>2, <2>2 DEF InitStep, InitNext, QueueStage, EndInit, pgVars
  <2>4. \E unset \in SUBSET Stage, unlisted \in SUBSET Edges :
          PrepareStages(unset, unlisted)
    BY <1>2, <2>3 DEF BeginRun, Fault, CountsKept
  <2> QED
    BY <2>4, Prepared DEF CountsKept
<1> QED
  BY <1>1, <1>2

\* A child in the consumer's hands is released or stays there.
LEMMA ReleaseKept ==
  ASSUME CountsKept, TypeOK, [Next]_vars, consumer.pc = "release",
         NEW s \in consumer.todo
  PROVE  \/ ReleaseChild(s)
         \/ /\ consumer'.pc = "release" /\ consumer'.resp = consumer.resp
            /\ s \in consumer'.todo
<1>0. /\ consumer \in [pc : ConsumerPc \ {"read"}, resp : Response,
                       todo : SUBSET Stage, visited : SUBSET Stage]
  BY Functions
<1>1. CASE consumer' = consumer
  BY <1>1
<1>2. CASE Crash
  BY <1>2 DEF Crash, Fault, CountsKept
<1>3. CASE ConsumerStep
  <2>1. PICK c \in Stage : ReleaseChild(c)
    BY <1>3
    DEF ConsumerStep, ConsumerNext, DropSeenResult, LoseResult, StageSucceeds,
        StageFailsRetryably, StageExhausts, SkipDescendant, PassOver, SkipNothing,
        RequeueStage, RecordStage, FinalizeRun, ReportExhausted, StartNotification
  <2>2. consumer' = [consumer EXCEPT !.todo = @ \ {c}]
    BY <2>1 DEF ReleaseChild, Fault, CountsKept
  <2>3. consumer'.pc = "release" /\ consumer'.resp = consumer.resp
        /\ consumer'.todo = consumer.todo \ {c}
    BY <1>0, <2>2
  <2> QED
    BY <2>1, <2>3
<1> QED
  BY <1>1, <1>2, <1>3
  DEF Next, Done, InitStep, PollStep, JobStep, HandlerStep, vars

\* A parent is taken from what s waits for by the release of s alone.
LEMMA UnreleasedKept ==
  ASSUME CountsKept, FlowInv, StartInv, ListsFull, [Next]_vars,
         NEW s \in Stage, NEW p \in Unreleased(s)
  PROVE  p \in Unreleased(s)' \/ (ReleaseChild(s) /\ p = consumer.resp.stage)
<1>0. TypeOK /\ p \in DependentOn[s] /\ p \in Stage /\ s \in Children(p)
  BY DependentOnAssumption DEF FlowInv, Unreleased, Children
<1>1. CASE fate[p] # "FIN" /\ fate'[p] # "FIN"
  BY <1>0, <1>1 DEF Unreleased
<1>2. CASE fate[p] # "FIN" /\ fate'[p] = "FIN"
  <2>1. PICK r \in responseTopic : StageSucceeds(r) /\ r.stage = p
    BY <1>0, <1>2, StatusStep DEF SameStatus, Ends
  <2>2. consumer'.pc = "release" /\ consumer'.resp = r /\ consumer'.todo = childList[p]
    BY <2>1 DEF StageSucceeds, Handle
  <2>3. runRow # ""
    <3>1. SUFFICES ASSUME runRow = ""
                   PROVE  FALSE
      OBVIOUS
    <3>2. Undispatched
      BY <3>1 DEF StartInv
    <3>3. r.attempt \in Unanswered(p)
      BY <1>0, <2>1, InHand DEF FlowInv, StageSucceeds, Messages
    <3>4. attempt[p] = 0
      BY <1>0, <3>2 DEF Undispatched
    <3> QED
      BY <3>3, <3>4 DEF Unanswered
  <2>4. childList[p] = Children(p)
    BY <1>0, <2>3 DEF ListsFull
  <2> QED
    BY <1>0, <2>1, <2>2, <2>4 DEF Unreleased
<1>3. CASE fate[p] = "FIN"
  <2>1. consumer.pc = "release" /\ consumer.resp.stage = p /\ s \in consumer.todo
    BY <1>3 DEF Unreleased
  <2>2. CASE ReleaseChild(s)
    BY <2>1, <2>2
  <2>3. CASE consumer'.pc = "release" /\ consumer'.resp = consumer.resp
             /\ s \in consumer'.todo
    BY <1>0, <2>1, <2>3 DEF Unreleased
  <2> QED
    BY <1>0, <2>1, <2>2, <2>3, ReleaseKept
<1> QED
  BY <1>1, <1>2, <1>3

\* The release of s takes one parent from what it waits for.
LEMMA ReleaseTakesOne ==
  ASSUME CountsKept, FlowInv, StartInv, ListsFull, [Next]_vars,
         NEW s \in Stage, ReleaseChild(s)
  PROVE  Cardinality(Unreleased(s)') = Cardinality(Unreleased(s)) - 1
<1>0. TypeOK /\ HandSound
  BY DEF FlowInv
<1>1. PICK p \in Stage : /\ p = consumer.resp.stage /\ fate[p] = "FIN"
                         /\ p \in Unreleased(s)
  BY <1>0, Functions DEF ReleaseChild, HandSound, Children, Unreleased
<1>2. fate'[p] = "FIN"
  BY <1>1, Stable
<1>3. consumer'.resp = consumer.resp /\ s \notin consumer'.todo
  <2>1. consumer' \in {[consumer EXCEPT !.todo = @ \ {s}], [consumer EXCEPT !.todo = {}]}
        /\ consumer.pc # "read"
    BY DEF ReleaseChild
  <2> QED
    BY <1>0, <2>1, Functions
<1>4. p \notin Unreleased(s)'
  BY <1>2, <1>3 DEF Unreleased
<1>5. Unreleased(s)' = Unreleased(s) \ {p}
  <2>1. Unreleased(s)' \subseteq Unreleased(s)
    BY UnreleasedStep
  <2>2. \A q \in Unreleased(s) : q # p => q \in Unreleased(s)'
    BY <1>1, UnreleasedKept
  <2> QED
    BY <1>4, <2>1, <2>2
<1>6. Cardinality(Unreleased(s) \ {p}) = Cardinality(Unreleased(s)) - 1
  <2>1. IsFiniteSet(Unreleased(s)) /\ p \in Unreleased(s)
    BY <1>1, UnreleasedFinite
  <2> QED
    BY <2>1, FS_RemoveElement
<1> QED
  BY <1>5, <1>6

LEMMA OneLess == \A n \in Int : n # n - 1
OBVIOUS

LEMMA NothingFinished ==
  ASSUME FlowInv, Undispatched
  PROVE  \A p \in Stage : fate[p] # "FIN"
<1>1. \A p \in Stage : ~(attempt[p] > 0)
  BY DEF Undispatched
<1> QED
  BY <1>1 DEF FlowInv, InOrder

CountsInv == FlowInv /\ StartInv /\ ListsFull /\ DepsCountsRemaining

LEMMA CountsStep ==
  ASSUME CountsKept, CountsInv, [Next]_vars
  PROVE  DepsCountsRemaining'
<1> SUFFICES ASSUME NEW s \in Stage, Counted(s)', runRow' # ""
             PROVE  deps'[s] = Cardinality(Unreleased(s)')
  BY DEF DepsCountsRemaining
<1>0. FlowInv /\ StartInv /\ ListsFull /\ TypeOK /\ DependentOn[s] # {} /\ InOrder(s)
      /\ initJob' # "load" /\ s \notin initTodo'
  BY DEF CountsInv, FlowInv, Counted
<1>1. CASE QueueStage(s)
  <2>1. initJob # "done" /\ UNCHANGED fate /\ deps'[s] = Cardinality(DependentOn[s])
    <3>1. deps' = [deps EXCEPT ![s] = Cardinality(DependentOn[s])]
      BY <1>0, <1>1 DEF QueueStage, Fault, CountsKept, DependencyCount
    <3>2. deps'[s] = Cardinality(DependentOn[s])
      BY <1>0, <3>1, Functions
    <3>3. initJob = "queue" /\ UNCHANGED fate
      BY <1>1 DEF QueueStage
    <3> QED
      BY <3>2, <3>3
  <2>2. \A p \in Stage : fate'[p] # "FIN"
    BY <1>0, <2>1, NothingFinished DEF StartInv
  <2>3. Unreleased(s)' = DependentOn[s]
    BY <2>2, DependentOnAssumption DEF Unreleased
  <2> QED
    BY <2>1, <2>3
<1>2. CASE ~QueueStage(s)
  <2>1. Counted(s) /\ runRow # ""
    <3>1. CASE InitStep
      <4>1. CASE BeginRun
        BY <1>0, <4>1 DEF BeginRun, Fault, CountsKept, StartInv
      <4>2. ASSUME NEW c \in Stage, QueueStage(c)
            PROVE  Counted(s) /\ runRow # ""
        BY <1>0, <1>2, <4>2 DEF QueueStage, Counted, StartInv
      <4>3. CASE EndInit
        BY <1>0, <4>3 DEF EndInit, Counted, StartInv
      <4> QED
        BY <3>1, <4>1, <4>2, <4>3 DEF InitStep, InitNext
    <3>2. CASE ~InitStep
      <4>1. UNCHANGED <<initJob, initTodo>>
        BY <3>2
        DEF Next, Done, PollStep, PollNext, PollStage, StartJob, JobStep, JobNext,
            FetchStage, PublishStage, PublishReturns, RequeueUnpublished,
            ReportDispatchFailure, RecordUndispatched, FinalizeUndispatched,
            NotificationSent, HandlerStep, ConsumerStep, ConsumerNext, DropSeenResult,
            LoseResult, StageSucceeds, StageFailsRetryably, StageExhausts, ReleaseChild,
            SkipDescendant, PassOver, SkipNothing, RequeueStage, RecordStage,
            FinalizeRun, ReportExhausted, StartNotification, Crash, Go, Advance, Finish,
            Fault, CountsKept, poolVars, vars
      <4>2. Counted(s)
        BY <1>0, <4>1 DEF Counted
      <4>3. runRow = "" => FALSE
        <5> SUFFICES ASSUME runRow = ""
                     PROVE  FALSE
          OBVIOUS
        <5>1. Undispatched /\ jobTrigger = {}
          BY <1>0 DEF StartInv
        <5>2. runRow' = runRow
          BY <1>0, <3>2, <5>1, UndispatchedStep
        <5> QED
          BY <5>2
      <4> QED
        BY <4>2, <4>3
    <3> QED
      BY <3>1, <3>2
  <2>2. deps[s] = Cardinality(Unreleased(s))
    BY <2>1 DEF CountsInv, DepsCountsRemaining
  <2>3. CASE deps'[s] # deps[s]
    <3>1. ReleaseChild(s) /\ deps'[s] = deps[s] - 1
      BY <1>0, <1>2, <2>3, DepsStep
    <3> QED
      BY <1>0, <2>2, <3>1, ReleaseTakesOne
  <2>4. CASE deps'[s] = deps[s]
    <3>1. ~ReleaseChild(s)
      <4>1. deps \in [Stage -> Int]
        BY <1>0, Functions
      <4>2. ReleaseChild(s) => deps' = [deps EXCEPT ![s] = @ - 1]
        BY DEF ReleaseChild, DecrementDeps, CountDown, Fault, CountsKept
      <4>3. ReleaseChild(s) => deps'[s] = deps[s] - 1
        BY <4>1, <4>2
      <4>4. deps[s] # deps[s] - 1
        BY <4>1, OneLess
      <4> QED
        BY <2>4, <4>3, <4>4
    <3>2. Unreleased(s)' = Unreleased(s)
      BY <1>0, <3>1, UnreleasedStep, UnreleasedKept
    <3> QED
      BY <2>2, <2>4, <3>2
  <2> QED
    BY <2>3, <2>4
<1> QED
  BY <1>1, <1>2

\* deps:{wf}:{stage}:{run} counts the parents a stage waits for, so that DECR
\* returns 0 for the last of them: no child is queued early and none is left
\* waiting for a parent that has finished, however the results interleave and
\* repeat.
THEOREM CountsRemaining ==
  ASSUME NoAmbiguousWrites, CountsKept
  PROVE  Spec => []DepsCountsRemaining
<1>1. Init => StartInv /\ ListsFull /\ DepsCountsRemaining
  <2> SUFFICES ASSUME Init
               PROVE  StartInv /\ ListsFull /\ DepsCountsRemaining
    OBVIOUS
  <2>1. polled = {} /\ jobs = {} /\ jobTrigger = {} /\ runRow = "" /\ initJob = "load"
    BY DEF Init, RunStateInit, PersistenceInit, PoolInit, DispatchInit
  <2>2. consumer.pc = "read"
    BY DEF Init, ConsumerInit, Idle
  <2>3. \A s \in Stage : attempt[s] = 0
    BY DEF Init, RunStateInit
  <2>4. DepsCountsRemaining
    BY <2>1 DEF DepsCountsRemaining
  <2> QED
    BY <2>1, <2>2, <2>3, <2>4 DEF StartInv, Undispatched, ListsFull
<1>2. FlowInv /\ StartInv /\ ListsFull /\ DepsCountsRemaining /\ [Next]_vars
        => StartInv' /\ ListsFull' /\ DepsCountsRemaining'
  BY StartInvStep, ListsFullStep, CountsStep DEF CountsInv, CountsKept
<1> QED
  BY <1>1, <1>2, FlowInvAlways, PTL DEF Spec

=============================================================================
