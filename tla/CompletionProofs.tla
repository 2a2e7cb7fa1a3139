-------------------------- MODULE CompletionProofs --------------------------
(***************************************************************************)
(* The counters, the rows and the outcome of a run in which the walks      *)
(* below its lost stages stay apart (WalksApart), as they do in every      *)
(* workflow whose stages have one parent at most: every ended stage is     *)
(* counted once, the run row is closed after the last of them with the     *)
(* status they call for, and the run implements DagExecution.  When two    *)
(* walks meet the first part is false (run double_skip).                   *)
(***************************************************************************)
EXTENDS FlowProofs, SequenceTheorems

USE DEF statusVars, outputVars

-----------------------------------------------------------------------------
(* The walks below lost stages.                                            *)

Exhausted(s) == fate[s] = "FAILED-EXHAUSTED"

OneLostParent ==
  \A s \in Stage : \A p, q \in DependentOn[s] :
    fate[p] \in Lost /\ fate[q] \in Lost => p = q

OneExhausted == \A s, t \in Stage : Exhausted(s) /\ Exhausted(t) => s = t

\* No stage was reached by two walks: it has one lost parent at most, or there
\* was one walk, which remembers where it was.
WalksApart == OneLostParent \/ OneExhausted

\* Below one exhausted stage the walk has visited what is skipped.
WalkSound ==
  /\ consumer.pc = "skip" =>
       /\ Exhausted(consumer.resp.stage)
       /\ consumer.todo \cap consumer.visited = {}
       /\ OneExhausted =>
            \A s \in Stage : fate[s] = "SKIPPED" => s \in consumer.visited
  /\ (\E s \in Stage : fate[s] = "SKIPPED") => \E s \in Stage : Exhausted(s)

\* In a forest the walks stay apart whatever happens.
LEMMA ForestWalksApart ==
  ASSUME \A s \in Stage : \A p, q \in DependentOn[s] : p = q
  PROVE  WalksApart
BY DEF WalksApart, OneLostParent

\* Walks that have met stay met.
LEMMA ApartBefore ==
  ASSUME FlowInv, [Next]_vars
  PROVE  /\ OneLostParent' => OneLostParent
         /\ OneExhausted' => OneExhausted
         /\ WalksApart' => WalksApart
<1>1. \A s \in Stage : fate[s] \in Lost => fate'[s] = fate[s]
  BY Stable DEF Lost
<1>2. OneLostParent' => OneLostParent
  BY <1>1, DependentOnAssumption DEF OneLostParent
<1>3. OneExhausted' => OneExhausted
  BY <1>1 DEF OneExhausted, Exhausted, Lost
<1> QED
  BY <1>2, <1>3 DEF WalksApart

-----------------------------------------------------------------------------
(* The invariant of the counters and the rows.                             *)

Ended == {s \in Stage : fate[s] \in Terminal}

\* A dispatch job that has given its stage up and has not counted it.
GivesUp(j) == j.pc \in {"dlq", "record"}

\* The consumer has ended s and has not counted it.
InConsumer(s) == consumer.pc \in {"release", "skip"} /\ consumer.resp.stage = s

Uncounted(s) == InConsumer(s) \/ \E j \in jobs : GivesUp(j) /\ j.stage = s

CountedStages == {s \in Ended : ~Uncounted(s)}

\* What is to be counted has ended, and one place is to count it.
OneCounter ==
  \A s \in Stage :
    /\ Uncounted(s) => s \in Ended
    /\ InConsumer(s) => \A j \in jobs : GivesUp(j) => j.stage # s
    /\ \A j, k \in jobs : GivesUp(j) /\ GivesUp(k) /\ j.stage = s /\ k.stage = s => j = k

\* The walk below a lost stage meets no stage twice.
WalkFresh ==
  consumer.pc = "skip" => \A c \in consumer.todo : fate[c] # "SKIPPED"

Tally == runDone <= Cardinality(CountedStages)

\* A row says how the stage ended unless its status could not be written or
\* could not be read.
RowTells(s, row) == row.status = fate[s] \/ s \in statusLost \/ ~row.read

\* A row is written, and the run closed, when every stage has ended.
RowsSound ==
  /\ Finalized => Ended = Stage /\ \A s \in Stage : executions[s] # <<>>
  /\ \A s \in Stage : executions[s] # <<>> =>
       Ended = Stage /\ RowTells(s, executions[s][1])

CompletionInv == FlowInv /\ OneCounter /\ WalkFresh /\ Tally /\ RowsSound

-----------------------------------------------------------------------------
(* Who ends a stage, and who is to count it.                               *)

LEMMA EndedStep ==
  ASSUME FlowInv, [Next]_vars
  PROVE  Ended \subseteq Ended'
BY Stable DEF Ended, Terminal

LEMMA EndedFinite ==
  /\ Ended \subseteq Stage /\ IsFiniteSet(Ended)
  /\ CountedStages \subseteq Ended /\ IsFiniteSet(CountedStages)
<1>1. Ended \subseteq Stage /\ CountedStages \subseteq Ended
  BY DEF Ended, CountedStages
<1> QED
  BY <1>1, StageAssumption, FS_Subset

\* A stage whose result or whose job is in hand has not ended.
LEMMA UnderWay ==
  ASSUME FlowInv
  PROVE  /\ \A r \in responseTopic : FirstSeen(r.stage, r.attempt) => r.stage \notin Ended
         /\ \A j \in jobs : j.pc = "fetch" => j.stage \notin Ended
<1>1. TypeOK /\ Numbered /\ OwnAttempt
  BY DEF FlowInv
<1>2. \A r \in responseTopic : r.stage \in Stage
  BY <1>1, Functions DEF Messages
<1>3. \A j \in jobs : j.stage \in Stage
  BY <1>1, Functions DEF Job
<1>4. ASSUME NEW r \in responseTopic, FirstSeen(r.stage, r.attempt)
      PROVE  r.stage \notin Ended
  BY <1>1, <1>2, <1>4, InHand, ActiveNotEnded DEF FlowInv, Messages, Active, Ended
<1>5. ASSUME NEW j \in jobs, j.pc = "fetch"
      PROVE  j.stage \notin Ended
  BY <1>1, <1>3, <1>5, InHand, ActiveNotEnded DEF FlowInv, Active, Ended
<1> QED
  BY <1>4, <1>5

\* The consumer gets a stage to count with the result that ends it.
LEMMA ConsumerGain ==
  ASSUME FlowInv, [Next]_vars, NEW s \in Stage, InConsumer(s)', ~InConsumer(s)
  PROVE  s \notin Ended /\ s \in Ended' /\ UNCHANGED jobs
<1>1. TypeOK
  BY DEF FlowInv
<1>2. consumer' # consumer /\ consumer'.pc \in {"release", "skip"} /\ consumer'.resp.stage = s
  BY DEF InConsumer
<1>3. PICK r \in responseTopic :
         /\ TakesResult(r) /\ consumer'.resp = r
         /\ fate'[r.stage] \in {"FIN", "FAILED-EXHAUSTED"}
  BY <1>1, <1>2, HandStep DEF InConsumer
<1> QED
  BY <1>2, <1>3, UnderWay DEF TakesResult, poolVars, Ended, Terminal

\* A job that gives its stage up was fetching it, and ends it, or had given it
\* up before.
LEMMA GiveUpGain ==
  ASSUME FlowInv, [Next]_vars, NEW k \in jobs', GivesUp(k), k \notin jobs
  PROVE  \E j \in jobs :
           /\ UNCHANGED consumer
           /\ Moves(j, k)
           /\ \/ GivesUp(j)
              \/ k.stage \notin Ended /\ k.stage \in Ended'
<1>0. TypeOK /\ jobs \subseteq Job
  BY Functions DEF FlowInv
<1>1. JobStep
  <2>1. CASE InitStep \/ HandlerStep \/ Crash \/ UNCHANGED vars
    BY <2>1
    DEF InitStep, InitNext, BeginRun, QueueStage, EndInit, HandlerStep, Crash, vars,
        poolVars
  <2>2. CASE PollStep
    BY <2>2 DEF PollStep, PollNext, PollStage, StartJob, Go, poolVars, GivesUp
  <2>3. CASE ConsumerStep
    <3>1. StartNotification \/ UNCHANGED jobs
      BY <2>3
      DEF ConsumerStep, ConsumerNext, DropSeenResult, LoseResult, StageSucceeds,
          StageFailsRetryably, StageExhausts, ReleaseChild, SkipDescendant, PassOver,
          SkipNothing, RequeueStage, RecordStage, FinalizeRun, ReportExhausted, poolVars
    <3> QED
      BY <3>1 DEF StartNotification, Go, GivesUp
  <2> QED
    BY <2>1, <2>2, <2>3 DEF Next, Done
<1>2. PICK j \in jobs :
         \/ FetchStage(j) \/ PublishStage(j) \/ PublishReturns(j)
         \/ RequeueUnpublished(j) \/ ReportDispatchFailure(j)
         \/ RecordUndispatched(j) \/ FinalizeUndispatched(j)
         \/ NotificationSent(j)
  BY <1>1, JobSteps
<1>3. PICK pc \in JobPc : Advance(j, pc)
  BY <1>2
  DEF FetchStage, PublishStage, PublishReturns, RequeueUnpublished,
      ReportDispatchFailure, RecordUndispatched, FinalizeUndispatched,
      NotificationSent, Finish, JobPc
<1>4. PICK l \in Job : /\ l.stage = j.stage /\ l.attempt = j.attempt /\ l.pc = pc
                       /\ jobs' = (jobs \ {j}) \cup {l}
  BY <1>0, <1>3, JobMoves
<1>5. k = l /\ Moves(j, k) /\ pc \in {"dlq", "record"}
  BY <1>4 DEF Moves, GivesUp
<1>6. CASE FetchStage(j)
  <2>0. "publish" # "dlq" /\ "publish" # "record"
    OBVIOUS
  <2>1. \E set \in BOOLEAN : EndStage(j.stage, "FAILED-EXHAUSTED", set)
    BY <1>0, <1>5, <1>6, <2>0 DEF FetchStage, Advance, GivesUp, Job
  <2>2. j.stage \in Stage /\ fate \in [Stage -> Terminal \cup {"open"}]
    BY <1>0, Functions DEF Job
  <2>3. fate'[j.stage] = "FAILED-EXHAUSTED"
    BY <2>1, <2>2 DEF EndStage
  <2>4. k.stage = j.stage
    BY <1>5 DEF Moves
  <2> QED
    BY <1>1, <1>5, <1>6, <2>2, <2>3, <2>4, UnderWay
    DEF JobStep, FetchStage, Ended, Terminal
<1>7. CASE ReportDispatchFailure(j)
  BY <1>1, <1>5, <1>7 DEF JobStep, ReportDispatchFailure, GivesUp
<1>8. CASE \/ PublishStage(j) \/ PublishReturns(j) \/ RequeueUnpublished(j)
           \/ RecordUndispatched(j) \/ FinalizeUndispatched(j) \/ NotificationSent(j)
  BY <1>0, <1>8
  DEF PublishStage, PublishReturns, RequeueUnpublished, RecordUndispatched,
      FinalizeUndispatched, NotificationSent, Advance, Finish, GivesUp, Job
<1> QED
  BY <1>2, <1>6, <1>7, <1>8

LEMMA UncountedGain ==
  ASSUME FlowInv, [Next]_vars, NEW s \in Stage, Uncounted(s)', ~Uncounted(s)
  PROVE  s \notin Ended /\ s \in Ended'
<1>1. CASE InConsumer(s)'
  BY <1>1, ConsumerGain DEF Uncounted
<1>2. CASE \E k \in jobs' : GivesUp(k) /\ k.stage = s
  <2>1. PICK k \in jobs' : GivesUp(k) /\ k.stage = s
    BY <1>2
  <2>2. k \notin jobs
    BY <2>1 DEF Uncounted
  <2> QED
    BY <2>1, <2>2, GiveUpGain DEF Uncounted, Moves
<1> QED
  BY <1>1, <1>2 DEF Uncounted, GivesUp

LEMMA OneCounterStep ==
  ASSUME FlowInv, OneCounter, [Next]_vars
  PROVE  OneCounter'
<1> SUFFICES ASSUME NEW s \in Stage
             PROVE  /\ Uncounted(s)' => s \in Ended'
                    /\ InConsumer(s)' => \A j \in jobs' : GivesUp(j) => j.stage # s
                    /\ \A j, k \in jobs' :
                         GivesUp(j) /\ GivesUp(k) /\ j.stage = s /\ k.stage = s => j = k
  BY DEF OneCounter, GivesUp
<1>0. /\ Uncounted(s) => s \in Ended
      /\ InConsumer(s) => \A j \in jobs : GivesUp(j) => j.stage # s
      /\ \A j, k \in jobs : GivesUp(j) /\ GivesUp(k) /\ j.stage = s /\ k.stage = s => j = k
  BY DEF OneCounter
<1>1. Uncounted(s)' => s \in Ended'
  BY <1>0, UncountedGain, EndedStep
<1>2. ASSUME InConsumer(s)', NEW k \in jobs', GivesUp(k), k.stage = s
      PROVE  FALSE
  <2>1. CASE ~InConsumer(s)
    BY <1>0, <1>2, <2>1, ConsumerGain DEF Uncounted
  <2>2. CASE InConsumer(s)
    <3>1. k \notin jobs /\ s \in Ended
      BY <1>0, <1>2, <2>2 DEF Uncounted
    <3> QED
      BY <1>0, <1>2, <2>2, <3>1, GiveUpGain DEF Moves
  <2> QED
    BY <2>1, <2>2
<1>3. ASSUME NEW j \in jobs', NEW k \in jobs', GivesUp(j), GivesUp(k), k \notin jobs,
             j.stage = s, k.stage = s, j # k
      PROVE  FALSE
  <2>1. PICK i \in jobs : /\ k.stage = i.stage
                          /\ jobs' = (jobs \ {i}) \cup {k}
                          /\ GivesUp(i) \/ k.stage \notin Ended
    BY <1>3, GiveUpGain DEF Moves
  <2>2. jobs' = (jobs \ {i}) \cup {k} /\ i.stage = s
    BY <1>3, <2>1
  <2>3. j \in jobs /\ j # i
    BY <1>3, <2>2
  <2>4. s \in Ended
    BY <1>0, <1>3, <2>3 DEF Uncounted
  <2> QED
    BY <1>0, <1>3, <2>1, <2>2, <2>3, <2>4
<1>4. \A j, k \in jobs' : GivesUp(j) /\ GivesUp(k) /\ j.stage = s /\ k.stage = s => j = k
  BY <1>0, <1>3
<1> QED
  BY <1>1, <1>2, <1>4

-----------------------------------------------------------------------------
(* Every count is of a stage that was not counted.                         *)

LEMMA CountedStay ==
  ASSUME FlowInv, [Next]_vars
  PROVE  CountedStages \subseteq CountedStages'
<1> SUFFICES ASSUME NEW s \in CountedStages
             PROVE  s \in CountedStages'
  OBVIOUS
<1>1. s \in Stage /\ s \in Ended /\ ~Uncounted(s)
  BY DEF CountedStages, Ended
<1>2. s \in Ended'
  BY <1>1, EndedStep
<1>3. ~Uncounted(s)'
  BY <1>1, UncountedGain
<1> QED
  BY <1>2, <1>3 DEF CountedStages

\* A fresh walk skips only what has not ended.
LEMMA SkipsUnended ==
  ASSUME FlowInv, WalkFresh, NEW c \in Stage, SkipDescendant(c)
  PROVE  c \notin Ended
<1>1. fate[c] # "SKIPPED"
  BY DEF SkipDescendant, WalkFresh
<1>2. BelowLost(c) /\ InOrder(c)
  BY DEF FlowInv, HandSound, SkipDescendant
<1>3. fate[c] \notin {"FIN", "FAILED-EXHAUSTED"}
  BY <1>2 DEF BelowLost, InOrder, Lost
<1> QED
  BY <1>1, <1>3 DEF Ended, Terminal

\* Who counts a stage.
LEMMA RunDoneStep ==
  ASSUME FlowInv, [Next]_vars, runDone' # runDone
  PROVE  /\ runDone' = runDone + 1
         /\ \/ /\ InConsumer(consumer.resp.stage) /\ consumer.resp.stage \in Stage
               /\ consumer'.pc \notin {"release", "skip"} /\ UNCHANGED jobs
            \/ \E j \in jobs : /\ j.pc = "record" /\ UNCHANGED consumer
                              /\ \A i \in jobs' : GivesUp(i) => i \in jobs \ {j}
            \/ \E c \in Stage : /\ SkipDescendant(c) /\ UNCHANGED jobs
                               /\ consumer'.pc = "skip" /\ consumer'.resp = consumer.resp
<1>0. TypeOK /\ jobs \subseteq Job
  BY Functions DEF FlowInv
<1>1. CASE InitStep
  BY <1>1 DEF InitStep, InitNext, BeginRun, QueueStage, EndInit, redisVars
<1>2. CASE PollStep
  BY <1>2 DEF PollStep, PollNext, PollStage, StartJob
<1>3. CASE JobStep
  <2>1. PICK j \in jobs : RecordUndispatched(j)
    BY <1>3, JobSteps
    DEF FetchStage, PublishStage, PublishReturns, RequeueUnpublished,
        ReportDispatchFailure, FinalizeUndispatched, NotificationSent, redisVars
  <2>2. /\ j.pc = "record" /\ runDone' = runDone + 1
        /\ Advance(j, "finalize") \/ Finish(j)
    BY <2>1 DEF RecordUndispatched, IncrementRunDone
  <2>3. \A i \in jobs' : GivesUp(i) => i \in jobs \ {j}
    <3>1. [j EXCEPT !.pc = "finalize"].pc = "finalize"
      BY <1>0 DEF Job
    <3>2. jobs' \subseteq (jobs \ {j}) \cup {[j EXCEPT !.pc = "finalize"]}
      BY <2>2 DEF Advance, Finish
    <3> QED
      BY <3>1, <3>2 DEF GivesUp
  <2> QED
    BY <1>3, <2>2, <2>3 DEF JobStep
<1>4. CASE HandlerStep
  BY <1>4 DEF HandlerStep, HandlerNext, ReceiveRequest, Respond, HandlerCrash, redisVars
<1>5. CASE ConsumerStep
  <2>1. RecordStage \/ \E c \in Stage : SkipDescendant(c)
    BY <1>5
    DEF ConsumerStep, ConsumerNext, DropSeenResult, LoseResult, StageSucceeds,
        StageFailsRetryably, StageExhausts, ReleaseChild, PassOver, SkipNothing,
        RequeueStage, FinalizeRun, ReportExhausted, StartNotification, redisVars
  <2>2. CASE RecordStage
    <3>1. /\ consumer.pc \in {"release", "skip"} /\ runDone' = runDone + 1
          /\ \/ consumer' = [consumer EXCEPT !.pc = "finalize", !.visited = {}]
             \/ consumer' = [consumer EXCEPT !.pc = "dlq", !.visited = {}]
             \/ consumer' = Idle
          /\ UNCHANGED jobs
      BY <2>2 DEF RecordStage, IncrementRunDone, AfterRecord, poolVars
    <3>2. /\ consumer.resp.stage \in Stage
          /\ \A pc \in ConsumerPc : [consumer EXCEPT !.pc = pc, !.visited = {}].pc = pc
      BY <1>0, <3>1, Functions
    <3>3. \/ consumer' = Idle
          \/ \E pc \in {"finalize", "dlq"} :
               consumer' = [consumer EXCEPT !.pc = pc, !.visited = {}]
      BY <3>1
    <3>4. {"finalize", "dlq"} \subseteq ConsumerPc
      BY DEF ConsumerPc
    <3>5. CASE consumer' = Idle
      BY <3>1, <3>2, <3>5 DEF InConsumer, Idle
    <3>6. CASE \E pc \in {"finalize", "dlq"} :
                 consumer' = [consumer EXCEPT !.pc = pc, !.visited = {}]
      <4>1. PICK pc \in {"finalize", "dlq"} :
              consumer' = [consumer EXCEPT !.pc = pc, !.visited = {}]
        BY <3>6
      <4>2. consumer'.pc = pc
        BY <3>2, <3>4, <4>1
      <4> QED
        BY <3>1, <3>2, <4>2 DEF InConsumer
    <3> QED
      BY <3>3, <3>5, <3>6
  <2>3. ASSUME NEW c \in Stage, SkipDescendant(c)
        PROVE  /\ runDone' = runDone + 1 /\ UNCHANGED jobs
               /\ consumer'.pc = "skip" /\ consumer'.resp = consumer.resp
    BY <2>3 DEF SkipDescendant, CountSkipped, IncrementRunDone, Handle, poolVars
  <2> QED
    BY <2>1, <2>2, <2>3
<1>6. CASE Crash \/ UNCHANGED vars
  BY <1>6 DEF Crash, vars, redisVars
<1> QED
  BY <1>1, <1>2, <1>3, <1>4, <1>5, <1>6 DEF Next, Done

LEMMA NewlyCounted ==
  ASSUME FlowInv, OneCounter, WalkFresh, [Next]_vars, runDone' # runDone
  PROVE  \E s \in CountedStages' : s \notin CountedStages
<1>1. ASSUME NEW s \in Stage, Uncounted(s), ~Uncounted(s)'
      PROVE  \E t \in CountedStages' : t \notin CountedStages
  <2>1. s \in Ended'
    BY <1>1, EndedStep DEF OneCounter
  <2>2. s \in CountedStages' /\ s \notin CountedStages
    BY <1>1, <2>1 DEF CountedStages
  <2> QED
    BY <2>2
<1>2. CASE /\ InConsumer(consumer.resp.stage) /\ consumer.resp.stage \in Stage
           /\ consumer'.pc \notin {"release", "skip"} /\ UNCHANGED jobs
  <2>0. PICK s \in Stage : s = consumer.resp.stage
    BY <1>2
  <2>1. ~InConsumer(s)'
    BY <1>2 DEF InConsumer
  <2>2. \A j \in jobs' : GivesUp(j) => j.stage # s
    BY <1>2, <2>0 DEF OneCounter
  <2>3. Uncounted(s)
    BY <1>2, <2>0 DEF Uncounted
  <2>4. ~Uncounted(s)'
    BY <2>1, <2>2 DEF Uncounted, GivesUp
  <2> QED
    BY <1>1, <1>2, <2>3, <2>4
<1>3. ASSUME NEW j \in jobs, j.pc = "record", UNCHANGED consumer,
             \A i \in jobs' : GivesUp(i) => i \in jobs \ {j}
      PROVE  \E t \in CountedStages' : t \notin CountedStages
  <2> DEFINE s == j.stage
  <2>1. s \in Stage
    BY Functions DEF Job, FlowInv
  <2>2. Uncounted(s)
    BY <1>3 DEF Uncounted, GivesUp
  <2>3. ~InConsumer(s)'
    BY <1>3, <2>1 DEF OneCounter, InConsumer, GivesUp
  <2>4. \A i \in jobs' : GivesUp(i) => i.stage # s
    BY <1>3, <2>1 DEF OneCounter, GivesUp
  <2>5. ~Uncounted(s)'
    BY <2>3, <2>4 DEF Uncounted, GivesUp
  <2> QED
    BY <1>1, <2>1, <2>2, <2>5
<1>4. ASSUME NEW c \in Stage, SkipDescendant(c), UNCHANGED jobs,
             consumer'.pc = "skip", consumer'.resp = consumer.resp
      PROVE  \E t \in CountedStages' : t \notin CountedStages
  <2>1. c \notin Ended
    BY <1>4, SkipsUnended
  <2>2. c \in Ended'
    <3>1. fate'[c] = "SKIPPED"
      BY <1>4, Functions DEF FlowInv, SkipDescendant, EndStage
    <3> QED
      BY <3>1 DEF Ended, Terminal
  <2>3. ~Uncounted(c)
    BY <2>1 DEF OneCounter
  <2>4. consumer.pc = "skip"
    BY <1>4 DEF SkipDescendant
  <2>5. ~Uncounted(c)'
    BY <1>4, <2>3, <2>4 DEF Uncounted, InConsumer, GivesUp
  <2>6. c \in CountedStages' /\ c \notin CountedStages
    BY <2>1, <2>2, <2>5 DEF CountedStages
  <2> QED
    BY <2>6
<1> QED
  BY <1>2, <1>3, <1>4, RunDoneStep

LEMMA TallyStep ==
  ASSUME FlowInv, OneCounter, WalkFresh, Tally, [Next]_vars
  PROVE  Tally'
<1>0. /\ runDone \in Nat /\ IsFiniteSet(CountedStages) /\ IsFiniteSet(CountedStages')
      /\ runDone <= Cardinality(CountedStages)
      /\ CountedStages \subseteq CountedStages'
  <2>1. Ended' \subseteq Stage /\ CountedStages' \subseteq Ended'
    BY DEF Ended, CountedStages
  <2>2. IsFiniteSet(CountedStages')
    BY <2>1, StageAssumption, FS_Subset
  <2> QED
    BY <2>2, EndedFinite, CountedStay DEF FlowInv, TypeOK, RunStateTypeOK, Tally
<1>1. /\ Cardinality(CountedStages) \in Nat /\ Cardinality(CountedStages') \in Nat
      /\ Cardinality(CountedStages) <= Cardinality(CountedStages')
  BY <1>0, FS_Subset, FS_CardinalityType
<1>2. CASE runDone' = runDone
  BY <1>0, <1>1, <1>2 DEF Tally
<1>3. CASE runDone' # runDone
  <2>1. runDone' = runDone + 1 /\ CountedStages # CountedStages'
    BY <1>3, RunDoneStep, NewlyCounted
  <2>2. Cardinality(CountedStages) # Cardinality(CountedStages')
    BY <1>0, <2>1, FS_Subset
  <2> QED
    BY <1>0, <1>1, <2>1, <2>2 DEF Tally
<1> QED
  BY <1>2, <1>3

\* A walk begins at an exhausted stage and goes on to what it has not visited.
LEMMA WalkStep ==
  ASSUME FlowInv, [Next]_vars, consumer'.pc = "skip"
  PROVE  \/ \E r \in responseTopic :
              /\ StageExhausts(r) /\ FirstSeen(r.stage, r.attempt) /\ r.stage \in Stage
              /\ fate'[r.stage] = "FAILED-EXHAUSTED"
              /\ consumer'.resp = r
              /\ consumer'.todo = childList[r.stage] /\ consumer'.visited = {r.stage}
         \/ /\ consumer.pc = "skip" /\ consumer'.resp = consumer.resp
            /\ consumer.visited \subseteq consumer'.visited
            /\ consumer.todo \cap consumer.visited = {} =>
                 consumer'.todo \cap consumer'.visited = {}
<1>0. TypeOK /\ fate \in [Stage -> Terminal \cup {"open"}]
  BY Functions DEF FlowInv
<1>1. CASE consumer' = consumer
  BY <1>1
<1>2. ASSUME consumer' # consumer
      PROVE  ConsumerStep /\ consumer' # Idle
  BY <1>2 DEF Next, Done, InitStep, PollStep, JobStep, HandlerStep, Crash, vars, Idle
<1>3. ASSUME NEW r \in responseTopic, StageExhausts(r)
      PROVE  /\ FirstSeen(r.stage, r.attempt) /\ r.stage \in Stage
             /\ fate'[r.stage] = "FAILED-EXHAUSTED"
             /\ consumer'.resp = r
             /\ consumer'.todo = childList[r.stage] /\ consumer'.visited = {r.stage}
  <2>1. r.stage \in Stage
    BY <1>0, Functions DEF Messages
  <2> QED
    BY <1>0, <1>3, <2>1 DEF StageExhausts, ExhaustStage, EndStage, Handle
<1>4. ASSUME NEW c \in Stage, SkipDescendant(c) \/ PassOver(c)
      PROVE  /\ consumer.pc = "skip" /\ consumer'.resp = consumer.resp
             /\ consumer'.visited = consumer.visited \cup {c}
             /\ \/ \E S : consumer'.todo = (consumer.todo \cup S) \ consumer'.visited
                \/ consumer'.todo = consumer.todo \ {c}
  BY <1>4 DEF SkipDescendant, PassOver, Handle
<1>5. consumer.pc # "read" =>
        /\ \A pc \in ConsumerPc : [consumer EXCEPT !.pc = pc].pc = pc
        /\ \A pc \in ConsumerPc : [consumer EXCEPT !.pc = pc, !.visited = {}].pc = pc
        /\ \A S \in SUBSET Stage :
             /\ [consumer EXCEPT !.todo = S].pc = consumer.pc
             /\ [consumer EXCEPT !.todo = S].resp = consumer.resp
             /\ [consumer EXCEPT !.todo = S].visited = consumer.visited
             /\ [consumer EXCEPT !.todo = S].todo = S
        /\ consumer.todo \subseteq Stage
  BY <1>0, Functions
<1>6. ASSUME SkipNothing
      PROVE  /\ consumer.pc = "skip" /\ consumer'.resp = consumer.resp
             /\ consumer'.visited = consumer.visited /\ consumer'.todo = {}
  <2>1. /\ consumer.pc = "skip" /\ consumer' = [consumer EXCEPT !.todo = {}]
        /\ {} \in SUBSET Stage
    BY <1>6 DEF SkipNothing
  <2> QED
    BY <1>5, <2>1
<1>7. ASSUME NEW r \in responseTopic, StageSucceeds(r) \/ StageFailsRetryably(r)
      PROVE  FALSE
  BY <1>7 DEF StageSucceeds, StageFailsRetryably, Handle
<1>8. ASSUME NEW c \in Stage, ReleaseChild(c)
      PROVE  FALSE
  <2>1. PICK S \in SUBSET Stage : consumer' = [consumer EXCEPT !.todo = S]
    BY <1>5, <1>8 DEF ReleaseChild
  <2> QED
    BY <1>5, <1>8, <2>1 DEF ReleaseChild
<1>9. ASSUME \/ RequeueStage \/ RecordStage \/ FinalizeRun \/ ReportExhausted
             \/ StartNotification
      PROVE  FALSE
  <2>1. consumer.pc # "read"
    BY <1>9
    DEF RequeueStage, RecordStage, FinalizeRun, ReportExhausted, StartNotification
  <2>2. \/ consumer' = Idle
        \/ consumer' = [consumer EXCEPT !.pc = "notify"]
        \/ \E pc \in {"finalize", "dlq"} :
             consumer' = [consumer EXCEPT !.pc = pc, !.visited = {}]
    BY <1>9
    DEF RequeueStage, RecordStage, FinalizeRun, ReportExhausted, StartNotification,
        AfterRecord
  <2>3. PICK pc \in {"finalize", "dlq", "notify"} :
          \/ consumer' = [consumer EXCEPT !.pc = pc]
          \/ consumer' = [consumer EXCEPT !.pc = pc, !.visited = {}]
    BY <2>2 DEF Idle
  <2>4. pc \in ConsumerPc
    BY DEF ConsumerPc
  <2>5. consumer'.pc = pc
    BY <1>5, <2>1, <2>3, <2>4
  <2> QED
    BY <2>5
<1>10. CASE consumer' # consumer
  <2>1. \/ \E r \in responseTopic : StageExhausts(r)
        \/ \E c \in Stage : SkipDescendant(c) \/ PassOver(c)
        \/ SkipNothing
    BY <1>2, <1>7, <1>8, <1>9, <1>10 DEF ConsumerStep, ConsumerNext, DropSeenResult, LoseResult
  <2>2. CASE \E c \in Stage : SkipDescendant(c) \/ PassOver(c)
    <3>1. PICK c \in Stage : SkipDescendant(c) \/ PassOver(c)
      BY <2>2
    <3> QED
      BY <1>4, <3>1
  <2> QED
    BY <1>3, <1>6, <2>1, <2>2
<1> QED
  BY <1>1, <1>10

LEMMA WalkSoundStep ==
  ASSUME FlowInv, WalkSound, [Next]_vars
  PROVE  WalkSound'
<1>0. TypeOK
  BY DEF FlowInv
<1>1. ASSUME NEW s \in Stage, fate'[s] = "SKIPPED", fate[s] # "SKIPPED"
      PROVE  SkipDescendant(s)
  BY <1>0, <1>1, StatusStep DEF SameStatus, Ends
<1>2. ASSUME NEW s \in Stage, Exhausted(s)
      PROVE  Exhausted(s)'
  BY <1>2, Stable DEF Exhausted
<1>3. consumer.pc = "skip" => consumer.resp.stage \in Stage
  BY <1>0, Functions
<1>4. ASSUME NEW s \in Stage, fate'[s] = "SKIPPED"
      PROVE  \E t \in Stage : Exhausted(t)'
  <2>1. CASE fate[s] = "SKIPPED"
    BY <1>2, <2>1 DEF WalkSound
  <2>2. CASE SkipDescendant(s)
    BY <1>2, <1>3, <2>2 DEF WalkSound, SkipDescendant
  <2> QED
    BY <1>1, <1>4, <2>1, <2>2
<1>5. ASSUME NEW r \in responseTopic, StageExhausts(r), FirstSeen(r.stage, r.attempt),
             r.stage \in Stage, fate'[r.stage] = "FAILED-EXHAUSTED",
             consumer'.todo = childList[r.stage], consumer'.visited = {r.stage}
      PROVE  /\ consumer'.todo \cap consumer'.visited = {}
             /\ OneExhausted' => \A s \in Stage : fate'[s] # "SKIPPED"
  <2>1. Active(r.stage) /\ r.stage \notin Ended
    BY <1>0, <1>5, InHand, UnderWay DEF FlowInv, Messages, Active
  <2>2. r.stage \notin childList[r.stage]
    BY <1>5, <2>1 DEF FlowInv, ListsSound, InOrder, Children, Ended, Terminal
  <2>3. ASSUME OneExhausted', NEW s \in Stage, fate'[s] = "SKIPPED"
        PROVE  FALSE
    <3>1. fate[s] = "SKIPPED"
      BY <1>1, <1>5, <2>3 DEF SkipDescendant, StageExhausts
    <3>2. PICK t \in Stage : Exhausted(t)
      BY <3>1 DEF WalkSound
    <3>3. t # r.stage
      BY <2>1, <3>2 DEF Exhausted, Ended, Terminal
    <3> QED
      BY <1>2, <1>5, <2>3, <3>2, <3>3 DEF OneExhausted, Exhausted
  <2> QED
    BY <1>5, <2>2, <2>3
<1>6. ASSUME consumer.pc = "skip", consumer.visited \subseteq consumer'.visited,
             OneExhausted', NEW s \in Stage, fate'[s] = "SKIPPED"
      PROVE  s \in consumer'.visited
  <2>1. CASE fate[s] = "SKIPPED"
    BY <1>6, <2>1, ApartBefore DEF WalkSound
  <2>2. CASE SkipDescendant(s)
    BY <2>2 DEF SkipDescendant, Handle
  <2> QED
    BY <1>1, <1>6, <2>1, <2>2
<1>7. ASSUME consumer'.pc = "skip"
      PROVE  /\ Exhausted(consumer.resp.stage)'
             /\ consumer'.todo \cap consumer'.visited = {}
             /\ OneExhausted' =>
                  \A s \in Stage : fate'[s] = "SKIPPED" => s \in consumer'.visited
  <2>1. CASE \E r \in responseTopic :
              /\ StageExhausts(r) /\ FirstSeen(r.stage, r.attempt) /\ r.stage \in Stage
              /\ fate'[r.stage] = "FAILED-EXHAUSTED"
              /\ consumer'.resp = r
              /\ consumer'.todo = childList[r.stage] /\ consumer'.visited = {r.stage}
    BY <1>5, <2>1 DEF Exhausted
  <2>2. CASE /\ consumer.pc = "skip" /\ consumer'.resp = consumer.resp
             /\ consumer.visited \subseteq consumer'.visited
             /\ consumer.todo \cap consumer.visited = {} =>
                  consumer'.todo \cap consumer'.visited = {}
    <3>1. Exhausted(consumer.resp.stage) /\ consumer.resp.stage \in Stage
      BY <1>3, <2>2 DEF WalkSound
    <3>2. Exhausted(consumer.resp.stage)'
      BY <1>2, <2>2, <3>1 DEF Exhausted
    <3> QED
      BY <1>6, <2>2, <3>2 DEF WalkSound
  <2> QED
    BY <1>7, <2>1, <2>2, WalkStep
<1> QED
  BY <1>4, <1>7 DEF WalkSound, Exhausted, OneExhausted

\* The walk stays in the workflow.
LEMMA WalkStaysIn ==
  ASSUME TypeOK, [Next]_vars
  PROVE  consumer'.pc = "skip" => consumer'.todo \subseteq Stage
<1>1. TypeOK'
  BY NextType
<1> QED
  BY <1>1 DEF TypeOK, ConsumerTypeOK, Idle

LEMMA WalkFreshStep ==
  ASSUME FlowInv, WalkFresh, WalkSound', WalksApart', [Next]_vars
  PROVE  WalkFresh'
<1> SUFFICES ASSUME consumer'.pc = "skip", NEW c \in consumer'.todo,
                    fate'[c] = "SKIPPED"
             PROVE  FALSE
  BY DEF WalkFresh
<1>0. /\ TypeOK /\ \A p \in Stage : Children(p) \subseteq Stage
      /\ \A p \in Stage : childList[p] \subseteq Children(p)
  BY DEF FlowInv, ListsSound, Children
<1>1. consumer.pc = "skip" => consumer.todo \subseteq Stage
  BY <1>0, Functions
<1>2. ASSUME c \in Stage, fate[c] # "SKIPPED"
      PROVE  consumer.pc = "skip" /\ c \in consumer.todo /\ SkipDescendant(c)
             /\ c \notin Ended /\ c \notin consumer'.todo
  <2>1. SkipDescendant(c)
    BY <1>0, <1>2, StatusStep DEF SameStatus, Ends
  <2>2. c \notin Ended
    BY <1>2, <2>1, SkipsUnended
  <2> QED
    BY <2>1, <2>2 DEF SkipDescendant, Handle
<1>3. ~(consumer.pc = "skip" /\ c \in consumer.todo)
  BY <1>1, <1>2 DEF WalkFresh
<1>4. OneLostParent'
  <2>1. c \in Stage
    BY <1>0, WalkStaysIn
  <2>2. ~OneExhausted'
    BY <2>1 DEF WalkSound
  <2> QED
    BY <2>2 DEF WalksApart
<1>5. ASSUME NEW p \in Stage, p \notin Ended, fate'[p] \in Lost, c \in Children(p)
      PROVE  FALSE
  <2>1. c \in Stage /\ p \in DependentOn[c]
    BY <1>5 DEF Children
  <2>2. fate[c] = "SKIPPED"
    BY <1>2, <2>1
  <2>3. PICK q \in DependentOn[c] : fate[q] \in Lost
    BY <2>1, <2>2 DEF FlowInv, SkippedBelowLost, BelowLost
  <2>4. q \in Stage /\ q \in Ended
    BY <2>1, <2>3, DependentOnAssumption DEF Ended, Lost, Terminal
  <2>5. fate'[q] \in Lost
    BY <2>3, <2>4, Stable DEF Lost
  <2> QED
    BY <1>5, <1>4, <2>1, <2>4, <2>5 DEF OneLostParent
<1>6. consumer' # consumer
  BY <1>3
<1>7. CASE \E r \in responseTopic :
             /\ TakesResult(r) /\ r.stage \in Stage
             /\ consumer'.resp = r /\ consumer'.todo = childList[r.stage]
  <2>1. PICK r \in responseTopic :
             /\ TakesResult(r) /\ r.stage \in Stage
             /\ consumer'.resp = r /\ consumer'.todo = childList[r.stage]
    BY <1>7
  <2>2. fate'[r.stage] \in Lost
    BY <2>1 DEF WalkSound, Exhausted, Lost
  <2> QED
    BY <1>0, <1>5, <2>1, <2>2, UnderWay DEF TakesResult
<1>8. CASE /\ consumer'.pc = consumer.pc /\ consumer'.resp = consumer.resp
           /\ consumer'.todo \subseteq consumer.todo
  BY <1>3, <1>8
<1>9. CASE \E d \in Stage : /\ SkipDescendant(d)
                           /\ consumer.pc = "skip" /\ fate'[d] = "SKIPPED"
                           /\ consumer'.todo \subseteq consumer.todo \cup childList[d]
  <2>1. PICK d \in Stage : /\ SkipDescendant(d)
                           /\ consumer.pc = "skip" /\ fate'[d] = "SKIPPED"
                           /\ consumer'.todo \subseteq consumer.todo \cup childList[d]
    BY <1>9
  <2>2. d \notin Ended /\ c \in Children(d)
    BY <1>0, <1>3, <2>1, SkipsUnended
  <2>3. fate'[d] \in Lost
    BY <2>1 DEF Lost
  <2> QED
    BY <1>5, <2>2, <2>3
<1> QED
  BY <1>0, <1>6, <1>7, <1>8, <1>9, HandStep

-----------------------------------------------------------------------------
(* The rows.                                                               *)

\* Who writes the rows: maybeFinalizeRun once every stage is counted, in the
\* consumer or in a dispatch job, and Init before anything else.
LEMMA RowStep ==
  ASSUME FlowInv, [Next]_vars
  PROVE  \/ UNCHANGED pgVars
         \/ UNCHANGED executions /\ initJob = "load" /\ runRow' = "RUNNING"
         \/ /\ RunComplete(runDone, RunTotal)
            /\ UNCHANGED redisVars
            /\ \/ FinalizeWorkflowRun
               \/ FinalizePartly
            /\ \/ consumer.pc = "finalize" /\ consumer' = AfterRecord
               \/ \E j \in jobs : j.pc = "finalize"
<1>1. CASE InitStep
  BY <1>1 DEF InitStep, InitNext, BeginRun, QueueStage, EndInit, pgVars
<1>2. CASE PollStep
  BY <1>2 DEF PollStep, PollNext, PollStage, StartJob
<1>3. CASE JobStep
  <2>1. PICK j \in jobs :
           \/ FetchStage(j) \/ PublishStage(j) \/ PublishReturns(j)
           \/ RequeueUnpublished(j) \/ ReportDispatchFailure(j)
           \/ RecordUndispatched(j) \/ FinalizeUndispatched(j)
           \/ NotificationSent(j)
    BY <1>3, JobSteps
  <2>2. CASE FinalizeUndispatched(j)
    BY <2>2
    DEF FinalizeUndispatched, MaybeFinalizeRun, LeaveRunOpen, FinalizeWorkflowRun,
        FinalizePartly
  <2> QED
    BY <2>1, <2>2
    DEF FetchStage, PublishStage, PublishReturns, RequeueUnpublished,
        ReportDispatchFailure, RecordUndispatched, NotificationSent
<1>4. CASE HandlerStep
  BY <1>4 DEF HandlerStep
<1>5. CASE ConsumerStep
  <2>1. CASE FinalizeRun
    BY <2>1
    DEF FinalizeRun, MaybeFinalizeRun, LeaveRunOpen, FinalizeWorkflowRun,
        FinalizePartly
  <2> QED
    BY <1>5, <2>1
    DEF ConsumerStep, ConsumerNext, DropSeenResult, LoseResult, StageSucceeds,
        StageFailsRetryably, StageExhausts, ReleaseChild, SkipDescendant, PassOver,
        SkipNothing, RequeueStage, RecordStage, ReportExhausted, StartNotification
<1>6. CASE Crash \/ UNCHANGED vars
  BY <1>6 DEF Crash, vars
<1> QED
  BY <1>1, <1>2, <1>3, <1>4, <1>5, <1>6 DEF Next, Done

\* The run looks complete only when every stage has ended and is counted.
LEMMA CompleteRun ==
  ASSUME FlowInv, Tally, runDone >= RunTotal
  PROVE  CountedStages = Stage /\ Ended = Stage /\ runDone = RunTotal
<1>1. /\ runDone \in Nat /\ Cardinality(Stage) \in Nat
      /\ Cardinality(CountedStages) \in Nat
      /\ CountedStages \subseteq Stage /\ Ended \subseteq Stage
      /\ CountedStages \subseteq Ended
  BY StageAssumption, EndedFinite, FS_CardinalityType DEF FlowInv, TypeOK, RunStateTypeOK
<1>2. Cardinality(CountedStages) <= Cardinality(Stage)
  BY <1>1, StageAssumption, FS_Subset
<1>3. runDone <= Cardinality(CountedStages) /\ runDone >= Cardinality(Stage)
  BY DEF Tally, RunTotal
<1>4. Cardinality(CountedStages) = Cardinality(Stage) /\ runDone = Cardinality(Stage)
  BY <1>1, <1>2, <1>3
<1>5. CountedStages = Stage
  BY <1>1, <1>4, StageAssumption, FS_Subset
<1> QED
  BY <1>1, <1>4, <1>5 DEF RunTotal

\* A row is appended to the rows of a stage.
LEMMA AppendedRow ==
  ASSUME FlowInv, NEW failed, NEW unread,
         NEW S \in SUBSET Stage, AppendOutcomes(S, failed, unread), NEW s \in Stage
  PROVE  /\ s \notin S => executions'[s] = executions[s]
         /\ s \in S => /\ executions'[s] # <<>>
                       /\ Len(executions'[s]) = Len(executions[s]) + 1
                       /\ executions'[s][1] = IF executions[s] = <<>>
                                              THEN Outcome(s, failed, unread)
                                              ELSE executions[s][1]
<1> DEFINE seq == executions[s]
           row == Outcome(s, failed, unread)
<1>1. seq \in Seq(ExecutionRow) /\ row \in ExecutionRow
  <2>1. seq \in Seq(ExecutionRow)
    BY DEF FlowInv, TypeOK, PersistenceTypeOK
  <2>2. row \in ExecutionRow
    BY DEF FlowInv, TypeOK, RunStateTypeOK, Outcome, ExecutionRow, StageStatus
  <2> QED
    BY <2>1, <2>2
<1>2. executions'[s] = IF s \in S THEN Append(seq, row) ELSE seq
  BY DEF AppendOutcomes
<1>3. /\ Append(seq, row) # <<>>
      /\ Len(Append(seq, row)) = Len(seq) + 1
      /\ seq = <<>> => Append(seq, row)[1] = row
      /\ seq # <<>> => Append(seq, row)[1] = seq[1]
  BY <1>1, AppendProperties, EmptySeq, LenProperties
<1> QED
  BY <1>2, <1>3

\* What is read of an ended stage says how it ended.
LEMMA OutcomeTells ==
  ASSUME FlowInv, NEW s \in Stage, s \in Ended, NEW failed, NEW unread
  PROVE  RowTells(s, Outcome(s, failed, unread))
<1>1. fate[s] # "open" /\ fate[s] # "" /\ KeyTells(s)
  BY DEF FlowInv, Ended, Terminal
<1>2. stageStatus[s] = fate[s] \/ s \in statusLost
  BY <1>1 DEF KeyTells
<1> QED
  BY <1>1, <1>2 DEF RowTells, Outcome

\* Nothing writes the status of a stage that has ended, while the walks stay
\* apart.
LEMMA EndedKeeps ==
  ASSUME FlowInv, WalkFresh, [Next]_vars, NEW s \in Stage, s \in Ended
  PROVE  SameStatus(s)
<1>1. fate[s] \in Terminal /\ fate[s] # "open" /\ InOrder(s) /\ SkippedBelowLost(s)
      /\ NothingBeforeInit
  BY DEF FlowInv, Ended, Terminal
<1>2. ~Active(s) /\ initJob # "load"
  BY <1>1, ActiveNotEnded DEF NothingBeforeInit
<1>3. ~SkipDescendant(s)
  BY SkipsUnended
<1> QED
  BY <1>2, <1>3, Writer

LEMMA RowsSoundStep ==
  ASSUME FlowInv, WalkFresh, Tally, RowsSound, [Next]_vars
  PROVE  RowsSound'
<1>0. /\ Finalized => Ended = Stage /\ \A s \in Stage : executions[s] # <<>>
      /\ \A s \in Stage : executions[s] # <<>> =>
           Ended = Stage /\ RowTells(s, executions[s][1])
  BY DEF RowsSound
<1>1. CASE UNCHANGED executions /\ (Finalized' => Finalized)
  <2>1. Ended = Stage => Ended' = Stage /\ \A s \in Stage : SameStatus(s)
    BY EndedKeeps, EndedStep DEF Ended
  <2>2. \A s \in Stage : SameStatus(s) /\ RowTells(s, executions[s][1]) =>
                        RowTells(s, executions[s][1])'
    BY <1>1 DEF RowTells, SameStatus
  <2> QED
    BY <1>0, <1>1, <2>1, <2>2 DEF RowsSound
<1>2. CASE /\ RunComplete(runDone, RunTotal) /\ UNCHANGED redisVars
           /\ FinalizeWorkflowRun \/ FinalizePartly
  <2>1. Ended = Stage /\ Ended' = Stage /\ UNCHANGED statusVars
    <3>1. Ended = Stage
      BY <1>2, CompleteRun DEF RunComplete
    <3> QED
      BY <1>2, <3>1 DEF redisVars, Ended
  <2>2. PICK S \in SUBSET Stage, failed \in BOOLEAN, unread \in SUBSET Stage :
          /\ AppendOutcomes(S, failed, unread)
          /\ S = Stage \/ runRow' = runRow
    BY <1>2 DEF FinalizeWorkflowRun, FinalizePartly
  <2>3. \A s \in Stage : executions'[s] # <<>> => RowTells(s, executions'[s][1])
    BY <1>0, <2>1, <2>2, AppendedRow, OutcomeTells
  <2>4. Finalized' => \A s \in Stage : executions'[s] # <<>>
    BY <1>0, <2>1, <2>2, AppendedRow DEF Finalized
  <2> QED
    BY <2>1, <2>3, <2>4 DEF RowsSound, RowTells
<1> QED
  BY <1>1, <1>2, RowStep DEF pgVars, Finalized

-----------------------------------------------------------------------------
(* The theorems about the counters and the rows.                           *)

LEMMA CompletionInvInit == Init => CompletionInv
<1> SUFFICES ASSUME Init
             PROVE  CompletionInv
  OBVIOUS
<1>1. /\ FlowInv /\ jobs = {} /\ consumer.pc = "read" /\ runRow = ""
      /\ \A s \in Stage : executions[s] = <<>>
  BY FlowInvInit
  DEF Init, RunStateInit, PoolInit, ConsumerInit, Idle, PersistenceInit
<1>2. \A s : ~Uncounted(s) /\ ~InConsumer(s)
  BY <1>1 DEF Uncounted, InConsumer
<1>3. Tally
  <2>1. Cardinality(CountedStages) \in Nat
    BY EndedFinite, FS_CardinalityType
  <2>2. runDone = 0
    BY DEF Init, RunStateInit
  <2> QED
    BY <2>1, <2>2 DEF Tally
<1>4. OneCounter /\ WalkFresh
  BY <1>1, <1>2 DEF OneCounter, WalkFresh
<1>5. RowsSound
  BY <1>1 DEF RowsSound, Finalized
<1> QED
  BY <1>1, <1>3, <1>4, <1>5 DEF CompletionInv

LEMMA CompletionInvAlways ==
  ASSUME NoAmbiguousWrites
  PROVE  Spec => []FlowInv /\ [](WalksApart => CompletionInv)
<1> DEFINE Inv == FlowInv /\ WalkSound /\ (WalksApart => CompletionInv)
<1>1. Init => Inv
  <2>1. ASSUME Init
        PROVE  WalkSound
    <3>1. consumer.pc = "read" /\ \A s \in Stage : fate[s] = "open"
      BY <2>1 DEF Init, RunStateInit, ConsumerInit, Idle
    <3> QED
      BY <3>1 DEF WalkSound
  <2> QED
    BY <2>1, CompletionInvInit DEF CompletionInv
<1>2. Inv /\ [Next]_vars => Inv'
  <2> SUFFICES ASSUME Inv, [Next]_vars
               PROVE  Inv'
    OBVIOUS
  <2>1. FlowInv' /\ WalkSound'
    BY FlowInvNext, WalkSoundStep
  <2>2. ASSUME WalksApart'
        PROVE  CompletionInv'
    <3>1. CompletionInv
      BY <2>2, ApartBefore
    <3> QED
      BY <2>1, <2>2, <3>1, OneCounterStep, WalkFreshStep, TallyStep, RowsSoundStep
      DEF CompletionInv
  <2> QED
    BY <2>1, <2>2
<1>3. Inv => FlowInv /\ (WalksApart => CompletionInv)
  OBVIOUS
<1> HIDE DEF Inv
<1> QED
  BY <1>1, <1>2, <1>3, PTL DEF Spec

\* run:done counts no stage before it has ended and none twice, so the run
\* never looks complete with a stage under way: INCR by the consumer, by its
\* walk and by a failed dispatch, whichever of the status, output and flag
\* writes around it fail, until two walks meet.
THEOREM CountsEnds ==
  ASSUME NoAmbiguousWrites
  PROVE  Spec => [](WalksApart => CountedOnce)
<1>1. CompletionInv => CountedOnce
  <2> SUFFICES ASSUME CompletionInv
               PROVE  CountedOnce
    OBVIOUS
  <2>1. runDone \in Nat /\ runDone <= Cardinality(CountedStages)
    BY DEF CompletionInv, Tally, FlowInv, TypeOK, RunStateTypeOK
  <2>2. /\ Cardinality(CountedStages) <= Cardinality(Ended)
        /\ Cardinality(CountedStages) \in Nat /\ Cardinality(Ended) \in Nat
    BY EndedFinite, FS_Subset, FS_CardinalityType
  <2>3. \A s \in Stage : fate[s] \in Terminal <=> fate[s] # "open"
    BY DEF CompletionInv, FlowInv, TypeOK, RunStateTypeOK, Terminal
  <2>4. Ended = {s \in Stage : fate[s] # "open"}
    BY <2>3 DEF Ended
  <2> QED
    BY <2>1, <2>2, <2>4 DEF CountedOnce
<1> QED
  BY <1>1, CompletionInvAlways, PTL

\* A closed run has only ended stages, each with a row that says how unless its
\* status could not be written or could not be read, even if the consumer and a
\* failed dispatch close it at the same time or a database error leaves some of
\* the rows behind.
THEOREM ClosedRunEnded ==
  ASSUME NoAmbiguousWrites
  PROVE  Spec => [](WalksApart => FinalizedAllTerminal)
<1>1. CompletionInv => FinalizedAllTerminal
  <2> SUFFICES ASSUME CompletionInv, Finalized, NEW s \in Stage
               PROVE  /\ fate[s] # "open" /\ executions[s] # <<>>
                      /\ \/ executions[s][1].status = fate[s]
                         \/ s \in statusLost \/ ~executions[s][1].read
    BY DEF FinalizedAllTerminal
  <2>1. /\ s \in Ended /\ executions[s] # <<>>
        /\ RowTells(s, executions[s][1])
    BY DEF CompletionInv, RowsSound
  <2> QED
    BY <2>1 DEF Ended, Terminal, RowTells
<1> QED
  BY <1>1, CompletionInvAlways, PTL

-----------------------------------------------------------------------------
(* Without database errors the run is closed once.                         *)

NoDatabaseErrors == "db" \notin Faults

\* Only the consumer closes the run, and it counts nothing afterwards.
ClosedOnce ==
  /\ \A j \in jobs : j.pc \notin {"dlq", "record", "finalize"}
  /\ Finalized => runDone >= RunTotal /\ RunTotal # 0 /\ consumer.pc # "finalize"
  /\ \A s \in Stage : Len(executions[s]) = IF Finalized THEN 1 ELSE 0

\* No job gives its stage up.
LEMMA NoGivenUpStep ==
  ASSUME NoDatabaseErrors, TypeOK, [Next]_vars,
         NEW k \in jobs', k.pc \in {"dlq", "record", "finalize"}
  PROVE  \E j \in jobs : j.pc \in {"dlq", "record", "finalize"}
<1> SUFFICES ASSUME k \notin jobs
             PROVE  \E j \in jobs : j.pc \in {"dlq", "record"}
  OBVIOUS
<1>0. jobs \subseteq Job
  BY Functions
<1>1. CASE InitStep \/ HandlerStep \/ Crash \/ UNCHANGED vars
  BY <1>1
  DEF InitStep, InitNext, BeginRun, QueueStage, EndInit, HandlerStep, Crash, vars,
      poolVars
<1>2. CASE PollStep
  BY <1>2 DEF PollStep, PollNext, PollStage, StartJob, Go, poolVars
<1>3. CASE JobStep
  <2>1. PICK j \in jobs :
           \/ FetchStage(j) \/ PublishStage(j) \/ PublishReturns(j)
           \/ RequeueUnpublished(j) \/ ReportDispatchFailure(j)
           \/ RecordUndispatched(j) \/ FinalizeUndispatched(j)
           \/ NotificationSent(j)
    BY <1>3, JobSteps
  <2>2. CASE ReportDispatchFailure(j) \/ RecordUndispatched(j)
    BY <2>2 DEF ReportDispatchFailure, RecordUndispatched
  <2>3. CASE FetchStage(j) \/ PublishStage(j) \/ PublishReturns(j)
    <3>1. \/ \E pc \in {"publish", "written", "requeue"} : Advance(j, pc)
          \/ Finish(j)
      BY <2>3 DEF FetchStage, PublishStage, PublishReturns, Fault, NoDatabaseErrors
    <3> QED
      BY <1>0, <3>1 DEF Advance, Finish, Job
  <2>4. CASE RequeueUnpublished(j) \/ FinalizeUndispatched(j) \/ NotificationSent(j)
    BY <2>4 DEF RequeueUnpublished, FinalizeUndispatched, NotificationSent, Finish
  <2> QED
    BY <2>1, <2>2, <2>3, <2>4
<1>4. CASE ConsumerStep
  <2>1. StartNotification \/ UNCHANGED jobs
    BY <1>4
    DEF ConsumerStep, ConsumerNext, DropSeenResult, LoseResult, StageSucceeds,
        StageFailsRetryably, StageExhausts, ReleaseChild, SkipDescendant, PassOver,
        SkipNothing, RequeueStage, RecordStage, FinalizeRun, ReportExhausted, poolVars
  <2> QED
    BY <2>1 DEF StartNotification, Go
<1> QED
  BY <1>1, <1>2, <1>3, <1>4 DEF Next, Done

\* The consumer looks at the run's counters when it has counted a stage.
LEMMA FinalizeGain ==
  ASSUME TypeOK, [Next]_vars, consumer'.pc = "finalize", consumer.pc # "finalize"
  PROVE  InConsumer(consumer.resp.stage) /\ consumer.resp.stage \in Stage
<1>1. ConsumerStep /\ consumer' # Idle
  BY DEF Next, Done, InitStep, PollStep, JobStep, HandlerStep, Crash, vars, Idle
<1>2. consumer.pc # "read" =>
        /\ consumer.resp.stage \in Stage
        /\ \A pc \in ConsumerPc : [consumer EXCEPT !.pc = pc].pc = pc
        /\ \A pc \in ConsumerPc : [consumer EXCEPT !.pc = pc, !.visited = {}].pc = pc
        /\ \A S \in SUBSET Stage : [consumer EXCEPT !.todo = S].pc = consumer.pc
        /\ consumer.todo \subseteq Stage
  BY Functions
<1>3. ~\E r \in responseTopic :
         StageSucceeds(r) \/ StageFailsRetryably(r) \/ StageExhausts(r)
  BY DEF StageSucceeds, StageFailsRetryably, StageExhausts, Handle
<1>4. ~\E c \in Stage : SkipDescendant(c) \/ PassOver(c)
  BY DEF SkipDescendant, PassOver, Handle
<1>5. ~(SkipNothing \/ \E c \in Stage : ReleaseChild(c))
  <2>1. SUFFICES ASSUME SkipNothing \/ \E c \in Stage : ReleaseChild(c)
                 PROVE  FALSE
    OBVIOUS
  <2>2. consumer.pc \in {"skip", "release"}
    BY <2>1 DEF SkipNothing, ReleaseChild
  <2>3. PICK S \in SUBSET Stage : consumer' = [consumer EXCEPT !.todo = S]
    BY <1>2, <2>1, <2>2 DEF SkipNothing, ReleaseChild
  <2> QED
    BY <1>2, <2>2, <2>3
<1>6. ~(FinalizeRun \/ ReportExhausted)
  BY <1>2 DEF FinalizeRun, ReportExhausted, ConsumerPc
<1>7. ~(RequeueStage \/ StartNotification)
  BY <1>1 DEF RequeueStage, StartNotification
<1>8. RecordStage
  BY <1>1, <1>3, <1>4, <1>5, <1>6, <1>7
  DEF ConsumerStep, ConsumerNext, DropSeenResult, LoseResult
<1> QED
  BY <1>2, <1>8 DEF RecordStage, InConsumer

\* A closed run keeps its row and its stages' rows.
LEMMA ClosedForGood ==
  ASSUME CompletionInv, ClosedOnce, [Next]_vars, Finalized
  PROVE  initJob # "load" /\ UNCHANGED pgVars
<1>1. Ended = Stage /\ Stage # {}
  <2>1. Ended = Stage
    BY CompleteRun DEF CompletionInv, ClosedOnce
  <2>2. Stage = {} => RunTotal = 0
    BY FS_EmptySet DEF RunTotal
  <2> QED
    BY <2>1, <2>2 DEF ClosedOnce
<1>2. initJob # "load"
  BY <1>1 DEF CompletionInv, FlowInv, NothingBeforeInit, Ended, Terminal
<1>3. consumer.pc # "finalize" /\ \A j \in jobs : j.pc # "finalize"
  BY DEF ClosedOnce
<1> QED
  BY <1>2, <1>3, RowStep DEF CompletionInv

LEMMA ClosedOnceStep ==
  ASSUME NoDatabaseErrors, CompletionInv, ClosedOnce, [Next]_vars
  PROVE  ClosedOnce'
<1>0. FlowInv /\ TypeOK /\ Tally /\ OneCounter /\ runDone \in Nat /\ RunTotal \in Nat
  <2>1. RunTotal \in Nat
    BY StageAssumption, FS_CardinalityType DEF RunTotal
  <2> QED
    BY <2>1 DEF CompletionInv, FlowInv, TypeOK, RunStateTypeOK
<1>1. \A j \in jobs' : j.pc \notin {"dlq", "record", "finalize"}
  BY <1>0, NoGivenUpStep DEF ClosedOnce
<1>2. runDone' >= runDone
  BY <1>0, RunDoneStep
<1>3. Finalized => CountedStages = Stage /\ consumer'.pc # "finalize"
  <2> SUFFICES ASSUME Finalized
               PROVE  CountedStages = Stage /\ consumer'.pc # "finalize"
    OBVIOUS
  <2>1. CountedStages = Stage
    BY <1>0, CompleteRun DEF ClosedOnce
  <2>2. ~(InConsumer(consumer.resp.stage) /\ consumer.resp.stage \in Stage)
    BY <2>1 DEF CountedStages, Uncounted
  <2> QED
    BY <1>0, <2>1, <2>2, FinalizeGain DEF ClosedOnce
<1>4. CASE UNCHANGED pgVars
  <2>1. Finalized' = Finalized /\ RunTotal' = RunTotal
    BY <1>4 DEF pgVars, Finalized, RunTotal
  <2>2. Finalized => runDone' >= RunTotal /\ RunTotal # 0
    BY <1>0, <1>2, RunDoneStep DEF ClosedOnce
  <2>3. \A s \in Stage : Len(executions'[s]) = IF Finalized' THEN 1 ELSE 0
    BY <1>4, <2>1 DEF pgVars, ClosedOnce
  <2> QED
    BY <1>1, <1>3, <2>1, <2>2, <2>3 DEF ClosedOnce
<1>5. CASE UNCHANGED executions /\ initJob = "load" /\ runRow' = "RUNNING"
  <2>1. ~Finalized'
    BY <1>5 DEF Finalized
  <2>2. ~Finalized
    BY <1>5, ClosedForGood
  <2> QED
    BY <1>1, <1>5, <2>1, <2>2 DEF ClosedOnce
<1>6. CASE /\ RunComplete(runDone, RunTotal)
           /\ UNCHANGED redisVars
           /\ FinalizeWorkflowRun \/ FinalizePartly
           /\ \/ consumer.pc = "finalize" /\ consumer' = AfterRecord
              \/ \E j \in jobs : j.pc = "finalize"
  <2>1. consumer.pc = "finalize" /\ consumer' = AfterRecord /\ ~Finalized
    BY <1>6 DEF ClosedOnce
  <2>2. FinalizeWorkflowRun
    BY <1>6 DEF FinalizePartly, Fault, NoDatabaseErrors
  <2>3. consumer'.pc # "finalize"
    <3>1. [consumer EXCEPT !.pc = "dlq", !.visited = {}].pc = "dlq"
      BY <1>0, <2>1, Functions
    <3> QED
      BY <2>1, <3>1 DEF AfterRecord, Idle
  <2>4. Ended = Stage /\ runDone' = runDone /\ runDone >= RunTotal /\ RunTotal # 0
    BY <1>0, <1>6, CompleteRun DEF RunComplete, redisVars
  <2>5. Finalized'
    BY <2>2 DEF FinalizeWorkflowRun, FinalStatus, Finalized
  <2>6. PICK failed \in BOOLEAN, unread \in SUBSET Stage :
          AppendOutcomes(Stage, failed, unread)
    BY <2>2 DEF FinalizeWorkflowRun
  <2>7. \A s \in Stage : Len(executions'[s]) = 1
    <3>1. \A s \in Stage : Len(executions[s]) = 0
      BY <2>1 DEF ClosedOnce
    <3> SUFFICES ASSUME NEW s \in Stage
                 PROVE  Len(executions'[s]) = 1
      OBVIOUS
    <3>2. Len(executions'[s]) = Len(executions[s]) + 1
      BY <1>0, <2>4, <2>6, AppendedRow
    <3>3. Len(executions[s]) = 0
      BY <3>1
    <3> QED
      BY <3>2, <3>3
  <2>8. RunTotal' = RunTotal
    BY DEF RunTotal
  <2> QED
    BY <1>1, <2>3, <2>4, <2>5, <2>7, <2>8 DEF ClosedOnce
<1> QED
  BY <1>0, <1>4, <1>5, <1>6, RowStep

LEMMA ClosedOnceAlways ==
  ASSUME NoAmbiguousWrites, NoDatabaseErrors
  PROVE  Spec => [](WalksApart => ClosedOnce)
<1>1. Init => ClosedOnce
  <2> SUFFICES ASSUME Init
               PROVE  ClosedOnce
    OBVIOUS
  <2>1. jobs = {} /\ ~Finalized
    BY DEF Init, PoolInit, PersistenceInit, Finalized
  <2>2. \A s \in Stage : executions[s] = <<>>
    BY DEF Init, PersistenceInit
  <2>3. \A s \in Stage : Len(executions[s]) = 0
    BY <2>2
  <2> QED
    BY <2>1, <2>3 DEF ClosedOnce
<1>2. FlowInv /\ (WalksApart => CompletionInv) /\ (WalksApart => ClosedOnce)
        /\ [Next]_vars
        => (WalksApart' => ClosedOnce')
  <2> SUFFICES ASSUME FlowInv, WalksApart => CompletionInv, WalksApart => ClosedOnce,
                      [Next]_vars, WalksApart'
               PROVE  ClosedOnce'
    OBVIOUS
  <2>1. WalksApart
    BY ApartBefore
  <2> QED
    BY <2>1, ClosedOnceStep
<1> QED
  BY <1>1, <1>2, CompletionInvAlways, PTL DEF Spec

\* A stage gets one stage_executions row: maybeFinalizeRun has no guard against
\* a second call, but once the last stage is counted none follows.
THEOREM OneRow ==
  ASSUME NoAmbiguousWrites, NoDatabaseErrors
  PROVE  Spec => [](WalksApart => OneOutcomePerStage)
<1>1. ClosedOnce => OneOutcomePerStage
  BY DEF ClosedOnce, OneOutcomePerStage
<1> QED
  BY <1>1, ClosedOnceAlways, PTL

-----------------------------------------------------------------------------
(* With neither, the row is closed with the right status.                  *)

NoRedisErrors == "redis" \notin Faults

\* run:failed says whether a stage was exhausted, and the row repeats it.
FailureFlagged ==
  /\ runFailed <=> \E s \in Stage : Exhausted(s)
  /\ Finalized => runRow = FinalStatus(runFailed)

\* Nothing is missing from the status keys.
NothingLost == statusLost = {}

ClosedInv == CompletionInv /\ ClosedOnce /\ FailureFlagged /\ NothingLost

LEMMA NothingLostStep ==
  ASSUME NoRedisErrors, NothingLost, [Next]_vars
  PROVE  NothingLost'
<1>0. statusLost = {}
  BY DEF NothingLost
<1>1. \A s, x : SetStageStatus(s, x, TRUE) \/ EndStage(s, x, TRUE) => statusLost' = {}
  BY <1>0 DEF SetStageStatus, EndStage
<1>2. CASE InitStep
  <2>1. ASSUME NEW unset \in SUBSET Stage, NEW unlisted \in SUBSET Edges,
               PrepareStages(unset, unlisted)
        PROVE  statusLost' = {}
    BY <2>1, Prepared DEF NoRedisErrors
  <2>2. statusLost' = {} \/ \E unset \in SUBSET Stage, unlisted \in SUBSET Edges :
                              PrepareStages(unset, unlisted)
    BY <1>0, <1>2 DEF InitStep, InitNext, BeginRun, QueueStage, EndInit, redisVars
  <2> QED
    BY <2>1, <2>2 DEF NothingLost
<1>3. CASE PollStep
  <2>1. ASSUME NEW s, NEW set \in BOOLEAN,
               SetStageStatus(s, "RUNNING", set), RedisErrors(Flag(~set), 0)
        PROVE  statusLost' = {}
    <3>1. set
      BY <2>1, NoErrors, NoFlags DEF NoRedisErrors
    <3> QED
      BY <1>1, <2>1, <3>1
  <2>2. \/ statusLost' = {}
        \/ \E s \in Stage, set \in BOOLEAN :
             SetStageStatus(s, "RUNNING", set) /\ RedisErrors(Flag(~set), 0)
    BY <1>0, <1>3 DEF PollStep, PollNext, PollStage, StartJob
  <2> QED
    BY <2>1, <2>2 DEF NothingLost
<1>4. CASE JobStep
  <2>1. PICK j \in jobs :
           \/ FetchStage(j) \/ PublishStage(j) \/ PublishReturns(j)
           \/ RequeueUnpublished(j) \/ ReportDispatchFailure(j)
           \/ RecordUndispatched(j) \/ FinalizeUndispatched(j)
           \/ NotificationSent(j)
    BY <1>4, JobSteps
  <2>2. CASE FetchStage(j)
    <3>1. ASSUME NEW set \in BOOLEAN, EndStage(j.stage, "FAILED-EXHAUSTED", set),
                 RedisErrors(Flag(~set), 1)
          PROVE  statusLost' = {}
      <4>1. set
        BY <3>1, NoErrors, NoFlags DEF NoRedisErrors
      <4> QED
        BY <1>1, <3>1, <4>1
    <3> QED
      BY <1>0, <2>2, <3>1 DEF FetchStage, NothingLost
  <2>3. CASE RequeueUnpublished(j)
    <3>1. PICK set, queued \in BOOLEAN :
            /\ SetStageStatus(j.stage, "FAILED-RETRY", set)
            /\ RedisErrors(Flag(~set) + Flag(~queued), 0)
      BY <2>3 DEF RequeueUnpublished
    <3>2. set
      BY <3>1, NoErrors, NoFlags DEF NoRedisErrors
    <3> QED
      BY <1>1, <3>1, <3>2 DEF NothingLost
  <2> QED
    BY <1>0, <2>1, <2>2, <2>3
    DEF PublishStage, PublishReturns, ReportDispatchFailure, RecordUndispatched,
        FinalizeUndispatched, NotificationSent, redisVars, NothingLost
<1>5. CASE HandlerStep
  BY <1>0, <1>5
  DEF HandlerStep, HandlerNext, ReceiveRequest, Respond, HandlerCrash, redisVars,
      NothingLost
<1>6. CASE ConsumerStep
  <2>1. ASSUME NEW r \in responseTopic,
               StageSucceeds(r) \/ StageFailsRetryably(r) \/ StageExhausts(r)
        PROVE  statusLost' = {}
    <3>1. PICK set, other \in BOOLEAN :
            /\ ReadResponse(r, Flag(~set) + Flag(~other))
            /\ \/ EndStage(r.stage, "FIN", set)
               \/ SetStageStatus(r.stage, "FAILED-RETRY", set)
               \/ EndStage(r.stage, "FAILED-EXHAUSTED", set)
      BY <2>1 DEF StageSucceeds, StageFailsRetryably, StageExhausts, ExhaustStage
    <3>2. \E m : RedisErrors(Flag(~set) + Flag(~other), m)
      BY <3>1 DEF ReadResponse
    <3>3. set
      BY <3>2, NoErrors, NoFlags DEF NoRedisErrors
    <3> QED
      BY <1>1, <3>1, <3>3
  <2>2. ASSUME NEW c \in Stage, SkipDescendant(c)
        PROVE  statusLost' = {}
    <3>1. PICK set, counted, listed \in BOOLEAN :
            /\ RedisErrors(Flag(~set) + Flag(~counted) + Flag(~listed), 0)
            /\ EndStage(c, "SKIPPED", set)
      BY <2>2 DEF SkipDescendant
    <3>2. set
      BY <3>1, NoErrors, NoFlags DEF NoRedisErrors
    <3> QED
      BY <1>1, <3>1, <3>2
  <2> QED
    BY <1>0, <1>6, <2>1, <2>2
    DEF ConsumerStep, ConsumerNext, DropSeenResult, LoseResult, ReleaseChild, PassOver,
        SkipNothing, RequeueStage, RecordStage, FinalizeRun, ReportExhausted,
        StartNotification, redisVars, NothingLost
<1>7. CASE Crash \/ UNCHANGED vars
  BY <1>0, <1>7 DEF Crash, vars, redisVars, NothingLost
<1> QED
  BY <1>2, <1>3, <1>4, <1>5, <1>6, <1>7 DEF Next, Done

\* Then the status key of an ended stage says how it ended.
LEMMA KeyIsFate ==
  ASSUME FlowInv, NothingLost, NEW s \in Stage
  PROVE  /\ stageStatus[s] \in Terminal <=> s \in Ended
         /\ s \in Ended => stageStatus[s] = fate[s]
<1>1. KeyTells(s) /\ fate[s] \in Terminal \cup {"open"} /\ "open" \notin Terminal
  BY Functions DEF FlowInv, Terminal
<1> QED
  BY <1>1 DEF KeyTells, NothingLost, Ended

\* How a stage ends when no job gives it up.
LEMMA EndStep ==
  ASSUME NoRedisErrors, FlowInv, ClosedOnce', [Next]_vars, NEW s \in Stage,
         s \notin Ended, s \in Ended'
  PROVE  /\ fate' = [fate EXCEPT ![s] = fate'[s]]
         /\ UNCHANGED pgVars
         /\ \/ fate'[s] = "FIN" /\ Active(s) /\ UNCHANGED runFailed
            \/ fate'[s] = "FAILED-EXHAUSTED" /\ Active(s) /\ runFailed' = TRUE
            \/ fate'[s] = "SKIPPED" /\ BelowLost(s) /\ UNCHANGED runFailed
<1>0. TypeOK /\ jobs \subseteq Job /\ fate \in [Stage -> Terminal \cup {"open"}]
  BY Functions DEF FlowInv
<1>1. fate'[s] # fate[s] /\ fate'[s] \in Terminal /\ ~SameStatus(s)
  BY DEF Ended, SameStatus
<1>2. ASSUME NEW j \in jobs, Advance(j, "dlq")
      PROVE  FALSE
  <2>0. "dlq" \in JobPc
    BY DEF JobPc
  <2>1. \E k \in jobs' : k.pc = "dlq"
    <3>1. PICK k \in Job : k.pc = "dlq" /\ jobs' = (jobs \ {j}) \cup {k}
      BY <1>0, <1>2, <2>0, JobMoves
    <3> QED
      BY <3>1
  <2>2. \A k \in jobs' : k.pc \notin {"dlq", "record", "finalize"}
    BY DEF ClosedOnce
  <2> QED
    BY <2>1, <2>2
<1>3. CASE \E r \in responseTopic :
             /\ TakesResult(r) /\ r.stage = s
             /\ \/ StageSucceeds(r) /\ fate'[s] = "FIN"
                \/ StageExhausts(r) /\ fate'[s] = "FAILED-EXHAUSTED"
  <2>1. PICK r \in responseTopic :
             /\ TakesResult(r) /\ r.stage = s
             /\ \/ StageSucceeds(r) /\ fate'[s] = "FIN"
                \/ StageExhausts(r) /\ fate'[s] = "FAILED-EXHAUSTED"
    BY <1>3
  <2>2. Active(s)
    BY <1>0, <2>1, InHand DEF FlowInv, TakesResult, Messages, Active
  <2>3. \E how : fate' = [fate EXCEPT ![s] = how]
    BY <2>1 DEF StageSucceeds, StageExhausts, EndStage, ExhaustStage
  <2>4. fate' = [fate EXCEPT ![s] = fate'[s]]
    BY <1>0, <2>3
  <2>5. UNCHANGED pgVars
    BY <2>1 DEF StageSucceeds, StageExhausts
  <2>6. StageSucceeds(r) => UNCHANGED runFailed
    BY DEF StageSucceeds
  <2>7. ASSUME StageExhausts(r)
        PROVE  runFailed' = TRUE
    <3>1. PICK set, flagged \in BOOLEAN :
            /\ ReadResponse(r, Flag(~set) + Flag(~flagged))
            /\ MarkRunFailed(flagged)
      BY <2>7 DEF StageExhausts
    <3>2. \E m : RedisErrors(Flag(~set) + Flag(~flagged), m)
      BY <3>1 DEF ReadResponse
    <3>3. flagged
      BY <3>2, NoErrors, NoFlags DEF NoRedisErrors
    <3> QED
      BY <3>1, <3>3 DEF MarkRunFailed
  <2> QED
    BY <2>1, <2>2, <2>4, <2>5, <2>6, <2>7
<1>4. CASE SkipDescendant(s) /\ fate'[s] = "SKIPPED"
  <2>1. BelowLost(s)
    BY <1>4 DEF FlowInv, HandSound, SkipDescendant
  <2>2. fate' = [fate EXCEPT ![s] = fate'[s]]
    BY <1>0, <1>4 DEF SkipDescendant, EndStage
  <2> QED
    BY <1>4, <2>1, <2>2 DEF SkipDescendant
<1> QED
  BY <1>0, <1>1, <1>2, <1>3, <1>4, StatusStep DEF Ends, Terminal

\* Only an exhausted stage sets the flag.
LEMMA FlagStep ==
  ASSUME FlowInv, [Next]_vars, runFailed' # runFailed
  PROVE  \E s \in Stage : s \notin Ended /\ fate'[s] = "FAILED-EXHAUSTED"
<1>0. TypeOK /\ fate \in [Stage -> Terminal \cup {"open"}]
  BY Functions DEF FlowInv
<1>1. CASE InitStep
  BY <1>1 DEF InitStep, InitNext, BeginRun, QueueStage, EndInit, redisVars
<1>2. CASE PollStep
  BY <1>2 DEF PollStep, PollNext, PollStage, StartJob
<1>3. CASE JobStep
  BY <1>3
  DEF JobStep, JobNext, FetchStage, PublishStage, PublishReturns, RequeueUnpublished,
      ReportDispatchFailure, RecordUndispatched, FinalizeUndispatched, NotificationSent,
      redisVars
<1>4. CASE HandlerStep
  BY <1>4 DEF HandlerStep, HandlerNext, ReceiveRequest, Respond, HandlerCrash, redisVars
<1>5. CASE ConsumerStep
  <2>1. PICK r \in responseTopic : StageExhausts(r)
    BY <1>5
    DEF ConsumerStep, ConsumerNext, DropSeenResult, LoseResult, StageSucceeds,
        StageFailsRetryably, ReleaseChild, SkipDescendant, PassOver, SkipNothing,
        RequeueStage, RecordStage, FinalizeRun, ReportExhausted, StartNotification,
        redisVars
  <2>2. r.stage \in Stage
    BY <1>0, Functions DEF Messages
  <2> QED
    BY <1>0, <2>1, <2>2, UnderWay DEF StageExhausts, ExhaustStage, EndStage
<1>6. CASE Crash \/ UNCHANGED vars
  BY <1>6 DEF Crash, vars, redisVars
<1> QED
  BY <1>1, <1>2, <1>3, <1>4, <1>5, <1>6 DEF Next, Done

\* The flag is read as it is.
LEMMA ReadExactly ==
  ASSUME NoRedisErrors, NEW failed \in BOOLEAN, runFailed \in BOOLEAN,
         NEW unread \in SUBSET Stage, NEW m, ReadRun(failed, unread, m)
  PROVE  failed = runFailed
<1>1. Cardinality(unread) \in Nat
  BY StageAssumption, FS_Subset, FS_CardinalityType
<1>2. Flag(failed # runFailed) \in {0, 1}
  BY DEF Flag
<1>3. Flag(failed # runFailed) + Cardinality(unread) \in Nat
  BY <1>1, <1>2
<1>4. RedisErrors(Flag(failed # runFailed) + Cardinality(unread), m)
  BY DEF ReadRun
<1>5. Flag(failed # runFailed) + Cardinality(unread) = 0
  BY <1>3, <1>4, NoErrors DEF NoRedisErrors
<1>6. Flag(failed # runFailed) = 0
  BY <1>1, <1>2, <1>5
<1> QED
  BY <1>6 DEF Flag

LEMMA FailureFlaggedStep ==
  ASSUME NoRedisErrors, NoDatabaseErrors, ClosedInv, ClosedOnce', [Next]_vars
  PROVE  FailureFlagged'
<1>0. FlowInv /\ CompletionInv /\ ClosedOnce /\ runFailed \in BOOLEAN
  BY DEF ClosedInv, CompletionInv, FlowInv, TypeOK, RunStateTypeOK
<1>1. runFailed' <=> \E s \in Stage : Exhausted(s)'
  <2>1. ASSUME NEW s \in Stage, Exhausted(s)', ~Exhausted(s)
        PROVE  runFailed'
    <3>1. s \notin Ended /\ s \in Ended'
      BY <1>0, <2>1, Stable DEF Exhausted, Ended, Terminal
    <3> QED
      BY <1>0, <2>1, <3>1, EndStep DEF Exhausted
  <2>2. ASSUME NEW s \in Stage, Exhausted(s)
        PROVE  Exhausted(s)' /\ runFailed'
    <3>1. Exhausted(s)'
      BY <1>0, <2>2, Stable DEF Exhausted, Terminal
    <3>2. runFailed
      BY <2>2 DEF ClosedInv, FailureFlagged
    <3>3. CASE runFailed' # runFailed
      <4>1. PICK t \in Stage : t \notin Ended /\ fate'[t] = "FAILED-EXHAUSTED"
        BY <1>0, <3>3, FlagStep
      <4> QED
        BY <1>0, <3>1, <4>1, EndStep DEF Ended, Terminal
    <3> QED
      BY <3>1, <3>2, <3>3
  <2>3. ASSUME runFailed'
        PROVE  \E s \in Stage : Exhausted(s)'
    <3>1. CASE runFailed' = runFailed
      BY <2>2, <2>3, <3>1 DEF ClosedInv, FailureFlagged
    <3>2. CASE runFailed' # runFailed
      BY <1>0, <3>2, FlagStep DEF Exhausted
    <3> QED
      BY <3>1, <3>2
  <2> QED
    BY <2>1, <2>2, <2>3
<1>2. Finalized => runFailed' = runFailed
  BY <1>0, FlagStep DEF CompletionInv, RowsSound
<1>3. Finalized' => runRow' = FinalStatus(runFailed')
  <2>1. CASE UNCHANGED pgVars
    BY <1>2, <2>1 DEF pgVars, Finalized, ClosedInv, FailureFlagged
  <2>2. CASE runRow' = "RUNNING"
    BY <2>2 DEF Finalized
  <2>3. CASE UNCHANGED redisVars /\ (FinalizeWorkflowRun \/ FinalizePartly)
    <3>1. PICK failed \in BOOLEAN, unread \in SUBSET Stage :
            ReadRun(failed, unread, 0) /\ runRow' = FinalStatus(failed)
      BY <2>3 DEF FinalizeWorkflowRun, FinalizePartly, NoDatabaseErrors
    <3>2. failed = runFailed
      BY <1>0, <3>1, ReadExactly
    <3> QED
      BY <2>3, <3>1, <3>2 DEF redisVars
  <2> QED
    BY <1>0, <2>1, <2>2, <2>3, RowStep
<1> QED
  BY <1>1, <1>3 DEF FailureFlagged, Exhausted, FinalStatus

LEMMA ClosedInvAlways ==
  ASSUME NoAmbiguousWrites, NoDatabaseErrors, NoRedisErrors
  PROVE  Spec => [](WalksApart => ClosedInv)
<1>1. Init => FailureFlagged
  BY DEF Init, RunStateInit, PersistenceInit, FailureFlagged, Exhausted, Finalized
<1>2. FlowInv /\ [Next]_vars
        /\ (WalksApart => CompletionInv /\ ClosedOnce /\ FailureFlagged)
        /\ (WalksApart' => ClosedOnce') /\ NothingLost
        => (WalksApart' => FailureFlagged')
  <2> SUFFICES ASSUME FlowInv, WalksApart => CompletionInv /\ ClosedOnce /\ FailureFlagged,
                      WalksApart' => ClosedOnce', NothingLost, [Next]_vars, WalksApart'
               PROVE  FailureFlagged'
    OBVIOUS
  <2>1. WalksApart
    BY ApartBefore
  <2>2. ClosedInv /\ ClosedOnce'
    BY <2>1 DEF ClosedInv
  <2> QED
    BY <2>2, FailureFlaggedStep
<1>3. Init => NothingLost
  BY DEF Init, RunStateInit, NothingLost
<1>4. NothingLost /\ [Next]_vars => NothingLost'
  BY NothingLostStep
<1> QED
  BY <1>1, <1>2, <1>3, <1>4, CompletionInvAlways, ClosedOnceAlways, PTL
  DEF Spec, ClosedInv

\* A closed run with an exhausted stage is a PARTIAL_FAILURE in which every
\* dependent of that stage was skipped, and a run without one is COMPLETED,
\* however often results are lost or repeated and the processes stop.
THEOREM ExhaustionShows ==
  ASSUME NoAmbiguousWrites, NoDatabaseErrors, NoRedisErrors
  PROVE  Spec => [](WalksApart => ExhaustionPropagates)
<1>1. ClosedInv => ExhaustionPropagates
  <2>0. ASSUME ClosedInv, Finalized
        PROVE  \A s \in Stage : stageStatus[s] = fate[s]
    <3>1. FlowInv /\ NothingLost /\ Ended = Stage
      BY <2>0 DEF ClosedInv, CompletionInv, RowsSound
    <3> QED
      BY <3>1, KeyIsFate
  <2> SUFFICES ASSUME ClosedInv, Finalized
               PROVE  /\ runRow = "COMPLETED" <=>
                           \A s \in Stage : fate[s] # "FAILED-EXHAUSTED"
                      /\ \A s \in Stage : fate[s] = "FAILED-EXHAUSTED" =>
                           \A c \in Children(s) : fate[c] = "SKIPPED"
    BY <2>0 DEF ExhaustionPropagates, Children
  <2>1. runRow = "COMPLETED" <=> \A s \in Stage : fate[s] # "FAILED-EXHAUSTED"
    BY DEF ClosedInv, FailureFlagged, Exhausted, FinalStatus
  <2>2. ASSUME NEW s \in Stage, fate[s] = "FAILED-EXHAUSTED", NEW c \in Children(s)
        PROVE  fate[c] = "SKIPPED"
    <3>1. c \in Stage /\ s \in DependentOn[c]
      BY DEF Children
    <3>2. fate[c] \in Terminal /\ InOrder(c)
      BY <3>1 DEF ClosedInv, CompletionInv, FlowInv, RowsSound, Ended
    <3>3. fate[s] # "FIN"
      BY <2>2
    <3> QED
      BY <3>1, <3>2, <3>3 DEF InOrder, Terminal
  <2> QED
    BY <2>1, <2>2
<1> QED
  BY <1>1, ClosedInvAlways, PTL

-----------------------------------------------------------------------------
(* The refinement of DagExecution.                                         *)

LEMMA OutcomeOpen ==
  ASSUME FlowInv, NothingLost, NEW s \in Stage
  PROVE  /\ StageOutcome(s) = "open" <=> s \notin Ended
         /\ StageOutcome(s) = "finished" <=> fate[s] = "FIN"
         /\ StageOutcome(s) = "failed" <=> fate[s] = "FAILED-EXHAUSTED"
         /\ StageOutcome(s) = "skipped" <=> fate[s] = "SKIPPED"
<1>1. CASE s \in Ended
  BY <1>1, KeyIsFate DEF StageOutcome, Ended, Terminal
<1>2. CASE s \notin Ended
  BY <1>2, KeyIsFate DEF StageOutcome, Ended, Terminal
<1> QED
  BY <1>1, <1>2

\* An outcome changes with the end of its stage only.
LEMMA OutcomeKeeps ==
  ASSUME FlowInv, FlowInv', NothingLost, NothingLost', NEW s \in Stage,
         fate'[s] = fate[s]
  PROVE  StageOutcome(s)' = StageOutcome(s)
<1>0. KeyTells(s)' /\ statusLost' = {} /\ "open" \notin Terminal
  BY DEF FlowInv, NothingLost, Terminal
<1>1. CASE s \in Ended
  <2>1. stageStatus[s] = fate[s] /\ stageStatus'[s] = fate'[s]
    BY <1>0, <1>1, KeyIsFate DEF Ended, KeyTells
  <2> QED
    BY <2>1 DEF StageOutcome
<1>2. CASE s \notin Ended
  <2>1. stageStatus[s] \notin Terminal /\ stageStatus'[s] \notin Terminal
    BY <1>0, <1>2, KeyIsFate DEF Ended, KeyTells
  <2> QED
    BY <2>1 DEF StageOutcome, Terminal
<1> QED
  BY <1>1, <1>2

\* The end of a stage is a Finish, a Fail or a Skip.
LEMMA EndIsDagStep ==
  ASSUME NoRedisErrors, ClosedInv, ClosedInv', [Next]_vars, NEW s \in Stage,
         s \notin Ended, s \in Ended'
  PROVE  Dag!Finish(s) \/ Dag!Fail(s) \/ Dag!Skip(s)
<1>1. /\ FlowInv /\ FlowInv' /\ NothingLost /\ NothingLost' /\ ClosedOnce'
      /\ fate \in [Stage -> Terminal \cup {"open"}]
  BY Functions DEF ClosedInv, CompletionInv, FlowInv
<1>2. /\ fate' = [fate EXCEPT ![s] = fate'[s]]
      /\ UNCHANGED pgVars
      /\ \/ fate'[s] \in {"FIN", "FAILED-EXHAUSTED"} /\ Active(s)
         \/ fate'[s] = "SKIPPED" /\ BelowLost(s)
  BY <1>1, EndStep
<1>3. \A t \in Stage : t # s => StageOutcome(t)' = StageOutcome(t)
  <2>1. \A t \in Stage : t # s => fate'[t] = fate[t]
    BY <1>1, <1>2
  <2> QED
    BY <1>1, <2>1, OutcomeKeeps
<1>4. StageOutcome(s) = "open"
  BY <1>1, OutcomeOpen
<1>5. [t \in Stage |-> StageOutcome(t)]'
        = [[t \in Stage |-> StageOutcome(t)] EXCEPT ![s] = StageOutcome(s)']
  BY <1>3
<1>6. (IF Finalized THEN runRow ELSE "open")' = IF Finalized THEN runRow ELSE "open"
  BY <1>2 DEF pgVars, Finalized
<1>7. Dag!End(s, StageOutcome(s)')
  BY <1>4, <1>5, <1>6 DEF Dag!End
<1>8. stageStatus'[s] = fate'[s]
  BY <1>1 DEF FlowInv, KeyTells, NothingLost, Ended, Terminal
<1>9. CASE Active(s) /\ fate'[s] \in {"FIN", "FAILED-EXHAUSTED"}
  <2>1. \A p \in DependentOn[s] : p \in Stage /\ fate[p] = "FIN"
    BY <1>1, <1>9, DependentOnAssumption DEF FlowInv, InOrder
  <2>2. \A p \in DependentOn[s] : p \in Stage /\ StageOutcome(p) = "finished"
    BY <1>1, <2>1, OutcomeOpen
  <2>3. Dag!Runnable(s)
    BY <2>2 DEF Dag!Runnable
  <2>4. StageOutcome(s)' \in {"finished", "failed"}
    BY <1>8, <1>9 DEF StageOutcome
  <2> QED
    BY <1>7, <2>3, <2>4 DEF Dag!Finish, Dag!Fail
<1>10. CASE fate'[s] = "SKIPPED" /\ BelowLost(s)
  <2>1. PICK p \in DependentOn[s] : p \in Stage /\ fate[p] \in Lost
    BY <1>10, DependentOnAssumption DEF BelowLost
  <2>2. StageOutcome(p) \in {"failed", "skipped"}
    BY <1>1, <2>1, OutcomeOpen DEF Lost
  <2>3. Dag!Doomed(s)
    BY <2>1, <2>2 DEF Dag!Doomed
  <2>4. StageOutcome(s)' = "skipped"
    BY <1>8, <1>10 DEF StageOutcome
  <2> QED
    BY <1>7, <2>3, <2>4 DEF Dag!Skip
<1> QED
  BY <1>2, <1>9, <1>10

\* The closing of the row is a Close.
LEMMA CloseIsDagStep ==
  ASSUME NoDatabaseErrors, ClosedInv, ClosedInv', [Next]_vars, runRow' # runRow, Finalized'
  PROVE  Dag!Close
<1>0. FlowInv /\ NothingLost /\ Tally
  BY DEF ClosedInv, CompletionInv
<1>1. /\ RunComplete(runDone, RunTotal) /\ UNCHANGED redisVars
      /\ consumer.pc = "finalize"
  BY RowStep DEF ClosedInv, CompletionInv, ClosedOnce, Finalized, pgVars
<1>2. ~Finalized
  BY <1>1 DEF ClosedInv, ClosedOnce
<1>3. Ended = Stage
  BY <1>0, <1>1, CompleteRun DEF RunComplete
<1>4. UNCHANGED <<stageStatus, runFailed>>
  BY <1>1 DEF redisVars
<1>5. runRow' = IF \E s \in Stage : Exhausted(s) THEN "PARTIAL_FAILURE" ELSE "COMPLETED"
  <2>1. runRow' = FinalStatus(runFailed)
    BY <1>4 DEF ClosedInv, FailureFlagged, FinalStatus
  <2> QED
    BY <2>1 DEF ClosedInv, FailureFlagged, FinalStatus
<1>6. \A s \in Stage : StageOutcome(s) # "open" /\ (StageOutcome(s) = "failed" <=> Exhausted(s))
  BY <1>0, <1>3, OutcomeOpen DEF Exhausted
<1>7. [s \in Stage |-> StageOutcome(s)]' = [s \in Stage |-> StageOutcome(s)]
  BY <1>4 DEF StageOutcome
<1> QED
  BY <1>2, <1>5, <1>6, <1>7 DEF Dag!Close

\* Seen through its status keys and its run row, a run is an execution of its
\* dependency graph: every step of every component ends one stage that may
\* end, closes the row after the last, or changes nothing that can be seen.
\* The fairness part of ImplementsDag is left to TLC.
THEOREM StepsImplementDag ==
  ASSUME NoAmbiguousWrites, NoDatabaseErrors, NoRedisErrors
  PROVE  Spec /\ []WalksApart => Dag!DagInit /\ [][Dag!DagNext]_(Dag!dagVars)
<1>1. Init => Dag!DagInit
  BY DEF Init, RunStateInit, PersistenceInit, Dag!DagInit, StageOutcome, Finalized
<1>2. ClosedInv /\ ClosedInv' /\ [Next]_vars => [Dag!DagNext]_(Dag!dagVars)
  <2> SUFFICES ASSUME ClosedInv, ClosedInv', [Next]_vars
               PROVE  [Dag!DagNext]_(Dag!dagVars)
    OBVIOUS
  <2>0. FlowInv /\ FlowInv' /\ NothingLost /\ NothingLost'
    BY DEF ClosedInv, CompletionInv
  <2>1. CASE \E s \in Stage : s \notin Ended /\ s \in Ended'
    <3>1. PICK s \in Stage : s \notin Ended /\ s \in Ended'
      BY <2>1
    <3>2. Dag!Finish(s) \/ Dag!Fail(s) \/ Dag!Skip(s)
      BY <3>1, EndIsDagStep
    <3> QED
      BY <3>2 DEF Dag!DagNext
  <2>2. CASE runRow' # runRow /\ Finalized'
    BY <2>2, CloseIsDagStep DEF Dag!DagNext
  <2>3. CASE /\ \A s \in Stage : s \in Ended' => s \in Ended
             /\ runRow' = runRow \/ ~Finalized'
    <3>1. \A s \in Stage : StageOutcome(s)' = StageOutcome(s)
      <4> SUFFICES ASSUME NEW s \in Stage
                   PROVE  StageOutcome(s)' = StageOutcome(s)
        OBVIOUS
      <4>1. /\ fate[s] \in Terminal \cup {"open"} /\ fate'[s] \in Terminal \cup {"open"}
            /\ "open" \notin Terminal
        BY <2>0 DEF FlowInv, TypeOK, RunStateTypeOK, Terminal
      <4>2. CASE s \in Ended
        BY <2>0, <4>2, Stable, OutcomeKeeps DEF Ended, Terminal
      <4>3. CASE s \notin Ended
        BY <2>0, <2>3, <4>1, <4>3, OutcomeKeeps DEF Ended
      <4> QED
        BY <4>2, <4>3
    <3>2. (IF Finalized THEN runRow ELSE "open")' = IF Finalized THEN runRow ELSE "open"
      <4>1. CASE runRow' = runRow
        BY <4>1 DEF Finalized
      <4>2. CASE runRow' # runRow /\ ~Finalized'
        <5>1. ~Finalized
          BY <4>2, ClosedForGood DEF ClosedInv, pgVars
        <5> QED
          BY <4>2, <5>1
      <4> QED
        BY <2>3, <4>1, <4>2
    <3> QED
      BY <3>1, <3>2 DEF Dag!dagVars
  <2> QED
    BY <2>1, <2>2, <2>3
<1> QED
  BY <1>1, <1>2, ClosedInvAlways, PTL DEF Spec

=============================================================================
