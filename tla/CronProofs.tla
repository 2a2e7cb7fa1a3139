----------------------------- MODULE CronProofs -----------------------------
(***************************************************************************)
(* Proofs about CronTrigger, for any sets of workflows, requests and slots *)
(* and any bounds.                                                         *)
(***************************************************************************)
EXTENDS CronTrigger, FiniteSetTheorems, TLAPS

USE DEF historyVars

-----------------------------------------------------------------------------
(* Types.  A request in hand, a task of InitializeWorkflow and a poller    *)
(* inside pool.Go each have a workflow, and nothing else does.             *)

AtWork(s) ==
  slot[s].workflow \in Workflow /\ slot[s].pc \in {"load", "prepare", "reschedule"}

Shape ==
  /\ \A c \in Client : request[c].pc # "none" => request[c].workflow \in Workflow
  /\ \A s \in Slot : slot[s] \in {Idle, OtherTask, HungTask} \/ AtWork(s)
  /\ polled \in Workflow <=> loop["poller"] = "calling"

Typed == TypeOK /\ Shape

LEMMA InitTypes == Init => Typed
<1> SUFFICES ASSUME Init PROVE Typed
  OBVIOUS
<1> USE CronBoundsAssumption
<1>1. ProcessTypeOK
  BY DEF Init, ProcessInit, ProcessTypeOK, MainPc, Loop, Task, Idle
<1>2. request \in [Client -> Request]
  BY DEF Init, NoRequest, Request, Cron
<1>3. Shape
  BY NoWorkflowAssumption DEF Shape, Init, ProcessInit, NoRequest, Loop
<1> QED
  BY <1>1, <1>2, <1>3 DEF Init, Typed, TypeOK, Cron

\* The steps of a request.
LEMMA RequestTypes ==
  ASSUME Typed, NEW c \in Client, NEW w \in Workflow, NEW cron \in Cron,
         Submit(c, w, cron) \/ CreateRow(c) \/ PushTrigger(c)
  PROVE  Typed'
<1> USE CronBoundsAssumption DEF Typed
<1>1. ProcessTypeOK'
  BY DEF TypeOK, ProcessTypeOK, Submit, CreateRow, PushTrigger, processVars
<1>2. faults' \in 0..MaxFaults /\ crashes' \in 0..MaxCrashes /\ stops' \in 0..MaxStops
  BY DEF TypeOK, Submit, CreateRow, PushTrigger, NoFault, Fault, boundVars
<1>3. request' \in [Client -> Request]
  BY DEF TypeOK, Submit, CreateRow, PushTrigger, Answer, GoOnToPush, NoRequest,
         Request, Cron
<1>4. request[c] \in Request
  BY DEF TypeOK
<1>5. stored' \in [Workflow -> Cron \cup {"none"}]
  BY <1>4 DEF TypeOK, Submit, CreateRow, PushTrigger, Request, Cron
<1>6. scheduled' \in [Workflow -> Nat] /\ due' \in [Workflow -> Nat]
  BY DEF TypeOK, Submit, CreateRow, PushTrigger, AddTrigger
<1>7. /\ polled' \in Workflow \cup {NoWorkflow}
      /\ accepted' \subseteq Workflow /\ cutOff' \subseteq Workflow
  <2>1. CASE Submit(c, w, cron) \/ CreateRow(c)
    BY <2>1 DEF TypeOK, Shape, Submit, CreateRow, CutOff
  <2>2. CASE PushTrigger(c)
    BY <2>2 DEF TypeOK, Shape, PushTrigger, CutOff
  <2> QED
    BY <2>1, <2>2
<1>8. request \in [Client -> Request]
  BY DEF TypeOK
<1>9. \A d \in Client : request'[d].pc # "none" => request'[d].workflow \in Workflow
  BY <1>8 DEF Shape, Submit, CreateRow, PushTrigger, Answer, GoOnToPush, NoRequest, Request
<1>10. /\ \A s \in Slot : slot'[s] \in {Idle, OtherTask, HungTask} \/ AtWork(s)'
       /\ polled' \in Workflow <=> loop'["poller"] = "calling"
  BY DEF Shape, Submit, CreateRow, PushTrigger, processVars, AtWork
<1>11. Shape'
  BY <1>9, <1>10 DEF Shape
<1> QED
  BY <1>1, <1>2, <1>3, <1>5, <1>6, <1>7, <1>11 DEF TypeOK

\* The steps of the poller.
LEMMA PollerTypes ==
  ASSUME Typed, NEW w \in Workflow, NEW s \in Slot,
         \/ BecomesDue(w) \/ TakeTrigger(w) \/ LoseTrigger(w)
         \/ StartInit(s) \/ DropTrigger
  PROVE  Typed'
<1> USE CronBoundsAssumption, NoWorkflowAssumption, NamedAssumption DEF Typed
<1>1. /\ main' \in MainPc
      /\ ctxDone' \in BOOLEAN
      /\ loop' \in [Loop -> {"running", "calling", "ended"}]
  BY DEF TypeOK, ProcessTypeOK, BecomesDue, TakeTrigger, LoseTrigger, StartInit,
         DropTrigger, processVars, CallGo, TakeSlot, GoCancelled
<1>2. CASE StartInit(s)
  <2>1. loop["poller"] = "calling" /\ polled \in Workflow
    BY <1>2 DEF StartInit, TakeSlot, Shape
  <2>2. slot' \in [Slot -> Task]
    BY <1>2, <2>1 DEF TypeOK, ProcessTypeOK, StartInit, TakeSlot, Task, InitTask
  <2>3. \A t \in Slot : slot'[t] \in {Idle, OtherTask, HungTask} \/ AtWork(t)'
    BY <1>2, <2>1 DEF Shape, TypeOK, ProcessTypeOK, StartInit, TakeSlot, InitTask, AtWork
  <2>4. polled' \in Workflow <=> loop'["poller"] = "calling"
    BY <1>2 DEF TypeOK, ProcessTypeOK, StartInit, TakeSlot, Loop
  <2>5. Shape'
    BY <1>2, <2>3, <2>4 DEF Shape, StartInit
  <2> QED
    BY <1>1, <1>2, <2>2, <2>5 DEF TypeOK, ProcessTypeOK, StartInit, boundVars
<1>3. CASE TakeTrigger(w) \/ DropTrigger
  <2>1. polled' \in Workflow <=> loop'["poller"] = "calling"
    BY <1>3 DEF TypeOK, ProcessTypeOK, TakeTrigger, DropTrigger, CallGo, GoCancelled, Loop
  <2>2. Shape'
    BY <1>3, <2>1 DEF Shape, TakeTrigger, DropTrigger, GoCancelled, AtWork
  <2>3. due' \in [Workflow -> Nat]
    BY <1>3 DEF TypeOK, TakeTrigger, DropTrigger, Removed, RemoveDue
  <2>4. polled' \in Workflow \cup {NoWorkflow}
    BY <1>3 DEF TakeTrigger, DropTrigger
  <2> QED
    BY <1>1, <1>3, <2>2, <2>3, <2>4
    DEF TypeOK, ProcessTypeOK, TakeTrigger, DropTrigger, GoCancelled, boundVars, NoFault
<1>4. CASE BecomesDue(w) \/ LoseTrigger(w)
  <2>1. scheduled' \in [Workflow -> Nat] /\ due' \in [Workflow -> Nat]
    BY <1>4 DEF TypeOK, BecomesDue, LoseTrigger, Removed, RemoveDue
  <2>2. Shape'
    BY <1>4 DEF Shape, BecomesDue, LoseTrigger, processVars, AtWork
  <2> QED
    BY <1>1, <1>4, <2>1, <2>2
    DEF TypeOK, ProcessTypeOK, BecomesDue, LoseTrigger, processVars, boundVars, Fault
<1> QED
  BY <1>2, <1>3, <1>4

\* The steps of a task.
LEMMA TaskTypes ==
  ASSUME Typed, NEW s \in Slot, InitTaskStep(s)
  PROVE  Typed'
<1> USE CronBoundsAssumption, NoWorkflowAssumption DEF Typed
<1>1. AtWork(s)
  BY DEF Shape, InitTaskStep, LoadWorkflow, PrepareRun, Reschedule, TaskAt, Idle, OtherTask, HungTask
<1>2. slot' \in [Slot -> Task]
  BY DEF TypeOK, ProcessTypeOK, InitTaskStep, LoadWorkflow, PrepareRun, Reschedule,
         AdvanceTask, EndTask, Task, Idle
<1>3. \A t \in Slot : slot'[t] \in {Idle, OtherTask, HungTask} \/ AtWork(t)'
  <2> SUFFICES ASSUME NEW t \in Slot
               PROVE  slot'[t] \in {Idle, OtherTask, HungTask} \/ AtWork(t)'
    OBVIOUS
  <2>1. slot \in [Slot -> Task]
    BY DEF TypeOK, ProcessTypeOK
  <2>2. slot'[t] = slot[t] \/ slot'[t] = Idle \/ AtWork(t)'
    BY <1>1, <2>1 DEF InitTaskStep, LoadWorkflow, PrepareRun, Reschedule, AdvanceTask,
                      EndTask, AtWork, Task
  <2> QED
    BY <2>2 DEF Shape, AtWork
<1>4. scheduled' \in [Workflow -> Nat]
  BY <1>1 DEF TypeOK, InitTaskStep, LoadWorkflow, PrepareRun, Reschedule, cronVars,
              NextTrigger, AddTrigger, AtWork
<1>5. faults' \in 0..MaxFaults /\ crashes' \in 0..MaxCrashes /\ stops' \in 0..MaxStops
  BY DEF TypeOK, InitTaskStep, LoadWorkflow, PrepareRun, Reschedule, Fault, NoFault, boundVars
<1>6. UNCHANGED <<main, ctxDone, loop, stored, due, request, polled, historyVars>>
  BY DEF InitTaskStep, LoadWorkflow, PrepareRun, Reschedule, cronVars
<1>7. Shape'
  BY <1>3, <1>6 DEF Shape
<1> QED
  BY <1>2, <1>4, <1>5, <1>6, <1>7 DEF TypeOK, ProcessTypeOK

\* The steps of the process.
LEMMA ProcessTypes ==
  ASSUME Typed,
         (\E s \in Slot : HangTask(s)) \/ ProcessStep \/ Stop \/ Restart \/ Crash
  PROVE  Typed'
<1> USE CronBoundsAssumption, NoWorkflowAssumption DEF Typed
<1>1. CASE ProcessStep
  <2>1. ASSUME NEW s \in Slot, StartOther(s) \/ EndOther(s)
        PROVE  ProcessTypeOK' /\ Shape'
    <3>1. ProcessTypeOK'
      BY <2>1 DEF TypeOK, ProcessTypeOK, StartOther, EndOther, TakeSlot, EndTask, Task,
                  OtherTask, Idle
    <3>2. \A t \in Slot : slot'[t] = slot[t] \/ slot'[t] = Idle \/ slot'[t] = OtherTask
      BY <2>1 DEF TypeOK, ProcessTypeOK, StartOther, EndOther, TakeSlot, EndTask
    <3>3. loop'["poller"] = loop["poller"]
      BY <2>1 DEF TypeOK, ProcessTypeOK, StartOther, EndOther, TakeSlot, Loop
    <3>4. UNCHANGED <<request, polled>>
      BY <1>1 DEF ProcessStep, cronVars
    <3> QED
      BY <3>1, <3>2, <3>3, <3>4 DEF Shape, AtWork
  <2>2. ASSUME \/ MainNext
               \/ CallGo("consumer") /\ UNCHANGED <<main, ctxDone, slot>>
               \/ GoCancelled("consumer")
               \/ \E l \in Loop : EndLoop(l)
        PROVE  ProcessTypeOK' /\ Shape'
    <3>1. UNCHANGED <<slot, ctxDone>>
      BY <2>2 DEF MainNext, HttpShutdown, PoolWait, LoopsWait, GoCancelled, EndLoop
    <3>2. loop' \in [Loop -> {"running", "calling", "ended"}] /\ main' \in MainPc
      BY <2>2 DEF TypeOK, ProcessTypeOK, MainNext, HttpShutdown, PoolWait, LoopsWait,
                  CallGo, GoCancelled, EndLoop, MainPc
    <3>3. loop'["poller"] = "calling" <=> loop["poller"] = "calling"
      BY <2>2 DEF TypeOK, ProcessTypeOK, MainNext, HttpShutdown, PoolWait, LoopsWait,
                  CallGo, GoCancelled, EndLoop, Loop
    <3>4. UNCHANGED <<request, polled>>
      BY <1>1 DEF ProcessStep, cronVars
    <3>5. Shape'
      BY <3>1, <3>3, <3>4 DEF Shape, AtWork
    <3> QED
      BY <3>1, <3>2, <3>5 DEF TypeOK, ProcessTypeOK
  <2>3. ProcessTypeOK' /\ Shape'
    BY <1>1, <2>1, <2>2 DEF ProcessStep
  <2> QED
    BY <1>1, <2>3 DEF TypeOK, ProcessStep, cronVars, boundVars
<1>2. CASE Stop
  BY <1>2 DEF TypeOK, ProcessTypeOK, Shape, Stop, Signal, cronVars, MainPc, AtWork
<1>0. Unpushed \subseteq Workflow
  BY DEF Unpushed, Shape, TypeOK, Request
<1>3. CASE Restart \/ Crash
  <2>1. ProcessTypeOK'
    <3>1. Boot
      BY <1>3 DEF Restart, Crash, StartAgain
    <3>2. Idle \in Task
      BY DEF Idle, Task
    <3> QED
      BY <3>1, <3>2 DEF ProcessTypeOK, Boot, MainPc
  <2>2. request' \in [Client -> Request]
    BY <1>3 DEF Restart, Crash, StartAgain, NoRequest, Request, Cron
  <2>3. Shape'
    BY <1>3 DEF Shape, Restart, Crash, StartAgain, Boot, NoRequest, Loop
  <2> QED
    BY <1>3, <2>1, <2>2, <2>3, <1>0 DEF TypeOK, Restart, Crash, StartAgain, boundVars
<1>5. CASE \E s \in Slot : HangTask(s)
  <2>1. PICK s \in Slot : HangTask(s)
    BY <1>5
  <2>2. slot' = [slot EXCEPT ![s] = HungTask] /\ UNCHANGED <<main, ctxDone, loop, cronVars>>
    BY <2>1 DEF HangTask, MailHangs
  <2>3. slot' \in [Slot -> Task]
    BY <2>2 DEF TypeOK, ProcessTypeOK, HungTask, Task
  <2>4. \A t \in Slot : slot'[t] = slot[t] \/ slot'[t] = HungTask
    BY <2>2 DEF TypeOK, ProcessTypeOK
  <2>5. Shape'
    BY <2>2, <2>4 DEF Shape, AtWork, cronVars
  <2>6. faults' \in 0..MaxFaults /\ UNCHANGED <<crashes, stops>>
    BY <2>1 DEF TypeOK, HangTask, Fault
  <2> QED
    BY <2>2, <2>3, <2>5, <2>6 DEF TypeOK, ProcessTypeOK, cronVars
<1> QED
  BY <1>1, <1>2, <1>3, <1>5

LEMMA NextTypes == Typed /\ [Next]_vars => Typed'
<1> SUFFICES ASSUME Typed, [Next]_vars PROVE Typed'
  OBVIOUS
<1>1. CASE \E c \in Client, w \in Workflow, cron \in Cron : Submit(c, w, cron)
  BY <1>1, RequestTypes
<1>2. CASE \E c \in Client : CreateRow(c) \/ PushTrigger(c)
  <2>1. PICK c \in Client : CreateRow(c) \/ PushTrigger(c)
    BY <1>2
  <2>2. request[c].workflow \in Workflow /\ request[c].cron \in Cron
    BY <2>1, NoWorkflowAssumption
    DEF Typed, TypeOK, Shape, CreateRow, PushTrigger, Request
  <2> QED
    BY <2>1, <2>2, RequestTypes
<1>3. CASE \E w \in Workflow : BecomesDue(w) \/ TakeTrigger(w) \/ LoseTrigger(w)
  <2>1. PICK s \in Slot : TRUE
    BY SlotAssumption
  <2> QED
    BY <1>3, <2>1, PollerTypes
<1>4. CASE \E s \in Slot : StartInit(s)
  <2>1. PICK s \in Slot : StartInit(s)
    BY <1>4
  <2>2. polled \in Workflow
    BY <2>1 DEF Typed, Shape, StartInit, TakeSlot
  <2> QED
    BY <2>1, <2>2, PollerTypes
<1>5. CASE DropTrigger
  <2>1. polled \in Workflow
    BY <1>5 DEF Typed, Shape, DropTrigger, GoCancelled
  <2>2. PICK s \in Slot : TRUE
    BY SlotAssumption
  <2> QED
    BY <1>5, <2>1, <2>2, PollerTypes
<1>6. CASE \E s \in Slot : InitTaskStep(s)
  BY <1>6, TaskTypes
<1>7. CASE (\E s \in Slot : HangTask(s)) \/ ProcessStep \/ Stop \/ Restart \/ Crash
  BY <1>7, ProcessTypes
<1>8. CASE UNCHANGED vars
  BY <1>8 DEF Typed, TypeOK, ProcessTypeOK, Shape, AtWork, vars, processVars, cronVars,
              boundVars
<1> QED
  BY <1>1, <1>2, <1>3, <1>4, <1>5, <1>6, <1>7, <1>8 DEF Next

\* Every variable of the process, the schedule and the requests has its type.
THEOREM CronTypes == Spec => []TypeOK
<1>1. Typed => TypeOK
  BY DEF Typed
<1> QED
  BY <1>1, InitTypes, NextTypes, PTL DEF Spec
-----------------------------------------------------------------------------
(* One driver.  For each workflow, at most one of these holds, and for at  *)
(* most one trigger, slot or client: a trigger waits, the poller has taken *)
(* one, a task is going to write one, a request is going to write one.  A  *)
(* workflow without a row has none of them, so a creation may bring one.   *)

PlainNames == \A w \in Workflow : Named[w] = w

Waiting(w) == scheduled[w] + due[w]

Tasked(s, w) == slot[s].workflow = w

Pushing(c, w) == request[c].workflow = w /\ request[c].pc = "push"

NoTask(w) == \A s \in Slot : ~Tasked(s, w)

NoPush(w) == \A c \in Client : ~Pushing(c, w)

Apart(w) ==
  /\ Waiting(w) <= 1
  /\ Waiting(w) = 1 => polled # w /\ NoTask(w) /\ NoPush(w)
  /\ polled = w => NoTask(w) /\ NoPush(w)
  /\ \A s, t \in Slot : Tasked(s, w) /\ Tasked(t, w) => s = t
  /\ NoTask(w) \/ NoPush(w)
  /\ \A c, d \in Client : Pushing(c, w) /\ Pushing(d, w) => c = d
  /\ stored[w] = "none" =>
       Waiting(w) = 0 /\ polled # w /\ NoTask(w) /\ NoPush(w)

DriverInv == Typed /\ \A w \in Workflow : Apart(w)

\* Drivers may be lost at any time.
LEMMA FewerDrivers ==
  ASSUME TypeOK, TypeOK', NEW w \in Workflow, Apart(w),
         Waiting(w)' <= Waiting(w),
         polled' = w => polled = w,
         \A s \in Slot : Tasked(s, w)' => Tasked(s, w),
         \A c \in Client : Pushing(c, w)' => Pushing(c, w),
         stored'[w] = "none" => stored[w] = "none"
  PROVE  Apart(w)'
<1>1. Waiting(w) \in Nat /\ Waiting(w)' \in Nat
  BY DEF TypeOK, Waiting
<1>2. NoTask(w) => NoTask(w)'
  BY DEF NoTask
<1>3. NoPush(w) => NoPush(w)'
  BY DEF NoPush
<1> QED
  BY <1>1, <1>2, <1>3 DEF Apart

\* A creation, and the first trigger.
LEMMA RequestApart ==
  ASSUME DriverInv, Typed', NEW c \in Client, NEW v \in Workflow, NEW cron \in Cron,
         Submit(c, v, cron) \/ CreateRow(c) \/ PushTrigger(c),
         NEW w \in Workflow
  PROVE  Apart(w)'
<1> USE DEF DriverInv, Typed
<1>1. Apart(w) /\ slot' = slot /\ polled' = polled /\ due' = due
  BY DEF Submit, CreateRow, PushTrigger, processVars
<1>2. request \in [Client -> Request]
  BY DEF TypeOK
<1>3. CASE Submit(c, v, cron)
  <2>1. \A d \in Client : Pushing(d, w)' => Pushing(d, w)
    BY <1>2, <1>3 DEF Submit, Pushing
  <2> QED
    BY <1>1, <1>3, <2>1, FewerDrivers DEF Submit, Waiting, Tasked, TypeOK
<1>4. CASE CreateRow(c)
  <2>1. CASE GoOnToPush(c) /\ RowFree(request[c].workflow) /\ request[c].workflow = w
    <3>1. Waiting(w) = 0 /\ polled # w /\ NoTask(w) /\ NoPush(w)
      BY <1>1, <2>1 DEF Apart, RowFree
    <3>2. Waiting(w)' = 0 /\ polled' # w /\ NoTask(w)'
      BY <1>1, <1>4, <3>1 DEF CreateRow, Waiting, NoTask, Tasked
    <3>3. \A d \in Client : Pushing(d, w)' => d = c
      BY <1>2, <2>1, <3>1 DEF GoOnToPush, NoPush, Pushing
    <3>4. stored'[w] # "none"
      <4>1. request'[c].pc = "push"
        BY <1>2, <2>1 DEF GoOnToPush, Request
      <4>2. ~Answer(c)
        BY <1>2, <4>1 DEF Answer, NoRequest
      <4>3. stored' = [stored EXCEPT ![w] = request[c].cron]
        BY <1>4, <2>1, <4>2 DEF CreateRow
      <4>4. request[c].cron \in Cron /\ stored \in [Workflow -> Cron \cup {"none"}]
        BY <1>2 DEF Request, TypeOK
      <4> QED
        BY <4>3, <4>4 DEF Cron
    <3> QED
      BY <3>2, <3>3, <3>4 DEF Apart, NoTask, Tasked
  <2>2. CASE ~(GoOnToPush(c) /\ RowFree(request[c].workflow) /\ request[c].workflow = w)
    <3>1. \A d \in Client : Pushing(d, w)' => Pushing(d, w)
      BY <1>2, <1>4, <2>2 DEF CreateRow, GoOnToPush, Answer, Pushing, NoRequest, Request
    <3>2. stored'[w] = "none" => stored[w] = "none"
      BY <1>2, <1>4 DEF CreateRow, TypeOK, Request, Cron, RowFree
    <3> QED
      BY <1>1, <1>4, <3>1, <3>2, FewerDrivers DEF CreateRow, Waiting, Tasked, TypeOK
  <2> QED
    BY <2>1, <2>2
<1>5. CASE PushTrigger(c)
  <2>1. stored' = stored /\ Answer(c)
    BY <1>5 DEF PushTrigger
  <2>2. /\ ~Pushing(c, w)'
        /\ \A d \in Client : Pushing(d, w)' => Pushing(d, w) /\ d # c
    BY <1>2, <2>1 DEF Answer, Pushing, NoRequest
  <2>3. CASE scheduled' = scheduled \/ request[c].workflow # w
    <3>1. Waiting(w)' = Waiting(w)
      BY <1>1, <1>5, <2>3 DEF PushTrigger, AddTrigger, Waiting, TypeOK
    <3> QED
      BY <1>1, <2>1, <2>2, <3>1, FewerDrivers DEF Waiting, Tasked, TypeOK
  <2>4. CASE AddTrigger(w) /\ request[c].workflow = w
    <3>1. Pushing(c, w)
      BY <1>5, <2>4 DEF PushTrigger, Pushing
    <3>2. NoPush(w)'
      BY <1>1, <2>2, <3>1 DEF NoPush, Apart
    <3>3. polled # w /\ NoTask(w) /\ Waiting(w) # 1 /\ Waiting(w) <= 1 /\ stored[w] # "none"
      BY <1>1, <3>1 DEF Apart, NoPush
    <3>4. Waiting(w)' = 1
      BY <1>1, <2>4, <3>3 DEF AddTrigger, Waiting, TypeOK
    <3>5. NoTask(w)' /\ polled' # w
      BY <1>1, <3>3 DEF NoTask, Tasked
    <3> QED
      BY <2>1, <3>2, <3>3, <3>4, <3>5 DEF Apart, NoPush, NoTask
  <2> QED
    BY <1>5, <2>3, <2>4 DEF PushTrigger
<1> QED
  BY <1>3, <1>4, <1>5
\* A trigger is due, and the poller takes it.
LEMMA PollerApart ==
  ASSUME PlainNames, DriverInv, Typed', NEW v \in Workflow, NEW s \in Slot,
         \/ BecomesDue(v) \/ TakeTrigger(v) \/ LoseTrigger(v)
         \/ StartInit(s) \/ DropTrigger,
         NEW w \in Workflow
  PROVE  Apart(w)'
<1> USE NoWorkflowAssumption DEF DriverInv, Typed
<1>1. Apart(w) /\ request' = request /\ stored' = stored
  BY DEF BecomesDue, TakeTrigger, LoseTrigger, StartInit, DropTrigger
<1>2. CASE BecomesDue(v) \/ LoseTrigger(v) \/ DropTrigger
  <2>1. Waiting(w)' <= Waiting(w)
    BY <1>2 DEF BecomesDue, LoseTrigger, DropTrigger, Waiting, TypeOK, Removed, RemoveDue
  <2>2. slot' = slot /\ (polled' = w => polled = w)
    BY <1>2 DEF BecomesDue, LoseTrigger, DropTrigger, processVars, GoCancelled
  <2> QED
    BY <1>1, <2>1, <2>2, FewerDrivers DEF Tasked, Pushing
<1>3. CASE TakeTrigger(v)
  <2>1. polled = NoWorkflow /\ polled' = v /\ slot' = slot
    BY <1>3 DEF TakeTrigger, CallGo, Shape, TypeOK, PlainNames
  <2>2. CASE v # w
    <3>1. Waiting(w)' = Waiting(w)
      BY <1>3, <2>2 DEF TakeTrigger, RemoveDue, Waiting, TypeOK
    <3> QED
      BY <1>1, <2>1, <2>2, <3>1, FewerDrivers DEF Tasked, Pushing, TypeOK, Waiting
  <2>3. CASE v = w
    <3>1. due[w] > 0 /\ scheduled' = scheduled /\ due' = [due EXCEPT ![w] = @ - 1]
      BY <1>3, <2>3 DEF TakeTrigger, Removed, RemoveDue
    <3>2. Waiting(w) = 1 /\ Waiting(w)' = 0
      <4>1. scheduled[w] \in Nat /\ due[w] \in Nat /\ due'[w] = due[w] - 1
        BY <3>1 DEF TypeOK
      <4>2. scheduled[w] + due[w] <= 1
        BY <1>1 DEF Apart, Waiting
      <4> QED
        BY <3>1, <4>1, <4>2 DEF Waiting
    <3>3. NoTask(w)' /\ NoPush(w)' /\ stored'[w] # "none"
      BY <1>1, <2>1, <3>2 DEF Apart, NoTask, NoPush, Tasked, Pushing
    <3> QED
      BY <3>2, <3>3 DEF Apart, NoTask, NoPush
  <2> QED
    BY <2>2, <2>3
<1>4. CASE StartInit(s)
  <2>1. /\ polled \in Workflow /\ polled' = NoWorkflow
        /\ slot' = [slot EXCEPT ![s] = InitTask(polled)]
        /\ Waiting(w)' = Waiting(w)
    BY <1>4 DEF StartInit, TakeSlot, Shape, Waiting
  <2>2. \A t \in Slot : Tasked(t, w)' => Tasked(t, w) \/ (t = s /\ polled = w)
    BY <2>1 DEF Tasked, InitTask, TypeOK, ProcessTypeOK
  <2>3. CASE polled # w
    BY <1>1, <2>1, <2>2, <2>3, FewerDrivers DEF Pushing, TypeOK, Waiting
  <2>4. CASE polled = w
    <3>1. NoTask(w) /\ NoPush(w) /\ Waiting(w) # 1 /\ Waiting(w) <= 1 /\ stored[w] # "none"
      BY <1>1, <2>4 DEF Apart
    <3>2. \A t \in Slot : Tasked(t, w)' => t = s
      BY <2>2, <3>1 DEF NoTask
    <3>3. NoPush(w)'
      BY <1>1, <3>1 DEF NoPush, Pushing
    <3> QED
      BY <1>1, <2>1, <3>1, <3>2, <3>3 DEF Apart, NoPush
  <2> QED
    BY <2>3, <2>4
<1> QED
  BY <1>2, <1>3, <1>4

\* A task ends, with the next trigger or without.
LEMMA TaskApart ==
  ASSUME DriverInv, Typed', NEW s \in Slot, InitTaskStep(s), NEW w \in Workflow
  PROVE  Apart(w)'
<1> USE DEF DriverInv, Typed
<1>1. Apart(w) /\ UNCHANGED <<stored, due, request, polled>>
  BY DEF InitTaskStep, LoadWorkflow, PrepareRun, Reschedule, cronVars
<1>2. \A t \in Slot : Tasked(t, w)' => Tasked(t, w)
  BY NoWorkflowAssumption
  DEF InitTaskStep, LoadWorkflow, PrepareRun, Reschedule, AdvanceTask, EndTask, Tasked,
      Idle, TypeOK, ProcessTypeOK, Task
<1>3. CASE scheduled'[w] = scheduled[w]
  BY <1>1, <1>2, <1>3, FewerDrivers DEF Waiting, Pushing, TypeOK
<1>4. CASE scheduled'[w] # scheduled[w]
  <2>1. Reschedule(s) /\ slot[s].workflow = w
    BY <1>4 DEF InitTaskStep, LoadWorkflow, PrepareRun, Reschedule, cronVars, NextTrigger,
                AddTrigger, TypeOK
  <2>2. scheduled'[w] = scheduled[w] + 1
    BY <1>4, <2>1 DEF Reschedule, NextTrigger, AddTrigger, TypeOK
  <2>3. Tasked(s, w) /\ ~Tasked(s, w)'
    BY <2>1, NoWorkflowAssumption
    DEF Reschedule, EndTask, Tasked, Idle, TypeOK, ProcessTypeOK
  <2>4. /\ polled # w /\ NoPush(w) /\ Waiting(w) # 1 /\ Waiting(w) <= 1
        /\ stored[w] # "none"
        /\ \A t \in Slot : Tasked(t, w) => t = s
    BY <1>1, <2>3 DEF Apart, NoTask
  <2>5. Waiting(w)' = 1
    BY <1>1, <2>2, <2>4 DEF Waiting, TypeOK
  <2>6. NoTask(w)'
    BY <1>2, <2>3, <2>4 DEF NoTask
  <2>7. NoPush(w)'
    BY <1>1, <2>4 DEF NoPush, Pushing
  <2> QED
    BY <1>1, <2>4, <2>5, <2>6, <2>7 DEF Apart, NoTask, NoPush
<1> QED
  BY <1>3, <1>4

\* The process goes on, stops or is started again.
LEMMA ProcessApart ==
  ASSUME DriverInv, Typed',
         \/ \E s \in Slot : HangTask(s)
         \/ ProcessStep \/ Stop \/ Restart \/ Crash \/ UNCHANGED vars,
         NEW w \in Workflow
  PROVE  Apart(w)'
<1> USE NoWorkflowAssumption DEF DriverInv, Typed
<1>1. UNCHANGED <<stored, scheduled, due>> /\ (polled' = polled \/ polled' = NoWorkflow)
  BY DEF HangTask, ProcessStep, Stop, Restart, Crash, StartAgain, vars, cronVars
<1>2. \A c \in Client : Pushing(c, w)' => Pushing(c, w)
  BY DEF HangTask, ProcessStep, Stop, Restart, Crash, StartAgain, vars, cronVars, Pushing,
         NoRequest
<1>3. \A s \in Slot : slot'[s] = slot[s] \/ slot'[s] \in {Idle, OtherTask, HungTask}
  BY DEF HangTask, MailHangs, ProcessStep, Stop, Restart, Crash, StartAgain, Boot, vars, processVars, MainNext,
         HttpShutdown, PoolWait, LoopsWait, CallGo, GoCancelled, EndLoop, StartOther,
         EndOther, TakeSlot, EndTask, Signal, TypeOK, ProcessTypeOK
<1>4. \A s \in Slot : Tasked(s, w)' => Tasked(s, w)
  BY <1>3 DEF Tasked, Idle, OtherTask, HungTask
<1> QED
  BY <1>1, <1>2, <1>4, FewerDrivers DEF Waiting, TypeOK

LEMMA NextApart ==
  ASSUME PlainNames, DriverInv, [Next]_vars
  PROVE  DriverInv'
<1>1. Typed'
  BY NextTypes DEF DriverInv
<1> SUFFICES ASSUME NEW w \in Workflow PROVE Apart(w)'
  BY <1>1 DEF DriverInv
<1> USE <1>1
<1>2. CASE \E c \in Client, v \in Workflow, cron \in Cron : Submit(c, v, cron)
  BY <1>2, RequestApart
<1>3. CASE \E c \in Client : CreateRow(c) \/ PushTrigger(c)
  BY <1>3, RequestApart DEF Cron
<1>4. CASE \E v \in Workflow : BecomesDue(v) \/ TakeTrigger(v) \/ LoseTrigger(v)
  <2>1. PICK s \in Slot : TRUE
    BY SlotAssumption
  <2> QED
    BY <1>4, <2>1, PollerApart
<1>5. CASE \E s \in Slot : StartInit(s)
  BY <1>5, PollerApart
<1>6. CASE DropTrigger
  <2>1. PICK s \in Slot : TRUE
    BY SlotAssumption
  <2> QED
    BY <1>6, <2>1, PollerApart
<1>7. CASE \E s \in Slot : InitTaskStep(s)
  BY <1>7, TaskApart
<1>8. CASE \/ \E s \in Slot : HangTask(s)
           \/ ProcessStep \/ Stop \/ Restart \/ Crash \/ UNCHANGED vars
  BY <1>8, ProcessApart
<1> QED
  BY <1>2, <1>3, <1>4, <1>5, <1>6, <1>7, <1>8 DEF Next

LEMMA InitApart == Init => DriverInv
<1> SUFFICES ASSUME Init, NEW w \in Workflow PROVE Apart(w)
  BY InitTypes DEF DriverInv
<1> QED
  BY NoWorkflowAssumption
  DEF Init, ProcessInit, Apart, Waiting, NoTask, NoPush, Tasked, Pushing, Idle, NoRequest

\* The drivers of a workflow are what Apart keeps apart.
LEMMA ApartIsOneDriver ==
  ASSUME DriverInv
  PROVE  OneDriver
<1> SUFFICES ASSUME NEW w \in Workflow, NEW d \in Drivers(w), NEW e \in Drivers(w)
             PROVE  d = e
  BY DEF OneDriver
<1> DEFINE Kind(x) == \/ x = <<"trigger", 1>> /\ Waiting(w) = 1
                      \/ x = <<"poller", 1>> /\ polled = w
                      \/ \E s \in Slot : x = <<"task", s>> /\ Tasked(s, w)
                      \/ \E c \in Client : x = <<"request", c>> /\ Pushing(c, w)
<1>1. Apart(w) /\ Waiting(w) \in Nat
  BY DEF DriverInv, Typed, TypeOK, Waiting
<1>2. Waiting(w) \in {0, 1}
  BY <1>1 DEF Apart
<1>3. ASSUME NEW x \in Drivers(w) PROVE Kind(x)
  <2>1. CASE x \in {<<"trigger", n>> : n \in 1..(scheduled[w] + due[w])}
    <3>1. PICK n \in 1..Waiting(w) : x = <<"trigger", n>>
      BY <2>1 DEF Waiting
    <3>2. n = 1 /\ Waiting(w) = 1
      BY <1>2, <3>1
    <3> QED
      BY <3>1, <3>2
  <2>2. CASE x \in {<<"poller", n>> : n \in {m \in {1} : polled = w}}
    BY <2>2
  <2>3. CASE x \in {<<"task", s>> : s \in {t \in Slot : slot[t].workflow = w}}
    BY <2>3 DEF Tasked
  <2>4. CASE x \in {<<"request", c>> : c \in {g \in Client : /\ request[g].workflow = w
                                                          /\ request[g].pc = "push"}}
    BY <2>4 DEF Pushing
  <2> QED
    BY <1>3, <2>1, <2>2, <2>3, <2>4 DEF Drivers
<1>4. Kind(d) /\ Kind(e)
  BY <1>3
<1> QED
  BY <1>1, <1>4 DEF Apart, NoTask, NoPush

\* If no id contains a colon, a workflow never has two triggers, nor a trigger
\* beside the task or the request that is to write one: races of creations,
\* lost replies, stops and crashes never schedule a run twice.
THEOREM OneDriverPerWorkflow ==
  ASSUME PlainNames
  PROVE  Spec => []OneDriver
<1>1. DriverInv /\ [Next]_vars => DriverInv'
  BY NextApart
<1>2. DriverInv => OneDriver
  BY ApartIsOneDriver
<1> QED
  BY <1>1, <1>2, InitApart, PTL DEF Spec
-----------------------------------------------------------------------------
(* Lost schedules.  An accepted workflow is at risk when it has no trigger *)
(* and what still holds it may end without writing one, no error needed: a *)
(* poller that has been told to stop, a task that nobody waits for.  Only  *)
(* an error, the signal (for the trigger in the poller's hands) and a      *)
(* crash (for that one and those of the tasks) put workflows at risk.      *)

Unwaited == main \in {"loops", "exited"}

Risk ==
  {w \in accepted : /\ Waiting(w) = 0
                    /\ polled = w => ctxDone
                    /\ NoTask(w) \/ Unwaited}

Recorded ==
  \A c \in Client :
    request[c].pc = "push" => stored[request[c].workflow] = request[c].cron

Budget == faults + stops + crashes * (1 + Cardinality(Slot))

LossInv ==
  /\ Typed
  /\ main # "serving" => ctxDone
  /\ Recorded
  /\ \A w \in accepted : stored[w] = "valid"
  /\ IsFiniteSet(Risk)
  /\ Cardinality(Risk) <= Budget

LEMMA BudgetType ==
  ASSUME TypeOK
  PROVE  Budget \in Nat /\ faults \in Nat /\ stops \in Nat /\ crashes \in Nat
<1>1. faults \in Nat /\ stops \in Nat /\ crashes \in Nat
  BY CronBoundsAssumption DEF TypeOK
<1>2. Cardinality(Slot) \in Nat
  BY SlotAssumption, FS_CardinalityType
<1>3. \A m, n \in Nat : m * (1 + n) \in Nat
  OBVIOUS
<1>4. crashes * (1 + Cardinality(Slot)) \in Nat
  BY <1>1, <1>2, <1>3
<1> QED
  BY <1>1, <1>4 DEF Budget

LEMMA BudgetGrows ==
  ASSUME TypeOK, UNCHANGED crashes, faults' \in Nat, stops' \in Nat
  PROVE  Budget' = Budget + (faults' - faults) + (stops' - stops)
<1> DEFINE spent == crashes * (1 + Cardinality(Slot))
<1>1. faults \in Nat /\ stops \in Nat /\ Budget \in Nat
  BY BudgetType
<1>2. Budget = faults + stops + spent /\ Budget' = faults' + stops' + spent
  BY DEF Budget
<1>3. spent \in Int
  <2>1. Cardinality(Slot) \in Nat /\ crashes \in Nat
    BY SlotAssumption, FS_CardinalityType, BudgetType
  <2>2. \A m, n \in Nat : m * (1 + n) \in Int
    OBVIOUS
  <2> QED
    BY <2>1, <2>2
<1> HIDE DEF spent
<1> QED
  BY <1>1, <1>2, <1>3

LEMMA AddOne ==
  ASSUME NEW S, NEW x, IsFiniteSet(S)
  PROVE  /\ IsFiniteSet(S \cup {x})
         /\ Cardinality(S \cup {x}) <= Cardinality(S) + 1
         /\ Cardinality(S) \in Nat
<1>1. Cardinality(S) \in Nat
  BY FS_CardinalityType
<1>2. /\ IsFiniteSet(S \cup {x})
      /\ Cardinality(S \cup {x}) = IF x \in S THEN Cardinality(S) ELSE Cardinality(S) + 1
  BY FS_AddElement
<1> QED
  BY <1>1, <1>2

\* A step that puts nothing at risk, or one workflow that it pays for.
LEMMA NoNewRisk ==
  ASSUME LossInv, Typed', Risk' \subseteq Risk,
         UNCHANGED stops, UNCHANGED crashes, faults' = faults \/ faults' = faults + 1
  PROVE  IsFiniteSet(Risk') /\ Cardinality(Risk') <= Budget'
<1>1. IsFiniteSet(Risk') /\ Cardinality(Risk') <= Cardinality(Risk)
  BY FS_Subset DEF LossInv
<1>2. Budget' = Budget \/ Budget' = Budget + 1
  <2>1. faults \in Nat /\ stops \in Nat /\ Budget \in Nat
    BY BudgetType DEF LossInv, Typed
  <2>2. Budget' = Budget + (faults' - faults) + (stops' - stops)
    BY <2>1, BudgetGrows DEF LossInv, Typed
  <2> QED
    BY <2>1, <2>2
<1>3. Cardinality(Risk) \in Nat /\ Cardinality(Risk') \in Nat /\ Budget \in Nat
  BY <1>1, FS_CardinalityType, BudgetType DEF LossInv, Typed
<1> QED
  BY <1>1, <1>2, <1>3 DEF LossInv

LEMMA OneNewRisk ==
  ASSUME LossInv, Typed', NEW w, Risk' \subseteq Risk \cup {w},
         UNCHANGED crashes,
         \/ UNCHANGED stops /\ faults' = faults + 1
         \/ UNCHANGED faults /\ stops' = stops + 1
  PROVE  IsFiniteSet(Risk') /\ Cardinality(Risk') <= Budget'
<1>1. /\ IsFiniteSet(Risk \cup {w})
      /\ Cardinality(Risk \cup {w}) <= Cardinality(Risk) + 1
      /\ Cardinality(Risk) \in Nat
  BY AddOne DEF LossInv
<1>2. /\ IsFiniteSet(Risk')
      /\ Cardinality(Risk') <= Cardinality(Risk \cup {w})
  BY <1>1, FS_Subset
<1>3. Cardinality(Risk') \in Nat /\ Cardinality(Risk \cup {w}) \in Nat /\ Budget \in Nat
  BY <1>1, <1>2, FS_CardinalityType, BudgetType DEF LossInv, Typed
<1>4. Budget' = Budget + 1
  <2>1. faults \in Nat /\ stops \in Nat /\ Budget \in Nat
    BY BudgetType DEF LossInv, Typed
  <2>2. Budget' = Budget + (faults' - faults) + (stops' - stops)
    BY <2>1, BudgetGrows DEF LossInv, Typed
  <2> QED
    BY <2>1, <2>2
<1> QED
  BY <1>1, <1>2, <1>3, <1>4 DEF LossInv

\* A crash may put at risk the workflow of the poller and those of the slots.
LEMMA CrashRisk ==
  ASSUME LossInv, Typed', Crash
  PROVE  IsFiniteSet(Risk') /\ Cardinality(Risk') <= Budget'
<1> DEFINE InPool == {slot[s].workflow : s \in Slot}
           f == [s \in Slot |-> slot[s].workflow]
           k == Cardinality(Slot)
<1>1. IsFiniteSet(InPool) /\ Cardinality(InPool) <= k
  <2>1. f \in Surjection(Slot, InPool)
    BY DEF Surjection
  <2> QED
    BY <2>1, SlotAssumption, FS_Surjection
<1>2. Risk' \subseteq (Risk \cup InPool) \cup {polled}
  <2> SUFFICES ASSUME NEW w \in Risk', w # polled, w \notin InPool
               PROVE  w \in Risk
    OBVIOUS
  <2>1. NoTask(w)
    BY DEF NoTask, Tasked
  <2>2. accepted' = accepted /\ Waiting(w)' = Waiting(w)
    BY DEF Crash, StartAgain, Waiting
  <2> QED
    BY <2>1, <2>2 DEF Risk
<1>3. /\ IsFiniteSet(Risk \cup InPool)
      /\ Cardinality(Risk \cup InPool) <= Cardinality(Risk) + k
  <2>1. /\ IsFiniteSet(Risk \cup InPool)
        /\ Cardinality(Risk \cup InPool) =
             Cardinality(Risk) + Cardinality(InPool) - Cardinality(Risk \cap InPool)
    BY <1>1, FS_Union DEF LossInv
  <2>2. IsFiniteSet(Risk \cap InPool)
    BY <1>1, FS_Intersection
  <2>3. /\ Cardinality(Risk) \in Nat /\ Cardinality(InPool) \in Nat
        /\ Cardinality(Risk \cap InPool) \in Nat /\ k \in Nat
    BY <1>1, <2>2, SlotAssumption, FS_CardinalityType DEF LossInv
  <2> QED
    BY <1>1, <2>1, <2>3
<1>4. /\ IsFiniteSet((Risk \cup InPool) \cup {polled})
      /\ Cardinality((Risk \cup InPool) \cup {polled}) <= Cardinality(Risk \cup InPool) + 1
      /\ Cardinality(Risk \cup InPool) \in Nat
  BY <1>3, AddOne
<1>5. /\ IsFiniteSet(Risk')
      /\ Cardinality(Risk') <= Cardinality((Risk \cup InPool) \cup {polled})
  BY <1>2, <1>4, FS_Subset
<1>6. /\ Cardinality(Risk') \in Nat /\ Cardinality(Risk) \in Nat /\ k \in Nat
      /\ Cardinality((Risk \cup InPool) \cup {polled}) \in Nat /\ Budget \in Nat
  BY <1>4, <1>5, SlotAssumption, FS_CardinalityType, BudgetType DEF LossInv, Typed
<1>7. Cardinality(Risk') <= Cardinality(Risk) + k + 1
  BY <1>3, <1>4, <1>5, <1>6
<1>8. Budget' = Budget + 1 + k
  <2>1. faults \in Nat /\ stops \in Nat /\ crashes \in Nat
    BY BudgetType DEF LossInv, Typed
  <2>2. faults' = faults /\ stops' = stops /\ crashes' = crashes + 1
    BY DEF Crash
  <2>3. \A m, n \in Nat : (m + 1) * (1 + n) = m * (1 + n) + 1 + n
    OBVIOUS
  <2>4. (crashes + 1) * (1 + k) = crashes * (1 + k) + 1 + k
    BY <1>6, <2>1, <2>3
  <2>5. \A m, n \in Nat : m * (1 + n) \in Nat
    OBVIOUS
  <2>6. crashes * (1 + k) \in Nat
    BY <1>6, <2>1, <2>5
  <2> QED
    BY <1>6, <2>1, <2>2, <2>4, <2>6 DEF Budget
<1>9. Cardinality(Risk) <= Budget
  BY DEF LossInv
<1> QED
  BY <1>5, <1>6, <1>7, <1>8, <1>9
\* What LossInv says besides its bound.
Schedules ==
  /\ main # "serving" => ctxDone
  /\ Recorded
  /\ \A w \in accepted : stored[w] = "valid"

\* A request creates its row before it goes on, and no row is overwritten.
LEMMA RecordedStep ==
  ASSUME Typed, Recorded, [Next]_vars
  PROVE  /\ Recorded'
         /\ \A w \in Workflow : stored'[w] = stored[w] \/ stored[w] = "none"
<1> USE DEF Typed
<1>0. request \in [Client -> Request] /\ stored \in [Workflow -> Cron \cup {"none"}]
  BY DEF TypeOK
<1>1. CASE \E c \in Client : CreateRow(c)
  <2>1. PICK c \in Client : CreateRow(c)
    BY <1>1
  <2>2. request[c].workflow \in Workflow /\ request[c].cron \in Cron
    BY <1>0, <2>1 DEF CreateRow, Shape, Request
  <2>3. \/ UNCHANGED stored
        \/ /\ stored[request[c].workflow] = "none"
           /\ stored' = [stored EXCEPT ![request[c].workflow] = request[c].cron]
    BY <2>1 DEF CreateRow, RowFree
  <2>4. \/ GoOnToPush(c) /\ stored'[request[c].workflow] = request[c].cron
        \/ Answer(c)
    BY <1>0, <2>1, <2>2 DEF CreateRow
  <2>5. \A w \in Workflow : stored'[w] = stored[w] \/ stored[w] = "none"
    BY <1>0, <2>2, <2>3
  <2>6. ASSUME NEW d \in Client, request'[d].pc = "push"
        PROVE  stored'[request'[d].workflow] = request'[d].cron
    <3>1. CASE d = c
      BY <1>0, <2>4, <2>6, <3>1 DEF GoOnToPush, Answer, NoRequest, Request
    <3>2. CASE d # c
      <4>1. request'[d] = request[d]
        <5>1. CASE GoOnToPush(c)
          BY <1>0, <3>2, <5>1 DEF GoOnToPush
        <5>2. CASE Answer(c)
          BY <1>0, <3>2, <5>2 DEF Answer
        <5> QED
          BY <2>4, <5>1, <5>2
      <4>2. stored[request[d].workflow] = request[d].cron /\ request[d].workflow \in Workflow
        BY <2>6, <4>1 DEF Recorded, Shape
      <4>3. request[d].cron \in Cron
        BY <1>0 DEF Request
      <4> QED
        BY <2>5, <4>1, <4>2, <4>3 DEF Cron
    <3> QED
      BY <3>1, <3>2
  <2> QED
    BY <2>5, <2>6 DEF Recorded
<1>2. CASE ~ \E c \in Client : CreateRow(c)
  <2>1. stored' = stored
    BY <1>2
    DEF Next, Submit, PushTrigger, BecomesDue, TakeTrigger, LoseTrigger, StartInit,
        InitTaskStep, LoadWorkflow, PrepareRun, Reschedule, DropTrigger, HangTask,
        ProcessStep, Stop, Restart, Crash, StartAgain, vars, cronVars
  <2>2. \A d \in Client : request'[d].pc = "push" => request'[d] = request[d]
    <3>1. CASE \E c \in Client, v \in Workflow, cron \in Cron : Submit(c, v, cron)
      BY <1>0, <3>1 DEF Submit
    <3>2. CASE \E c \in Client : PushTrigger(c)
      BY <1>0, <3>2 DEF PushTrigger, Answer, NoRequest
    <3>3. CASE Restart \/ Crash
      BY <3>3 DEF Restart, Crash, StartAgain, NoRequest
    <3>4. CASE request' = request
      BY <3>4
    <3> QED
      BY <1>2, <3>1, <3>2, <3>3, <3>4
      DEF Next, BecomesDue, TakeTrigger, LoseTrigger, StartInit, InitTaskStep, LoadWorkflow,
          PrepareRun, Reschedule, DropTrigger, HangTask, ProcessStep, Stop, vars, cronVars
  <2> QED
    BY <2>1, <2>2 DEF Recorded
<1> QED
  BY <1>1, <1>2

LEMMA RequestSchedules ==
  ASSUME LossInv, Typed', NEW c \in Client, NEW v \in Workflow, NEW cron \in Cron,
         Submit(c, v, cron) \/ CreateRow(c) \/ PushTrigger(c)
  PROVE  Schedules' /\ Risk' \subseteq Risk
<1> USE DEF LossInv, Typed
<1>1. /\ UNCHANGED <<main, ctxDone, slot, polled, due>>
      /\ request \in [Client -> Request] /\ stored \in [Workflow -> Cron \cup {"none"}]
  BY DEF Submit, CreateRow, PushTrigger, processVars, TypeOK
<1>2. CASE Submit(c, v, cron)
  <2>1. Recorded'
    BY <1>1, <1>2 DEF Submit, Recorded
  <2>2. UNCHANGED <<stored, scheduled, accepted>>
    BY <1>2 DEF Submit
  <2> QED
    BY <1>1, <2>1, <2>2 DEF Schedules, Unwaited, Risk, Waiting, NoTask, Tasked
<1>3. CASE CreateRow(c)
  <2>1. [Next]_vars
    BY <1>3 DEF Next
  <2>2. Recorded' /\ \A w \in Workflow : stored'[w] = stored[w] \/ stored[w] = "none"
    BY <2>1, RecordedStep
  <2>3. \A w \in accepted : stored'[w] = "valid"
    BY <2>2 DEF TypeOK
  <2>4. UNCHANGED <<scheduled, accepted>>
    BY <1>3 DEF CreateRow
  <2> QED
    BY <1>1, <2>2, <2>3, <2>4 DEF Schedules, Unwaited, Risk, Waiting, NoTask, Tasked
<1>4. CASE PushTrigger(c)
  <2>1. stored' = stored /\ Answer(c)
    BY <1>4 DEF PushTrigger
  <2>2. request[c].workflow \in Workflow
    BY <1>4 DEF PushTrigger, Shape
  <2>3. Recorded'
    BY <1>1, <2>1 DEF Answer, Recorded, NoRequest
  <2>4. \/ UNCHANGED accepted /\ scheduled' = scheduled
        \/ UNCHANGED accepted /\ AddTrigger(request[c].workflow)
        \/ /\ accepted' = accepted \cup {request[c].workflow}
           /\ AddTrigger(request[c].workflow)
           /\ request[c].cron = "valid"
    BY <1>4 DEF PushTrigger
  <2>5. stored[request[c].workflow] = request[c].cron
    BY <1>4 DEF PushTrigger, Recorded
  <2>6. \A w \in accepted' : stored'[w] = "valid"
    BY <2>1, <2>4, <2>5
  <2>7. ASSUME NEW w \in Risk' PROVE w \in accepted /\ Waiting(w) = 0
    <3>1. w \in accepted' /\ w \in Workflow /\ Waiting(w)' = 0
      BY <2>7 DEF Risk, TypeOK
    <3>2. scheduled[w] \in Nat /\ due[w] \in Nat /\ scheduled \in [Workflow -> Nat]
      BY <3>1 DEF TypeOK
    <3>3. scheduled'[w] + due[w] = 0
      BY <1>1, <3>1 DEF Waiting
    <3>4. CASE scheduled' = scheduled
      BY <2>4, <3>1, <3>2, <3>3, <3>4 DEF AddTrigger, Waiting
    <3>5. CASE AddTrigger(request[c].workflow)
      <4>1. request[c].workflow # w
        BY <3>1, <3>2, <3>3, <3>5 DEF AddTrigger
      <4>2. scheduled'[w] = scheduled[w]
        BY <3>1, <3>2, <3>5, <4>1 DEF AddTrigger
      <4> QED
        BY <2>4, <3>1, <3>3, <4>1, <4>2 DEF Waiting
    <3> QED
      BY <2>4, <3>4, <3>5
  <2>8. Risk' \subseteq Risk
    BY <1>1, <2>7 DEF Risk, NoTask, Tasked, Unwaited
  <2> QED
    BY <1>1, <2>3, <2>6, <2>8 DEF Schedules, Unwaited
<1> QED
  BY <1>2, <1>3, <1>4

\* What the other steps leave alone.
LEMMA SchedulesKept ==
  ASSUME LossInv, main' # "serving" => ctxDone', UNCHANGED <<stored, accepted>>,
         \A c \in Client : request'[c] = request[c] \/ request'[c] = NoRequest
  PROVE  Schedules'
<1>1. Recorded'
  BY DEF LossInv, Recorded, NoRequest
<1> QED
  BY <1>1 DEF LossInv, Schedules

LEMMA PollerRisk ==
  ASSUME PlainNames, LossInv, Typed', NEW v \in Workflow, NEW s \in Slot,
         BecomesDue(v) \/ TakeTrigger(v) \/ StartInit(s) \/ DropTrigger
  PROVE  Schedules' /\ Risk' \subseteq Risk
<1> USE DEF LossInv, Typed
<1>1. /\ UNCHANGED <<main, ctxDone, stored, accepted, request>>
  BY DEF BecomesDue, TakeTrigger, StartInit, DropTrigger, processVars, TakeSlot, GoCancelled
<1>2. Schedules'
  BY <1>1, SchedulesKept DEF Unwaited
<1>3. CASE BecomesDue(v)
  <2>1. \A w \in Workflow : Waiting(w)' = Waiting(w)
    BY <1>3 DEF BecomesDue, Waiting, TypeOK
  <2>2. UNCHANGED <<polled, slot>>
    BY <1>3 DEF BecomesDue, processVars
  <2> QED
    BY <1>1, <1>2, <2>1, <2>2 DEF Risk, NoTask, Tasked, Unwaited, TypeOK
<1>4. CASE TakeTrigger(v)
  <2>1. polled' = v /\ ~ctxDone /\ polled \notin Workflow /\ slot' = slot
    BY <1>4 DEF TakeTrigger, CallGo, Shape, PlainNames
  <2>2. \A w \in Workflow : w # v => Waiting(w)' = Waiting(w)
    BY <1>4 DEF TakeTrigger, RemoveDue, Waiting, TypeOK
  <2> QED
    BY <1>1, <1>2, <2>1, <2>2 DEF Risk, NoTask, Tasked, Unwaited, TypeOK
<1>5. CASE StartInit(s)
  <2>1. /\ polled \in Workflow /\ polled' = NoWorkflow
        /\ slot[s] = Idle /\ slot' = [slot EXCEPT ![s] = InitTask(polled)]
        /\ UNCHANGED <<scheduled, due>>
    BY <1>5 DEF StartInit, TakeSlot, Shape
  <2>2. slot'[s].workflow = polled
    BY <2>1 DEF InitTask, TypeOK, ProcessTypeOK
  <2>3. \A w \in Workflow, t \in Slot : Tasked(t, w) => Tasked(t, w)'
    BY <2>1, NoWorkflowAssumption DEF Tasked, InitTask, Idle, TypeOK, ProcessTypeOK
  <2>4. ASSUME NEW w \in Risk' PROVE w \in Risk
    <3>1. w \in accepted /\ w \in Workflow /\ Waiting(w) = 0
      BY <1>1, <2>1, <2>4 DEF Risk, Waiting, TypeOK
    <3>2. NoTask(w)' \/ Unwaited'
      BY <2>4 DEF Risk
    <3>3. NoTask(w)' => NoTask(w)
      BY <2>3, <3>1 DEF NoTask
    <3>4. polled = w => Unwaited
      BY <1>1, <2>2, <3>2 DEF NoTask, Tasked, Unwaited
    <3> QED
      BY <1>1, <3>1, <3>2, <3>3, <3>4 DEF Risk, Unwaited
  <2> QED
    BY <1>2, <2>4
<1>6. CASE DropTrigger
  <2>1. ctxDone /\ UNCHANGED <<scheduled, due, slot>>
    BY <1>6 DEF DropTrigger, GoCancelled
  <2> QED
    BY <1>1, <1>2, <2>1 DEF Risk, Waiting, NoTask, Tasked, Unwaited
<1> QED
  BY <1>3, <1>4, <1>5, <1>6

\* A lost reply puts the trigger's workflow at risk.
LEMMA LostTriggerRisk ==
  ASSUME LossInv, Typed', NEW v \in Workflow, LoseTrigger(v)
  PROVE  Schedules' /\ Risk' \subseteq Risk \cup {v}
<1> USE DEF LossInv, Typed
<1>1. UNCHANGED <<processVars, stored, scheduled, request, polled, accepted>>
  BY DEF LoseTrigger
<1>2. Schedules'
  BY <1>1, SchedulesKept DEF Unwaited, processVars
<1>3. \A w \in Workflow : w # v => Waiting(w)' = Waiting(w)
  BY <1>1 DEF LoseTrigger, RemoveDue, Waiting, TypeOK
<1> QED
  BY <1>1, <1>2, <1>3 DEF Risk, NoTask, Tasked, Unwaited, TypeOK, processVars

\* A task that ends without an error leaves a trigger.
LEMMA TaskRisk ==
  ASSUME LossInv, Typed', NEW s \in Slot, InitTaskStep(s)
  PROVE  /\ Schedules'
         /\ Risk' \subseteq Risk \cup {slot[s].workflow}
         /\ UNCHANGED boundVars => Risk' \subseteq Risk
<1> USE DEF LossInv, Typed
<1>0. PICK v : v = slot[s].workflow
  OBVIOUS
<1>1. /\ UNCHANGED <<main, ctxDone, loop, stored, due, request, polled, historyVars>>
      /\ slot \in [Slot -> Task]
  BY DEF InitTaskStep, LoadWorkflow, PrepareRun, Reschedule, cronVars, TypeOK, ProcessTypeOK
<1>2. Schedules'
  BY <1>1, SchedulesKept DEF Unwaited
<1>3. v \in Workflow
  BY <1>0 DEF Shape, InitTaskStep, LoadWorkflow, PrepareRun, Reschedule, TaskAt, Idle, OtherTask,
         HungTask, AtWork
<1>4. scheduled' = scheduled \/ AddTrigger(v)
  BY <1>0 DEF InitTaskStep, LoadWorkflow, PrepareRun, Reschedule, cronVars, NextTrigger
<1>5. ASSUME NEW w \in Risk' PROVE w \in accepted /\ w \in Workflow /\ Waiting(w) = 0
  <2>1. w \in accepted /\ w \in Workflow /\ scheduled'[w] + due[w] = 0
    BY <1>1, <1>5 DEF Risk, TypeOK, Waiting
  <2>2. scheduled[w] \in Nat /\ due[w] \in Nat /\ scheduled'[w] \in Nat
    BY <2>1 DEF TypeOK
  <2>3. scheduled'[w] = scheduled[w] \/ scheduled'[w] = scheduled[w] + 1
    BY <1>4, <2>1 DEF AddTrigger, TypeOK
  <2> QED
    BY <2>1, <2>2, <2>3 DEF Waiting
<1>6. \A w \in Workflow, t \in Slot : w # v /\ Tasked(t, w) => Tasked(t, w)'
  BY <1>0, <1>1
  DEF InitTaskStep, LoadWorkflow, PrepareRun, Reschedule, AdvanceTask, EndTask, Tasked
<1>7. Risk' \subseteq Risk \cup {v}
  <2> SUFFICES ASSUME NEW w \in Risk', w # v PROVE w \in Risk
    OBVIOUS
  <2>1. NoTask(w)' => NoTask(w)
    BY <1>5, <1>6 DEF NoTask
  <2>2. (polled = w => ctxDone) /\ (NoTask(w)' \/ Unwaited)
    BY <1>1 DEF Risk, Unwaited
  <2> QED
    BY <1>5, <2>1, <2>2 DEF Risk
<1>8. ASSUME UNCHANGED boundVars, v \in Risk' PROVE v \in Risk
  <2>1. faults' # faults + 1
    BY <1>8 DEF boundVars, TypeOK
  <2>2. v \in accepted /\ Waiting(v) = 0 /\ stored[v] = "valid"
    BY <1>5, <1>8
  <2>3. CASE slot' = [slot EXCEPT ![s].pc = "prepare"] \/ slot' = [slot EXCEPT ![s].pc = "reschedule"]
    <3>1. Tasked(s, v)'
      BY <1>0, <1>1, <2>3 DEF Tasked, Task
    <3>2. Unwaited
      BY <1>1, <1>8, <3>1 DEF Risk, NoTask, Unwaited
    <3> QED
      BY <1>1, <1>8, <2>2, <3>2 DEF Risk
  <2>4. CASE AddTrigger(v)
    <3>1. scheduled'[v] = scheduled[v] + 1 /\ scheduled[v] \in Nat /\ due[v] \in Nat
      BY <1>3, <2>4 DEF AddTrigger, TypeOK
    <3>2. scheduled'[v] + due[v] = 0
      BY <1>1, <1>8 DEF Risk, Waiting
    <3> QED
      BY <3>1, <3>2
  <2> QED
    BY <1>0, <2>1, <2>2, <2>3, <2>4
    DEF InitTaskStep, LoadWorkflow, PrepareRun, Reschedule, AdvanceTask, NextTrigger, Fault
<1> QED
  BY <1>0, <1>2, <1>7, <1>8

\* A graceful stop puts the workflow of the poller at risk; the way from
\* there to the next process, no other.
LEMMA ProcessRisk ==
  ASSUME LossInv, Typed',
         (\E s \in Slot : HangTask(s)) \/ ProcessStep \/ Stop \/ Restart
  PROVE  /\ Schedules'
         /\ Risk' \subseteq Risk \cup {polled}
         /\ ~Stop => Risk' \subseteq Risk
<1> USE NoWorkflowAssumption DEF LossInv, Typed
<1>1. /\ UNCHANGED <<stored, scheduled, due, accepted>>
      /\ \A w \in Workflow : Waiting(w)' = Waiting(w)
      /\ accepted \subseteq Workflow
  BY DEF HangTask, ProcessStep, Stop, Restart, StartAgain, cronVars, Waiting, TypeOK
<1>2. CASE ProcessStep
  <2>1. UNCHANGED <<polled, request, ctxDone>>
    BY <1>2 DEF ProcessStep, cronVars, MainNext, HttpShutdown, PoolWait, LoopsWait,
                StartOther, EndOther, TakeSlot, GoCancelled, EndLoop
  <2>2. \A w \in Workflow : NoTask(w)' => NoTask(w)
    BY <1>2 DEF ProcessStep, MainNext, HttpShutdown, PoolWait, LoopsWait, CallGo, GoCancelled,
                EndLoop, StartOther, EndOther, TakeSlot, EndTask, TypeOK, ProcessTypeOK,
                NoTask, Tasked, Idle, OtherTask
  <2>3. \/ Unwaited' = Unwaited
        \/ Unwaited' /\ PoolEmpty /\ slot' = slot
    <3>1. CASE MainNext
      BY <3>1 DEF MainNext, HttpShutdown, PoolWait, LoopsWait, Unwaited
    <3>2. CASE main' = main
      BY <3>2 DEF Unwaited
    <3> QED
      BY <1>2, <3>1, <3>2
      DEF ProcessStep, StartOther, EndOther, TakeSlot, GoCancelled, EndLoop
  <2>4. PoolEmpty => \A w \in Workflow : NoTask(w)
    BY DEF PoolEmpty, NoTask, Tasked, Idle
  <2>5. Risk' \subseteq Risk
    BY <1>1, <2>1, <2>2, <2>3, <2>4 DEF Risk
  <2>6. main' # "serving" => ctxDone'
    <3>1. main' = "serving" => main = "serving"
      BY <1>2 DEF ProcessStep, MainNext, HttpShutdown, PoolWait, LoopsWait, StartOther,
                  EndOther, TakeSlot, GoCancelled, EndLoop
    <3>2. main' # main => main # "serving"
      BY <1>2 DEF ProcessStep, MainNext, HttpShutdown, PoolWait, LoopsWait, StartOther,
                  EndOther, TakeSlot, GoCancelled, EndLoop
    <3> QED
      BY <2>1, <3>1, <3>2
  <2>7. Schedules'
    BY <1>1, <2>1, <2>6, SchedulesKept
  <2> QED
    BY <2>5, <2>7
<1>3. CASE Stop
  <2>1. ctxDone' /\ main' = "http" /\ main = "serving" /\ UNCHANGED <<slot, polled, request>>
    BY <1>3 DEF Stop, Signal, cronVars
  <2>2. Risk' \subseteq Risk \cup {polled}
    BY <1>1, <2>1 DEF Risk, NoTask, Tasked, Unwaited
  <2>3. Schedules'
    BY <1>1, <2>1, SchedulesKept
  <2> QED
    BY <1>3, <2>2, <2>3
<1>4. CASE Restart
  <2>1. main = "exited" /\ ctxDone
    BY <1>4 DEF Restart
  <2>2. Risk' \subseteq Risk
    BY <1>1, <2>1 DEF Risk, Unwaited
  <2>3. Schedules'
    BY <1>1, <1>4, SchedulesKept DEF Restart, StartAgain, Boot
  <2> QED
    BY <2>2, <2>3
<1>5. CASE \E s \in Slot : HangTask(s)
  <2>1. PICK s \in Slot : HangTask(s)
    BY <1>5
  <2>2. /\ UNCHANGED <<main, ctxDone, polled, request>>
        /\ slot[s] = OtherTask /\ slot' = [slot EXCEPT ![s] = HungTask]
    BY <2>1 DEF HangTask, MailHangs, cronVars
  <2>3. \A w \in Workflow : NoTask(w)' => NoTask(w)
    BY <2>2 DEF NoTask, Tasked, HungTask, OtherTask, TypeOK, ProcessTypeOK
  <2>4. Risk' \subseteq Risk
    BY <1>1, <2>2, <2>3 DEF Risk, Unwaited
  <2>5. Schedules'
    BY <1>1, <2>2, SchedulesKept
  <2> QED
    BY <2>4, <2>5
<1> QED
  BY <1>2, <1>3, <1>4, <1>5

LEMMA NextLoss ==
  ASSUME PlainNames, LossInv, [Next]_vars
  PROVE  LossInv'
<1>1. Typed'
  BY NextTypes DEF LossInv
<1> SUFFICES Schedules' /\ IsFiniteSet(Risk') /\ Cardinality(Risk') <= Budget'
  BY <1>1 DEF LossInv, Schedules
<1>2. \/ faults' = faults
      \/ faults' = faults + 1
  BY DEF Next, Submit, CreateRow, PushTrigger, BecomesDue, TakeTrigger, LoseTrigger,
         StartInit, InitTaskStep, LoadWorkflow, PrepareRun, Reschedule, DropTrigger,
         HangTask, ProcessStep, Stop, Restart, Crash, vars, boundVars, NoFault, Fault
<1>3. ASSUME Schedules', Risk' \subseteq Risk, UNCHANGED <<stops, crashes>>
      PROVE  Schedules' /\ IsFiniteSet(Risk') /\ Cardinality(Risk') <= Budget'
  BY <1>1, <1>2, <1>3, NoNewRisk
<1>4. CASE \E c \in Client, v \in Workflow, cron \in Cron : Submit(c, v, cron)
  <2>1. UNCHANGED <<stops, crashes>>
    BY <1>4 DEF Submit, NoFault, boundVars
  <2> QED
    BY <1>1, <1>3, <1>4, <2>1, RequestSchedules
<1>5. CASE \E c \in Client : CreateRow(c) \/ PushTrigger(c)
  <2>1. UNCHANGED <<stops, crashes>>
    BY <1>5 DEF CreateRow, PushTrigger, NoFault, Fault, boundVars
  <2>2. PICK c \in Client : CreateRow(c) \/ PushTrigger(c)
    BY <1>5
  <2>3. request[c].workflow \in Workflow /\ request[c].cron \in Cron
    BY <2>2 DEF LossInv, Typed, TypeOK, Shape, CreateRow, PushTrigger, Request
  <2> QED
    BY <1>1, <1>3, <2>1, <2>2, <2>3, RequestSchedules
<1>6. CASE \E v \in Workflow : BecomesDue(v) \/ TakeTrigger(v)
  <2>1. UNCHANGED <<stops, crashes>>
    BY <1>6 DEF BecomesDue, TakeTrigger, NoFault, boundVars
  <2>2. PICK s \in Slot : TRUE
    BY SlotAssumption
  <2> QED
    BY <1>1, <1>3, <1>6, <2>1, <2>2, PollerRisk
<1>7. CASE (\E s \in Slot : StartInit(s)) \/ DropTrigger
  <2>1. UNCHANGED <<stops, crashes>>
    BY <1>7 DEF StartInit, DropTrigger, boundVars
  <2>2. polled \in Workflow
    BY <1>7 DEF StartInit, TakeSlot, DropTrigger, GoCancelled, LossInv, Typed, Shape
  <2>3. PICK s \in Slot : StartInit(s) \/ DropTrigger
    BY <1>7, SlotAssumption
  <2> QED
    BY <1>1, <1>3, <2>1, <2>2, <2>3, PollerRisk
<1>8. CASE \E v \in Workflow : LoseTrigger(v)
  <2>1. PICK v \in Workflow : LoseTrigger(v)
    BY <1>8
  <2>2. faults' = faults + 1 /\ UNCHANGED <<stops, crashes>>
    BY <2>1 DEF LoseTrigger, Fault
  <2>3. Schedules' /\ Risk' \subseteq Risk \cup {v}
    BY <1>1, <2>1, LostTriggerRisk
  <2> QED
    BY <1>1, <2>2, <2>3, OneNewRisk
<1>9. CASE \E s \in Slot : InitTaskStep(s)
  <2>1. PICK s \in Slot : InitTaskStep(s)
    BY <1>9
  <2>2. /\ Schedules'
        /\ Risk' \subseteq Risk \cup {slot[s].workflow}
        /\ UNCHANGED boundVars => Risk' \subseteq Risk
    BY <1>1, <2>1, TaskRisk
  <2>3. \/ UNCHANGED boundVars
        \/ faults' = faults + 1 /\ UNCHANGED <<stops, crashes>>
    BY <2>1 DEF InitTaskStep, LoadWorkflow, PrepareRun, Reschedule, NoFault, Fault
  <2>4. CASE UNCHANGED boundVars
    BY <1>3, <2>2, <2>4 DEF boundVars
  <2>5. CASE faults' = faults + 1 /\ UNCHANGED <<stops, crashes>>
    BY <1>1, <2>2, <2>5, OneNewRisk
  <2> QED
    BY <2>3, <2>4, <2>5
<1>10. CASE (\E s \in Slot : HangTask(s)) \/ ProcessStep \/ Restart
  <2>1. UNCHANGED <<stops, crashes>> /\ ~Stop
    BY <1>10 DEF HangTask, Fault, ProcessStep, Restart, Stop, boundVars, LossInv, Typed, TypeOK
  <2> QED
    BY <1>1, <1>3, <1>10, <2>1, ProcessRisk
<1>11. CASE Stop
  <2>1. stops' = stops + 1 /\ UNCHANGED <<faults, crashes>>
    BY <1>11 DEF Stop
  <2>2. Schedules' /\ Risk' \subseteq Risk \cup {polled}
    BY <1>1, <1>11, ProcessRisk
  <2> QED
    BY <1>1, <2>1, <2>2, OneNewRisk
<1>12. CASE Crash
  <2>1. Schedules'
    BY <1>12, SchedulesKept DEF Crash, StartAgain, Boot
  <2> QED
    BY <1>1, <1>12, <2>1, CrashRisk
<1>13. CASE UNCHANGED vars
  <2>1. Schedules'
    BY <1>13, SchedulesKept DEF vars, cronVars, processVars, LossInv
  <2>2. Risk' \subseteq Risk /\ UNCHANGED <<stops, crashes>>
    BY <1>13 DEF vars, cronVars, processVars, boundVars, Risk, Waiting, NoTask, Tasked, Unwaited
  <2> QED
    BY <1>3, <2>1, <2>2
<1> QED
  BY <1>4, <1>5, <1>6, <1>7, <1>8, <1>9, <1>10, <1>11, <1>12, <1>13 DEF Next

LEMMA InitLoss == Init => LossInv
<1> SUFFICES ASSUME Init PROVE LossInv
  OBVIOUS
<1>1. Typed
  BY InitTypes
<1>2. Risk = {}
  BY DEF Init, Risk
<1>3. IsFiniteSet(Risk) /\ Cardinality(Risk) = 0
  BY <1>2, FS_EmptySet
<1>4. Budget \in Nat
  BY <1>1, BudgetType DEF Typed
<1>5. Recorded
  BY DEF Init, Recorded, NoRequest
<1> QED
  BY <1>1, <1>3, <1>4, <1>5 DEF LossInv, Init, ProcessInit

\* A workflow with no driver is at risk.
LEMMA UndrivenAtRisk ==
  ASSUME LossInv
  PROVE  LossBounded
<1>1. Undriven \subseteq Risk
  <2> SUFFICES ASSUME NEW w \in Undriven PROVE w \in Risk
    OBVIOUS
  <2>1. w \in accepted /\ w \in Workflow /\ Drivers(w) = {}
    BY DEF Undriven, LossInv, Typed, TypeOK
  <2>2. scheduled[w] \in Nat /\ due[w] \in Nat
    BY <2>1 DEF LossInv, Typed, TypeOK
  <2>3. Waiting(w) = 0
    <3>1. 1 \notin 1..(scheduled[w] + due[w])
      BY <2>1 DEF Drivers
    <3> QED
      BY <2>2, <3>1 DEF Waiting
  <2>4. polled # w
    <3> SUFFICES ASSUME polled = w PROVE FALSE
      OBVIOUS
    <3>1. <<"poller", 1>> \in Drivers(w)
      BY DEF Drivers
    <3> QED
      BY <2>1, <3>1
  <2>5. NoTask(w)
    <3> SUFFICES ASSUME NEW s \in Slot, slot[s].workflow = w PROVE FALSE
      BY DEF NoTask, Tasked
    <3>1. <<"task", s>> \in Drivers(w)
      BY DEF Drivers
    <3> QED
      BY <2>1, <3>1
  <2> QED
    BY <2>1, <2>3, <2>4, <2>5 DEF Risk
<1>2. Cardinality(Undriven) <= Cardinality(Risk) /\ IsFiniteSet(Undriven)
  BY <1>1, FS_Subset DEF LossInv
<1>3. Cardinality(Undriven) \in Nat /\ Cardinality(Risk) \in Nat /\ Budget \in Nat
  BY <1>2, FS_CardinalityType, BudgetType DEF LossInv, Typed
<1>4. Cardinality(Risk) <= Budget
  BY DEF LossInv
<1>5. Cardinality(Undriven) <= Budget
  BY <1>2, <1>3, <1>4
<1> QED
  BY <1>5 DEF LossBounded, Budget

\* The accepted workflows that nothing will run again are at most as many as
\* there were errors and graceful stops, and one more than the pool has slots
\* for each crash, whatever the number of workflows and however long it ran.
THEOREM LossesAreBounded ==
  ASSUME PlainNames
  PROVE  Spec => []LossBounded
<1>1. LossInv /\ [Next]_vars => LossInv'
  BY NextLoss
<1>2. LossInv => LossBounded
  BY UndrivenAtRisk
<1> QED
  BY <1>1, <1>2, InitLoss, PTL DEF Spec

-----------------------------------------------------------------------------
(* Half-created workflows.  A row with a valid expression is accepted, or  *)
(* its request was cut off, or its request is about to write the trigger.  *)

Explained ==
  /\ Typed
  /\ Recorded
  /\ \A w \in Workflow :
       stored[w] = "valid" => w \in accepted \cup cutOff \/ ~NoPush(w)

\* A request passes its row on to its next step, or accounts for it.
LEMMA RequestExplained ==
  ASSUME Explained, NEW c \in Client, CreateRow(c) \/ PushTrigger(c),
         NEW w \in Workflow, stored'[w] = "valid"
  PROVE  w \in (accepted \cup cutOff)' \/ ~NoPush(w)'
<1> USE DEF Explained, Typed
<1> DEFINE v == request[c].workflow
<1>1. request \in [Client -> Request] /\ stored \in [Workflow -> Cron \cup {"none"}]
  BY DEF TypeOK
<1>2. accepted \subseteq accepted' /\ cutOff \subseteq cutOff'
  BY DEF CreateRow, PushTrigger, CutOff
<1>3. CASE CreateRow(c)
  <2>1. \/ UNCHANGED stored /\ (GoOnToPush(c) \/ Answer(c))
        \/ RowFree(v) /\ stored' = [stored EXCEPT ![v] = request[c].cron] /\ GoOnToPush(c)
        \/ stored' = [stored EXCEPT ![v] = request[c].cron] /\ CutOff(v)
    BY <1>3 DEF CreateRow
  <2>2. \A d \in Client : Pushing(d, w) => Pushing(d, w)'
    <3>1. \A d \in Client : d # c => request'[d] = request[d]
      BY <1>1, <1>3 DEF CreateRow, GoOnToPush, Answer
    <3>2. ~Pushing(c, w)
      BY <1>3 DEF CreateRow, Pushing
    <3> QED
      BY <3>1, <3>2 DEF Pushing
  <2>3. CASE stored'[w] = stored[w]
    BY <1>2, <2>2, <2>3 DEF NoPush
  <2>4. CASE v = w /\ GoOnToPush(c)
    <3>1. Pushing(c, w)'
      BY <1>1, <2>4 DEF GoOnToPush, Pushing, Request
    <3> QED
      BY <3>1 DEF NoPush
  <2>5. CASE v = w /\ CutOff(v)
    BY <2>5 DEF CutOff
  <2> QED
    BY <1>1, <2>1, <2>3, <2>4, <2>5
<1>4. CASE PushTrigger(c)
  <2>1. stored' = stored /\ stored[v] = request[c].cron
    BY <1>4 DEF PushTrigger, Recorded
  <2>2. CASE v = w
    BY <1>4, <2>1, <2>2 DEF PushTrigger, CutOff
  <2>3. CASE v # w
    <3>1. \A d \in Client : Pushing(d, w) => Pushing(d, w)'
      BY <1>1, <1>4, <2>3 DEF PushTrigger, Answer, Pushing
    <3> QED
      BY <1>2, <2>1, <3>1 DEF NoPush
  <2> QED
    BY <2>2, <2>3
<1> QED
  BY <1>3, <1>4

\* A new process accounts for the requests that the old one had in hand.
LEMMA StartExplained ==
  ASSUME Explained, StartAgain, NEW w \in Workflow, stored'[w] = "valid"
  PROVE  w \in (accepted \cup cutOff)'
<1>1. ~NoPush(w) => w \in Unpushed
  BY DEF NoPush, Pushing, Unpushed
<1> QED
  BY <1>1 DEF Explained, StartAgain

\* No other step writes a row or ends a request.
LEMMA OtherExplained ==
  ASSUME Typed, [Next]_vars,
         ~ \E c \in Client : CreateRow(c) \/ PushTrigger(c), ~Restart, ~Crash
  PROVE  /\ UNCHANGED <<stored, historyVars>>
         /\ \A d \in Client : request[d].pc = "push" => request'[d] = request[d]
<1>1. request \in [Client -> Request]
  BY DEF Typed, TypeOK
<1>2. CASE \E c \in Client, w \in Workflow, cron \in Cron : Submit(c, w, cron)
  BY <1>1, <1>2 DEF Submit, NoRequest
<1>3. CASE ~ \E c \in Client, w \in Workflow, cron \in Cron : Submit(c, w, cron)
  BY <1>3 DEF Next, BecomesDue, TakeTrigger, LoseTrigger, StartInit, InitTaskStep,
              LoadWorkflow, PrepareRun, Reschedule, DropTrigger, HangTask, ProcessStep, Stop,
              vars, cronVars
<1> QED
  BY <1>2, <1>3

LEMMA NextExplained ==
  ASSUME Explained, [Next]_vars
  PROVE  Explained'
<1>1. Typed' /\ Recorded'
  BY NextTypes, RecordedStep DEF Explained
<1> SUFFICES ASSUME NEW w \in Workflow, stored'[w] = "valid"
             PROVE  w \in (accepted \cup cutOff)' \/ ~NoPush(w)'
  BY <1>1 DEF Explained
<1>2. CASE \E c \in Client : CreateRow(c) \/ PushTrigger(c)
  BY <1>2, RequestExplained
<1>3. CASE Restart \/ Crash
  BY <1>3, StartExplained DEF Restart, Crash
<1>4. CASE ~(\E c \in Client : CreateRow(c) \/ PushTrigger(c)) /\ ~Restart /\ ~Crash
  <2>1. /\ UNCHANGED <<stored, historyVars>>
        /\ \A d \in Client : request[d].pc = "push" => request'[d] = request[d]
    BY <1>4, OtherExplained DEF Explained
  <2> QED
    BY <2>1 DEF Explained, NoPush, Pushing
<1> QED
  BY <1>2, <1>3, <1>4

LEMMA InitExplained == Init => Explained
<1> SUFFICES ASSUME Init PROVE Explained
  OBVIOUS
<1>1. Typed
  BY InitTypes
<1> QED
  BY <1>1 DEF Init, Explained, Recorded, NoRequest

\* A stored workflow that was not accepted and will not run has an expression
\* that is not valid, or a request that an error or the end of a process cut
\* off: not one more, whatever the number of requests, of their races and of
\* their repetitions.
THEOREM HalfCreatedIsExplained == Spec => []HalfCreatedExplained
<1>1. Explained => HalfCreatedExplained
  <2> SUFFICES ASSUME Explained, NEW w \in HalfCreated, stored[w] # "invalid"
               PROVE  w \in cutOff
    BY DEF HalfCreatedExplained, HalfCreated
  <2>1. w \in Workflow /\ w \notin accepted /\ Drivers(w) = {} /\ stored[w] = "valid"
    BY DEF HalfCreated, Explained, Typed, TypeOK, Cron
  <2>2. NoPush(w)
    <3> SUFFICES ASSUME NEW c \in Client, Pushing(c, w) PROVE FALSE
      BY DEF NoPush
    <3>1. <<"request", c>> \in Drivers(w)
      BY DEF Drivers, Pushing
    <3> QED
      BY <2>1, <3>1
  <2> QED
    BY <2>1, <2>2 DEF Explained
<1> QED
  BY <1>1, InitExplained, NextExplained, PTL DEF Spec
=============================================================================
