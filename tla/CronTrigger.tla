---------------------------- MODULE CronTrigger ----------------------------
(***************************************************************************)
(* How a workflow gets its runs.  createWorkflow (routes/mainHandler.go)   *)
(* stores it in PostgreSQL and puts its first trigger into the             *)
(* workflow-trigger ZSET; the poller (worker/redisPoller.go) takes a       *)
(* trigger that is due and starts InitializeWorkflow in the pool, whose    *)
(* last step puts in the next trigger.  Between the two nothing but the    *)
(* memory of the process knows that the workflow is to run again.          *)
(*                                                                         *)
(* Requests are served concurrently.  Submissions that do not pass         *)
(* WorkflowValidation, and those that find the id in use, change nothing   *)
(* and are left out.  Triggers of one workflow are counted; their keys     *)
(* differ by a UUID.                                                       *)
(***************************************************************************)
EXTENDS OrchestratorProcess

CONSTANTS
  Client,     \* concurrent requests to POST /createWorkflow
  Named,      \* workflow -> the workflow that its triggers name
  Faults,     \* the kinds of fault that may happen
  MaxFaults,  \* bounds: faults, crashes and signals of a behaviour
  MaxCrashes,
  MaxStops

(***************************************************************************)
(* A trigger is the text <workflow id>:<uuid>, and the poller reads the id *)
(* back as what stands before the first colon.  For an id without a colon  *)
(* that is the id; validation does not exclude one with a colon.           *)
(***************************************************************************)
ASSUME NamedAssumption == Named \in [Workflow -> Workflow]
ASSUME CronBoundsAssumption ==
  /\ IsFiniteSet(Client)
  /\ Faults \subseteq {"redis", "db", "mail"}
  /\ MaxFaults \in Nat /\ MaxCrashes \in Nat /\ MaxStops \in Nat

VARIABLES
  stored,     \* workflow -> its row's cron expression: none, valid, or invalid
  scheduled,  \* workflow -> its triggers with a score in the future
  due,        \* workflow -> its triggers with a score in the past
  request,    \* client -> the request it waits for
  polled,     \* the workflow the poller holds between ZREM and its task
  accepted,   \* history: the workflows whose creation was answered with 201
  cutOff,     \* history: those whose request ended early, with the row stored,
              \* by an error of a store or by the end of the process
  faults, crashes, stops  \* how many there were

historyVars == <<accepted, cutOff>>
cronVars == <<stored, scheduled, due, request, polled, historyVars>>
boundVars == <<faults, crashes, stops>>
vars == <<processVars, cronVars, boundVars>>

Cron == {"valid", "invalid"}  \* what cron.ParseStandard says of it

Request == [workflow : Workflow \cup {NoWorkflow}, cron : Cron,
            pc : {"none", "create", "push"}]

NoRequest == [workflow |-> NoWorkflow, cron |-> "valid", pc |-> "none"]

Fault(kind) ==
  /\ kind \in Faults
  /\ faults < MaxFaults
  /\ faults' = faults + 1
  /\ UNCHANGED <<crashes, stops>>

NoFault == UNCHANGED boundVars

\* ZADD to workflow-trigger; cron's Next is later than now.
AddTrigger(w) == scheduled' = [scheduled EXCEPT ![w] = @ + 1]

Answer(c) == request' = [request EXCEPT ![c] = NoRequest]

-----------------------------------------------------------------------------
(* POST /createWorkflow.                                                   *)

\* The SELECT finds no workflow of that id, and validation passes.
Submit(c, w, cron) ==
  /\ main = "serving"
  /\ request[c] = NoRequest
  /\ stored[w] = "none"
  /\ request' = [request EXCEPT ![c] =
                   [workflow |-> w, cron |-> cron, pc |-> "create"]]
  /\ UNCHANGED <<processVars, stored, scheduled, due, polled, historyVars>>
  /\ NoFault

\* Mutant: no unique index on workflow_id.
AnyRow(w) == TRUE

\* The unique index on workflow_id has no row of that id.
RowFree(w) == stored[w] = "none"

\* Mutant: the request ends with its row.
EndRequest(c) == Answer(c)

GoOnToPush(c) == request' = [request EXCEPT ![c].pc = "push"]

\* The request for w ends early, its row stored.
CutOff(w) == cutOff' = cutOff \cup {w}

\* db.Create.  Its error may come after the row was stored.
CreateRow(c) ==
  LET w == request[c].workflow
      row == [stored EXCEPT ![w] = request[c].cron]
  IN  /\ Running
      /\ request[c].pc = "create"
      /\ UNCHANGED <<processVars, scheduled, due, polled, accepted>>
      /\ \/ /\ RowFree(w)
            /\ stored' = row
            /\ GoOnToPush(c)
            /\ NoFault
            /\ UNCHANGED cutOff
         \/ /\ ~RowFree(w)
            /\ Answer(c)
            /\ UNCHANGED <<stored, cutOff>>
            /\ NoFault
         \/ /\ Fault("db")
            /\ Answer(c)
            /\ \/ UNCHANGED <<stored, cutOff>>
               \/ RowFree(w) /\ stored' = row /\ CutOff(w)

\* pushJobToRedis.  The row stays, whatever it returns.
PushTrigger(c) ==
  LET w == request[c].workflow
  IN  /\ Running
      /\ request[c].pc = "push"
      /\ Answer(c)
      /\ UNCHANGED <<processVars, stored, due, polled>>
      /\ \/ /\ request[c].cron = "valid"
            /\ AddTrigger(w)
            /\ accepted' = accepted \cup {w}
            /\ NoFault
            /\ UNCHANGED cutOff
         \/ /\ request[c].cron = "invalid"
            /\ UNCHANGED <<scheduled, historyVars>>
            /\ NoFault
         \/ /\ request[c].cron = "valid"
            /\ Fault("redis")
            /\ UNCHANGED scheduled \/ AddTrigger(w)
            /\ CutOff(w)
            /\ UNCHANGED accepted

-----------------------------------------------------------------------------
(* The poller.                                                             *)

BecomesDue(w) ==
  /\ scheduled[w] > 0
  /\ scheduled' = [scheduled EXCEPT ![w] = @ - 1]
  /\ due' = [due EXCEPT ![w] = @ + 1]
  /\ UNCHANGED <<processVars, stored, request, polled, historyVars, boundVars>>

\* Mutant: the result of ZREM is not looked at.
AnyMember(w) == TRUE

\* ZREM returns 1.
Removed(w) == due[w] > 0

RemoveDue(w) == due' = [due EXCEPT ![w] = @ - 1]

\* ZREM, and the call of pool.Go.
TakeTrigger(w) ==
  /\ Removed(w)
  /\ RemoveDue(w)
  /\ CallGo("poller")
  /\ polled' = Named[w]
  /\ UNCHANGED <<main, ctxDone, slot, stored, scheduled, request, historyVars>>
  /\ NoFault

\* ZREM is done, but its reply is lost: the error is dropped, and n is 0.
LoseTrigger(w) ==
  /\ loop["poller"] = "running"
  /\ ~ctxDone
  /\ Removed(w)
  /\ RemoveDue(w)
  /\ UNCHANGED <<processVars, stored, scheduled, request, polled, historyVars>>
  /\ Fault("redis")

StartInit(s) ==
  /\ TakeSlot("poller", s, InitTask(polled))
  /\ polled' = NoWorkflow
  /\ UNCHANGED <<stored, scheduled, due, request, historyVars, boundVars>>

DropTrigger ==
  /\ GoCancelled("poller")
  /\ polled' = NoWorkflow
  /\ UNCHANGED <<stored, scheduled, due, request, historyVars, boundVars>>

-----------------------------------------------------------------------------
(* InitializeWorkflow.                                                     *)

TaskAt(s, pc) == Running /\ slot[s].pc = pc

\* The workflow is read, and the run row created.
LoadWorkflow(s) ==
  /\ TaskAt(s, "load")
  /\ UNCHANGED <<main, ctxDone, loop, cronVars>>
  /\ \/ /\ stored[slot[s].workflow] # "none"
        /\ AdvanceTask(s, "prepare")
        /\ NoFault
     \/ /\ stored[slot[s].workflow] = "none"
        /\ EndTask(s)
        /\ NoFault
     \/ EndTask(s) /\ Fault("db")

\* Counters, weights, children and root stages; RunInit has the details.  An
\* error of the first two ends the task.
PrepareRun(s) ==
  /\ TaskAt(s, "prepare")
  /\ UNCHANGED <<main, ctxDone, loop, cronVars>>
  /\ \/ AdvanceTask(s, "reschedule") /\ NoFault
     \/ EndTask(s) /\ Fault("redis")

\* Mutant: the next trigger is forgotten.
NoTrigger(w) == UNCHANGED scheduled

NextTrigger(w) == AddTrigger(w)

\* The expression is parsed again, and the next trigger put in; an error is
\* logged.
Reschedule(s) ==
  LET w == slot[s].workflow
  IN  /\ TaskAt(s, "reschedule")
      /\ EndTask(s)
      /\ UNCHANGED <<main, ctxDone, loop, stored, due, request, polled,
                     historyVars>>
      /\ \/ stored[w] = "valid" /\ NextTrigger(w) /\ NoFault
         \/ stored[w] = "invalid" /\ UNCHANGED scheduled /\ NoFault
         \/ /\ stored[w] = "valid"
            /\ UNCHANGED scheduled \/ NextTrigger(w)
            /\ Fault("redis")

-----------------------------------------------------------------------------
(* The process.                                                            *)

ProcessStep ==
  /\ UNCHANGED <<cronVars, boundVars>>
  /\ \/ MainNext
     \/ CallGo("consumer") /\ UNCHANGED <<main, ctxDone, slot>>
     \/ \E s \in Slot : StartOther(s) \/ EndOther(s)
     \/ GoCancelled("consumer")
     \/ \E l \in Loop : EndLoop(l)

Stop ==
  /\ stops < MaxStops
  /\ stops' = stops + 1
  /\ Signal
  /\ UNCHANGED <<cronVars, faults, crashes>>

\* A notification hangs.
HangTask(s) ==
  /\ MailHangs(s)
  /\ Fault("mail")
  /\ UNCHANGED cronVars

\* The workflows whose request has stored its row and not written a trigger.
Unpushed == {request[c].workflow : c \in {d \in Client : request[d].pc = "push"}}

\* A new process finds PostgreSQL and Redis as the old one left them.
StartAgain ==
  /\ Boot
  /\ request' = [c \in Client |-> NoRequest]
  /\ polled' = NoWorkflow
  /\ cutOff' = cutOff \cup Unpushed
  /\ UNCHANGED <<stored, scheduled, due, accepted>>

Restart == main = "exited" /\ StartAgain /\ UNCHANGED boundVars

Crash ==
  /\ Running
  /\ crashes < MaxCrashes
  /\ crashes' = crashes + 1
  /\ StartAgain
  /\ UNCHANGED <<faults, stops>>

Init ==
  /\ ProcessInit
  /\ stored = [w \in Workflow |-> "none"]
  /\ scheduled = [w \in Workflow |-> 0]
  /\ due = [w \in Workflow |-> 0]
  /\ request = [c \in Client |-> NoRequest]
  /\ polled = NoWorkflow
  /\ accepted = {} /\ cutOff = {}
  /\ faults = 0 /\ crashes = 0 /\ stops = 0

InitTaskStep(s) == LoadWorkflow(s) \/ PrepareRun(s) \/ Reschedule(s)

\* What brings a shutdown to its end; no step of it can repeat.
ShutdownStep ==
  \/ DropTrigger
  \/ /\ MainNext \/ GoCancelled("consumer") \/ \E l \in Loop : EndLoop(l)
     /\ UNCHANGED <<cronVars, boundVars>>

EndOtherTask(s) == EndOther(s) /\ UNCHANGED <<cronVars, boundVars>>

Next ==
  \/ \E c \in Client, w \in Workflow, cron \in Cron : Submit(c, w, cron)
  \/ \E c \in Client : CreateRow(c) \/ PushTrigger(c)
  \/ \E w \in Workflow : BecomesDue(w) \/ TakeTrigger(w) \/ LoseTrigger(w)
  \/ \E s \in Slot : StartInit(s) \/ InitTaskStep(s) \/ HangTask(s)
  \/ DropTrigger
  \/ ProcessStep
  \/ Stop
  \/ Restart
  \/ Crash

Spec == Init /\ [][Next]_vars

(***************************************************************************)
(* Goroutines are not starved and time passes.  Tasks end: initialisation  *)
(* and dispatch jobs have deadlines, and the mail of a notification is     *)
(* sent unless the server hangs, which is a fault (HangTask).  Two waits   *)
(* are strongly fair: triggers are read in the order of their scores, so   *)
(* one that is due is not overtaken for ever, and senders blocked on a Go  *)
(* channel are served in order, so a poller that waits for a slot gets     *)
(* one.                                                                    *)
(***************************************************************************)
Fairness ==
  /\ \A w \in Workflow : WF_vars(BecomesDue(w)) /\ SF_vars(TakeTrigger(w))
  /\ SF_vars(\E s \in Slot : StartInit(s))
  /\ \A s \in Slot : WF_vars(InitTaskStep(s) \/ EndOtherTask(s))
  /\ WF_vars(ShutdownStep)

FairSpec == Spec /\ Fairness

-----------------------------------------------------------------------------

TypeOK ==
  /\ ProcessTypeOK
  /\ stored \in [Workflow -> Cron \cup {"none"}]
  /\ scheduled \in [Workflow -> Nat]
  /\ due \in [Workflow -> Nat]
  /\ request \in [Client -> Request]
  /\ polled \in Workflow \cup {NoWorkflow}
  /\ accepted \subseteq Workflow
  /\ cutOff \subseteq Workflow
  /\ faults \in 0..MaxFaults
  /\ crashes \in 0..MaxCrashes
  /\ stops \in 0..MaxStops

\* Where a next run of w comes from: a trigger, the poller's hands, a task
\* that will write the next trigger, a request that will write the first.
Drivers(w) ==
  {<<"trigger", n>> : n \in 1..(scheduled[w] + due[w])}
  \cup {<<"poller", n>> : n \in {m \in {1} : polled = w}}
  \cup {<<"task", s>> : s \in {t \in Slot : slot[t].workflow = w}}
  \cup {<<"request", c>> : c \in {d \in Client : /\ request[d].workflow = w
                                                /\ request[d].pc = "push"}}

\* A workflow never has two triggers, or a trigger beside a task or a request
\* that will write one: each cron time gives it one run.  Creations race, are
\* repeated after an error, and the process is stopped at any point.
OneDriver == \A w \in Workflow : \A d, e \in Drivers(w) : d = e

\* The accepted workflows that will never run again.
Undriven == {w \in accepted : Drivers(w) = {}}

\* How many workflows lose their schedule for good: none without a fault, one
\* per error, one per graceful stop (the one the poller has just taken), and
\* per crash that one and those whose tasks were in the pool.
LossBounded ==
  Cardinality(Undriven) <= faults + stops + crashes * (1 + Cardinality(Slot))

\* The stored workflows whose creation was not answered with 201 and that will
\* not run: creating one again is answered with 409.
HalfCreated ==
  {w \in Workflow : stored[w] # "none" /\ w \notin accepted /\ Drivers(w) = {}}

\* A creation is left half done for two reasons only: the cron expression,
\* which nobody parses before the row is stored, is not valid, or its own
\* request was cut off by an error of a store or by the end of the process.
\* Racing or repeated requests leave none so.
HalfCreatedExplained ==
  HalfCreated \subseteq {w \in Workflow : stored[w] = "invalid"} \cup cutOff

\* A stopped process has no task under way: pool.Wait "blocks until all pool
\* tasks finish".
StopsWithIdlePool == main = "exited" => PoolEmpty

Disturbed == faults + crashes + stops > 0

Initializing(w) == \E s \in Slot : slot[s].workflow = w /\ slot[s].pc = "prepare"

\* An accepted workflow runs again and again, as long as nothing fails and
\* the process is not stopped.
AcceptedRunsAgain ==
  \A w \in Workflow : w \in accepted ~> (Initializing(w) \/ Disturbed)

Hung == \E s \in Slot : slot[s] = HungTask

\* A shutdown ends, unless a notification hangs: nothing but that makes main
\* wait for ever.
StopEnds == (main = "http") ~> (main = "exited" \/ ~ctxDone \/ Hung)

=============================================================================
