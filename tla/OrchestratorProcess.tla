------------------------ MODULE OrchestratorProcess ------------------------
(***************************************************************************)
(* The orchestrator as a process: the goroutines that main starts, the     *)
(* worker pool they share, and the order in which main waits for them when *)
(* SIGTERM cancels the root context (WorkflowOrchestrator/main.go,         *)
(* worker/pool.go, Shared/ctxutil).  A task in the pool runs under         *)
(* JobContext, which drops the cancellation of the root context: it goes   *)
(* on during a shutdown and ends with the process.                         *)
(*                                                                         *)
(* Two loops call pool.Go.  What the poller starts is of interest here;    *)
(* all other tasks (the stage half of the poller, the failure              *)
(* notifications of the consumer) only take up slots, and one loop called  *)
(* "consumer" starts them.                                                 *)
(***************************************************************************)
EXTENDS Integers, FiniteSets

CONSTANTS
  Slot,       \* the places of the channel p.sem
  Workflow,   \* workflow ids
  NoWorkflow

ASSUME SlotAssumption == IsFiniteSet(Slot) /\ Slot # {}
ASSUME NoWorkflowAssumption == NoWorkflow \notin Workflow

VARIABLES
  main,     \* what the main goroutine waits for
  ctxDone,  \* the root context is cancelled
  loop,     \* where a loop is: about to go round, in pool.Go, or returned
  slot      \* the task in each slot

processVars == <<main, ctxDone, loop, slot>>

Loop == {"poller", "consumer"}

MainPc == {"serving", "http", "pool", "loops", "exited"}

Task == [workflow : Workflow \cup {NoWorkflow},
         pc : {"idle", "other", "hung", "load", "prepare", "reschedule"}]

Idle == [workflow |-> NoWorkflow, pc |-> "idle"]
OtherTask == [workflow |-> NoWorkflow, pc |-> "other"]
HungTask == [workflow |-> NoWorkflow, pc |-> "hung"]
InitTask(w) == [workflow |-> w, pc |-> "load"]

Running == main # "exited"

-----------------------------------------------------------------------------
(* The pool.                                                               *)

\* Mutant: the loops and pool.Go do not look at the context first.
CallAnyway(l) ==
  /\ loop[l] = "running"
  /\ loop' = [loop EXCEPT ![l] = "calling"]

\* A loop calls pool.Go, where ctx.Err() is nil.
CallGo(l) ==
  /\ loop[l] = "running"
  /\ ~ctxDone
  /\ loop' = [loop EXCEPT ![l] = "calling"]

\* The select of pool.Go takes a slot.  A loop that comes to the select with
\* the context cancelled and a slot free may do so too: of two ready cases
\* select picks any.
TakeSlot(l, s, task) ==
  /\ loop[l] = "calling"
  /\ slot[s] = Idle
  /\ slot' = [slot EXCEPT ![s] = task]
  /\ loop' = [loop EXCEPT ![l] = "running"]
  /\ UNCHANGED <<main, ctxDone>>

\* The select of pool.Go takes ctx.Done(); the task is not started.
GoCancelled(l) ==
  /\ loop[l] = "calling"
  /\ ctxDone
  /\ loop' = [loop EXCEPT ![l] = "running"]
  /\ UNCHANGED <<main, ctxDone, slot>>

AdvanceTask(s, next) == slot' = [slot EXCEPT ![s].pc = next]

EndTask(s) == slot' = [slot EXCEPT ![s] = Idle]

StartOther(s) == TakeSlot("consumer", s, OtherTask)

EndOther(s) ==
  /\ Running
  /\ slot[s] = OtherTask
  /\ EndTask(s)
  /\ UNCHANGED <<main, ctxDone, loop>>

\* smtp.SendMail has no deadline and takes no context: the notification of a
\* mail server that does not answer keeps its slot for ever.
MailHangs(s) ==
  /\ Running
  /\ slot[s] = OtherTask
  /\ slot' = [slot EXCEPT ![s] = HungTask]
  /\ UNCHANGED <<main, ctxDone, loop>>

-----------------------------------------------------------------------------
(* Shutdown.                                                               *)

EndLoop(l) ==
  /\ loop[l] = "running"
  /\ ctxDone
  /\ loop' = [loop EXCEPT ![l] = "ended"]
  /\ UNCHANGED <<main, ctxDone, slot>>

\* SIGTERM, or an error of the HTTP server, which calls stop().
Signal ==
  /\ main = "serving"
  /\ main' = "http"
  /\ ctxDone' = TRUE
  /\ UNCHANGED <<loop, slot>>

\* httpSrv.Shutdown returns when the requests in hand are answered or after
\* SHUTDOWN_TIMEOUT_SEC.
HttpShutdown ==
  /\ main = "http"
  /\ main' = "pool"
  /\ UNCHANGED <<ctxDone, loop, slot>>

\* Mutant: main does not wait for the pool.
NoWait == TRUE

\* The counter of the pool's wait group is 0.
PoolEmpty == \A s \in Slot : slot[s] = Idle

PoolWait ==
  /\ main = "pool"
  /\ PoolEmpty
  /\ main' = "loops"
  /\ UNCHANGED <<ctxDone, loop, slot>>

LoopsWait ==
  /\ main = "loops"
  /\ \A l \in Loop : loop[l] = "ended"
  /\ main' = "exited"
  /\ UNCHANGED <<ctxDone, loop, slot>>

\* The process is started; nothing of an earlier one is left.
Boot ==
  /\ main' = "serving"
  /\ ctxDone' = FALSE
  /\ loop' = [l \in Loop |-> "running"]
  /\ slot' = [s \in Slot |-> Idle]

MainNext == HttpShutdown \/ PoolWait \/ LoopsWait

ProcessInit ==
  /\ main = "serving"
  /\ ctxDone = FALSE
  /\ loop = [l \in Loop |-> "running"]
  /\ slot = [s \in Slot |-> Idle]

ProcessTypeOK ==
  /\ main \in MainPc
  /\ ctxDone \in BOOLEAN
  /\ loop \in [Loop -> {"running", "calling", "ended"}]
  /\ slot \in [Slot -> Task]

=============================================================================
