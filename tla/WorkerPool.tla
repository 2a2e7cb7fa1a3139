----------------------------- MODULE WorkerPool -----------------------------
(***************************************************************************)
(* The orchestrator's worker pool (WorkflowOrchestrator/worker/pool.go):   *)
(* a semaphore of WorkerPoolSize slots shared by the workflow             *)
(* initialisation job, the stage dispatch jobs and the failure             *)
(* notifications.  A job is a goroutine; its pc is the step it is about to *)
(* take.                                                                   *)
(***************************************************************************)
EXTENDS RunState

CONSTANT WorkerPoolSize  \* config.WorkerPoolSize

ASSUME PoolAssumption == WorkerPoolSize \in Nat \ {0}

VARIABLES
  jobs,     \* the dispatch and notification jobs that hold a slot
  initJob   \* where the run's InitializeWorkflow job is

poolVars == <<jobs, initJob>>

JobPc == {"fetch", "publish", "written", "requeue",
          "dlq", "record", "finalize", "notify"}

Job == [stage : Stage, attempt : Nat, pc : JobPc]

\* The slots in use: Init itself runs in the pool.
InFlight == Cardinality(jobs) + (IF initJob = "done" THEN 0 ELSE 1)

\* The send on p.sem does not block.
SlotFree == InFlight < WorkerPoolSize

Go(j) == SlotFree /\ jobs' = jobs \cup {j} /\ UNCHANGED initJob

Advance(j, pc) ==
  jobs' = (jobs \ {j}) \cup {[j EXCEPT !.pc = pc]} /\ UNCHANGED initJob

Finish(j) == jobs' = jobs \ {j} /\ UNCHANGED initJob

\* The initialisation job was started by the poller before this model starts.
PoolInit ==
  /\ jobs = {}
  /\ initJob = "load"

PoolTypeOK ==
  /\ jobs \subseteq Job
  /\ initJob \in {"load", "queue", "done"}

=============================================================================
