----------------------------- MODULE Persistence -----------------------------
(***************************************************************************)
(* The PostgreSQL rows of one run and the code that writes them            *)
(* (WorkflowOrchestrator/worker/persistence.go): createWorkflowRun when    *)
(* the run starts and maybeFinalizeRun after each terminal stage.          *)
(***************************************************************************)
EXTENDS RunState

VARIABLES
  runRow,      \* status column of the workflow_runs row, "" without a row
  executions   \* stage -> its stage_executions rows, oldest first

pgVars == <<runRow, executions>>

RunStatus == {"RUNNING", "COMPLETED", "PARTIAL_FAILURE"}

\* The columns the properties tell apart, and whether the status is the one
\* that was read from Redis, which is no column.
ExecutionRow == [status : StageStatus, read : BOOLEAN]

\* Mutant: one terminal stage short of the total is taken for complete.
RunCompleteEarly(done, total) == done >= total - 1

\* GetRunProgress found every stage counted.
RunComplete(done, total) == total # 0 /\ done >= total

\* Mutant: the failure flag is ignored.
FinalStatusIgnoringFailure(failed) == "COMPLETED"

\* Mutant: the run row gets a status of a stage.
FinalStatusOfStage(failed) == IF failed THEN "FAILED-EXHAUSTED" ELSE "COMPLETED"

FinalStatus(failed) == IF failed THEN "PARTIAL_FAILURE" ELSE "COMPLETED"

\* The row written for a stage.  An absent status and one that cannot be read
\* are filled in alike, by what was read of the failure flag.
Outcome(s, failed, unread) ==
  [status |-> IF s \notin unread /\ stageStatus[s] # "" THEN stageStatus[s]
              ELSE IF failed THEN "SKIPPED" ELSE "PENDING",
   read |-> s \notin unread]

AppendOutcomes(stages, failed, unread) ==
  executions' = [s \in Stage |->
                   IF s \in stages
                   THEN Append(executions[s], Outcome(s, failed, unread))
                   ELSE executions[s]]

\* What finalizeWorkflowRun reads from Redis: an error on the failure flag
\* reads as "not failed", unread are the stages whose status it does not get.
ReadRun(failed, unread, others) ==
  /\ failed => runFailed
  /\ RedisErrors(Flag(failed # runFailed) + Cardinality(unread), others)

\* The counters cannot be read, or show a stage missing.
LeaveRunOpen ==
  /\ \/ ~RunComplete(runDone, RunTotal) /\ NoFault
     \/ Fault("redis")
  /\ UNCHANGED pgVars

FinalizeWorkflowRun ==
  /\ RunComplete(runDone, RunTotal)
  /\ \E failed \in BOOLEAN, unread \in SUBSET Stage :
       /\ ReadRun(failed, unread, 0)
       /\ AppendOutcomes(Stage, failed, unread)
       /\ runRow' = FinalStatus(failed)

\* The rows are inserted one by one outside a transaction, in no particular
\* order: a database error leaves any subset of them and the run RUNNING.
FinalizePartly ==
  /\ RunComplete(runDone, RunTotal)
  /\ "db" \in Faults
  /\ \E failed \in BOOLEAN, unread, written \in SUBSET Stage :
       /\ ReadRun(failed, unread, 1)
       /\ AppendOutcomes(written, failed, unread)
  /\ UNCHANGED runRow

MaybeFinalizeRun == LeaveRunOpen \/ FinalizeWorkflowRun \/ FinalizePartly

PersistenceInit ==
  /\ runRow = ""
  /\ executions = [s \in Stage |-> <<>>]

PersistenceTypeOK ==
  /\ runRow \in RunStatus \cup {""}
  /\ executions \in [Stage -> Seq(ExecutionRow)]

=============================================================================
