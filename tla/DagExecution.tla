---------------------------- MODULE DagExecution ----------------------------
(***************************************************************************)
(* What a workflow run promises, without queues, retries or counters: the  *)
(* stages of a dependency graph end one by one, below a failed stage they  *)
(* are skipped, and when all have ended the run is closed.  Orchestration  *)
(* implements this specification.                                          *)
(***************************************************************************)
CONSTANTS
  Stage,        \* the stages of the workflow
  DependentOn   \* stage -> the stages it depends on

VARIABLES
  outcome,  \* how each stage ended, "open" while it has not
  run       \* "open", then how the run ended

dagVars == <<outcome, run>>

DagInit ==
  /\ outcome = [s \in Stage |-> "open"]
  /\ run = "open"

\* Every stage s depends on has finished.
Runnable(s) == \A p \in DependentOn[s] : outcome[p] = "finished"

\* Some stage s depends on will never finish.
Doomed(s) == \E p \in DependentOn[s] : outcome[p] \in {"failed", "skipped"}

End(s, how) ==
  /\ outcome[s] = "open"
  /\ outcome' = [outcome EXCEPT ![s] = how]
  /\ UNCHANGED run

Finish(s) == Runnable(s) /\ End(s, "finished")

Fail(s) == Runnable(s) /\ End(s, "failed")

Skip(s) == Doomed(s) /\ End(s, "skipped")

Close ==
  /\ run = "open"
  /\ \A s \in Stage : outcome[s] # "open"
  /\ run' = IF \E s \in Stage : outcome[s] = "failed"
            THEN "PARTIAL_FAILURE" ELSE "COMPLETED"
  /\ UNCHANGED outcome

DagNext ==
  \/ \E s \in Stage : Finish(s) \/ Fail(s) \/ Skip(s)
  \/ Close

\* Some stage can always end until the run is closed.
DagSpec == DagInit /\ [][DagNext]_dagVars /\ WF_dagVars(DagNext)

=============================================================================
