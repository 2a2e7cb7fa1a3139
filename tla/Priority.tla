------------------------------ MODULE Priority ------------------------------
(***************************************************************************)
(* The score under which a stage waits in the job-trigger ZSET and the     *)
(* bound up to which the poller reads it                                   *)
(* (WorkflowOrchestrator/worker/runstate.go).  A score is a float64 in the *)
(* code; 5 * 10^13 plus a Unix time is far below 2^53, so it is exact and  *)
(* an integer here.                                                        *)
(***************************************************************************)
EXTENDS Integers

CONSTANT PriorityScale  \* priorityScale, the width of a weight's band

ASSUME PriorityScaleAssumption == PriorityScale \in Nat \ {0}

\* The Unix times that fit in a band: with 10^13 seconds, all there will be.
Clock == 0..(PriorityScale - 1)

Clamp(weight) == IF weight < 1 THEN 1 ELSE IF weight > 5 THEN 5 ELSE weight

\* Mutant: the weight is not scaled, and a day outweighs it.
UnscaledScore(weight, unix) == (6 - Clamp(weight)) + unix

\* The lowest score is taken first.
PriorityScore(weight, unix) == (6 - Clamp(weight)) * PriorityScale + unix

\* Mutant: the bound of the heaviest band.
MaxScoreOfHeaviest(unix) == PriorityScale + unix

\* The highest score of a stage queued up to now.
ReadyStagesMaxScore(unix) == 5 * PriorityScale + unix

=============================================================================
