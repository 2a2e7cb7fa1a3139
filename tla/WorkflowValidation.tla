------------------------- MODULE WorkflowValidation -------------------------
(***************************************************************************)
(* What createWorkflow checks of a submitted workflow before it stores it  *)
(* (util/workflowValidator.go and the loop over the stages in              *)
(* routes/mainHandler.go): the fields of the workflow, that every          *)
(* dependency exists, that there is no cycle among them, the stages.  The  *)
(* cycle check is the depth-first search of checkDependencyLoop with its   *)
(* call stack made explicit.  It takes the keys of the graph, each once,   *)
(* and the neighbours of a stage in any order: the code ranges over a Go   *)
(* map, and dependsOn is a set here.                                       *)
(*                                                                         *)
(* Stage ids are distinct.  A submission that repeats one is turned down   *)
(* by the unique index on (workflow_id, stage_id), not by these checks.    *)
(***************************************************************************)
EXTENDS Priority, FiniteSets, Sequences

CONSTANTS
  StageId,          \* the ids a submission may use
  SubmittedWeight   \* the weights it may use, 0 for none

ASSUME WeightAssumption == SubmittedWeight \subseteq Int

VARIABLES
  named,        \* name, id and cron expression of the workflow are not empty
  stages,       \* the ids of the submitted stages
  dependsOn,    \* stage -> the ids it depends on, of submitted stages or not
  weight,       \* stage -> its weight
  wellFormed,   \* ids and operation of every stage are set and known
  pc,           \* the check under way, or the verdict
  keys,         \* the keys of graph that its range loop has not reached
  visited,      \* the maps of checkDependencyLoop
  recStack,
  calls         \* the calls of dfs under way, the innermost last

bodyVars == <<named, stages, dependsOn, wellFormed>>
searchVars == <<visited, recStack, calls>>
vars == <<bodyVars, weight, pc, keys, searchVars>>

Check == {"fields", "dependencies", "search", "stages"}

\* "loop" and "invalid" are answered with 400.
Verdict == {"create", "loop", "invalid"}

\* A call of dfs: its node and the neighbours its loop has not reached.
Call == [node : StageId, todo : SUBSET StageId]

Init ==
  /\ named \in BOOLEAN
  /\ stages \in SUBSET StageId /\ IsFiniteSet(stages)
  /\ dependsOn \in {d \in [StageId -> SUBSET StageId] :
                      \A s \in StageId \ stages : d[s] = {}}
  /\ weight \in {w \in [StageId -> SubmittedWeight \cup {0}] :
                   \A s \in StageId \ stages : w[s] = 0}
  /\ wellFormed \in BOOLEAN
  /\ pc = "fields"
  /\ keys = {}
  /\ visited = {}
  /\ recStack = {}
  /\ calls = <<>>

-----------------------------------------------------------------------------

ValidateWorkflow ==
  /\ pc = "fields"
  /\ pc' = IF named THEN "dependencies" ELSE "invalid"
  /\ UNCHANGED <<bodyVars, weight, keys, searchVars>>

\* Mutant: dependencies are not looked up.
AnyDependencies == TRUE

KnownDependencies == \A s \in stages : dependsOn[s] \subseteq stages

\* The first loop of checkDependencyLoop, which fills graph.
DependenciesExist ==
  /\ pc = "dependencies"
  /\ \/ KnownDependencies /\ pc' = "search" /\ keys' = stages
     \/ ~KnownDependencies /\ pc' = "invalid" /\ UNCHANGED keys
  /\ UNCHANGED <<bodyVars, weight, searchVars>>

\* Mutant: a node is marked when its call returns, not when it begins.
EnterUnmarked(n, cs) ==
  /\ calls' = Append(cs, [node |-> n, todo |-> dependsOn[n]])
  /\ UNCHANGED <<visited, recStack>>

\* dfs enters a node; cs are the calls around it.
Enter(n, cs) ==
  /\ visited' = visited \cup {n}
  /\ recStack' = recStack \cup {n}
  /\ calls' = Append(cs, [node |-> n, todo |-> dependsOn[n]])

Innermost == calls[Len(calls)]

\* Mutant: a node met again counts as a loop, on the stack or not.
MetBefore(m) == m \in visited

\* Mutant: only a stage that depends on itself is a loop.
OnItself(m) == calls # <<>> /\ m = Innermost.node

OnRecStack(m) == m \in recStack

\* dfs is called for m; cs are the calls around it.
Dfs(m, cs) ==
  \/ OnRecStack(m) /\ pc' = "loop" /\ UNCHANGED searchVars
  \/ /\ ~OnRecStack(m)
     /\ m \in visited
     /\ calls' = cs
     /\ UNCHANGED <<pc, visited, recStack>>
  \/ /\ ~OnRecStack(m)
     /\ m \notin visited
     /\ Enter(m, cs)
     /\ UNCHANGED pc

\* The loop over the graph goes on to its key n.
SearchFrom(n) ==
  /\ pc = "search"
  /\ calls = <<>>
  /\ n \in keys
  /\ keys' = keys \ {n}
  /\ Dfs(n, calls)
  /\ UNCHANGED <<bodyVars, weight>>

\* The calls when the innermost goes on to its neighbour m.
Past(m) == [calls EXCEPT ![Len(calls)].todo = @ \ {m}]

Visit(m) ==
  /\ pc = "search"
  /\ calls # <<>>
  /\ m \in Innermost.todo
  /\ Dfs(m, Past(m))
  /\ UNCHANGED <<bodyVars, weight, keys>>

\* The innermost call has no neighbour left and returns false.
Return ==
  /\ pc = "search"
  /\ calls # <<>>
  /\ Innermost.todo = {}
  /\ recStack' = recStack \ {Innermost.node}
  /\ calls' = SubSeq(calls, 1, Len(calls) - 1)
  /\ UNCHANGED <<bodyVars, weight, pc, keys, visited>>

NoLoop ==
  /\ pc = "search"
  /\ calls = <<>>
  /\ keys = {}
  /\ pc' = "stages"
  /\ UNCHANGED <<bodyVars, weight, keys, searchVars>>

\* Mutant: an upper bound one too high.
WeightUpToSix(s) == wellFormed /\ weight'[s] \in 1..6

ValidateStage(s) == wellFormed /\ weight'[s] \in 1..5

DefaultWeight(w) == IF w = 0 THEN 1 ELSE w

\* The loop over the stages: a missing weight becomes 1, then ValidateStage.
ValidateStages ==
  /\ pc = "stages"
  /\ weight' = [s \in StageId |->
                  IF s \in stages THEN DefaultWeight(weight[s]) ELSE weight[s]]
  /\ pc' = IF \A s \in stages : ValidateStage(s) THEN "create" ELSE "invalid"
  /\ UNCHANGED <<bodyVars, keys, searchVars>>

\* The handler has its answer.
Done == pc \in Verdict /\ UNCHANGED vars

Next ==
  \/ ValidateWorkflow
  \/ DependenciesExist
  \/ \E n \in StageId : SearchFrom(n) \/ Visit(n)
  \/ Return
  \/ NoLoop
  \/ ValidateStages
  \/ Done

Spec == Init /\ [][Next]_vars

-----------------------------------------------------------------------------

TypeOK ==
  /\ named \in BOOLEAN
  /\ stages \subseteq StageId
  /\ dependsOn \in [StageId -> SUBSET StageId]
  /\ weight \in [StageId -> Int]
  /\ wellFormed \in BOOLEAN
  /\ pc \in Check \cup Verdict
  /\ keys \subseteq stages
  /\ visited \subseteq stages
  /\ recStack \subseteq stages
  /\ calls \in Seq(Call)

\* The stages of S wait for each other: none of them can be the first to run.
Deadlocked(S) == S # {} /\ \A s \in S : dependsOn[s] \cap S # {}

\* In a workflow that passes the search no set of stages waits for itself, so
\* that a run of it always has a stage to go on with until all have ended.
AcceptedCanRun ==
  pc \in {"stages", "create"} =>
    /\ KnownDependencies
    /\ \A S \in SUBSET stages : ~Deadlocked(S)

\* A workflow turned down for a cycle has one: dfs does not take a stage that
\* two others depend on for a loop, in whatever order it meets them.
LoopIsReal == pc = "loop" => \E S \in SUBSET stages : Deadlocked(S)

\* Of two stages of an accepted workflow the one with the higher weight has
\* the lower score in job-trigger, whenever the two are queued with their own
\* weights.  (When loadStageWeights fails, the stages that a result queues get
\* weight 1.)
HeavierFirst ==
  pc = "create" =>
    \A s, r \in stages : weight[s] > weight[r] =>
      \A t, u \in Clock :
        PriorityScore(weight[s], t) < PriorityScore(weight[r], u)

\* The poller's bound takes in every stage queued up to now, of any weight.
ReadyCovered ==
  pc = "create" =>
    \A s \in stages : \A now \in Clock : \A t \in 0..now :
      PriorityScore(weight[s], t) <= ReadyStagesMaxScore(now)

\* dfs is never nested deeper than there are stages, on cyclic dependencies
\* neither: the recursion ends.
RecursionBounded == Len(calls) <= Cardinality(stages)

=============================================================================
