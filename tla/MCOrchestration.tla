--------------------------- MODULE MCOrchestration ---------------------------
(***************************************************************************)
(* Small workflows on which TLC checks Orchestration.  The configuration   *)
(* files pick one for DependentOn and give Stage its model values.         *)
(***************************************************************************)
EXTENDS Orchestration, TLC

CONSTANTS a, b, c, d  \* the stages the workflows below are made of

\* a, then b.
Chain == a :> {} @@ b :> {a}

\* a, then b and c side by side.
Fork == a :> {} @@ b :> {a} @@ c :> {a}

\* a and b side by side, then c.
Join == a :> {} @@ b :> {} @@ c :> {a, b}

\* Join beside a stage of its own.
JoinPlus == Join @@ d :> {}

\* The roots of Join may be swapped.
SwapRoots == Permutations({a, b})

\* The leaves of Fork may be swapped.
SwapLeaves == Permutations({b, c})

=============================================================================
