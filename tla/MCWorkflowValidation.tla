------------------------ MODULE MCWorkflowValidation ------------------------
(***************************************************************************)
(* All submissions of up to three stages on which TLC checks               *)
(* WorkflowValidation.                                                     *)
(***************************************************************************)
EXTENDS WorkflowValidation, TLC

CONSTANTS a, b, c  \* stage ids

\* No weight, the heaviest, and one that is out of range.
Weights == {0, 5, 6}

Rename == Permutations({a, b, c})

=============================================================================
