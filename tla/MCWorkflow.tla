----------------------------- MODULE MCWorkflow -----------------------------
(* A small workflow for the model checker.                                 *)
EXTENDS Workflow

\* The second of four steps cannot be undone.
FourSteps == {<<TRUE, FALSE, TRUE, TRUE>>}
=============================================================================
