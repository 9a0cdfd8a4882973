-------------------------- MODULE MCWorkflowFamily --------------------------
(* Two requests on a family with up to three runs.                          *)
EXTENDS WorkflowFamily, TLC

Symmetry == Permutations(Run) \cup Permutations(Request)
=============================================================================
