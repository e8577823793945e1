----------------------------- MODULE MCLocalServer -----------------------------
(***************************************************************************)
(* An instance of LocalServer for TLC: the symmetry of the run.            *)
(***************************************************************************)
EXTENDS LocalServer, TLC

Symmetric ==
  Permutations(WorkflowIds) \union Permutations(Keys)
    \union Permutations(Events)
=============================================================================
