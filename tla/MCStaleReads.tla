----------------------------- MODULE MCStaleReads -----------------------------
(***************************************************************************)
(* An instance of StaleReads for TLC.                                      *)
(***************************************************************************)
EXTENDS StaleReads, TLC

NoFaults == [f \in Faults |-> 0]

Symmetric ==
  Permutations(Events) \union Permutations(Workers)
=============================================================================
