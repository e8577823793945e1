------------------------------- MODULE MCBarlow -------------------------------
(***************************************************************************)
(* Instances of Barlow for TLC: the fault budgets and the symmetry of the  *)
(* runs.  Workflow ids, keys, events, workers and invocations are          *)
(* interchangeable model values.                                           *)
(***************************************************************************)
EXTENDS Barlow, TLC

Faulty(crashes, errors, resends, expiries) ==
  [f \in Faults |-> CASE f = "crash"  -> crashes
                      [] f = "error"  -> errors
                      [] f = "resend" -> resends
                      [] f = "expire" -> expiries]

NoFaults    == Faulty(0, 0, 0, 0)
OneCrash    == Faulty(1, 0, 0, 0)
OneOfEach   == Faulty(1, 1, 1, 0)
OneExpiry   == Faulty(0, 0, 0, 1)

Symmetric ==
  Permutations(WorkflowIds) \union Permutations(Keys)
    \union Permutations(Events) \union Permutations(Workers)
    \union Permutations(Invocations)
=============================================================================
