----------------------------- MODULE IssueFiling -----------------------------
(***************************************************************************)
(* What the bot promises about the GitHub repository, with no table, queue *)
(* or Lambda in sight.  A draft of a workflow is proposed to the user; the *)
(* user answers proposals by accepting; every acceptance may be turned     *)
(* into one issue of that workflow, and nothing else ever files an issue.  *)
(* An acceptance is a press of the button, named by its event.             *)
(***************************************************************************)
EXTENDS Naturals, Sequences

CONSTANTS Requests, Presses, Nobody

VARIABLES
  proposed,   \* the workflows a draft of which the user has been shown
  accepted,   \* the workflow each press accepts, or Nobody
  filed       \* the presses that were turned into an issue, in order

vars == <<proposed, accepted, filed>>

Init ==
  /\ proposed = {}
  /\ accepted = [d \in Presses |-> Nobody]
  /\ filed = <<>>

Propose(w) ==
  /\ proposed' = proposed \union {w}
  /\ UNCHANGED <<accepted, filed>>

Accept(d, w) ==
  /\ w \in proposed
  /\ accepted[d] = Nobody
  /\ accepted' = [accepted EXCEPT ![d] = w]
  /\ UNCHANGED <<proposed, filed>>

File(d) ==
  /\ accepted[d] # Nobody
  /\ \A i \in 1 .. Len(filed) : filed[i].press # d
  /\ filed' = Append(filed, [press |-> d, wf |-> accepted[d]])
  /\ UNCHANGED <<proposed, accepted>>

Next ==
  \/ \E w \in Requests : Propose(w)
  \/ \E d \in Presses, w \in Requests : Accept(d, w)
  \/ \E d \in Presses : File(d)

Spec == Init /\ [][Next]_vars
=============================================================================
