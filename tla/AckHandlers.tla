----------------------------- MODULE AckHandlers -----------------------------
(***************************************************************************)
(* The Ack Lambda: controller/handler/slash.py.  A modal submission or a   *)
(* pressed button puts one event on the queue.  /drop and the drop button  *)
(* do not go through the queue: they read and write the tables themselves, *)
(* concurrently with the workers.                                          *)
(***************************************************************************)
EXTENDS BarlowState, FiniteSets

(***************************************************************************)
(* Bound: uuids never run out, WorkflowIds do; a submission needs at most  *)
(* one id, so no more are made than there are ids.                         *)
(***************************************************************************)
IdsSuffice ==
  Cardinality({d \in Events : /\ event[d] # None
                              /\ event[d].type = "pipeline_start"})
    < Cardinality(WorkflowIds)

(* handle_feat_submit, handle_fix_submit, handle_refactor_submit *)
SubmitRequest(d, k, sub) ==
  /\ IdsSuffice
  /\ Send(d, StartEvent(k, sub))
  /\ UNCHANGED <<tables, slack, issues, worker, drop, budget>>

(* the four handlers of _DECISION_ACTION_MAP *)
PressDecision(d, m, decision) ==
  /\ Pressable(m, "wait_issue_decision")
  /\ Send(d, ResumeEvent(decision, message[m].wf, FALSE))
  /\ UNCHANGED <<tables, slack, issues, worker, drop, budget>>

(* handle_accept *)
PressAccept(d, m) ==
  /\ Pressable(m, "wait_confirmation")
  /\ Send(d, ResumeEvent("accept", message[m].wf, FALSE))
  /\ UNCHANGED <<tables, slack, issues, worker, drop, budget>>

(***************************************************************************)
(* handle_reject: only opens the modal.  Bound: it stays closed in runs    *)
(* without Comments, where no user would submit it.                        *)
(***************************************************************************)
PressReject(m) ==
  /\ Comments # {}
  /\ Pressable(m, "wait_confirmation")
  /\ modal' = modal \union {message[m].wf}
  /\ UNCHANGED <<tables, sqs, message, issues, worker, drop, budget>>

(* handle_reject_submit; the additional requirements are optional *)
SubmitReject(d, w, fb) ==
  /\ w \in modal
  /\ modal' = modal \ {w}
  /\ Send(d, ResumeEvent("reject", w, fb))
  /\ UNCHANGED <<tables, message, issues, worker, drop, budget>>

(***************************************************************************)
(* The same event once more: Slack retries an interaction the cold Lambda  *)
(* acked too late, or SQS delivers a message twice.                        *)
(***************************************************************************)
Resend(d) ==
  /\ event[d] # None
  /\ Spend("resend")
  /\ queue' = [queue EXCEPT ![d][0] = @ + 1]
  /\ UNCHANGED <<tables, event, dlq, slack, issues, worker, drop>>

-----------------------------------------------------------------------------
(* handle_drop_workflow and handle_drop.                                   *)

DropAt(a, pc) == drop[a].pc = pc

DropGoto(a, pc) == drop' = [drop EXCEPT ![a].pc = pc]

BeginDrop(a, k, w) ==
  drop' = [drop EXCEPT ![a] = [pc |-> "load", key |-> k, wf |-> w,
                               inst |-> None]]

(* /drop: the workflow is the one of the caller's session; without a
   session the handler only answers *)
DropCommand(a, k) ==
  /\ DropAt(a, "ready")
  /\ session[k] # None
  /\ BeginDrop(a, k, session[k])
  /\ UNCHANGED <<tables, sqs, slack, issues, worker, budget>>

(* issue_drop: the workflow is the button's, the session the presser's *)
DropButton(a, m, k) ==
  /\ DropAt(a, "ready")
  /\ Pressable(m, "wait_confirmation")
  /\ BeginDrop(a, k, message[m].wf)
  /\ UNCHANGED <<tables, sqs, slack, issues, worker, budget>>

(* from_item raises for a workflow type without a registered state class *)
Restorable(inst) == inst.wtype \in StateClasses

DropLoad(a) ==
  /\ DropAt(a, "load")
  /\ wfTable[drop[a].wf] # None => Restorable(wfTable[drop[a].wf])
  /\ drop' = [drop EXCEPT ![a].inst = wfTable[drop[a].wf],
                          ![a].pc = IF wfTable[drop[a].wf] = None
                                      THEN "clear" ELSE "save"]
  /\ UNCHANGED <<tables, sqs, slack, issues, worker, budget>>

(* the exception leaves the handler: nothing is saved, nothing cleared *)
DropLoadFails(a) ==
  /\ DropAt(a, "load")
  /\ wfTable[drop[a].wf] # None
  /\ ~ Restorable(wfTable[drop[a].wf])
  /\ DropGoto(a, "failed")
  /\ UNCHANGED <<tables, sqs, slack, issues, worker, budget>>

DropSave(a) ==
  /\ DropAt(a, "save")
  /\ Save([drop[a].inst EXCEPT !.status = "CANCELLED"])
  /\ DropGoto(a, "clear")
  /\ UNCHANGED <<created, session, pending, sqs, slack, issues, worker, budget>>

DropClear_DeletesNothing(a) ==
  /\ DropAt(a, "clear")
  /\ DropGoto(a, "done")
  /\ UNCHANGED <<tables, sqs, slack, issues, worker, budget>>

DropClear(a) ==
  /\ DropAt(a, "clear")
  /\ SessionClear(drop[a].key)
  /\ DropGoto(a, "done")
  /\ UNCHANGED <<wfTable, created, pending, sqs, slack, issues, worker, budget>>

(* the Ack Lambda dies half way through *)
DropCrash(a) ==
  /\ drop[a].pc \in {"load", "save", "clear"}
  /\ Spend("crash")
  /\ DropGoto(a, "dead")
  /\ UNCHANGED <<tables, sqs, slack, issues, worker>>

-----------------------------------------------------------------------------
Press(d) ==
  \/ \E k \in Keys, sub \in Requests : SubmitRequest(d, k, sub)
  \/ \E m \in Events : PressAccept(d, m)
  \/ \E m \in Events, decision \in Choices : PressDecision(d, m, decision)
  \/ \E w \in WorkflowIds, fb \in Comments : SubmitReject(d, w, fb)

User ==
  \/ \E d \in Events : Press(d)
  \/ \E m \in Events : PressReject(m)

Drop(a) ==
  \/ \E k \in Keys : DropCommand(a, k)
  \/ \E m \in Events, k \in Keys : DropButton(a, m, k)

DropStep(a) ==
  DropLoad(a) \/ DropLoadFails(a) \/ DropSave(a) \/ DropClear(a)
=============================================================================
