------------------------------- MODULE Workflow -------------------------------
(***************************************************************************)
(* A workflow: its record, the events that drive it, what each step of the *)
(* graph does to it, the messages that show it and the issues it files.    *)
(* The Lambdas and the local server run the same workflows over different  *)
(* stores; what they share is here.                                        *)
(*                                                                         *)
(* An event is identified by its dedup_id (a Slack view id or action_ts).  *)
(* Processing one event posts at most one message with buttons, generates  *)
(* at most one draft and files at most one issue, so the event also names  *)
(* the message (its ts) and the draft.                                     *)
(***************************************************************************)
EXTENDS FeatDefinition, Naturals, Sequences

CONSTANTS
  WorkflowIds,  \* the uuids WorkflowInstance.create draws from
  Keys,         \* channel#user keys: the users of one channel
  Events,       \* dedup_ids
  None          \* absent item, attribute or local variable

ASSUME NoneAssumption ==
  None \notin WorkflowIds \union Keys \union Events

-----------------------------------------------------------------------------
(* WorkflowInstance, with the fields of its state that decide anything.    *)

Status == {"RUNNING", "WAITING", "FAILED", "COMPLETED", "CANCELLED"}

MaybeEvent == Events \union {None}

Instance ==
  [id : WorkflowIds, wtype : Subcommands, key : Keys,
   status : Status, step : Steps,
   relevant : {"none", "anchored", "unanchored"},
   decision : Decision \union {"none"},
   draft : MaybeEvent, feedback : MaybeEvent,
   messageTs : MaybeEvent, url : Nat]

(* create() followed by status = RUNNING, which start() sets at once *)
NewInstance(w, e) ==
  [id |-> w, wtype |-> e.wtype, key |-> e.key,
   status |-> "RUNNING", step |-> FIRST_STEP,
   relevant |-> "none", decision |-> "none",
   draft |-> None, feedback |-> None, messageTs |-> None, url |-> 0]

(***************************************************************************)
(* What extract_input and execute need before the step can run: the JSON   *)
(* of the relevant issues, or of the draft, is parsed and None raises.     *)
(***************************************************************************)
Ready(inst) ==
  /\ inst.step = "wait_issue_decision" => inst.relevant # "none"
  /\ inst.step \in {"wait_confirmation", "create_github_issue"}
       => inst.draft # None

-----------------------------------------------------------------------------
(* Events, as the Ack handlers put them on the queue.                      *)

Event ==
  [type : {"pipeline_start"} \union ResumeActions,
   wtype : Subcommands, key : Keys \union {None},
   wf : WorkflowIds \union {None}, feedback : BOOLEAN]

StartEvent(k, sub) ==
  [type |-> "pipeline_start", wtype |-> sub, key |-> k, wf |-> None,
   feedback |-> FALSE]

ResumeEvent(action, w, fb) ==
  [type |-> action, wtype |-> "feat", key |-> None, wf |-> w,
   feedback |-> fb]

Resumable(inst, action) == inst # None /\ HasResume(inst.wtype, action)

(***************************************************************************)
(* resume(): the loaded instance patched for the action of event d, whose  *)
(* body is e.  Its status is overwritten whatever it was; user_feedback    *)
(* only when the event carries some.                                       *)
(***************************************************************************)
Resumed(inst, d, e) ==
  [inst EXCEPT
     !.feedback = IF e.feedback THEN d ELSE @,
     !.decision = IF e.type \in Decision THEN e.type ELSE @,
     !.step     = RESUME_MAP[e.type],
     !.status   = "RUNNING"]

(***************************************************************************)
(* The CONTINUE steps, each with its apply_output.  An agent's answer is   *)
(* the event that asked for it, or one of the findings; the candidates of  *)
(* find_relevant_bc only go into later prompts.                            *)
(***************************************************************************)
FindRelevantBc(inst) == inst

FindRelevantIssue(inst, finding) == [inst EXCEPT !.relevant = finding]

GenerateIssueDraft(inst, d) == [inst EXCEPT !.draft = d]

RegenerateIssueDraft(inst, d) == [inst EXCEPT !.draft = d]

ApplyOutput(step, inst, d, finding) ==
  CASE step = "find_relevant_bc"       -> FindRelevantBc(inst)
    [] step = "find_relevant_issue"    -> FindRelevantIssue(inst, finding)
    [] step = "generate_issue_draft"   -> GenerateIssueDraft(inst, d)
    [] step = "regenerate_issue_draft" -> RegenerateIssueDraft(inst, d)

(* the local instance once create_github_issue has returned issue n's url *)
Filed(inst, n) == [inst EXCEPT !.url = n, !.status = "COMPLETED"]

RelationOf(inst) == RelationFor(inst.decision, inst.relevant)

-----------------------------------------------------------------------------
(* Slack and GitHub.                                                       *)

(* build_issue_decision_blocks and build_issue_blocks: the buttons carry
   the workflow id; the text shows the draft *)
Message ==
  [wf : WorkflowIds, step : WaitSteps, draft : MaybeEvent, live : BOOLEAN]

(* the blocks of wait_issue_decision or wait_confirmation *)
WaitMessage(inst) ==
  [wf |-> inst.id, step |-> inst.step, draft |-> inst.draft, live |-> TRUE]

Issue ==
  [ev : Events, wf : WorkflowIds, draft : MaybeEvent, relation : Relations]

ASSUME NoneIsNoRecord ==
  None \notin Instance /\ None \notin Event /\ None \notin Message
=============================================================================
