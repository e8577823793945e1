---------------------------- MODULE Workflow_proofs ----------------------------
(***************************************************************************)
(* What the operations on a workflow keep and establish: facts the proofs  *)
(* about the Lambdas and about the local server have in common.            *)
(***************************************************************************)
EXTENDS Workflow, TLAPS, SequenceTheorems

(* an event names what its handler will look up: a user or a workflow *)
EventOf(e) ==
  /\ e.type = "pipeline_start" => e.key \in Keys
  /\ e.type # "pipeline_start" => e.wf \in WorkflowIds

LEMMA ResumeMapType ==
  ASSUME NEW a \in ResumeActions
  PROVE  /\ RESUME_MAP[a] \in Steps
         /\ RESUME_MAP[a] = "create_github_issue" => a = "accept"
  BY DEF RESUME_MAP, ResumeActions, Decision, Steps, ContinueSteps,
     WaitSteps, StopSteps

LEMMA ResumedType ==
  ASSUME NEW inst \in Instance, NEW d \in Events, NEW e \in Event,
         e.type \in ResumeActions
  PROVE  /\ Resumed(inst, d, e) \in Instance
         /\ Resumed(inst, d, e).id = inst.id
         /\ Resumed(inst, d, e).key = inst.key
         /\ Resumed(inst, d, e).wtype = inst.wtype
         /\ Resumed(inst, d, e).messageTs = inst.messageTs
         /\ Resumed(inst, d, e).draft = inst.draft
         /\ Resumed(inst, d, e).status = "RUNNING"
         /\ Resumed(inst, d, e).step = RESUME_MAP[e.type]
  BY ResumeMapType DEF Resumed, Instance, Event, Status, MaybeEvent

LEMMA NewInstanceType ==
  ASSUME NEW w \in WorkflowIds, NEW e \in Event, e.key \in Keys
  PROVE  /\ NewInstance(w, e) \in Instance
         /\ NewInstance(w, e).id = w
         /\ NewInstance(w, e).key = e.key
         /\ NewInstance(w, e).messageTs = None
         /\ NewInstance(w, e).status = "RUNNING"
         /\ NewInstance(w, e).step = FIRST_STEP
  BY DEF NewInstance, Instance, Event, Status, Steps, ContinueSteps,
     FIRST_STEP, MaybeEvent

(***************************************************************************)
(* An agent's answer makes the workflow ready for the step that follows:   *)
(* what the next extract_input parses has just been written.               *)
(***************************************************************************)
Answered(step, inst, d, finding) ==
  [ApplyOutput(step, inst, d, finding) EXCEPT !.step = OnContinue[step]]

LEMMA AnsweredType ==
  ASSUME NEW step \in ContinueSteps, NEW inst \in Instance, NEW d \in Events,
         NEW finding \in {"anchored", "unanchored"}
  PROVE  LET out == Answered(step, inst, d, finding)
         IN  /\ out \in Instance
             /\ out.id = inst.id
             /\ out.key = inst.key
             /\ out.status = inst.status
             /\ out.messageTs = inst.messageTs
             /\ out.step \in ContinueSteps \union WaitSteps
             /\ inst.draft # None => out.draft # None
             /\ Ready(out)
<1> DEFINE out == Answered(step, inst, d, finding)
<1>1. d # None
  BY NoneAssumption
<1>2. CASE step = "find_relevant_bc"
  BY <1>2
  DEF Answered, ApplyOutput, FindRelevantBc, OnContinue, ContinueSteps,
      WaitSteps, Steps, Instance, MaybeEvent, Ready
<1>3. CASE step = "find_relevant_issue"
  BY <1>3
  DEF Answered, ApplyOutput, FindRelevantIssue, OnContinue, ContinueSteps,
      WaitSteps, Steps, Instance, MaybeEvent, Ready
<1>4. CASE step = "generate_issue_draft"
  BY <1>1, <1>4
  DEF Answered, ApplyOutput, GenerateIssueDraft, OnContinue, ContinueSteps,
      WaitSteps, Steps, Instance, MaybeEvent, Ready
<1>5. CASE step = "regenerate_issue_draft"
  BY <1>1, <1>5
  DEF Answered, ApplyOutput, RegenerateIssueDraft, OnContinue, ContinueSteps,
      WaitSteps, Steps, Instance, MaybeEvent, Ready
<1> QED
  BY <1>2, <1>3, <1>4, <1>5 DEF ContinueSteps

LEMMA FiledType ==
  ASSUME NEW inst \in Instance, NEW n \in Nat
  PROVE  /\ Filed(inst, n) \in Instance
         /\ Filed(inst, n).id = inst.id
         /\ Filed(inst, n).messageTs = inst.messageTs
  BY DEF Filed, Instance, Status

(***************************************************************************)
(* What any sequence of issues says of its presses is a sequence of the    *)
(* same length (FiledIssues of Barlow and of LocalServer).                 *)
(***************************************************************************)
LEMMA FiledOfIssues ==
  ASSUME NEW q \in Seq(Issue)
  PROVE  LET f == [i \in 1 .. Len(q) |-> [press |-> q[i].ev, wf |-> q[i].wf]]
         IN  /\ f \in Seq([press : Events, wf : WorkflowIds])
             /\ Len(f) = Len(q)
<1>1. \A i \in 1 .. Len(q) : q[i] \in Issue
  BY ElementOfSeq
<1> QED
  BY <1>1 DEF Issue
=============================================================================
