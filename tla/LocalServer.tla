------------------------------ MODULE LocalServer ------------------------------
(***************************************************************************)
(* The local development server, local_server.py: the handlers of the Ack  *)
(* Lambda and the processing of the Worker Lambda in one asyncio process,  *)
(* over the memory stores.  It differs from the deployment in three ways:  *)
(*                                                                         *)
(*  - MemoryWorkflowInstanceStore.get returns the stored object itself, so *)
(*    every task on a workflow, and a drop, works on the same object, and  *)
(*    save changes nothing;                                                *)
(*  - _InMemoryQueue.send makes a task of the event: nothing is delivered  *)
(*    again, and mark_done does nothing;                                   *)
(*  - the stores do not suspend.  A task is interrupted only where it      *)
(*    awaits an agent, Slack or GitHub, and all the code from one of these *)
(*    to the next, across several saves, is one action.                    *)
(*                                                                         *)
(* A call to Slack or GitHub has its effect in one action and is answered  *)
(* in a later one.  What was read from the object before the call is kept  *)
(* in the task: the object may change in between.                          *)
(***************************************************************************)
EXTENDS Workflow, FiniteSets

CONSTANTS
  Requests,  \* the subcommands the users try
  Choices,   \* the decisions the users take
  Findings,  \* what find_relevant_issue may report
  Comments,  \* whether a reject may carry additional requirements
  Errors,    \* how many awaits of a behaviour raise
  Resends    \* how many interactions Slack delivers twice

ASSUME LocalAssumption ==
  /\ Requests \subseteq Subcommands
  /\ Choices \subseteq Decision
  /\ Findings \subseteq {"anchored", "unanchored"}
  /\ Comments \subseteq BOOLEAN
  /\ Errors \in Nat
  /\ Resends \in Nat

VARIABLES
  store,     \* MemoryWorkflowInstanceStore: the object of each workflow
  session,   \* MemoryActiveSessionStore
  acquired,  \* MemoryPendingActionStore
  event,     \* the body of every event sent so far
  fresh,     \* tasks send has made of each event and that did not run yet
  task,      \* the task that acquired each event
  message,   \* messages with buttons, under the event that posted them
  modal,     \* workflows whose reject modal is open
  issues,    \* the GitHub issues, by number
  budget     \* awaits that may still raise, events that may still be resent

stores == <<store, session>>
users  == <<event, fresh, modal>>
vars   == <<stores, acquired, users, task, message, issues, budget>>

-----------------------------------------------------------------------------
(***************************************************************************)
(* A task is at the await it is suspended in: the run of an agent, a call  *)
(* on its way, or a call that has had its effect and whose response is not *)
(* handled yet.                                                            *)
(***************************************************************************)
Pcs == {"none", "agent", "posting", "posted", "filing", "relating", "filed",
        "notifying", "notified", "ended", "raised"}

Task ==
  [pc : Pcs, wf : WorkflowIds \union {None}, step : Steps \union {"none"},
   draft : MaybeEvent, relation : Relations, ts : MaybeEvent, issue : Nat]

NotStarted ==
  [pc |-> "none", wf |-> None, step |-> "none", draft |-> None,
   relation |-> "none", ts |-> None, issue |-> 0]

Awaits(d, pc) == task[d].pc = pc

Suspended(d) == task[d].pc \notin {"none", "ended", "raised"}

Obj(d) == store[task[d].wf]

Put(inst) == store' = [store EXCEPT ![inst.id] = inst]

Await(d, t) == task' = [task EXCEPT ![d] = t]

(* at an await on inst, in the node of its current step *)
Awaiting(pc, inst) ==
  [NotStarted EXCEPT !.pc = pc, !.wf = inst.id, !.step = inst.step]

End(d) == Await(d, [NotStarted EXCEPT !.pc = "ended"])

(* an exception reaches the except branch of _process, which only posts a
   notice: the object stays as the task left it *)
Raised(w) == [NotStarted EXCEPT !.pc = "raised", !.wf = w]

Init ==
  /\ store = [w \in WorkflowIds |-> None]
  /\ session = [k \in Keys |-> None]
  /\ acquired = {}
  /\ event = [d \in Events |-> None]
  /\ fresh = [d \in Events |-> 0]
  /\ task = [d \in Events |-> NotStarted]
  /\ message = [d \in Events |-> None]
  /\ modal = {}
  /\ issues = <<>>
  /\ budget = [errors |-> Errors, resends |-> Resends]

-----------------------------------------------------------------------------
(***************************************************************************)
(* _execute_until_wait from the top of its loop to the next await that     *)
(* suspends.  inst is the object as the block has made it so far, ses the  *)
(* sessions.                                                               *)
(***************************************************************************)
(* no node for the step *)
Fail(d, inst, ses) ==
  /\ ~ HasNode(inst.wtype, inst.step)
  /\ Put([inst EXCEPT !.status = "FAILED"])
  /\ session' = [ses EXCEPT ![inst.key] = None]
  /\ End(d)

(* extract_input raises if an earlier step left nothing to parse *)
OrRaised(t, inst) == IF Ready(inst) THEN t ELSE Raised(inst.id)

RunAgent(d, inst) ==
  /\ inst.step \in ContinueSteps
  /\ Put(inst)
  /\ Await(d, Awaiting("agent", inst))

PostMessage(d, inst) ==
  /\ inst.step \in WaitSteps
  /\ Put(inst)
  /\ Await(d, OrRaised([Awaiting("posting", inst) EXCEPT !.draft = inst.draft],
                       inst))

(* CreateGithubIssueInput: the draft, the decision and the finding *)
PostIssue(d, inst) ==
  /\ inst.step = "create_github_issue"
  /\ Put(inst)
  /\ Await(d, OrRaised([Awaiting("filing", inst) EXCEPT
                          !.draft = inst.draft,
                          !.relation = RelationOf(inst)], inst))

(* the STOP branch: COMPLETED, then chat_update of the last message *)
Stop_StatusLater(d, inst) ==
  /\ Put(inst)
  /\ Await(d, [Awaiting("notifying", inst) EXCEPT !.ts = inst.messageTs])

Stop(d, inst) ==
  /\ Put([inst EXCEPT !.status = "COMPLETED"])
  /\ Await(d, [Awaiting("notifying", inst) EXCEPT !.ts = inst.messageTs])

Proceed(d, inst, ses) ==
  \/ Fail(d, inst, ses)
  \/ /\ HasNode(inst.wtype, inst.step)
     /\ session' = ses
     /\ \/ RunAgent(d, inst)
        \/ PostMessage(d, inst)
        \/ PostIssue(d, inst)
        \/ inst.step = "reject_end" /\ Stop(d, inst)

-----------------------------------------------------------------------------
(* _process: the first run of a task.                                      *)

Pop(d) == fresh' = [fresh EXCEPT ![d] = @ - 1]

(* try_acquire of the memory store *)
TryAcquire_Always(d) == acquired' = acquired \union {d}

TryAcquire(d) ==
  /\ d \notin acquired
  /\ acquired' = acquired \union {d}

SkipDuplicate(d) ==
  /\ fresh[d] > 0
  /\ d \in acquired
  /\ Pop(d)
  /\ UNCHANGED <<stores, acquired, event, modal, task, message, issues, budget>>

Begins(d) ==
  /\ fresh[d] > 0
  /\ Pop(d)
  /\ TryAcquire(d)
  /\ UNCHANGED <<event, modal, message, issues, budget>>

(* an active session: only a notice is posted *)
RefuseStart(d) ==
  /\ Begins(d)
  /\ event[d].type = "pipeline_start"
  /\ session[event[d].key] # None
  /\ End(d)
  /\ UNCHANGED stores

StartWorkflow(d) ==
  /\ Begins(d)
  /\ event[d].type = "pipeline_start"
  /\ session[event[d].key] = None
  /\ \E w \in WorkflowIds :
       /\ store[w] = None
       /\ Proceed(d, NewInstance(w, event[d]),
                  [session EXCEPT ![event[d].key] = w])

(* a workflow is stored for every button, and every button has an action;
   the event that finds neither would end here *)
Resume(d) ==
  /\ Begins(d)
  /\ event[d].type # "pipeline_start"
  /\ Resumable(store[event[d].wf], event[d].type)
  /\ Proceed(d, Resumed(store[event[d].wf], d, event[d]), session)

-----------------------------------------------------------------------------
(* The rest of _execute_until_wait, from the answer of each await.         *)

(* apply_output and on_continue of the task's own node, whatever step the
   object has come to since *)
AgentAnswers(d) ==
  /\ Awaits(d, "agent")
  /\ \E finding \in Findings :
       LET out == ApplyOutput(task[d].step, Obj(d), d, finding)
       IN  Proceed(d, [out EXCEPT !.step = OnContinue[task[d].step]], session)
  /\ UNCHANGED <<acquired, users, message, issues, budget>>

(* chat_postMessage: the buttons are there before the response is *)
SlackPosts(d) ==
  /\ Awaits(d, "posting")
  /\ message' = [message EXCEPT ![d] =
                   [wf |-> task[d].wf, step |-> task[d].step,
                    draft |-> task[d].draft, live |-> TRUE]]
  /\ Await(d, [task[d] EXCEPT !.pc = "posted", !.draft = None])
  /\ UNCHANGED <<stores, acquired, users, issues, budget>>

Wait_StillRunning(d) ==
  /\ Awaits(d, "posted")
  /\ Put([Obj(d) EXCEPT !.messageTs = d])
  /\ End(d)
  /\ UNCHANGED <<session, acquired, users, message, issues, budget>>

Wait(d) ==
  /\ Awaits(d, "posted")
  /\ Put([Obj(d) EXCEPT !.messageTs = d, !.status = "WAITING"])
  /\ End(d)
  /\ UNCHANGED <<session, acquired, users, message, issues, budget>>

(* create_github_issue.execute: the POST, then the relation if any *)
GitHubFiles(d) ==
  /\ Awaits(d, "filing")
  /\ issues' = Append(issues, [ev |-> d, wf |-> task[d].wf,
                               draft |-> task[d].draft, relation |-> "none"])
  /\ Await(d, [task[d] EXCEPT
                 !.pc = IF task[d].relation = "none" THEN "filed"
                                                     ELSE "relating",
                 !.issue = Len(issues) + 1, !.draft = None])
  /\ UNCHANGED <<stores, acquired, users, message, budget>>

GitHubRelates(d) ==
  /\ Awaits(d, "relating")
  /\ issues' = [issues EXCEPT ![task[d].issue].relation = task[d].relation]
  /\ Await(d, [task[d] EXCEPT !.pc = "filed", !.relation = "none"])
  /\ UNCHANGED <<stores, acquired, users, message, budget>>

IssueFiled(d) ==
  /\ Awaits(d, "filed")
  /\ Stop(d, [Obj(d) EXCEPT !.url = task[d].issue])
  /\ UNCHANGED <<session, acquired, users, message, issues, budget>>

(* chat_update takes the buttons off the last message, if there is one *)
SlackUpdates(d) ==
  /\ Awaits(d, "notifying")
  /\ message' = IF task[d].ts = None THEN message
                ELSE [message EXCEPT ![task[d].ts].live = FALSE]
  /\ Await(d, [task[d] EXCEPT !.pc = "notified", !.ts = None])
  /\ UNCHANGED <<stores, acquired, users, issues, budget>>

Complete_KeepsSession(d) ==
  /\ Awaits(d, "notified")
  /\ End(d)
  /\ UNCHANGED <<stores, acquired, users, message, issues, budget>>

Complete(d) ==
  /\ Awaits(d, "notified")
  /\ session' = [session EXCEPT ![Obj(d).key] = None]
  /\ End(d)
  /\ UNCHANGED <<store, acquired, users, message, issues, budget>>

(* any await may raise: before its effect, or in place of the response *)
Raise(d) ==
  /\ Suspended(d)
  /\ budget.errors > 0
  /\ budget' = [budget EXCEPT !.errors = @ - 1]
  /\ Await(d, Raised(task[d].wf))
  /\ UNCHANGED <<stores, acquired, users, message, issues>>

-----------------------------------------------------------------------------
(* The handlers of slash.py over _InMemoryQueue.                           *)

(* _InMemoryQueue.send *)
Send(d, e) ==
  /\ event[d] = None
  /\ event' = [event EXCEPT ![d] = e]
  /\ fresh' = [fresh EXCEPT ![d] = 1]
  /\ UNCHANGED <<stores, acquired, task, message, issues, budget>>

Pressable(m, step) ==
  /\ message[m] # None
  /\ message[m].step = step
  /\ message[m].live

(* bound: one request more than WorkflowIds, which uuids do not run out of *)
SubmitRequest(d, k, sub) ==
  /\ Cardinality({c \in Events : event[c] # None
                                 /\ event[c].type = "pipeline_start"})
       <= Cardinality(WorkflowIds)
  /\ Send(d, StartEvent(k, sub))
  /\ UNCHANGED modal

PressDecision(d, m, decision) ==
  /\ Pressable(m, "wait_issue_decision")
  /\ Send(d, ResumeEvent(decision, message[m].wf, FALSE))
  /\ UNCHANGED modal

PressAccept(d, m) ==
  /\ Pressable(m, "wait_confirmation")
  /\ Send(d, ResumeEvent("accept", message[m].wf, FALSE))
  /\ UNCHANGED modal

PressReject(m) ==
  /\ Comments # {}
  /\ Pressable(m, "wait_confirmation")
  /\ modal' = modal \union {message[m].wf}
  /\ UNCHANGED <<stores, acquired, event, fresh, task, message, issues, budget>>

SubmitReject(d, w, fb) ==
  /\ w \in modal
  /\ modal' = modal \ {w}
  /\ Send(d, ResumeEvent("reject", w, fb))

(* Slack delivers an interaction again *)
Resend(d) ==
  /\ event[d] # None
  /\ budget.resends > 0
  /\ budget' = [budget EXCEPT !.resends = @ - 1]
  /\ fresh' = [fresh EXCEPT ![d] = @ + 1]
  /\ UNCHANGED <<stores, acquired, event, modal, task, message, issues>>

(* /drop and the drop button suspend only before and after this *)
Cancel(k, w) ==
  /\ store[w] # None
  /\ store' = [store EXCEPT ![w].status = "CANCELLED"]
  /\ session' = [session EXCEPT ![k] = None]
  /\ UNCHANGED <<acquired, users, task, message, issues, budget>>

DropCommand(k) == session[k] # None /\ Cancel(k, session[k])

DropButton(m, k) ==
  /\ Pressable(m, "wait_confirmation")
  /\ Cancel(k, message[m].wf)

-----------------------------------------------------------------------------
TaskStep(d) ==
  \/ SkipDuplicate(d) \/ RefuseStart(d) \/ StartWorkflow(d) \/ Resume(d)
  \/ AgentAnswers(d) \/ SlackPosts(d) \/ Wait(d)
  \/ GitHubFiles(d) \/ GitHubRelates(d) \/ IssueFiled(d)
  \/ SlackUpdates(d) \/ Complete(d)

UserStep(d) ==
  \/ \E k \in Keys, sub \in Requests : SubmitRequest(d, k, sub)
  \/ \E m \in Events, decision \in Choices : PressDecision(d, m, decision)
  \/ \E m \in Events : PressAccept(d, m)
  \/ \E w \in WorkflowIds, fb \in Comments : SubmitReject(d, w, fb)
  \/ Resend(d)

Next ==
  \/ \E d \in Events : TaskStep(d) \/ Raise(d) \/ UserStep(d) \/ PressReject(d)
  \/ \E k \in Keys : DropCommand(k) \/ \E m \in Events : DropButton(m, k)

Spec == Init /\ [][Next]_vars

-----------------------------------------------------------------------------
(* Type invariant. *)
TypeOK ==
  /\ store \in [WorkflowIds -> Instance \union {None}]
  /\ session \in [Keys -> WorkflowIds \union {None}]
  /\ acquired \subseteq Events
  /\ event \in [Events -> Event \union {None}]
  /\ fresh \in [Events -> Nat]
  /\ task \in [Events -> Task]
  /\ message \in [Events -> Message \union {None}]
  /\ modal \subseteq WorkflowIds
  /\ issues \in Seq(Issue)
  /\ budget \in [errors : Nat, resends : Nat]

(***************************************************************************)
(* An event that Slack delivers twice, even while its first task is still  *)
(* suspended, files at most one issue (MemoryPendingActionStore remembers  *)
(* every dedup_id and never gives one back).                               *)
(***************************************************************************)
OneIssuePerEvent ==
  \A i, j \in 1 .. Len(issues) : issues[i].ev = issues[j].ev => i = j

(***************************************************************************)
(* No dead end: however the tasks on a workflow interleave on its one      *)
(* object, while it is WAITING its last message is on Slack and has its    *)
(* buttons.  A task that stops takes them off a message only after the     *)
(* status has left WAITING, and every task that sets WAITING again sets    *)
(* another message first (_execute_until_wait sets COMPLETED before it     *)
(* awaits chat_update).                                                    *)
(***************************************************************************)
WaitingHasButtons ==
  \A w \in WorkflowIds :
    store[w] # None /\ store[w].status = "WAITING" =>
      LET m == store[w].messageTs
      IN  m # None /\ message[m] # None /\ message[m].wf = w /\ message[m].live

(***************************************************************************)
(* A workflow is RUNNING only while a task runs it, unless one of its      *)
(* tasks raised: no task that finishes leaves the object in a status       *)
(* another task has set on it (WAITING, COMPLETED and FAILED are set on    *)
(* the shared object, not on a copy).                                      *)
(***************************************************************************)
NobodyLeftRunning ==
  \A w \in WorkflowIds :
    store[w] # None /\ store[w].status = "RUNNING" =>
      \E d \in Events : task[d].wf = w

(***************************************************************************)
(* Once no task runs, no session names a workflow that is COMPLETED or     *)
(* FAILED, unless one of its tasks raised (the clear of the session comes  *)
(* an await after the status; /drop and other tasks run in between).       *)
(***************************************************************************)
Quiet ==
  \A d \in Events : fresh[d] = 0 /\ ~ Suspended(d)

SessionGivenBack ==
  Quiet =>
    \A k \in Keys, w \in WorkflowIds :
      session[k] = w /\ store[w].status \in {"COMPLETED", "FAILED"} =>
        \E d \in Events : task[d].wf = w

(***************************************************************************)
(* A task raises only where a call to an agent, Slack or GitHub does: what *)
(* a step parses is there whatever the other tasks did to the object since *)
(* (extract_input of wait_issue_decision, wait_confirmation and            *)
(* create_github_issue).  Over DynamoDB an overwritten record breaks it.   *)
(***************************************************************************)
OnlyCallsRaise ==
  Cardinality({d \in Events : Awaits(d, "raised")}) = Errors - budget.errors

(***************************************************************************)
(* The local server implements IssueFiling too: over one shared object and *)
(* without redelivery, an issue is filed only from the user's acceptance   *)
(* of a proposal that was on Slack, once for each acceptance.              *)
(***************************************************************************)
Proposed ==
  {w \in WorkflowIds :
     \E m \in Events : /\ message[m] # None
                       /\ message[m].wf = w
                       /\ message[m].step = "wait_confirmation"}

Accepted ==
  [d \in Events |-> IF event[d] # None /\ event[d].type = "accept"
                      THEN event[d].wf ELSE None]

FiledIssues ==
  [i \in 1 .. Len(issues) |-> [press |-> issues[i].ev, wf |-> issues[i].wf]]

Filing == INSTANCE IssueFiling
            WITH Requests <- WorkflowIds, Presses <- Events, Nobody <- None,
                 proposed <- Proposed, accepted <- Accepted,
                 filed <- FiledIssues

FilesAsPromised == Filing!Spec
=============================================================================
