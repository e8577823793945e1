----------------------------- MODULE StepWorker -----------------------------
(***************************************************************************)
(* The Worker Lambda: app/handlers/step_worker_handler.py (_process) and   *)
(* app/workflow_runtime.py (start, resume, _execute_until_wait).           *)
(*                                                                         *)
(* One action per await that touches shared state: a DynamoDB call, a      *)
(* Slack call, a GitHub call.  What runs between two of them only touches  *)
(* the invocation's own copy of the workflow, worker[p].inst, and is part  *)
(* of the action before the next await.  The pc names the await that comes *)
(* next.                                                                   *)
(***************************************************************************)
EXTENDS BarlowState

Ev(p)   == worker[p].ev
Inst(p) == worker[p].inst

At(p, pc) == worker[p].pc = pc

Goto(p, pc) == worker' = [worker EXCEPT ![p].pc = pc]

GotoWith(p, pc, inst) ==
  worker' = [worker EXCEPT ![p].pc = pc, ![p].inst = inst]

Finish(p) == worker' = [worker EXCEPT ![p] = Idle]

-----------------------------------------------------------------------------
(* handler and _process: receive a message and acquire its dedup_id.       *)

Receive(p, d, r) ==
  /\ At(p, "idle")
  /\ queue[d][r] > 0
  /\ queue' = [queue EXCEPT ![d][r] = @ - 1]
  /\ worker' = [worker EXCEPT ![p] =
                  [Idle EXCEPT !.pc = "received", !.ev = d, !.receives = r]]
  /\ UNCHANGED <<tables, event, dlq, slack, issues, drop, budget>>

Acquire(p) ==
  /\ At(p, "received")
  /\ TryAcquire(Ev(p))
  /\ Goto(p, IF event[Ev(p)].type = "pipeline_start" THEN "checkSession"
                                                     ELSE "load")
  /\ UNCHANGED <<wfTable, created, session, sqs, slack, issues, drop, budget>>

SkipDuplicate(p) ==
  /\ At(p, "received")
  /\ pending[Ev(p)] # "absent"
  /\ Finish(p)
  /\ UNCHANGED <<tables, sqs, slack, issues, drop, budget>>

MarkDone(p) ==
  /\ At(p, "markDone")
  /\ PendingDone(Ev(p))
  /\ Finish(p)
  /\ UNCHANGED <<wfTable, created, session, sqs, slack, issues, drop, budget>>

-----------------------------------------------------------------------------
(* WorkflowRuntime.start.                                                  *)

(* an active session: post a notice and return None *)
RefuseStart_SessionCleared(p) ==
  /\ At(p, "checkSession")
  /\ session[event[Ev(p)].key] # None
  /\ SessionClear(event[Ev(p)].key)
  /\ Goto(p, "markDone")
  /\ UNCHANGED <<wfTable, created, pending, sqs, slack, issues, drop, budget>>

RefuseStart(p) ==
  /\ At(p, "checkSession")
  /\ session[event[Ev(p)].key] # None
  /\ Goto(p, "markDone")
  /\ UNCHANGED <<tables, sqs, slack, issues, drop, budget>>

AllowStart(p) ==
  /\ At(p, "checkSession")
  /\ session[event[Ev(p)].key] = None
  /\ Goto(p, "create")
  /\ UNCHANGED <<tables, sqs, slack, issues, drop, budget>>

CreateInstance_SessionFirst(p) ==
  /\ At(p, "create")
  /\ \E w \in WorkflowIds \ created :
       /\ SessionSet(event[Ev(p)].key, w)
       /\ GotoWith(p, "setSession", NewInstance(w, event[Ev(p)]))
  /\ UNCHANGED <<wfTable, created, pending, sqs, slack, issues, drop, budget>>

CreateInstance(p) ==
  /\ At(p, "create")
  /\ \E w \in WorkflowIds \ created :
       LET inst == NewInstance(w, event[Ev(p)])
       IN  /\ Save(inst)
           /\ created' = created \union {w}
           /\ GotoWith(p, "setSession", inst)
  /\ UNCHANGED <<session, pending, sqs, slack, issues, drop, budget>>

SetSession(p) ==
  /\ At(p, "setSession")
  /\ SessionSet(Inst(p).key, Inst(p).id)
  /\ Goto(p, "run")
  /\ UNCHANGED <<wfTable, created, pending, sqs, slack, issues, drop, budget>>

-----------------------------------------------------------------------------
(* WorkflowRuntime.resume.                                                 *)

(* workflow not found, or no entry in RESUME_MAP: return, nothing saved *)
IgnoreResume(p) ==
  /\ At(p, "load")
  /\ ~ Resumable(wfTable[event[Ev(p)].wf], event[Ev(p)].type)
  /\ Goto(p, "markDone")
  /\ UNCHANGED <<tables, sqs, slack, issues, drop, budget>>

LoadInstance(p) ==
  /\ At(p, "load")
  /\ Resumable(wfTable[event[Ev(p)].wf], event[Ev(p)].type)
  /\ GotoWith(p, "saveResumed",
              Resumed(wfTable[event[Ev(p)].wf], Ev(p), event[Ev(p)]))
  /\ UNCHANGED <<tables, sqs, slack, issues, drop, budget>>

SaveResumed_NotSaved(p) ==
  /\ At(p, "saveResumed")
  /\ Goto(p, "run")
  /\ UNCHANGED <<tables, sqs, slack, issues, drop, budget>>

SaveResumed(p) ==
  /\ At(p, "saveResumed")
  /\ Save(Inst(p))
  /\ Goto(p, "run")
  /\ UNCHANGED <<created, session, pending, sqs, slack, issues, drop, budget>>

-----------------------------------------------------------------------------
(* WorkflowRuntime._execute_until_wait: one turn of the loop starts at     *)
(* "run" with the node of inst.step.                                       *)

AtStep(p, steps) ==
  /\ At(p, "run")
  /\ HasNode(Inst(p).wtype, Inst(p).step)
  /\ Inst(p).step \in steps

(* no node for the step: FAILED, saved, and the session cleared *)
FailUnknownStep(p) ==
  /\ At(p, "run")
  /\ ~ HasNode(Inst(p).wtype, Inst(p).step)
  /\ GotoWith(p, "saveEnd", [Inst(p) EXCEPT !.status = "FAILED"])
  /\ UNCHANGED <<tables, sqs, slack, issues, drop, budget>>

ContinueStep_NotSaved(p) ==
  /\ AtStep(p, ContinueSteps)
  /\ \E finding \in Findings :
       LET out == ApplyOutput(Inst(p).step, Inst(p), Ev(p), finding)
       IN  GotoWith(p, "run", [out EXCEPT !.step = OnContinue[out.step]])
  /\ UNCHANGED <<tables, sqs, slack, issues, drop, budget>>

ContinueStep(p) ==
  /\ AtStep(p, ContinueSteps)
  /\ \E finding \in Findings :
       LET out  == ApplyOutput(Inst(p).step, Inst(p), Ev(p), finding)
           inst == [out EXCEPT !.step = OnContinue[out.step]]
       IN  Save(inst) /\ GotoWith(p, "run", inst)
  /\ UNCHANGED <<created, session, pending, sqs, slack, issues, drop, budget>>

PostWaitMessage_TsForgotten(p) ==
  /\ AtStep(p, WaitSteps)
  /\ Ready(Inst(p))
  /\ message' = [message EXCEPT ![Ev(p)] = WaitMessage(Inst(p))]
  /\ GotoWith(p, "saveWaiting", [Inst(p) EXCEPT !.status = "WAITING"])
  /\ UNCHANGED <<tables, sqs, modal, issues, drop, budget>>

PostWaitMessage_StillRunning(p) ==
  /\ AtStep(p, WaitSteps)
  /\ Ready(Inst(p))
  /\ message' = [message EXCEPT ![Ev(p)] = WaitMessage(Inst(p))]
  /\ GotoWith(p, "saveWaiting", [Inst(p) EXCEPT !.messageTs = Ev(p)])
  /\ UNCHANGED <<tables, sqs, modal, issues, drop, budget>>

PostWaitMessage(p) ==
  /\ AtStep(p, WaitSteps)
  /\ Ready(Inst(p))
  /\ message' = [message EXCEPT ![Ev(p)] = WaitMessage(Inst(p))]
  /\ GotoWith(p, "saveWaiting",
              [Inst(p) EXCEPT !.messageTs = Ev(p), !.status = "WAITING"])
  /\ UNCHANGED <<tables, sqs, modal, issues, drop, budget>>

SaveWaiting(p) ==
  /\ At(p, "saveWaiting")
  /\ Save(Inst(p))
  /\ Goto(p, "markDone")
  /\ UNCHANGED <<created, session, pending, sqs, slack, issues, drop, budget>>

RejectEnd(p) ==
  /\ AtStep(p, {"reject_end"})
  /\ GotoWith(p, "notify", [Inst(p) EXCEPT !.status = "COMPLETED"])
  /\ UNCHANGED <<tables, sqs, slack, issues, drop, budget>>

(* CreateGithubIssueStep: POST the issue, then its relation if it has one *)
CreateIssue(p) ==
  /\ AtStep(p, {"create_github_issue"})
  /\ Ready(Inst(p))
  /\ LET n == Len(issues) + 1
     IN  /\ issues' = Append(issues, [ev |-> Ev(p), wf |-> Inst(p).id,
                                      draft |-> Inst(p).draft,
                                      relation |-> "none"])
         /\ worker' = [worker EXCEPT ![p] =
                         IF RelationOf(Inst(p)) = "none"
                           THEN [@ EXCEPT !.pc = "notify", !.issue = n,
                                          !.inst = Filed(Inst(p), n)]
                           ELSE [@ EXCEPT !.pc = "relate", !.issue = n]]
  /\ UNCHANGED <<tables, sqs, slack, drop, budget>>

SetRelation_StatusIgnored(p) ==
  /\ At(p, "relate")
  /\ GotoWith(p, "notify", Filed(Inst(p), worker[p].issue))
  /\ UNCHANGED <<tables, sqs, slack, issues, drop, budget>>

SetRelation(p) ==
  /\ At(p, "relate")
  /\ issues' = [issues EXCEPT ![worker[p].issue].relation =
                                RelationOf(Inst(p))]
  /\ GotoWith(p, "notify", Filed(Inst(p), worker[p].issue))
  /\ UNCHANGED <<tables, sqs, slack, drop, budget>>

(* chat_update takes the buttons off the workflow's last message; without
   one, a plain message is posted *)
NotifyEnd(p) ==
  /\ At(p, "notify")
  /\ message' = IF Inst(p).messageTs = None THEN message
                ELSE [message EXCEPT ![Inst(p).messageTs].live = FALSE]
  /\ Goto(p, "saveEnd")
  /\ UNCHANGED <<tables, sqs, modal, issues, drop, budget>>

SaveEnd_SessionKept(p) ==
  /\ At(p, "saveEnd")
  /\ Save(Inst(p))
  /\ Goto(p, "markDone")
  /\ UNCHANGED <<created, session, pending, sqs, slack, issues, drop, budget>>

SaveEnd(p) ==
  /\ At(p, "saveEnd")
  /\ Save(Inst(p))
  /\ Goto(p, "clearSession")
  /\ UNCHANGED <<created, session, pending, sqs, slack, issues, drop, budget>>

ClearSession(p) ==
  /\ At(p, "clearSession")
  /\ SessionClear(Inst(p).key)
  /\ Goto(p, "markDone")
  /\ UNCHANGED <<wfTable, created, pending, sqs, slack, issues, drop, budget>>

-----------------------------------------------------------------------------
(* Failures.                                                               *)

(***************************************************************************)
(* An exception inside the try block.  The handler logs, posts a notice    *)
(* and returns: the message is deleted, and neither the workflow, nor the  *)
(* session, nor the pending action is touched.                             *)
(***************************************************************************)
InTry(p) == worker[p].pc \notin {"idle", "received"}

Raise_Redelivers(p) ==
  /\ InTry(p)
  /\ Spend("error")
  /\ Finish(p)
  /\ pending' = [pending EXCEPT ![Ev(p)] = "absent"]
  /\ ReturnMessage(Ev(p), worker[p].receives)
  /\ UNCHANGED <<wfTable, created, session, event, slack, issues, drop>>

Raise(p) ==
  /\ InTry(p)
  /\ Spend("error")
  /\ Finish(p)
  /\ UNCHANGED <<tables, sqs, slack, issues, drop>>

(* the step's input is missing: the same branch, with no outside cause *)
RaiseNotReady(p) ==
  /\ AtStep(p, Steps)
  /\ ~ Ready(Inst(p))
  /\ Finish(p)
  /\ UNCHANGED <<tables, sqs, slack, issues, drop, budget>>

Crash_Swallowed(p) ==
  /\ ~ At(p, "idle")
  /\ Spend("crash")
  /\ Finish(p)
  /\ UNCHANGED <<tables, sqs, slack, issues, drop>>

(* the Lambda dies (timeout, memory, an exception outside the try block) *)
Crash(p) ==
  /\ ~ At(p, "idle")
  /\ Spend("crash")
  /\ ReturnMessage(Ev(p), worker[p].receives)
  /\ Finish(p)
  /\ UNCHANGED <<tables, event, slack, issues, drop>>

-----------------------------------------------------------------------------
Start(p)   == RefuseStart(p) \/ AllowStart(p) \/ CreateInstance(p)
                \/ SetSession(p)
Resume(p)  == IgnoreResume(p) \/ LoadInstance(p) \/ SaveResumed(p)
Execute(p) == \/ FailUnknownStep(p) \/ ContinueStep(p) \/ RaiseNotReady(p)
              \/ PostWaitMessage(p) \/ SaveWaiting(p)
              \/ RejectEnd(p) \/ CreateIssue(p) \/ SetRelation(p)
              \/ NotifyEnd(p) \/ SaveEnd(p) \/ ClearSession(p)

WorkerStep(p) ==
  \/ \E d \in Events, r \in Receives : Receive(p, d, r)
  \/ Acquire(p) \/ SkipDuplicate(p) \/ MarkDone(p)
  \/ Start(p) \/ Resume(p) \/ Execute(p)
=============================================================================
