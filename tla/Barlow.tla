-------------------------------- MODULE Barlow --------------------------------
(***************************************************************************)
(* barlow-automation as deployed: users of one Slack channel, the Ack      *)
(* Lambda, the SQS queue, concurrent Worker Lambdas, the three DynamoDB    *)
(* tables and the GitHub repository, with crashes, exceptions, duplicated  *)
(* deliveries and TTL expiry; and what must hold of them.                  *)
(***************************************************************************)
EXTENDS StepWorker, AckHandlers

(***************************************************************************)
(* DynamoDB TTL: both items carry created + 24 hours.  The pending action  *)
(* expires after 1 hour, longer than SQS takes to redeliver a failed       *)
(* message once (the 900 s visibility timeout); it is taken not to expire. *)
(***************************************************************************)
ExpireWorkflow(w) ==
  /\ wfTable[w] # None
  /\ Spend("expire")
  /\ wfTable' = [wfTable EXCEPT ![w] = None]
  /\ UNCHANGED <<created, session, pending, sqs, slack, issues, worker, drop>>

ExpireSession(k) ==
  /\ session[k] # None
  /\ Spend("expire")
  /\ SessionClear(k)
  /\ UNCHANGED <<wfTable, created, pending, sqs, slack, issues, worker, drop>>

Next ==
  \/ User
  \/ \E d \in Events : Resend(d)
  \/ \E p \in Workers : WorkerStep(p) \/ Raise(p) \/ Crash(p)
  \/ \E a \in Invocations : Drop(a) \/ DropStep(a) \/ DropCrash(a)
  \/ \E w \in WorkflowIds : ExpireWorkflow(w)
  \/ \E k \in Keys : ExpireSession(k)

Spec == Init /\ [][Next]_vars

(***************************************************************************)
(* SQS keeps invoking the Worker Lambda while a message is visible, and an *)
(* invocation that neither dies nor raises runs on; so does a handler of   *)
(* the Ack Lambda.  Nothing is assumed of users, faults or expiry.         *)
(***************************************************************************)
Fairness ==
  /\ \A p \in Workers : WF_vars(WorkerStep(p))
  /\ \A a \in Invocations : WF_vars(DropStep(a))

FairSpec == Spec /\ Fairness

-----------------------------------------------------------------------------
(* Type invariant of all the state.                                        *)
TypeOK ==
  /\ wfTable \in [WorkflowIds -> Instance \union {None}]
  /\ created \subseteq WorkflowIds
  /\ session \in [Keys -> WorkflowIds \union {None}]
  /\ pending \in [Events -> {"absent", "PROCESSING", "DONE"}]
  /\ event \in [Events -> Event \union {None}]
  /\ queue \in [Events -> [Receives -> Nat]]
  /\ dlq \subseteq Events
  /\ message \in [Events -> Message \union {None}]
  /\ modal \subseteq WorkflowIds
  /\ issues \in Seq(Issue)
  /\ worker \in [Workers -> WorkerState]
  /\ drop \in [Invocations -> DropState]
  /\ budget \in [Faults -> Nat]

-----------------------------------------------------------------------------
(* Safety.                                                                 *)

(***************************************************************************)
(* However often an event is delivered, retried by Slack or returned to    *)
(* the queue by a dying Lambda, it is in the hands of at most one worker   *)
(* past try_acquire, and no worker holds it again once it is DONE          *)
(* (pending_action_store.try_acquire).                                     *)
(***************************************************************************)
Holds(p, d) == InTry(p) /\ Ev(p) = d

ProcessedByOne ==
  \A d \in Events :
    /\ \A p, q \in Workers : Holds(p, d) /\ Holds(q, d) => p = q
    /\ pending[d] = "DONE" => \A p \in Workers : ~ Holds(p, d)

(***************************************************************************)
(* A press of the accept button files at most one issue, whatever crashes, *)
(* raises or is delivered twice (step_worker_handler._process with         *)
(* create_github_issue.execute).                                           *)
(***************************************************************************)
OneIssuePerEvent ==
  \A i, j \in 1 .. Len(issues) : issues[i].ev = issues[j].ev => i = j

(***************************************************************************)
(* No issue without the human: an issue of a workflow exists only after    *)
(* the user pressed a decision of that workflow other than                 *)
(* reject_duplicate, was shown a draft of it, and accepted it; the draft   *)
(* filed is one generated for that workflow, by a decision or a reject     *)
(* (definition.GRAPH and RESUME_MAP, across stale and overwritten copies). *)
(***************************************************************************)
Drafting == (Decision \ {"reject_duplicate"}) \union {"reject"}

HumanInTheLoop ==
  \A i \in 1 .. Len(issues) :
    LET w == issues[i].wf
    IN  /\ event[issues[i].ev].type = "accept"
        /\ event[issues[i].ev].wf = w
        /\ \E d \in Events : /\ event[d] # None
                             /\ event[d].wf = w
                             /\ event[d].type \in Decision \ {"reject_duplicate"}
        /\ \E m \in Events : /\ message[m] # None
                             /\ message[m].wf = w
                             /\ message[m].step = "wait_confirmation"
        /\ issues[i].draft # None
        /\ event[issues[i].draft].wf = w
        /\ event[issues[i].draft].type \in Drafting

(***************************************************************************)
(* No dead end: a workflow stored as WAITING has a message on Slack whose  *)
(* buttons still work, that asks for the step the workflow waits at and    *)
(* shows the draft stored with it (_execute_until_wait posts before it     *)
(* saves, chat_update removes buttons; /drop and other workers write the   *)
(* same record).                                                           *)
(***************************************************************************)
WaitingIsAnswerable ==
  \A w \in WorkflowIds :
    wfTable[w] # None /\ wfTable[w].status = "WAITING" =>
      LET m == wfTable[w].messageTs
      IN  /\ m # None
          /\ message[m] = [wf |-> w, step |-> wfTable[w].step,
                           draft |-> wfTable[w].draft, live |-> TRUE]

(***************************************************************************)
(* A workflow stored as COMPLETED is what its record says: the rejection   *)
(* of a duplicate, or an existing issue of this workflow with the stored   *)
(* draft and the relation the stored decision and finding call for         *)
(* (create_github_issue.execute relates before the STOP branch saves).     *)
(***************************************************************************)
CompletedAsRecorded ==
  \A w \in WorkflowIds :
    wfTable[w] # None /\ wfTable[w].status = "COMPLETED" =>
      LET r == wfTable[w]
      IN  \/ r.step = "reject_end" /\ r.decision = "reject_duplicate"
          \/ /\ r.step = "create_github_issue"
             /\ r.url \in 1 .. Len(issues)
             /\ issues[r.url].wf = w
             /\ issues[r.url].draft = r.draft
             /\ issues[r.url].relation = RelationOf(r)

(***************************************************************************)
(* A session names a workflow that was created and stored for the same     *)
(* channel and user, so that /drop can find it (start saves the workflow   *)
(* before it sets the session).                                            *)
(***************************************************************************)
SessionNamesOwnWorkflow ==
  \A k \in Keys :
    session[k] # None =>
      /\ session[k] \in created
      /\ wfTable[session[k]] # None => wfTable[session[k]].key = k

(***************************************************************************)
(* Nothing is lost before try_acquire: an event no worker has acquired is  *)
(* visible on the queue, in the hands of a worker that just received it,   *)
(* or, its receives used up, in the dead letter queue                      *)
(* (step_worker_handler with the redrive policy of the queue).             *)
(***************************************************************************)
UnacquiredIsKept ==
  \A d \in Events :
    event[d] # None /\ pending[d] = "absent" =>
      \/ \E r \in Receives : queue[d][r] > 0
      \/ \E p \in Workers : At(p, "received") /\ Ev(p) = d
      \/ d \in dlq

(***************************************************************************)
(* What is marked done is done: unless its record has expired, a press     *)
(* that is DONE has had its effect.  An accept has filed its issue, a      *)
(* reject or a decision to go on has a draft made for it on Slack, however *)
(* stale the button, whatever another worker or a drop has saved since,    *)
(* and although resume() has ways to return without doing anything         *)
(* (_process calls mark_done after any return).                            *)
(***************************************************************************)
DoneIsDone ==
  Budget["expire"] = 0 =>
    \A d \in Events :
      event[d] # None /\ pending[d] = "DONE" =>
        /\ event[d].type = "accept" =>
             \E i \in 1 .. Len(issues) : issues[i].ev = d
        /\ event[d].type \in Drafting =>
             /\ message[d] # None
             /\ message[d].wf = event[d].wf
             /\ message[d].step = "wait_confirmation"
             /\ message[d].draft = d

-----------------------------------------------------------------------------
(* Liveness.                                                               *)

(***************************************************************************)
(* Every message put on the queue is eventually disposed of: the queue     *)
(* drains and every worker goes idle, so no chain of CONTINUE steps and no *)
(* redelivery goes on for ever.                                            *)
(***************************************************************************)
Quiet ==
  /\ \A d \in Events, r \in Receives : queue[d][r] = 0
  /\ \A p \in Workers : At(p, "idle")

EventsAreDisposedOf == <>[]Quiet

(***************************************************************************)
(* What makes it so: every await takes an invocation nearer to its end, of *)
(* which it is at most ten away.  No step of GRAPH that continues leads    *)
(* back, whatever RESUME_MAP started from (_execute_until_wait).           *)
(***************************************************************************)
TurnsLeft ==
  [s \in Steps |->
     CASE s \in WaitSteps                                -> 4
       [] s \in {"reject_end", "find_relevant_issue",
                 "generate_issue_draft",
                 "regenerate_issue_draft"}              -> 5
       [] s \in {"create_github_issue", "find_relevant_bc"} -> 6]

AwaitsAt ==
  [idle |-> 0, markDone |-> 1, saveWaiting |-> 2, clearSession |-> 2,
   saveEnd |-> 3, notify |-> 4, relate |-> 5, saveResumed |-> 7,
   setSession |-> 7, load |-> 8, create |-> 8, checkSession |-> 9,
   received |-> 10]

AwaitsLeft(p) ==
  IF At(p, "run") THEN TurnsLeft[Inst(p).step] ELSE AwaitsAt[worker[p].pc]

InvocationsEnd ==
  [][\A p \in Workers :
       At(p, "idle") \/ worker'[p] = worker[p]
         \/ AwaitsLeft(p)' < AwaitsLeft(p)]_vars

(***************************************************************************)
(* A workflow does not stay RUNNING for ever, unless a worker died or      *)
(* raised on one of its events: that event is PROCESSING with no worker.   *)
(***************************************************************************)
Concerns(d, w) ==
  \/ event[d].wf = w
  \/ /\ event[d].type = "pipeline_start"
     /\ wfTable[w] # None
     /\ event[d].key = wfTable[w].key

Abandoned(d) == pending[d] = "PROCESSING" /\ \A p \in Workers : Ev(p) # d

IsRunning(w) == wfTable[w] # None /\ wfTable[w].status = "RUNNING"

RunningEnds ==
  \A w \in WorkflowIds :
    IsRunning(w) ~> \/ ~ IsRunning(w)
                    \/ \E d \in Events : Abandoned(d) /\ Concerns(d, w)

(***************************************************************************)
(* A workflow stored as COMPLETED or FAILED gives its user's session back, *)
(* unless a worker died or raised on one of its events: neither a stale    *)
(* resume nor another save leaves the user locked out (the save and the    *)
(* clear of _execute_until_wait are two awaits).                           *)
(***************************************************************************)
HeldByEnded(k, w) ==
  /\ session[k] = w
  /\ wfTable[w] # None
  /\ wfTable[w].status \in {"COMPLETED", "FAILED"}

EndedGivesSessionBack ==
  \A k \in Keys, w \in WorkflowIds :
    HeldByEnded(k, w) ~> \/ ~ HeldByEnded(k, w)
                         \/ \E d \in Events : Abandoned(d) /\ Concerns(d, w)

(***************************************************************************)
(* Once nothing runs, no session names a workflow that has ended, unless   *)
(* an invocation working on it died or raised, or the session's user did   *)
(* not drop the workflow but somebody else did: however drops, completions *)
(* and new starts of the users interleave, each ended workflow's session   *)
(* is given back.  Doc.md promises it for COMPLETED, FAILED and CANCELLED; *)
(* a drop button gives back the session of whoever presses it, and leaves  *)
(* the owner's (slash.handle_drop).                                        *)
(***************************************************************************)
Ended == {"COMPLETED", "FAILED", "CANCELLED"}

NoDropInProgress ==
  \A a \in Invocations : drop[a].pc \in {"ready", "done", "failed", "dead"}

CutShort(w) ==
  \/ \E d \in Events : Abandoned(d) /\ Concerns(d, w)
  \/ \E a \in Invocations : drop[a].pc = "dead" /\ drop[a].wf = w

DroppedByAnother(k, w) ==
  \E a \in Invocations : drop[a].wf = w /\ drop[a].key # k

SessionReleased ==
  Quiet /\ NoDropInProgress =>
    \A k \in Keys, w \in WorkflowIds :
      session[k] = w /\ wfTable[w] # None /\ wfTable[w].status \in Ended =>
        CutShort(w) \/ DroppedByAnother(k, w)

(***************************************************************************)
(* A drop that has returned has freed its user: the user's session does    *)
(* not name the workflow, nor will a worker still running on the workflow  *)
(* set it again; and a drop raises only in a process that lacks a state    *)
(* class (slash.handle_drop_workflow, handle_drop).  In the deployed       *)
(* process, which has none, every drop of a stored workflow raises, and    *)
(* this says only what a drop does that finds no record.                   *)
(***************************************************************************)
DroppedIsFreed ==
  \A a \in Invocations :
    /\ drop[a].pc = "done" => session[drop[a].key] # drop[a].wf
    /\ drop[a].pc = "failed" => StateClasses # Subcommands

(***************************************************************************)
(* A user whose workflow waits for an answer has a session, which keeps    *)
(* start() from beginning another.  Ends and drops delete whatever session *)
(* the user has, be it a later workflow's (active_session_store.clear);    *)
(* so the exceptions are an end or a drop of that same user, of whichever  *)
(* workflow, and an expiry.  Nothing another user does takes the session   *)
(* away, and no refused, resumed or waiting worker does.                   *)
(***************************************************************************)
IsEnd(d, k) ==
  /\ event[d] # None /\ pending[d] # "absent"
  /\ IF event[d].type = "pipeline_start"
       THEN event[d].key = k /\ event[d].wtype # "feat"
       ELSE /\ event[d].type \in {"accept", "reject_duplicate"}
            /\ wfTable[event[d].wf] # None
            /\ wfTable[event[d].wf].key = k

Expired == budget["expire"] < Budget["expire"]

WaitingIsGuarded ==
  \A w \in WorkflowIds :
    wfTable[w] # None /\ wfTable[w].status = "WAITING" =>
      LET k == wfTable[w].key
      IN  \/ session[k] # None
          \/ \E d \in Events : IsEnd(d, k)
          \/ \E a \in Invocations : drop[a].pc = "done" /\ drop[a].key = k
          \/ Expired

-----------------------------------------------------------------------------
(* What the documentation promises and the code does not keep.             *)

(***************************************************************************)
(* A drop frees its user: once the handler is through, returned or raised, *)
(* the user's session no longer names the workflow.                        *)
(***************************************************************************)
DropFreesTheUser ==
  \A a \in Invocations :
    drop[a].pc \in {"done", "failed"} => session[drop[a].key] # drop[a].wf

(***************************************************************************)
(* One channel and user never have two workflows in progress.              *)
(***************************************************************************)
InProgress(w) ==
  wfTable[w] # None /\ wfTable[w].status \in {"RUNNING", "WAITING"}

OneActivePerUser ==
  \A v, w \in WorkflowIds :
    InProgress(v) /\ InProgress(w) /\ wfTable[v].key = wfTable[w].key => v = w

(***************************************************************************)
(* Pressing the same button twice has the effect of pressing it once: one  *)
(* accepted proposal yields one issue.                                     *)
(***************************************************************************)
OneIssuePerProposal ==
  \A i, j \in 1 .. Len(issues) :
    issues[i].wf = issues[j].wf => i = j

(***************************************************************************)
(* An event whose worker died comes back until it is processed or is in    *)
(* the dead letter queue.                                                  *)
(***************************************************************************)
NoEventIsLost ==
  \A d \in Events :
    Abandoned(d) => d \in dlq \/ \E r \in Receives : queue[d][r] > 0

-----------------------------------------------------------------------------
(***************************************************************************)
(* The whole system implements IssueFiling: a workflow is proposed when a  *)
(* wait_confirmation message of it is posted, accepted by the accept       *)
(* event, and filed by the POST.                                           *)
(***************************************************************************)
Proposed ==
  {w \in WorkflowIds :
     \E m \in Events : /\ message[m] # None
                       /\ message[m].wf = w
                       /\ message[m].step = "wait_confirmation"}

Accepted ==
  [d \in Events |-> IF event[d] # None /\ event[d].type = "accept"
                      THEN event[d].wf ELSE None]

FiledIssues ==
  [i \in 1 .. Len(issues) |-> [press |-> issues[i].ev, wf |-> issues[i].wf]]

Filing == INSTANCE IssueFiling
            WITH Requests <- WorkflowIds, Presses <- Events, Nobody <- None,
                 proposed <- Proposed, accepted <- Accepted,
                 filed <- FiledIssues

FilesAsPromised == Filing!Spec
=============================================================================
