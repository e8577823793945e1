---------------------------- MODULE BarlowState ----------------------------
(***************************************************************************)
(* The state the two Lambdas of barlow-automation share, and the           *)
(* operations of the stores, the queue, Slack and GitHub on it.            *)
(*                                                                         *)
(*  - three DynamoDB tables: wfTable (workflow), session (active-session)  *)
(*    and pending (pending-action);                                        *)
(*  - the SQS queue between the Ack Lambda and the Worker Lambda, and its  *)
(*    dead letter queue;                                                   *)
(*  - what Slack shows: the messages with buttons, the open reject modals; *)
(*  - the GitHub repository the issues are filed in;                       *)
(*  - the invocations in progress: a worker[p] per concurrent Worker       *)
(*    Lambda, a drop[a] per invocation of the Ack Lambda that drops.       *)
(***************************************************************************)
EXTENDS Workflow

CONSTANTS
  Workers,          \* concurrent Worker Lambda invocations
  Invocations,      \* Ack Lambda invocations of /drop and issue_drop
  MaxReceiveCount,  \* the redrive policy of the queue
  Budget,           \* how many faults of each kind a behaviour may have
  Requests,         \* the subcommands the users try
  Choices,          \* the decisions the users take
  Findings,         \* what find_relevant_issue may report
  Comments,         \* whether a reject may carry additional requirements
  StateClasses      \* subcommands whose workflow state class the Ack process
                    \* has registered: {} as deployed, where only the Worker
                    \* imports domain/feat/models/state

Faults == {"crash", "error", "resend", "expire"}

ASSUME BoundsAssumption ==
  /\ MaxReceiveCount \in Nat \ {0}
  /\ Budget \in [Faults -> Nat]

ASSUME InputsAssumption ==
  /\ Requests \subseteq Subcommands
  /\ Choices \subseteq Decision
  /\ Findings \subseteq {"anchored", "unanchored"}
  /\ Comments \subseteq BOOLEAN
  /\ StateClasses \subseteq Subcommands

VARIABLES
  wfTable,   \* the workflow table: a record or None per id
  created,   \* the ids create() has drawn (uuid4 never repeats one)
  session,   \* the active-session table: a workflow id or None per key
  pending,   \* the pending-action table: absent, PROCESSING or DONE
  event,     \* the body of every event sent so far
  queue,     \* visible SQS messages per event and number of past receives
  dlq,       \* events in the dead letter queue
  message,   \* messages with buttons, under the event that posted them
  modal,     \* workflows whose reject modal is open
  issues,    \* the GitHub issues, by number
  worker,    \* the Worker Lambda invocations
  drop,      \* the Ack Lambda invocations that drop a workflow
  budget     \* faults left

tables == <<wfTable, created, session, pending>>
sqs    == <<event, queue, dlq>>
slack  == <<message, modal>>
vars   == <<tables, sqs, slack, issues, worker, drop, budget>>

-----------------------------------------------------------------------------
(* The DynamoDB stores.  save, set and clear are unconditional;            *)
(* try_acquire is a put conditional on attribute_not_exists(pk).           *)

Save(inst) == wfTable' = [wfTable EXCEPT ![inst.id] = inst]

SessionSet(k, w) == session' = [session EXCEPT ![k] = w]

SessionClear(k) == session' = [session EXCEPT ![k] = None]

TryAcquire_Unconditional(d) ==
  pending' = [pending EXCEPT ![d] = "PROCESSING"]

TryAcquire(d) ==
  /\ pending[d] = "absent"
  /\ pending' = [pending EXCEPT ![d] = "PROCESSING"]

PendingDone(d) == pending' = [pending EXCEPT ![d] = "DONE"]

-----------------------------------------------------------------------------
(* SQS.                                                                    *)

Receives == 0 .. MaxReceiveCount - 1

Send(d, e) ==
  /\ event[d] = None
  /\ event' = [event EXCEPT ![d] = e]
  /\ queue' = [queue EXCEPT ![d][0] = @ + 1]
  /\ UNCHANGED dlq

(* a message whose Lambda failed reappears, or moves to the DLQ once it
   has been received MaxReceiveCount times *)
ReturnMessage(d, r) ==
  IF r + 1 \in Receives
    THEN queue' = [queue EXCEPT ![d][r + 1] = @ + 1] /\ dlq' = dlq
    ELSE queue' = queue /\ dlq' = dlq \union {d}

Spend(fault) ==
  /\ budget[fault] > 0
  /\ budget' = [budget EXCEPT ![fault] = @ - 1]

-----------------------------------------------------------------------------
(* Slack and GitHub.                                                       *)

Pressable(m, step) ==
  /\ message[m] # None
  /\ message[m].step = step
  /\ message[m].live

-----------------------------------------------------------------------------
(* Invocations.                                                            *)

WorkerPc == {"idle", "received", "checkSession", "create", "setSession",
             "load", "saveResumed", "run", "saveWaiting", "relate",
             "notify", "saveEnd", "clearSession", "markDone"}

WorkerState ==
  [pc : WorkerPc, ev : MaybeEvent, receives : Receives,
   inst : Instance \union {None}, issue : Nat]

Idle == [pc |-> "idle", ev |-> None, receives |-> 0, inst |-> None,
         issue |-> 0]

DropState ==
  [pc : {"ready", "load", "save", "clear", "done", "failed", "dead"},
   key : Keys \union {None}, wf : WorkflowIds \union {None},
   inst : Instance \union {None}]

NotInvoked == [pc |-> "ready", key |-> None, wf |-> None, inst |-> None]

Init ==
  /\ wfTable = [w \in WorkflowIds |-> None]
  /\ created = {}
  /\ session = [k \in Keys |-> None]
  /\ pending = [d \in Events |-> "absent"]
  /\ event   = [d \in Events |-> None]
  /\ queue   = [d \in Events |-> [r \in Receives |-> 0]]
  /\ dlq     = {}
  /\ message = [d \in Events |-> None]
  /\ modal   = {}
  /\ issues  = <<>>
  /\ worker  = [p \in Workers |-> Idle]
  /\ drop    = [a \in Invocations |-> NotInvoked]
  /\ budget  = Budget
=============================================================================
