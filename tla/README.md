# barlow-automation in TLA+

barlow-automation is a Slack bot that turns a user's request into a GitHub
issue: it asks language-model agents for existing related issues and for a
draft, lets the user decide at two points, and files the issue. It runs as two
AWS Lambdas around an SQS queue and three DynamoDB tables; for development, a local
server runs the same code in one process over stores in memory. This directory holds
a model of that system, what TLC checks of it and what TLAPS proves of it.
Paths below are relative to the repository's root (the Python sources are in
its `src/`).

## 1. The system

    Slack user --submit, press--> Ack Lambda --event--> SQS --> Worker Lambda
       ^                              |                (DLQ)     |    |    |
       |                        /drop | issue_drop               |    |    |
       |                              v                          v    |    v
       |                         DynamoDB: workflow, active-session,  | GitHub
       |                                   pending-action             |
       +------------------- messages with buttons --------------------+

| component | code | state | operations |
|---|---|---|---|
| Ack handlers | `src/controller/handler/slash.py` | the open reject modal | submit a request; accept, reject, the four decisions; `/drop` and the drop button |
| Worker handler | `src/app/handlers/step_worker_handler.py` | the event in progress | `try_acquire`, dispatch, `mark_done`, the except branch |
| Workflow runtime | `src/app/workflow_runtime.py` | its copy of the workflow | `start`, `resume`, `_execute_until_wait` |
| Feature definition | `src/domain/feat/definition.py` | none | `GRAPH`, `RESUME_MAP` |
| Feature steps | `src/domain/feat/steps/` | none | agents, draft, wait messages, issue creation, relation |
| Workflow record | `src/domain/common/models/workflow_instance.py`, `src/domain/feat/models/state.py` | status, step, step outputs | `create`, (de)serialisation |
| Stores | `src/infrastructure/storage/dynamodb/` | three tables | `save`/`get`, `set`/`get`/`clear`, `try_acquire`/`mark_done`, TTL |
| Queue | `src/infrastructure/queue/`, SQS | visible messages, receive counts, DLQ | `send`, delivery, return, redrive |
| Slack, GitHub | external | messages and modals; issues | post, update; POST issue, relate |
| State class registry | `src/domain/common/models/workflow_instance.py` | the state classes a process has registered | `register_state_cls` on import, `from_item` |
| MCP factory | `src/agent/mcp.py`, `src/domain/feat/executor.py` | the set of connected servers, which outlives an event | `_ensure`, `disconnect` |
| Local server | `src/local_server.py`, `src/infrastructure/storage/memory/` | in-memory stores | `create_task` per event; `get` of the stored object itself |
| Slack messages | `src/app/slack/payload_mapper.py` | none; Slack keeps the values of buttons and the `private_metadata` of modals | sections and buttons of the two messages, reject and drop modal |
| Modal inputs | `src/controller/modal_templates/` | none | the three forms, `from_view`, `_parse_bullets`, `to_prompt` |
| Issue templates | `src/domain/*/models/issue.py` | none | `to_github_payload`, `slack_format` |
| Issue drop | `src/controller/issue_drop.py` | none | `droppable_items`, `drop_items` |
| Reply helper, prompts, configuration | `src/controller/_reply.py`, `src/domain/*/agents`, ... | none | texts |

How they interact:

- The Ack Lambda and the workers share no memory. They meet in the queue, the
  tables and the buttons on Slack. Buttons carry a workflow id, nothing else;
  they stay pressable until a STOP branch's `chat_update` takes them away.
- Every `save` puts the whole record. There is no version, no condition and no
  lock, and `resume` looks neither at the status nor at the step stored. So
  several workers and a drop may hold copies of one workflow, and the last one
  to save wins.
- The only mutual exclusion is `try_acquire(dedup_id)`. It is per event, and an
  event is one press: it orders deliveries of the same press, never two presses.
- A process can read a stored workflow back only if it has imported the module that
  registers the class of its state. The worker has, through `workflow_runtime.py:22`; the
  Ack Lambda has not.
- The set of connected MCP servers belongs to the class, not to an event: the `finally`
  of one event disconnects for all events of the process.
- The session (channel and user -> workflow id) is read by `start` and `/drop`,
  set after the workflow is saved, and deleted unconditionally by whoever
  finishes.

What is hard in it: two workers on one workflow; a drop that overlaps a worker;
an event delivered twice; a Lambda that dies between two awaits; an exception,
which the handler swallows, so the message is deleted and nothing is undone; a
button of a message the workflow has left behind; TTL expiry under a running
worker; a later workflow of the same user whose session an earlier one clears; an
agent of one event whose server another event disconnects; a task of the local server
that goes on, after an await, with an object another task has changed; a read of
the workflow table that misses the last write.
`PROJECT.json` lists these hazards, each at the line where it bites.

What makes each part correct:

- *Worker handler*: an event is processed by one worker at a time and at most
  once; every message is disposed of.
- *Runtime*: no issue without a decision, a draft shown, and an acceptance; a
  WAITING workflow can be answered; a RUNNING one does not stay so; an ended one
  gives the session back.
- *Issue creation*: one acceptance, one issue; COMPLETED means that the issue and
  its relation exist.
- *Local server*: a WAITING workflow has its buttons, a RUNNING one has a task, an ended one
  gives the session back, and no step finds its input missing, whatever tasks share the object.
- *Messages, modals*: an answer names the workflow it was given to; whoever accepts a draft
  was shown what is filed; the agents are told what was typed.
- *Sessions*: a session names a workflow of its own user, and none that has ended; a drop that
  returns has freed its user; only an end or a drop of a user takes the session of a user whose workflow waits.
- *MCP factory*: an agent runs with a session open, and none is left open after an event.
- *Issue drop*: exactly the ticked entries go.

## 2. The modules

| module | models |
|---|---|
| `FeatDefinition` | `GRAPH` and `RESUME_MAP`, the GitHub relation of a decision |
| `Workflow` | a workflow's record, events, messages and issues; what each step does to the record |
| `BarlowState` | the state the Lambdas share, and the operations of stores, queue, Slack, GitHub |
| `StepWorker` | the Worker Lambda: handler, runtime, steps, its failures |
| `AckHandlers` | the Ack Lambda's handlers and the users behind them |
| `Barlow` | the composition, TTL expiry, fairness, its properties, the refinement |
| `StaleReads` | `Barlow` over a workflow table whose reads may miss the last write |
| `LocalServer` | the local server: handlers, runtime and steps over the memory stores, its properties, the refinement |
| `IssueFiling` | what the bot promises of the GitHub repository, as a specification |
| `AgentServers` | `GitHubMCPFactory` and the part of an event that uses it, in the Lambda and in the local server |
| `Comprehension` | Python's list comprehension with a condition, as the next four modules need it |
| `IssueTemplates` | the fields of the templates, the payload for GitHub, the text for Slack |
| `IssueDrop` | `droppable_items` and `drop_items` as operators |
| `ModalInput` | the forms of the three commands and the prompt made of what is typed |
| `Conversation` | forms, messages and modals as one person meets them, with the events sent |
| `MCBarlow`, `MCStaleReads`, `MCLocalServer`, `MCConversation` | fault budgets, inputs and symmetry for TLC |
| `Workflow_proofs` | lemmas about `Workflow`: types of what a step makes of a record |
| `BarlowTypes_proofs` | `TypeCorrect` |
| `BarlowFiling_proofs` | `OneProcessor`, `AtMostOneIssue`, `UnacquiredStays`, `EveryInvocationEnds`, `SystemFilesAsPromised` |
| `BarlowRecords_proofs` | `SessionsNameTheirOwn`, `DropsFreeTheUser`, `CompletedMeansFiled`, `HumansDecide`, `WaitingHasButtons`, `EndedSessionsAreReleased`, `WaitingKeepsGuarded`, `PressesTakeEffect` |
| `StaleReads_proofs` | `StaleTypes`, `StaleOneIssuePerEvent`, `StaleHumansDecide`, `StaleCompletedMeansFiled`, `StaleWaitingHasButtons`, `StaleSessionsNameTheirOwn`, `StaleEndedAreReleased`, `StaleDropsFreeTheUser`, `StaleFilesAsPromised`, `StalePressesTakeEffect` |
| `LocalServer_proofs` | `LocalTypes`, `LocalOneIssuePerEvent`, `LocalFilesAsPromised`, `LocalWaitingHasButtons`, `LocalNobodyLeftRunning`, `LocalSessionGivenBack`, `LocalOnlyCallsRaise` |
| `Conversation_proofs` | `AnswersNameTheirWorkflow`, `PromptsKeepEveryWord`, `DraftsShowWhatIsFiled`, `OnlyTheTickedIsDropped` |
| `AgentServers_proofs` | `TypesHold`, `LambdaRunsConnected`, `LambdaLeavesNothing`, `StaleNamesGo` |

`Workflow` extends `FeatDefinition` and holds what the deployment and the local server have in
common: the code of the steps. `BarlowState` and `LocalServer` both extend it. `Barlow` extends
`StepWorker` and `AckHandlers`, which share `BarlowState`; `StaleReads` extends `Barlow`. `Barlow`
and `LocalServer` each instantiate `IssueFiling`. `Conversation` extends `ModalInput` and `IssueDrop`,
which extends `IssueTemplates`; forms and templates both extend `Comprehension`. `AgentServers` and `Conversation` share no state with the others:
what an agent answers is a choice in `Barlow`, and what a message says decides nothing there.

### State

Of `Barlow`:

| variable | what it stands for |
|---|---|
| `wfTable` | the workflow table; a record keeps the fields that decide something: type, key, status, `current_step`, whether relevant issues were found and with an anchor, the decision, the draft, the feedback, `slack_message_ts`, the issue url |
| `created` | the uuids `create()` has drawn |
| `session`, `pending` | the active-session and pending-action tables |
| `event`, `queue`, `dlq` | event bodies; visible messages per event and number of past receives; dead letters |
| `message`, `modal` | Slack messages with buttons, and the workflows whose reject modal is open |
| `issues` | the GitHub issues, in order of creation |
| `worker` | per Worker Lambda: the next await, the event, the receive count, its copy of the workflow, the issue just filed |
| `drop` | per Ack invocation that drops: the same for `/drop` and `issue_drop` |
| `budget` | how many crashes, exceptions, duplicates and expiries are left |

Of `LocalServer`: `store` is the one object of each workflow; `acquired` the dedup ids the memory
store remembers; `fresh` the tasks `send` has made of an event that did not run yet; `task` the
task that acquired it, at the await it is suspended in, with what it has read from the object
before that await. `session`, `event`, `message`, `modal`, `issues`, `budget` are as above.
`StaleReads` adds `older`, the version the last write of a record replaced, and `stale`, how many
reads may still miss a write. Of `Conversation`: `screen`, what Slack shows; `person`, whose it is and
which workflow it is about; `ticked`, the boxes of a drop modal; `sent`, the last answer.

An event is named by its `dedup_id`. Handling one event posts at most one
message with buttons (a wait step ends the loop), writes at most one draft (each
path through `GRAPH` to a wait step has one drafting step) and files at most one
issue, so the event also names the message and the draft. That lets a property
tell which draft a message showed and which one was filed.

### Actions

In `Barlow` there is one action per await that touches shared state; the code between two
awaits touches only the invocation's own copy of the workflow and belongs to the
action before it. `pc` names the await that comes next.

| code | actions (in order) |
|---|---|
| `handler`, `_process` | `Receive`, `Acquire` or `SkipDuplicate`, ..., `MarkDone` |
| `WorkflowRuntime.start` | `RefuseStart` or `AllowStart`, `CreateInstance` (create, RUNNING, save), `SetSession`, then the loop |
| `WorkflowRuntime.resume` | `IgnoreResume`, or `LoadInstance` (get and patch), `SaveResumed`, then the loop |
| `_execute_until_wait`, CONTINUE | `ContinueStep` (execute, apply_output, successor, save) |
| WAIT | `PostWaitMessage`, `SaveWaiting` |
| STOP | `RejectEnd`, or `CreateIssue` and `SetRelation`; then `NotifyEnd`, `SaveEnd`, `ClearSession` |
| no node for the step | `FailUnknownStep`, `SaveEnd`, `ClearSession` |
| except branch of `_process` | `Raise` (any await in the try block), `RaiseNotReady` (a step finds its input missing) |
| Ack handlers | `SubmitRequest`, `PressDecision`, `PressAccept`, `PressReject`, `SubmitReject`; `DropCommand` or `DropButton`, then `DropLoad`, `DropSave`, `DropClear`, or `DropLoadFails` |
| environment | `Crash`, `DropCrash`, `Resend`, `ExpireWorkflow`, `ExpireSession` |

The event loop of the local server switches tasks only where an await suspends, and the memory
stores do not suspend. In `LocalServer` there is one action from one call of an agent, Slack or
GitHub to the next, across the saves in between; a call has its effect in one action and its
answer is handled in a later one.

| code | actions |
|---|---|
| a task's first run (`_process`, `start` or `resume`, the first turns of the loop) | `SkipDuplicate`, `RefuseStart`, `StartWorkflow`, `Resume` |
| CONTINUE, from the agent's answer to the next await | `AgentAnswers` |
| WAIT | `SlackPosts` (the message is there), `Wait` (`slack_message_ts` and WAITING) |
| `create_github_issue` | `GitHubFiles`, `GitHubRelates`, `IssueFiled` (COMPLETED) |
| STOP: `chat_update`, clear of the session | `SlackUpdates`, `Complete` |
| an await that raises, the except branch | `Raise` |
| `slash.py` over `_InMemoryQueue` | `SubmitRequest`, `PressDecision`, `PressAccept`, `PressReject`, `SubmitReject`, `Resend`, `DropCommand`, `DropButton` |

`Proceed` is the loop of `_execute_until_wait` from its top to the next such await: no node, an agent,
a message, an issue, or the end. `AgentAnswers` applies the output and the successor of the node the
*task* was in, to whatever the object has become: the code has the node in a local variable.

In `Conversation`: `OpenForm` and `SubmitForm` for the three commands, `ShowDecision` and `ShowDraft` for
the worker's messages, `PressDecision`, `PressAccept`, `PressReject` with `SubmitReject`, `PressDrop`;
`OpenDropModal` and `Tick` for the drop modal; `Leave`.

In `AgentServers` a task is the coroutine of one event, again with one action from one await that
suspends to the next:

| code | actions |
|---|---|
| `_process` up to the first agent, or to the `finally` | `Begin` (with `Build` for an agent, `Disconnect` for an event that needs none) |
| `_ensure` awaiting `connect` | `Connected`, `ConnectFails` |
| `OpenAIAgent.run` | `RunEnds` (to the next agent of the event), `RunFails` |
| the Slack and GitHub calls after the agents, the notice of the except branch | `CallEnds` |
| `disconnect` | `CleanUp` per server, `NextServer`, `Clear` |

### Abstractions

- Answers of agents are choices: `Findings` for the relevant issues; a draft is
  the name of the event that asked for it. `bc_candidates`, the decision's
  context and `completion_message` decide nothing and are left out;
  `pending_action_token` is never read, `dropped_item_ids` is written only for
  `drop_restart`, which no handler sends.
- `status` CREATED is overwritten before the first save and so never stored.
- A write that was applied although its answer was lost is an exception at the
  next `pc`. An exception of `try_acquire`, or in the except branch itself,
  leaves `handler` and fails the invocation: that is `Crash`.
- In `Barlow` reads of the tables are consistent. The code does not ask for that
  (`get_item` without `ConsistentRead`), so `StaleReads` lets a load by `resume` or a drop return the
  version before the last write, up to `MaxStale` times in a behaviour. DynamoDB
  converges within a second, so no version but the last two is returned, and reads of the
  session table, minutes apart from their writes, are taken to be consistent.
- In the local server tasks that are ready run in any order; the event loop's is first in, first out, which
  is one of them. A step that finds no input (`RaiseNotReady`) or a task that raises there is
  modelled (`OrRaised`) but does not occur (`OnlyCallsRaise`), nor does a `resume` of an
  unknown workflow.
- `pending` does not expire. Its hour is longer than the one redelivery the
  queue allows takes (visibility timeout 900 s, `infra.md:87`), shorter than
  what a person draining the DLQ may take.
- The queue is taken to hand over one record per invocation (`infra.md:89`), and
  a message to be visible again only after the Lambda that held it is gone
  (visibility timeout = Lambda timeout).
- All users are in one channel, so a key is a user.
- `/feat`, `/fix` and `/refactor` open a modal and change nothing: only the
  submission is an action.
- `StateClasses` is the content of the registry `_STATE_CLS` in the Ack process. Deployed,
  it is empty; in the tests, whose `conftest.py` imports the state module, it has all three
  types. The runs `Errors` and `DropFails` have it empty; `Records` and `Sessions` have
  all three types and check what the handlers do once they can read a workflow; in the
  other runs no one drops. A drop that raises touches nothing but its own
  `pc`, so an empty registry only removes behaviour from the tables, the queue, Slack and
  GitHub. The theorems hold for every `StateClasses`, `DropsFreeTheUser` among them: `DroppedIsFreed` is about
  drops that return, and says of one that raises only that a state class was missing. In the deployed process
  every drop of a stored workflow raises, so there `DroppedIsFreed` says what a drop does that finds no record;
  `DropFails` shows that a drop which raises does not free its user.
- The modals open for a reject are a set of workflows: two modals of one workflow count as one. The second
  submission is then a press of reject and a submission, so no sequence of events is lost.
- In `AgentServers` the variables `concurrent` (local server or Lambda) and `faults` (the awaits
  that raise) keep the value they start with. An agent is the server it reads through (`Servers`), and an event the
  list of its agents (`AgentsOf`, from `executor._MAP` along `GRAPH`). A failing `connect` of
  the SDK closes what it opened; `cleanup` closes the session before its await returns,
  or raises, which `disconnect` suppresses, and may then leave it open.
- In `IssueDrop` the id `field::position` is the pair, and an entry is its text. In `IssueTemplates` an
  entry, or a heading, is one token of the text made of it, and sections are cut after `SectionLimit`
  tokens: the cut is that of `_section_blocks`, the unit is not. Labels, markdown and emoji are left out.
- In `ModalInput` what is typed is a sequence of lines of tokens: blanks, bullet marks and words.
  `_parse_bullets` strips marks from the left of a line only, so a word that itself begins with a
  mark, as `-x` does, loses it; that is how the code is, and `PromptKeepsTheWords` is about the words.
- `Conversation` follows one person through one screen after the other; what the workers do
  between two screens, and two presses of one button, are the subject of `Barlow`.

### Mutants

A definition `X_Y` that stands just before `X` is `X` with a plausible bug `Y`: a
dropped guard, a forgotten field, a swapped order. No specification uses one.
With the body of `X` replaced by it, the run and property that `PROJECT.json`
pairs it with fail; so each property notices at least one bug of the code it is
about.

## 3. What TLC checks

| run | what it adds to the others | result |
|---|---|---|
| `Filing` | request, decision, reject, accept, a worker that dies, its redelivery: `HumanInTheLoop`, `WaitingIsAnswerable`, `CompletedAsRecorded`, `DoneIsDone`, and the refinement `FilesAsPromised` (every step of the system is a step of `IssueFiling` or a stutter) | holds |
| `Errors` | as deployed, with a crash, an exception anywhere, a duplicate delivery and a drop that raises: `ProcessedByOne`, `OneIssuePerEvent`, `SessionReleased`, `UnacquiredIsKept` | holds |
| `Records` | a request, then two decisions (the same button twice, or two buttons) or a decision and an accept, and a drop write one record at the same time, and two loads miss the last write: `WaitingIsAnswerable`, `CompletedAsRecorded`, `HumanInTheLoop`, `DoneIsDone`, `SessionReleased`, `DroppedIsFreed` | holds |
| `Sessions` | two users, who also press each other's buttons, two workflows, a type without a graph, `/drop`, TTL expiry: `TypeOK`, `SessionNamesOwnWorkflow`, `SessionReleased`, `DroppedIsFreed`, `WaitingIsGuarded` | holds |
| `Progress` | liveness with a worker that may die: `EventsAreDisposedOf`, `RunningEnds`, `EndedGivesSessionBack`; and the measure behind it, `InvocationsEnd` | holds |
| `LocalServer` | four tasks at their awaits on one shared object, an interaction delivered twice, an await that raises: `TypeOK`, `OneIssuePerEvent`, `WaitingHasButtons`, `NobodyLeftRunning`, `SessionGivenBack`, `OnlyCallsRaise`, and the refinement `FilesAsPromised` | holds |
| `AgentServers` | three events of a warm Lambda, or of the local server at once, any awaits failing: `TypeOK`, `RunsConnected`, `NothingLeftConnected`, `StaleNamesAreCleared` | holds |
| `Conversation` | every form, message and modal, every template of up to two entries per field, every set of boxes: `EventsNameTheirWorkflow`, `PromptKeepsTheWords`, `FiledIsShown`, `DropsTheTicked` | holds |
| `TwoStarts` | `OneActivePerUser` | violated |
| `TwoPresses` | `OneIssuePerProposal` | violated |
| `LostEvent` | `NoEventIsLost` | violated |
| `DropFails` | `DropFreesTheUser`, with the registry of the deployed Ack Lambda | violated |

The four violations are disagreements between the documentation and the code:

- *Two workflows of one user.* `readme.md:108` says one at a time per channel and
  user. `start` checks the session and sets it several awaits later; two
  submissions taken by two workers both pass.
- *Two presses, two issues.* `workflow.md:162` says that pressing a button twice is
  processed once. The dedup id is the `action_ts`, which every press has anew.
- *An event vanishes.* `infra.md:98` says that the DLQ holds the events that failed
  twice. When a worker dies after `try_acquire`, the redelivery finds PROCESSING,
  is skipped as a duplicate and deleted: it is neither processed nor in the DLQ.
- *A drop fails.* `readme.md:106` says that `/drop` cancels the workflow in progress. In the
  deployed Ack Lambda `from_item` (`workflow_instance.py:84`) raises `KeyError` for every
  workflow type, since nothing it imports registers a state class; the handler ends before
  the save and the clear, and the user is refused a new request until the workflow ends or
  its session expires. The tests do not see it: they mock the repository, and their
  `conftest.py` imports the state module.

Some further divergences have no run of their own. `workflow.md:334`-`336` draw COMPLETED,
CANCELLED and FAILED as final, but `resume` overwrites any status, so an event already queued, or a
button of an ended workflow, brings it back to life and may file its issue. An accept on
the message of an older draft files the draft the record holds now. `doc.md:244` says that
CANCELLED releases the session, but the drop button's handler clears the session of whoever
presses it, not the owner's; `SessionReleased` excepts a workflow that another user has dropped.
In the local server
`_ensure` may find a name in `_connected` after another event's `disconnect` has closed the
session and before it has cleared the set, and then connects nothing; that is why
`RunsConnected` is about the Lambda. `workflow.md:28` and `:32` place the session check and the
idempotency check in the Ack Lambda, the code has both in the worker; the TTL shortening
`workflow.md` describes does not exist; `workflow.md:232` has a button that sends `drop_restart`,
the code has `issue_drop`; and the executors of fix and refactor pass `readProject`'s coroutine
without awaiting it, but no step calls them.

### Why some properties need what they assume

`WaitingIsAnswerable` is not obvious from the code: `chat_update` by one worker
removes buttons while others save the same record. It holds because only
`SaveWaiting` writes WAITING, each time with a message of its own event; a worker
can remove that message's buttons only with a copy it loaded after that save; and
`resume` has then stored RUNNING over WAITING, so that by the time the buttons go
nobody is left who would write the old record back as it was (the mutant
`SaveResumed_NotSaved` shows the difference). A drop in between writes CANCELLED.
The draft in the property rules out that a copy saved late pairs a message with
another draft. An expiry could only take the record away.

`DoneIsDone` asks that no record expires. `_process` marks an event done after any return of `resume`,
also when it found no workflow or no entry in `RESUME_MAP`; without expiry it finds both, since a button
exists only for a stored workflow of type feat. Once the record has expired, a press is marked done and
nothing happens. A load that misses a write finds one all the same: a button exists only after the second
save of its workflow, since the loop saves after every CONTINUE step. Were only the wait steps to
save (the mutant `ContinueStep_NotSaved`), a quick press would be lost. `UnacquiredIsKept` stops at `try_acquire`, where `LostEvent` begins.

`WaitingIsGuarded` has to except every end and every drop of the user, whichever workflow they are about:
`clear` deletes the session of its key, whatever it names. A workflow that ends late, or whose message's drop button is
pressed late, takes away the session of the next one, and the user may start another beside it. That is what the code does;
no property here says that it does not happen. What the property says is that nothing else opens that way: a worker refused in `start` (the
mutant `RefuseStart_SessionCleared`), a resume, a step that waits, an exception, a death, and everything other users do, their drops of
this user's workflow included, leave the session of a user whose workflow waits alone. The start whose worker dies between
the save and the session is no exception either, since its workflow never gets
beyond RUNNING.

`WaitingIsAnswerable` needs no consistent read either: a load that misses a write can bring back a message whose
buttons are gone only together with a status that `SaveResumed` overwrites.

In the local server the same promise, `WaitingHasButtons`, rests on something else. There is
no copy that could be saved late, but a task may find any step, draft and status on the object
after an await. The code sets COMPLETED before it awaits `chat_update`, with the
`slack_message_ts` it has read before, and WAITING together with a message of its own.
`CompletedAsRecorded` does not carry over: two tasks on one object may each file, and the
url of one and the COMPLETED of the other meet in the object.

`StaleNamesAreCleared` excludes a failing `connect`: two events of the local server may
connect the same server at once, and the one that fails then closes the session the other
has put in `_connected`. `NothingLeftConnected` excludes a failing
`cleanup`, which may leave a session behind that `disconnect` forgets. `RunsConnected` needs
neither exclusion but fails in the local server, where one event disconnects all.

`RunningEnds` and `EndedGivesSessionBack` except workflows one of whose events was
abandoned: a worker died or raised on it, the event is PROCESSING and no worker
has it. The code never recovers such a workflow; it expires after 24 hours. The
exception names the events of that workflow only, so a crash elsewhere excuses
nothing. `SessionReleased` makes the same exception, and is about quiet states:
while a drop is between its two writes the property need not hold. `NobodyLeftRunning` and
`SessionGivenBack` except a workflow one of whose tasks raised, in the local server.

### Bounds

`MaxReceiveCount = 2` is the deployed value (`infra.md:90`). Each run has one or
two workflows, one or two users, two workers and three or four events: a request,
a decision and an answer to the draft reach the last step of `GRAPH` (`Errors`, `Records`); one more is an
event to spare (`Filing`), which is what a stale press besides, or a reject and then an accept, needs. In
`Records` no event is spare: with one workflow its races are those of two decisions, or of a press with the drop
and with the loads that miss a write; a second decision and then an accept are left to `Filing` and to the proofs. `Sessions` and `Progress` reach the end by
`reject_duplicate`, in two events. Two workers are enough for every race of two; a
race of three copies is beyond the runs; what is proved below has no bound. Faults come from `Budget`: one of a kind per
behaviour, at any point. `IdsSuffice` limits submissions to the number of ids, as
`create()` would otherwise find none left. `Choices`, `Findings` and `Comments`
choose the inputs that lead to different code: with and without a relation, with
and without additional requirements; where `Comments` is empty no one submits a
reject, and `PressReject` leaves the modal closed. Every run ends when the events are used up,
so deadlock is not checked; `EventsAreDisposedOf` shows that what is left then is
an empty queue and idle workers. `AgentServers` has three events, so that one can find what
two others left or are doing, and every kind of event in any order. In `LocalServer` the users may
submit one request more than there are `WorkflowIds` (a bound in `SubmitRequest`), so that one
can be refused while the others run; `Errors` and `Resends` are its budget; four events let two tasks on one
workflow overlap, from its start to its issue. `MaxStale` is two: one miss each for two
copies that then race. `Conversation` has two workflows, users and channels, so that
a mix-up shows; two texts and up to two entries per list, so that entries can be equal and positions
differ; and a `SectionLimit` of three, which cuts messages into whole and partial sections.

Ids, users, events, workers and invocations are never compared but for equality,
so the larger runs of safety properties use symmetry; `Progress`, which checks liveness, does
not.

### Fairness

Weak fairness of `WorkerStep(p)` for every worker and of `DropStep(a)` for every
drop: SQS keeps invoking the Worker Lambda while a message is visible, and an
async handler that neither dies nor raises runs to its end. Weak fairness is
enough since no other process can disable a worker's next step for ever: its guards
read its own `pc`, and of the tables only which branch to take. Nothing is assumed
of users, crashes, exceptions, duplicates or expiry.

## 4. What TLAPS proves

Assumptions: `NoneAssumption` and `NoneIsNoRecord` (the value for "absent" is no id
and no record), `BoundsAssumption` (`MaxReceiveCount` is positive, budgets are
natural numbers), `InputsAssumption` (the inputs are among those the handlers
know), for the local server `LocalAssumption`, which says the same of its constants, and `StaleAssumption`
(`MaxStale` is a natural number). For `Conversation`: `InputAssumption` (blanks, marks and words are different tokens, ids are ids),
`LimitAssumption` (a section has room for something) and `HeadingAssumption` (a heading is not an entry's text). TLC
evaluates each of them in the runs of the modules that have it. Nothing is assumed of the number
of workflows, users, events, workers or faults.

`Workflow_proofs` has the lemmas both systems need: `NewInstance`, `Resumed`, and `ApplyOutput` with
`OnContinue` make records from records and keep id and key; `issues`, seen as `IssueFiling` sees
it, is a sequence to which a POST appends.

**`TypeCorrect`: `Spec => []TypeOK`.** `TypeOK` alone is not inductive: `SaveResumed` writes
`worker[p].inst`, of which the type only says that it is a record or `None`, and
`SetRelation` indexes `issues`. `TypeInv` adds

- `EventInv`: a queued event was sent; a start event has a key, any other a workflow;
- `WorkerInv`: a busy worker has an event that was sent; at `checkSession` and `create` it
  is a start event, at `load` it is not; from `setSession` on the worker holds a record;
  at `relate` the issue exists;
- `DropInv`: a begun drop has a key and a workflow, at `save` a record;
- `MessageInv`: every copy of a workflow, stored or held, that names a message names one
  that was posted. `NotifyEnd` needs it to edit that message.

The proof has a lemma per group of actions (`WorkerKeepsTypeInv`, `UserKeepsTypeInv`,
`DropKeepsTypeInv`, ...), each with one step per action; the frames `WorkerFrame` and
`MessageFrame` carry the other workers and copies along.

**`OneProcessor`: `Spec => []ProcessedByOne`** and **`AtMostOneIssue`:
`Spec => []OneIssuePerEvent`.** The invariant `OnceInv`: a worker past `try_acquire` has its
event PROCESSING; no two such workers have the same event; the event of an issue was
acquired; a worker whose event has an issue is past the POST (`AfterPost`), and from there
no step leads back to the loop; no two issues have one event. The steps of a worker are
classified by `Moves`: it leaves the try block, enters it by a `try_acquire` that
succeeded, runs on inside it, or posts an issue. Crashes and exceptions only leave. That
PROCESSING is never taken back is what the proof rests on, and what loses an event in the
run `LostEvent`: the two are one design decision.

**`SystemFilesAsPromised`: `Spec => FilesAsPromised`.** The whole system implements
`IssueFiling`, under the mapping at the end of `Barlow`. It uses `TypeInv`, `OnceInv` and
`FilingInv`:

- `IdInv`: the record under a key has that key as its id, so a worker resumes the workflow
  its event names;
- `ChainInv`: a worker's copy is of that workflow, and the worker is before
  `create_github_issue` only with an accept event, as `RESUME_MAP` sends no other event
  there and no CONTINUE node leads there;
- `MsgInv`: an event has a message only once it was acquired, and its worker is past the
  post: no message is ever posted over another, so `Proposed` only grows.

Three steps move the abstract state: the post of a wait_confirmation message proposes, the
send of an accept event accepts (its workflow was proposed: that is the message whose button
was pressed), and the POST files; that no other issue has this event is `OnceInv`. Every other action is
shown to leave all three alone.

**What the records say: `BarlowRecords_proofs`.** Every save puts back a whole record, so an invariant
about what is stored has to be one about every copy that may be stored: `Copies` are the records in
the table, those in the hands of a worker (`Held`) and those a drop is about to save. `NextDoes`
first reduces a step to what it does to copies, sessions, messages and issues: a worker `Creates`,
`Starts`, `Loads`, `Saves`, `Thinks`, `Shows`, `Stops`, `Files`, `Relates`, `Notifies` or `Quits` (each crash and
exception is a `Quits`); a user `Asks`; a drop `Drops`; a TTL `Expires`. The lemmas `NewCopies`, `DropCopies` and
`OldCopies` say where the copies after a step come from. Each theorem then has an invariant of its own
over these kinds of step:

- `SessionsNameTheirOwn` (`OwnInv`): a copy is of a created workflow, all copies of one workflow have one
  user, and a session names a created workflow of its key. An expired record keeps its id taken.
- `DropsFreeTheUser` (`FreshInv`), for every registry: until its worker has set the session, nothing
  but that worker and its record names a new workflow, so no drop can be under way for it; and only that
  await sets a session. What a drop has cleared therefore stays cleared.
- `CompletedMeansFiled` (`StepInv`, `DoneInv`): a pc of a worker tells the status of its copy. A copy that is
  COMPLETED is `Recorded`, and the issue a worker is about to relate is one no COMPLETED copy names, so the
  relation is never changed after the fact.
- `HumansDecide` (`HumanInv`): the draft of a copy comes from a decision or a reject; a proposal, an open
  modal and a reject each need a decision, an accept needs a proposal, an issue both. Events and posted
  messages are never taken back.
- `WaitingHasButtons` (`WaitInv`): between the post and the save, no other copy names the new message; a
  copy names only messages of its workflow; and a worker that has saved its copy under another status knows
  that no stored WAITING names that copy's message. That is why taking the buttons off can hurt no one.
- `EndedSessionsAreReleased` (`ReleaseInv`): a session at an ended workflow has a worker or a drop that is about to
  clear it (`Releasing`), or one of the excuses the property names (`Excused`): an event lost by a
  worker that died or raised, a drop that died, a drop by another user. When all is quiet only the excuses are left.
- `WaitingKeepsGuarded` (`EndInv`, `GuardInv`): a worker on its way to clear a session works on a start of a type without
  a graph, or on an accept or a reject_duplicate (`EndInv`); it has acquired that event, and it clears the key of the
  workflow's own user, so its clear is one the property excepts (`EndingIsEnd`). Of every copy, until something expires: its user has a
  session, or an end or a drop gave it back, or nothing names the workflow yet, since `start` has not set the session
  (`Guarded`). A workflow that waits is named by its message, so the last does not apply to it.
- `PressesTakeEffect` (`EffectsInv`): see below.

**`UnacquiredStays`, `EveryInvocationEnds`, `PressesTakeEffect`.** What becomes of a press, from the queue to
`mark_done`.

- `UnacquiredIsKept` is inductive together with `TypeInv`: a step that takes a delivery off the queue puts its event
  into a worker's hands, a death before `try_acquire` returns it to the queue or the DLQ, and the skip of
  a duplicate finds an event that is not absent.
- `InvocationsEnd` is an action property: `AwaitsLeft` bounds the awaits a worker still has before it, from ten
  at `received` to none, and every step of a worker makes it smaller. `TurnsDecrease` is the lemma about
  `GRAPH`: each CONTINUE node leads to one with fewer turns left. It is the measure of the
  liveness argument; that some worker goes on is the fairness TLC assumes.
- `DoneIsDone` needs two invariants, both under `NoExpiry`. `FeatInv`: a created workflow stays stored, its copies have its
  type, and whatever Slack shows or a user presses is of type feat, so that no resume returns at once.
  `EffectInv`: a worker before its effect is at a step from which the effect of its press follows
  (`Towards`: an accept at `create_github_issue`, a reject or a decision to go on at a drafting step, or at `wait_confirmation` with
  the draft it made), and after it the effect is there (`Effect`, for the pcs in `Acted`). `ReachesMarkDone` lists the four ways to
  `mark_done`; `MarksWhatActed` shows that none of them skips the effect. An effect, once there, stays: issues and posted
  messages are never taken back.

**With stale reads: `StaleReads_proofs`.** A load that misses a write brings back the version this write replaced, so
what the proofs above know of every copy has to stay true of one that is no longer stored. `Carried` is that
part of it: `Settled` (a COMPLETED version names an issue no worker will touch), `Placed` (its message was posted for its
workflow, and by no worker that is about to save), `Owned` (its workflow was created, for the same user as all other
copies) and who asked for its draft (`Drafted`). `OlderInv` says that each version in `older` is of the workflow it is
kept for and `Carried`; `StaleInv` is `OlderInv` with all invariants of `Barlow`. The proof has three parts: a
step of `Barlow` keeps what was carried (a version it replaces is a copy, so it starts out carried); a read that misses
a write does what a read of a carried record does, and keeps every invariant of `Barlow`; and a read changes
nothing else. The properties `Records` checks, and those of the same invariants, then follow for `StaleSpec` as they do for `Spec`; `WaitingIsGuarded`
is stated and proved for consistent reads only.
`StalePressesTakeEffect` needs `KeptInv` besides: as long as a read may miss a write, a workflow either
has an older version, of its type, or is `Original`: no copy has left the first step, and no message, modal or
event is about it. So the load of a press always finds a record and its `RESUME_MAP` entry (`ReadByResumes`).

**`LocalTypes`: `Spec => []TypeOK` of `LocalServer`.** Here `TypeInv` adds

- `IdInv`: the object under a key has that key;
- `EventInv`: an acquired or waiting event was sent, with a key or a workflow as its type asks;
- `TaskInv`: a task that is suspended has an object; at `agent` and `posting` it is in a node of
  that signal; at `posted` its message has buttons; at `relating` its issue exists; at `notifying` the
  message it will edit was posted by a task that has ended;
- `LastInv`: the last message of an object was posted for it, by a task that has ended.

`NextCases` splits a step once and for all: the four actions that run the loop (`StartWorkflow`, `Resume`,
`AgentAnswers`, and what they share) become one case, `Continues(d, inst, ses)`, that every later proof
treats once. All other theorems of `LocalServer_proofs` use it.

**What the local server promises.** Each property has an inductive invariant of its own over `TypeInv`.

- `LocalOneIssuePerEvent` (`IssueInv`): the task that filed an issue is past the POST and does
  not come back.
- `LocalFilesAsPromised` (`FilingInv`): a task reaches the node that files only with an accept, a message
  is never posted over another; a step then maps as in `Barlow`.
- `LocalWaitingHasButtons` (`StatusInv`): besides the property itself, a task that is about to take the
  buttons off a message finds the object no longer WAITING with that message: COMPLETED was set before,
  and a later WAITING came with a message of another event.
- `LocalNobodyLeftRunning` (the same `StatusInv`): a suspended task on an object accounts for RUNNING; it ends only after it
  has set another status.
- `LocalSessionGivenBack` (`SessionInv`): a session names a stored workflow of its own key; a
  finished one has a task about to clear the session, or one that raised.
- `LocalOnlyCallsRaise` (`CallsInv`): a finding is read in the action that stores it; a workflow whose draft is about to
  be shown, was shown or was accepted has a draft, and no step takes a draft away; so the tasks that
  raised are counted by the budget. Over DynamoDB this fails: a copy saved late takes it away.

**`AgentServers_proofs`.** With events one after the other, `SerialInv` says that at most one
task is active, that without one nothing is connected, and that outside a `disconnect`
the names in `_connected` have sessions: `LambdaRunsConnected`. `NoLeakInv` adds the converse,
that a session has a name or is about to be cleaned up: `LambdaLeavesNothing`, if `cleanup`
does not raise. `StaleNamesGo` holds for concurrent events too, if `connect` does not raise. All
three conditions are part of the properties: the mode and the failing awaits are variables
that never change.

The invariants were also checked by TLC on small instances before they were proved.

**`Conversation_proofs`.** What is typed, shown, ticked and filed are lists of any length, made by `FlattenSeq`, `Where` and
recursive functions of the forms and templates. The induction theorems of the library cannot be used for
them, but an induction over one set can be written out: the set of lengths for which a claim fails has a least
element (`Less` is well-founded), and what holds there follows from the one before (`NatSetInduction`, `SeqSetInduction`). The first part of the module does this for
the few facts the rest uses: what `FlattenSeq` of two parts is, and that it commutes with taking a sublist and
with `Where`. Then

- `AnswersNameTheirWorkflow` (`AboutInv`): every button of the screen carries the id of the workflow its message is about,
  and so does the `private_metadata` of an open modal;
- `DraftsShowWhatIsFiled` (`DraftAsBuilt`): the sections of a message cover its text without gap or overlap (`Begin`, `End`), for
  every `SectionLimit`, and the text holds the headings and entries of the payload in their order;
- `OnlyTheTickedIsDropped` (`DropAsBuilt`): the ids of `droppable_items` are the positions of the entries, and `drop_items`
  keeps exactly the entries whose ids are `Unticked`;
- `PromptsKeepEveryWord` (`PromptInv`): stripping a line of blanks and marks, and leaving out empty lines, takes no
  word out of a field, and the fields come under their labels in the order of the form.

Every safety and action property a passing run checks is a theorem. Model-checked only are the liveness
properties `EventsAreDisposedOf`, `RunningEnds` and `EndedGivesSessionBack`, as liveness under fairness is
outside what the proof system does.

## 5. Not modelled

- *Prompts and the answers of the agents*: calls of a hosted model; only that they answer,
  or fail, matters. What the executors pass to the model is text.
- *Reply helper* (`_reply.py`): an older copy of `payload_mapper.py`; no handler imports it.
- *`scripts/local_invoke.py`*: it imports `src.domain.pending` and `src.lambda_worker`, which do not exist
  any more, so it cannot run.
- *The `bc_*` builders of `payload_mapper.py`*: nothing calls them, and no handler is registered for the
  actions of their buttons.
- *Ack entry point and router, configuration, logging, deployment*: translation of HTTP events and
  wiring; no state of the system.

## 6. Plan

Done, in this order: the composition of the two Lambdas, the queue, the tables, Slack and GitHub, with its
faults; the proofs of its types, of one processing and one issue per event, of the refinement, and of what
its records and sessions say; the MCP servers; the local server over the shared objects, and its
promises proved; stale reads, and the same promises proved over them; messages, modals, templates and the
issue drop, and what they show and keep proved; what becomes of a press.

Left:

1. Expiry of the pending action, with a DLQ that is drained by hand.
2. The lineage of feedback: `user_feedback` is kept when the next event carries none.
3. A measure for the queue as `AwaitsLeft` is one for a worker: that deliveries, retries and redeliveries are
   used up, which with fairness gives `EventsAreDisposedOf`.
