------------------------------ MODULE Conversation ------------------------------
(***************************************************************************)
(* What the user sees and what the program makes of the answer: the forms  *)
(* and modals controller/handler/slash.py opens, the messages with buttons *)
(* app/slack/payload_mapper.py builds, and the events the handlers put on  *)
(* the queue.  Between a message and the event that answers it only Slack  *)
(* remembers anything: which workflow a button is about travels in its     *)
(* value and in the private_metadata of a modal.                           *)
(*                                                                         *)
(* The module follows one person through one screen after the other; what  *)
(* the workers do in between is in Barlow.                                 *)
(***************************************************************************)
EXTENDS ModalInput, IssueDrop

CONSTANTS
  WorkflowIds, Users, Channels,
  None,
  Templates,    \* the drafts of the workflows
  Words,        \* what is not a blank or a bullet mark
  Values,       \* what may be typed into a block
  SectionLimit  \* _SECTION_LIMIT, in entries and headings

ASSUME LimitAssumption == SectionLimit \in Nat \ {0}

ASSUME InputAssumption ==
  /\ \A t \in Templates : IsTemplate(t)
  /\ Words \intersect {Blank, Mark} = {}
  /\ Values \subseteq Seq(Seq(Words \union {Blank, Mark}))

VARIABLES
  screen,  \* what Slack shows
  person,  \* whose it is: the user, the channel, and the workflow asked about
  ticked,  \* the boxes ticked in a drop modal
  sent     \* the last answer handed on, and what it answers

vars == <<screen, person, ticked, sent>>

-----------------------------------------------------------------------------
(* payload_mapper.py                                                       *)

(* text[i:i + limit] for i in range(0, len(text), limit) *)
SectionBlocks_WholeOnly(text) ==
  [i \in 1 .. Len(text) \div SectionLimit |->
     SubSeq(text, (i - 1) * SectionLimit + 1, i * SectionLimit)]

SectionBlocks(text) ==
  [i \in 1 .. (Len(text) + SectionLimit - 1) \div SectionLimit |->
     SubSeq(text, (i - 1) * SectionLimit + 1,
            IF i * SectionLimit < Len(text) THEN i * SectionLimit
                                            ELSE Len(text))]

Mention(user) == <<<<"user", user>>>>

Button(action, value) == [action |-> action, value |-> value]

BuildIssueBlocks_WithoutValue(user, t, w) ==
  [sections |-> SectionBlocks(Mention(user) \o SlackFormat(t)),
   buttons  |-> {Button(a, None) :
                   a \in {"issue_accept", "issue_reject", "issue_drop"}}]

(* without a workflow_id the buttons have no value *)
BuildIssueBlocks(user, t, w) ==
  [sections |-> SectionBlocks(Mention(user) \o SlackFormat(t)),
   buttons  |-> {Button(a, w) :
                   a \in {"issue_accept", "issue_reject", "issue_drop"}}]

(* an anchor is shown only if it has an issue number *)
BuildIssueDecisionBlocks(user, anchored, w) ==
  [sections |-> SectionBlocks(
                  Mention(user) \o <<<<"state", "heading">>>>
                    \o IF anchored THEN <<<<"anchor", "heading">>>> ELSE <<>>),
   buttons  |-> {Button(a, w) :
                   a \in {"decision_create_new_independent",
                          "decision_extend_existing",
                          "decision_block_existing",
                          "decision_reject_duplicate"}}]

Metadata(w, channel, user) ==
  [workflowId |-> w, channel |-> channel, user |-> user]

BuildRejectModal(w, channel, user) ==
  [at |-> "reject", meta |-> Metadata(w, channel, user)]

BuildDropModal(w, channel, user, t) ==
  [at |-> "drop", meta |-> Metadata(w, channel, user),
   options |-> DroppableItems(t), template |-> t]

-----------------------------------------------------------------------------
(* slash.py                                                                *)

(* _modal_view *)
ModalView(kind, channel) ==
  [at |-> "form", kind |-> kind, blocks |-> ToSet(ModalBlocks(kind)),
   meta |-> Metadata(None, channel, None)]

Channel == [at |-> "channel"]

Nobody == [user |-> None, channel |-> None, wf |-> None]

(* the decision each button of the decision message sends *)
DECISION_ACTION_MAP ==
  [a \in {"decision_reject_duplicate", "decision_extend_existing",
          "decision_block_existing", "decision_create_new_independent"} |->
     CASE a = "decision_reject_duplicate"       -> "reject_duplicate"
       [] a = "decision_extend_existing"        -> "extend_existing"
       [] a = "decision_block_existing"         -> "block_existing"
       [] a = "decision_create_new_independent" -> "create_new_independent"]

Open(s, user, channel, w) ==
  /\ screen' = s
  /\ person' = [user |-> user, channel |-> channel, wf |-> w]
  /\ ticked' = {}
  /\ sent' = None

Hand(answer) ==
  /\ sent' = answer
  /\ screen' = Channel
  /\ UNCHANGED <<person, ticked>>

Event(type, w, user, channel) ==
  [type |-> type, wf |-> w, user |-> user, channel |-> channel]

(* handle_feat, handle_fix, handle_refactor *)
OpenForm(kind, user, channel) ==
  Open(ModalView(kind, channel), user, channel, None)

(* Slack refuses the submission while a block that is not optional is empty *)
Submittable(values) ==
  \A b \in screen.blocks : ~ b.optional => values[b.blockId] # <<>>

(* handle_feat_submit, handle_fix_submit, handle_refactor_submit *)
SubmitForm(values) ==
  /\ screen.at = "form"
  /\ Submittable(values)
  /\ Hand([event  |-> Event("pipeline_start", None, person.user,
                            screen.meta.channel),
           kind   |-> screen.kind, typed |-> values,
           prompt |-> ToPrompt(screen.kind, FromView(screen.kind, values))])

(* a message of a workflow of some user, in the channel it was asked for,
   and the person who answers it *)
ShowDecision(w, owner, anchored, user, channel) ==
  Open([at |-> "message",
        blocks |-> BuildIssueDecisionBlocks(owner, anchored, w)],
       user, channel, w)

ShowDraft(w, owner, t, user, channel) ==
  Open([at |-> "draft", template |-> t,
        blocks |-> BuildIssueBlocks(owner, t, w)],
       user, channel, w)

(* the value of a button on the screen *)
ValuesOf(action) ==
  IF screen.at \in {"message", "draft"}
    THEN {b.value : b \in {b \in screen.blocks.buttons : b.action = action}}
    ELSE {}

Press(type, action) ==
  \E w \in ValuesOf(action) :
    Hand([event |-> Event(type, w, person.user, person.channel)])

PressDecision(action) == Press(DECISION_ACTION_MAP[action], action)

PressAccept == Press("accept", "issue_accept")

(* handle_drop: no event, the handler cancels the workflow itself *)
PressDrop == Press("drop", "issue_drop")

(* handle_reject opens the modal, handle_reject_submit reads it *)
PressReject ==
  \E w \in ValuesOf("issue_reject") :
    /\ screen' = BuildRejectModal(w, person.channel, person.user)
    /\ UNCHANGED <<person, ticked, sent>>

SubmitReject(additional) ==
  /\ screen.at = "reject"
  /\ Hand([event |-> Event("reject", screen.meta.workflowId,
                           screen.meta.user, screen.meta.channel),
           feedback |-> additional # <<>>])

(***************************************************************************)
(* The drop modal: the older way to drop, item by item.  Its builder and   *)
(* drop_items are still there, but no handler opens it.                    *)
(***************************************************************************)
OpenDropModal(w, t, user, channel) ==
  Open(BuildDropModal(w, channel, user, t), user, channel, w)

Tick(id) ==
  /\ screen.at = "drop"
  /\ ticked' = ticked \union {id}
  /\ UNCHANGED <<screen, person, sent>>

(* the modal is closed or the message passed over; or the answer is taken *)
Leave ==
  /\ screen # Channel \/ sent # None
  /\ screen' = Channel
  /\ person' = Nobody
  /\ ticked' = {}
  /\ sent' = None

-----------------------------------------------------------------------------
Init ==
  /\ screen = Channel
  /\ person = Nobody
  /\ ticked = {}
  /\ sent = None

Show ==
  /\ screen = Channel
  /\ sent = None
  /\ \E user \in Users, channel \in Channels :
       \/ \E kind \in FormKinds : OpenForm(kind, user, channel)
       \/ \E w \in WorkflowIds, owner \in Users, anchored \in BOOLEAN :
            ShowDecision(w, owner, anchored, user, channel)
       \/ \E w \in WorkflowIds, owner \in Users, t \in Templates :
            ShowDraft(w, owner, t, user, channel)
       \/ \E w \in WorkflowIds, t \in Templates :
            OpenDropModal(w, t, user, channel)

Answer ==
  \/ /\ screen.at = "form"
     /\ \E values \in [BlockIds(screen.kind) -> Values] : SubmitForm(values)
  \/ \E action \in DOMAIN DECISION_ACTION_MAP : PressDecision(action)
  \/ PressAccept \/ PressReject \/ PressDrop
  \/ \E additional \in Values : SubmitReject(additional)
  \/ /\ screen.at = "drop"
     /\ \E item \in ToSet(screen.options) : Tick(item.id)
  \/ Leave

Next == Show \/ Answer

Spec == Init /\ [][Next]_vars

-----------------------------------------------------------------------------
(***************************************************************************)
(* An answer is about the workflow whose message was answered, and comes   *)
(* from the user and the channel it was given in, through the value of the *)
(* button and the private_metadata of the modal: never is an event handed  *)
(* on that names no workflow, which _process would drop without a mark.    *)
(***************************************************************************)
EventsNameTheirWorkflow ==
  sent # None =>
    /\ sent.event.user = person.user
    /\ sent.event.channel = person.channel
    /\ sent.event.wf = person.wf
    /\ sent.event.type # "pipeline_start" => sent.event.wf \in WorkflowIds

(***************************************************************************)
(* The agents are told every word that was typed into the form, in the     *)
(* order it was typed and under the label of its own field, whatever       *)
(* blanks, bullet marks and empty lines stand around it (from_view,        *)
(* _parse_bullets and to_prompt of the three forms).                       *)
(***************************************************************************)
WordsOf(lines) ==
  FlattenSeq([i \in DOMAIN lines |->
    Where(lines[i], LAMBDA c : c \notin {Blank, Mark})])

KeepsTheWords(kind, typed, prompt) ==
  \A i \in DOMAIN Forms[kind] :
    LET id == Forms[kind][i].id
        section == Where(prompt, LAMBDA s : s.label = id)
    IN  WordsOf(typed[id]) =
          IF section = <<>> THEN <<>> ELSE WordsOf(section[1].lines)

PromptKeepsTheWords ==
  sent # None /\ sent.event.type = "pipeline_start" =>
    KeepsTheWords(sent.kind, sent.typed, sent.prompt)

(***************************************************************************)
(* Whoever accepts a draft has been shown all that GitHub is then given:   *)
(* the sections of the message, put together, say the title and the body   *)
(* of the issue in order, and no section is empty or over the limit        *)
(* (slack_format and _section_blocks against to_github_payload).           *)
(***************************************************************************)
Said(sections) ==
  Where(FlattenSeq(sections),
        LAMBDA c : c[1] # "user" /\ c[2] # "heading")

FiledIsShown ==
  screen.at = "draft" =>
    LET payload == ToGithubPayload(screen.template)
        title   == [i \in DOMAIN payload.title |->
                      <<"issue_title", payload.title[i]>>]
    IN  /\ Said(screen.blocks.sections) = title \o payload.body
        /\ \A i \in DOMAIN screen.blocks.sections :
             Len(screen.blocks.sections[i]) \in 1 .. SectionLimit

(***************************************************************************)
(* What is left to drop after drop_items is what was shown without a tick, *)
(* in the same order and nothing else: an id takes out the entry it was    *)
(* shown for, also when two entries say the same, and no field's ids touch *)
(* another field (drop_items against droppable_items).                     *)
(***************************************************************************)
TextsOf(items) == [i \in 1 .. Len(items) |-> items[i].text]

DropsTheTicked ==
  screen.at = "drop" =>
    TextsOf(DroppableItems(DropItems(screen.template, ticked))) =
      TextsOf(Where(screen.options, LAMBDA item : item.id \notin ticked))
=============================================================================
