----------------------------- MODULE IssueTemplates -----------------------------
(***************************************************************************)
(* The issue a workflow drafts: domain/feat, fix and refactor, each with   *)
(* its models/issue.py; what GitHub is given of it (to_github_payload) and *)
(* what Slack shows of it (slack_format of app/slack/payload_mapper.py).   *)
(*                                                                         *)
(* A template has a list of entries per field; a text field is a list of   *)
(* at most one.  What an entry is made of (the AS-IS and TO-BE of a goal,  *)
(* a problem and its suggestion) stays together and is abstracted.         *)
(***************************************************************************)
EXTENDS Comprehension

CONSTANTS
  Texts,     \* what an entry of a template may say
  MaxLength  \* bound: entries per field

(* no entry is taken for a heading *)
ASSUME HeadingAssumption == "heading" \notin Texts

(* the fields of each template, and the order to_github_body puts them in *)
FeatTemplate ==
  [texts |-> {"issue_title", "about", "goal", "additional_info"},
   lists |-> {"new_features", "domain_rules"},
   body  |-> <<"about", "goal", "new_features", "domain_rules",
               "additional_info">>]

RefactorTemplate ==
  [texts |-> {"issue_title", "about"},
   lists |-> {"goals", "domain_rules", "domain_constraints"},
   body  |-> <<"about", "goals", "domain_rules", "domain_constraints">>]

FixTemplate ==
  [texts |-> {"issue_title", "about"},
   lists |-> {"problems", "implementation", "domain_rules",
              "domain_constraints"},
   body  |-> <<"about", "problems", "implementation", "domain_rules",
               "domain_constraints">>]

TemplateOf ==
  [feat |-> FeatTemplate, refactor |-> RefactorTemplate, fix |-> FixTemplate]

Kinds == DOMAIN TemplateOf

FieldsOf(kind) == TemplateOf[kind].texts \union TemplateOf[kind].lists

IsTemplate(t) ==
  /\ t.kind \in Kinds
  /\ t \in [kind : {t.kind}, entries : [FieldsOf(t.kind) -> Seq(Texts)]]

Entries(t, fields) ==
  FlattenSeq([i \in DOMAIN fields |->
    [j \in DOMAIN t.entries[fields[i]] |-> <<fields[i], t.entries[fields[i]][j]>>]])

-----------------------------------------------------------------------------
ToGithubPayload(t) ==
  [title |-> t.entries["issue_title"],
   body  |-> Entries(t, TemplateOf[t.kind].body)]

(***************************************************************************)
(* slack_format: the parts in this order.  Every field but the title and   *)
(* about has a heading, a goal of a refactoring one of its own, which goes *)
(* with it; goal and additional_info are left out when empty.              *)
(***************************************************************************)
SlackFields ==
  [feat     |-> <<"issue_title", "about", "goal", "new_features",
                  "domain_rules", "additional_info">>,
   refactor |-> <<"issue_title", "about", "goals", "domain_rules",
                  "domain_constraints">>,
   fix      |-> <<"issue_title", "about", "problems", "implementation",
                  "domain_rules", "domain_constraints">>]

Heading(field) == <<field, "heading">>

Part(t, field) ==
  IF field \in {"issue_title", "about", "goals"} THEN Entries(t, <<field>>)
  ELSE IF field \in {"goal", "additional_info"} /\ t.entries[field] = <<>>
         THEN <<>>
  ELSE <<Heading(field)>> \o Entries(t, <<field>>)

SlackFormat(t) ==
  FlattenSeq([i \in DOMAIN SlackFields[t.kind] |->
                Part(t, SlackFields[t.kind][i])])
=============================================================================
