------------------------------ MODULE ModalInput ------------------------------
(***************************************************************************)
(* The forms of /feat, /fix and /refactor: controller/modal_templates.  A  *)
(* form has the fields of _FIELDS; what the user typed into them becomes   *)
(* the user_message of the workflow, the only thing its agents are told.   *)
(*                                                                         *)
(* A value is a sequence of lines, a line a sequence of tokens: a blank,   *)
(* a bullet mark ("-" or the round one) or a word.                         *)
(***************************************************************************)
EXTENDS Comprehension

Blank == " "
Mark  == "-"

(* a _ModalField, and how to_prompt renders it: as it is, or as bullets *)
Field(id, required, render) ==
  [id |-> id, required |-> required, render |-> render]

FeatModalInput ==
  <<Field("feature_name", TRUE, "text"),
    Field("background", TRUE, "text"),
    Field("features", TRUE, "bullets"),
    Field("constraints", TRUE, "bullets"),
    Field("design_requirements", FALSE, "bullets")>>

FixModalInput ==
  <<Field("bug_title", TRUE, "text"),
    Field("symptom", TRUE, "text"),
    Field("reproduction", TRUE, "bullets"),
    Field("expected", TRUE, "text"),
    Field("related_areas", FALSE, "bullets")>>

RefactorModalInput ==
  <<Field("target_name", TRUE, "text"),
    Field("background", TRUE, "text"),
    Field("as_is", TRUE, "bullets"),
    Field("to_be", TRUE, "bullets"),
    Field("constraints", FALSE, "bullets")>>

Forms ==
  [feat |-> FeatModalInput, fix |-> FixModalInput,
   refactor |-> RefactorModalInput]

FormKinds == DOMAIN Forms

(* modal_blocks: Slack lets only an optional block be left empty *)
ModalBlocks(kind) ==
  [f \in DOMAIN Forms[kind] |->
     [blockId |-> Forms[kind][f].id, optional |-> ~ Forms[kind][f].required]]

BlockIds(kind) == {b.blockId : b \in ToSet(ModalBlocks(kind))}

(* from_view: a block left empty has no value *)
FromView_RequiredOnly(kind, values) ==
  [id \in BlockIds(kind) |->
     IF \E b \in ToSet(ModalBlocks(kind)) : b.blockId = id /\ ~ b.optional
       THEN values[id] ELSE <<>>]

FromView(kind, values) ==
  [id \in BlockIds(kind) |-> IF id \in DOMAIN values THEN values[id] ELSE <<>>]

-----------------------------------------------------------------------------
(* _parse_bullets *)

OtherThan(c, line) == {i \in DOMAIN line : line[i] # c}

Strip(line) ==
  LET kept == OtherThan(Blank, line)
  IN  IF kept = {} THEN <<>> ELSE SubSeq(line, Min(kept), Max(kept))

LStripMarks(line) ==
  LET kept == OtherThan(Mark, line)
  IN  IF kept = {} THEN <<>> ELSE SubSeq(line, Min(kept), Len(line))

ParseBullets(raw) ==
  LET items == [i \in 1 .. Len(raw) |-> Strip(LStripMarks(Strip(raw[i])))]
  IN  Where(items, LAMBDA item : item # <<>>)

(***************************************************************************)
(* to_prompt: a labelled section per field, in the order of the form; the  *)
(* optional one only if something else than blanks was typed into it.      *)
(***************************************************************************)
Section(field, raw) ==
  [label |-> field.id,
   lines |-> IF field.render = "bullets" THEN ParseBullets(raw) ELSE raw]

IsBlank(raw) == \A i \in DOMAIN raw : Strip(raw[i]) = <<>>

ToPrompt(kind, input) ==
  LET shown == Where(Forms[kind],
                     LAMBDA f : f.required \/ ~ IsBlank(input[f.id]))
  IN  [s \in DOMAIN shown |-> Section(shown[s], input[shown[s].id])]
=============================================================================
