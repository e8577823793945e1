----------------------------- MODULE MCConversation -----------------------------
(***************************************************************************)
(* An instance of Conversation for TLC: the templates with every list of   *)
(* up to MaxLength entries, with and without the optional texts, and what  *)
(* is typed into the blocks of the forms.                                  *)
(***************************************************************************)
EXTENDS Conversation, TLC

Lists == UNION {[1 .. n -> Texts] : n \in 0 .. MaxLength}

AText == CHOOSE t \in Texts : TRUE

(* the texts a template has, all but the optional ones for sure *)
TextsOfTemplate(kind) ==
  {shown \in SUBSET TemplateOf[kind].texts : {"issue_title", "about"} \subseteq shown}

TemplatesOf(kind) ==
  {[kind |-> kind,
    entries |-> [f \in FieldsOf(kind) |->
                   IF f \in TemplateOf[kind].lists THEN lists[f]
                   ELSE IF f \in shown THEN <<AText>> ELSE <<>>]] :
     lists \in [TemplateOf[kind].lists -> Lists], shown \in TextsOfTemplate(kind)}

MCTemplates == UNION {TemplatesOf(kind) : kind \in Kinds}

(* nothing, an empty line between bullets, marks and blanks around words, a
   mark alone *)
MCValues ==
  {<<>>,
   <<<<Mark, Blank, "x">>, <<>>, <<Blank, Mark, "y", Mark, "z", Blank>>>>,
   <<<<Blank>>, <<Mark>>>>,
   <<<<Blank, Mark, Blank, Mark, "x">>>>}

Symmetric ==
  Permutations(WorkflowIds) \union Permutations(Users)
    \union Permutations(Channels)
=============================================================================
