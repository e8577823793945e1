------------------------------ MODULE IssueDrop ------------------------------
(***************************************************************************)
(* controller/issue_drop.py: the items of an issue template a user may     *)
(* take out, shown as checkboxes (build_drop_modal), and the template      *)
(* without them.  An item is identified by its field and its position; the *)
(* string "field::position" is the pair, as no field contains "::".  What  *)
(* an entry shows is its text, whatever the entry is made of.              *)
(***************************************************************************)
EXTENDS IssueTemplates

(* the fields droppable_items lists, in order *)
DroppableFields ==
  [feat     |-> <<"new_features", "domain_rules">>,
   refactor |-> <<"goals", "domain_rules", "domain_constraints">>,
   fix      |-> <<"problems", "implementation", "domain_rules",
                  "domain_constraints">>]

ItemId(field, index) == <<field, index>>

(* [v for i, v in enumerate(items) if _item_id(field, i) not in dropped_ids] *)
Drop_FromOne(items, field, droppedIds) ==
  FlattenSeq([i \in DOMAIN items |->
    IF ItemId(field, i) \in droppedIds THEN <<>> ELSE <<items[i]>>])

Drop(items, field, droppedIds) ==
  FlattenSeq([i \in DOMAIN items |->
    IF ItemId(field, i - 1) \in droppedIds THEN <<>> ELSE <<items[i]>>])

ToDroppable(items, field) ==
  [i \in DOMAIN items |-> [id |-> ItemId(field, i - 1), text |-> items[i]]]

DroppableItems(t) ==
  FlattenSeq([f \in DOMAIN DroppableFields[t.kind] |->
    ToDroppable(t.entries[DroppableFields[t.kind][f]],
                DroppableFields[t.kind][f])])

DropItems(t, droppedIds) ==
  [t EXCEPT !.entries =
     [f \in DOMAIN @ |->
        IF f \in ToSet(DroppableFields[t.kind])
          THEN Drop(@[f], f, droppedIds) ELSE @[f]]]
=============================================================================
