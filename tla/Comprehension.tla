----------------------------- MODULE Comprehension -----------------------------
(***************************************************************************)
(* Python's [x for x in s if Test(x)], by which payload_mapper.py,         *)
(* issue_drop.py and the modal templates take entries out of a list: each  *)
(* element gives itself or nothing.  It is SelectSeq, put so that its      *)
(* definition is one the provers can expand.                               *)
(***************************************************************************)
EXTENDS Naturals, Sequences, SequencesExt

Where(s, Test(_)) ==
  FlattenSeq([i \in DOMAIN s |-> IF Test(s[i]) THEN <<s[i]>> ELSE <<>>])
=============================================================================
