------------------------------- MODULE Lists -------------------------------
(***************************************************************************)
(* The doubly linked lists of src/include/rtservice.h, as sequences: the   *)
(* node behind the list head is the first element.  A node is an element   *)
(* of one list at most once.                                               *)
(***************************************************************************)
EXTENDS Integers, SequencesExt

NoDup(s) == \A i, j \in DOMAIN s : s[i] = s[j] => i = j

\* rt_list_remove; on no list, a no-op.
Unlink(s, t) ==
  IF t \in ToSet(s) THEN RemoveAt(s, CHOOSE i \in 1 .. Len(s) : s[i] = t) ELSE s

\* rt_list_insert_before the node at place i, or before the head: at the end.
LinkAt(s, i, t) == IF i = 0 THEN Append(s, t) ELSE InsertAt(s, i, t)
=============================================================================
