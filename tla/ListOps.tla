------------------------------ MODULE ListOps ------------------------------
(***************************************************************************)
(* The doubly linked lists of include/skp/adt/list.h as sequences.  The    *)
(* modules use them for lists of waiters and of works, where an entry is   *)
(* on the list at most once.                                               *)
(***************************************************************************)
EXTENDS Integers, Sequences

(* Entry e is on list s. *)
Occurs(s, e) == \E i \in 1 .. Len(s) : s[i] = e

(* No entry is on list s twice. *)
Distinct(s) == \A i, j \in 1 .. Len(s) : s[i] = s[j] => i = j

list_add_tail(s, e) == Append(s, e)

list_del(s, e) ==
  LET i == CHOOSE k \in 1 .. Len(s) : s[k] = e
  IN  [k \in 1 .. Len(s) - 1 |-> IF k < i THEN s[k] ELSE s[k + 1]]

(* list_for_each_entry_safe with a list_del of what is not in K: the other *)
(* entries stay in their order.                                            *)
list_keep(s, K) ==
  LET kept[i \in 0 .. Len(s)] ==
        IF i = 0 THEN <<>>
        ELSE IF s[i] \in K THEN Append(kept[i - 1], s[i]) ELSE kept[i - 1]
  IN  kept[Len(s)]
=============================================================================
