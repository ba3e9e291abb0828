------------------------------- MODULE Sorts -------------------------------
(***************************************************************************)
(* heap_sort (src/algorithm/heap_sort.c), list_sort                        *)
(* (src/algorithm/list_sort.c) and the vector of src/adt/vector.c, over    *)
(* the same sequence of elements.  An element is a record of a key, the    *)
(* only thing the comparison sees, and the identity of its node.  Arrays   *)
(* are indexed from 0 as in the code.  A caller appends elements.          *)
(***************************************************************************)
EXTENDS Integers, Sequences, SequencesExt, FiniteSets

CONSTANTS SortKeys, MaxLength, VEC_NR_ELEMS

VARIABLES input, vec

sortvars == <<input, vec>>

-----------------------------------------------------------------------------
(* heap_sort: the array as a function on 0 .. num - 1.                     *)
Swap(s, i, j) == [s EXCEPT ![i] = s[j], ![j] = s[i]]

RECURSIVE SiftDown(_, _, _)
SiftDown(s, r, n) ==
  LET left == 2 * r + 1
      c == IF left < n - 1 /\ s[left].key < s[left + 1].key THEN left + 1 ELSE left
  IN  IF left >= n \/ s[r].key >= s[c].key THEN s ELSE SiftDown(Swap(s, r, c), c, n)

RECURSIVE Heapify(_, _, _)
Heapify(s, i, n) == IF i < 0 THEN s ELSE Heapify(SiftDown(s, i, n), i - 1, n)

RECURSIVE TakeMaxima(_, _)
TakeMaxima(s, i) == IF i <= 0 THEN s ELSE TakeMaxima(SiftDown(Swap(s, 0, i), 0, i), i - 1)

heap_sort(s, num) == TakeMaxima(Heapify(s, (num \div 2) - 1, num), num - 1)

-----------------------------------------------------------------------------
(* list_sort: chains without back links as sequences.                      *)
(* Mutant: an equal element of the later chain comes first.                *)
RECURSIVE MergeLater(_, _)
MergeLater(a, b) ==
  IF a = <<>> \/ b = <<>> THEN a \o b
  ELSE IF a[1].key < b[1].key THEN <<a[1]>> \o MergeLater(Tail(a), b)
                              ELSE <<b[1]>> \o MergeLater(a, Tail(b))

RECURSIVE merge(_, _)
merge(a, b) ==
  IF a = <<>> \/ b = <<>> THEN a \o b
  ELSE IF a[1].key <= b[1].key THEN <<a[1]>> \o merge(Tail(a), b)
                               ELSE <<b[1]>> \o merge(a, Tail(b))

(* The chain cur climbs past the occupied slots of part[], merging.        *)
RECURSIVE Settle(_, _, _)
Settle(part, lev, cur) ==
  IF lev < Len(part) /\ part[lev + 1] # <<>>
  THEN Settle([part EXCEPT ![lev + 1] = <<>>], lev + 1, merge(part[lev + 1], cur))
  ELSE IF lev = Len(part) THEN Append(part, cur) ELSE [part EXCEPT ![lev + 1] = cur]

(* The slots are merged from the smallest up; the last merge restores the  *)
(* back links, so the list is the sequence again.                          *)
list_sort(list) ==
  LET part == FoldLeft(LAMBDA p, e : Settle(p, 0, <<e>>), <<>>, list)
  IN  FoldLeft(LAMBDA rest, p : IF p = <<>> THEN rest ELSE merge(p, rest), <<>>, part)

-----------------------------------------------------------------------------
(* vector: `elems` are the nr_elems values between start and end, `room`   *)
(* is the number of elements between start and end.                        *)
Occupied(key) == {i \in DOMAIN vec.elems : vec.elems[i].key = key}

__expand(v) == IF Len(v.elems) < v.room THEN v ELSE [v EXCEPT !.room = @ + VEC_NR_ELEMS]

(* __vector_insert: an element with the key is there already, or the new   *)
(* one goes behind the last.                                               *)
VectorInsert(e) ==
  IF Occupied(e.key) # {} THEN vec ELSE LET v == __expand(vec) IN [v EXCEPT !.elems = Append(@, e)]

(* Mutant: one element less is moved down.                                 *)
RemoveShort(i) ==
  [vec EXCEPT !.elems = [j \in 1 .. Len(@) - 1 |->
                           IF j < i \/ j = Len(@) - 1 THEN @[j] ELSE @[j + 1]]]

VectorRemove(i) ==
  [vec EXCEPT !.elems = [j \in 1 .. Len(@) - 1 |-> IF j < i THEN @[j] ELSE @[j + 1]]]

(* __vector_copy: exactly as much room as there are elements.              *)
VectorCopy == [elems |-> vec.elems, room |-> Len(vec.elems)]

-----------------------------------------------------------------------------
SortsInit == input = <<>> /\ vec = [elems |-> <<>>, room |-> 0]

AddElement(k) ==
  LET e == [key |-> k, id |-> IF input = <<>> THEN 1 ELSE Last(input).id + 1]
  IN  /\ e.id <= MaxLength
      /\ input' = Append(input, e)
      /\ vec' = VectorInsert(e)

(* The first element with key k leaves; the caller forgets its equals.     *)
RemoveElement(k) ==
  /\ \E i \in Occupied(k) : vec' = VectorRemove(i)
  /\ input' = SelectSeq(input, LAMBDA e : e.key # k)

CopyVector == vec' = VectorCopy /\ vec.elems # <<>> /\ UNCHANGED input

SortsNext == (\E k \in SortKeys : AddElement(k) \/ RemoveElement(k)) \/ CopyVector
SortsSpec == SortsInit /\ [][SortsNext]_sortvars

-----------------------------------------------------------------------------
InOrder(s) == \A i, j \in 1 .. Len(s) : i < j => s[i].key <= s[j].key
SameElements(s, t) == Len(s) = Len(t) /\ ToSet(s) = ToSet(t)

(* heap_sort and list_sort return the elements they were given in order,   *)
(* and list_sort is stable: elements that compare equal keep the order     *)
(* they had ("important for sort stability", merge), although they meet in *)
(* merges of chains of different length.                                   *)
SortsRight ==
  LET n == Len(input)
      heap == heap_sort([i \in 0 .. n - 1 |-> input[i + 1]], n)
      sorted == [i \in 1 .. n |-> heap[i - 1]]
      list == list_sort(input)
  IN  /\ InOrder(sorted) /\ SameElements(sorted, [i \in 1 .. n |-> input[i]])
      /\ InOrder(list) /\ SameElements(list, input)
      /\ \A i, j \in 1 .. n : i < j /\ list[i].key = list[j].key => list[i].id < list[j].id

(* A vector holds, in the order they were first inserted, one element of   *)
(* each key that was inserted and not removed, within its memory           *)
(* (__vector_insert keeps values unique, __vector_remove closes the gap).  *)
VectorIsOrderedSet ==
  /\ vec.elems = SelectSeq(input, LAMBDA e : \A i \in DOMAIN input :
                                    input[i].key = e.key => e.id <= input[i].id)
  /\ Len(vec.elems) <= vec.room
=============================================================================
