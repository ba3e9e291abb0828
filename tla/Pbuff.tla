------------------------------- MODULE Pbuff -------------------------------
(***************************************************************************)
(* The protocol buffers of src/utils/pbuff.c and include/skp/utils/pbuff.h *)
(* A pbuff is a window [data, tail) into a data area that ends in a        *)
(* pb_shared_info with the area's length and reference count; clones and   *)
(* shares are windows into the same area.  Pointers are offsets from the   *)
(* head of the area.  `text` is what the owner of each pbuff put into it:  *)
(* owners follow the protocol of the header, that a pbuff is written only  *)
(* when no other window shares its area (pb_unshare, pb_expand_head).      *)
(***************************************************************************)
EXTENDS Integers, Sequences, FiniteSets

CONSTANTS PbNames, ByteOf, Junk, AreaNames, SharedInfo, PbSizes, PbLens, MaxDataLen, MaxUsers

VARIABLES pb, area, text, halted

pbvars == <<pb, area, text, halted>>

ALIGN(n) == ((n + SharedInfo - 1) \div SharedInfo) * SharedInfo
NoPb == [users |-> 0, cloned |-> FALSE, area |-> CHOOSE a \in AreaNames : TRUE,
         data |-> 0, tail |-> 0]
NoArea == [refs |-> 0, bytes |-> <<>>]
Live(p) == pb[p].users > 0
pb_size(p) == Len(area[pb[p].area].bytes)
pb_headlen(p) == pb[p].tail - pb[p].data
pb_headroom(p) == pb[p].data
pb_tailroom(p) == pb_size(p) - pb[p].tail
pb_shared(p) == pb[p].users # 1
pb_cloned(p) == pb[p].cloned /\ area[pb[p].area].refs # 1

(* malloc leaves anything in the bytes; Junk stands for it.                *)
Blank(n) == [i \in 1 .. n |-> Junk]
NewArea(len, bytes) == [refs |-> 1, bytes |-> bytes \o Blank(len - Len(bytes))]

(* malloc: which of the free addresses it returns makes no difference.     *)
FreeArea(as) ==
  LET free == {a \in AreaNames : as[a].refs = 0}
  IN  IF free = {} THEN {} ELSE {CHOOSE a \in free : TRUE}

(* __uref_put of the area's reference; the area goes with the last one.    *)
pb_release_data(as, a) ==
  [as EXCEPT ![a] = IF @.refs = 1 THEN NoArea ELSE [@ EXCEPT !.refs = @ - 1]]

(* free_pb: the last user releases the data and the structure.             *)
Freed(pbs, p) == [pbs EXCEPT ![p] = IF @.users = 1 THEN NoPb ELSE [@ EXCEPT !.users = @ - 1]]
Forget(t, p) == IF pb[p].users = 1 THEN [t EXCEPT ![p] = <<>>] ELSE t
FreedAreas(pbs, as, p) == IF pbs[p].users = 1 THEN pb_release_data(as, pbs[p].area) ELSE as

-----------------------------------------------------------------------------
PbuffInit ==
  /\ pb = [p \in PbNames |-> NoPb]
  /\ area = [a \in AreaNames |-> NoArea]
  /\ text = [p \in PbNames |-> <<>>]
  /\ halted = FALSE

alloc_pb(p, size) ==
  /\ ~Live(p)
  /\ \E a \in FreeArea(area) :
       /\ area' = [area EXCEPT ![a] = NewArea(ALIGN(size), <<>>)]
       /\ pb' = [pb EXCEPT ![p] = [NoPb EXCEPT !.users = 1, !.area = a]]
  /\ text' = [text EXCEPT ![p] = <<>>]
  /\ UNCHANGED halted

pb_get(p) ==
  /\ Live(p) /\ pb[p].users < MaxUsers
  /\ pb' = [pb EXCEPT ![p].users = @ + 1]
  /\ UNCHANGED <<area, text, halted>>

free_pb(p) ==
  /\ Live(p)
  /\ pb' = Freed(pb, p)
  /\ area' = FreedAreas(pb, area, p)
  /\ text' = Forget(text, p)
  /\ UNCHANGED halted

(* Mutant: only the clone is marked as one.                                *)
CloneMarksOne(p, q) ==
  [pb EXCEPT ![q] = [pb[p] EXCEPT !.users = 1, !.cloned = TRUE]]

Clone(p, q) ==
  [pb EXCEPT ![p].cloned = TRUE, ![q] = [pb[p] EXCEPT !.users = 1, !.cloned = TRUE]]

pb_clone(p, q) ==
  /\ Live(p) /\ ~Live(q)
  /\ pb' = Clone(p, q)
  /\ area' = [area EXCEPT ![pb[p].area].refs = @ + 1]
  /\ text' = [text EXCEPT ![q] = text[p]]
  /\ UNCHANGED halted

(* The first l bytes of the data, or the -l bytes consumed before it.      *)
pb_share(p, q, l) ==
  LET from == IF l > 0 THEN pb[p].data ELSE pb[p].data + l
      to == IF l > 0 THEN pb[p].data + l ELSE pb[p].data
  IN  /\ Live(p) /\ ~Live(q) /\ l # 0 /\ l <= pb_headlen(p) /\ -l <= pb_headroom(p)
      /\ pb' = [pb EXCEPT ![p].cloned = TRUE,
                  ![q] = [NoPb EXCEPT !.users = 1, !.cloned = TRUE, !.area = pb[p].area,
                                      !.data = from, !.tail = to]]
      /\ area' = [area EXCEPT ![pb[p].area].refs = @ + 1]
      /\ text' = [text EXCEPT ![q] = SubSeq(area[pb[p].area].bytes, from + 1, to)]
      /\ UNCHANGED halted

(* A new area of the same size with the bytes from the head to the tail.   *)
CopyInto(pbs, as, p, q, a) ==
  LET old == pbs[p]
      bytes == as[old.area].bytes
  IN  [pbs |-> [pbs EXCEPT ![q] = [old EXCEPT !.users = 1, !.cloned = FALSE, !.area = a]],
       as |-> [as EXCEPT ![a] = NewArea(Len(bytes), SubSeq(bytes, 1, old.tail))]]

pb_copy(p, q) ==
  /\ Live(p) /\ ~Live(q)
  /\ \E a \in FreeArea(area) : LET c == CopyInto(pb, area, p, q, a)
       IN  pb' = c.pbs /\ area' = c.as
  /\ text' = [text EXCEPT ![q] = text[p]]
  /\ UNCHANGED halted

(* The caller of pb_share_check and pb_unshare goes on with q, and its     *)
(* reference to p is dropped.                                              *)
pb_share_check(p, q) ==
  /\ Live(p) /\ ~Live(q) /\ pb_shared(p)
  /\ LET c == Clone(p, q)
     IN  /\ pb' = Freed(c, p)
         /\ area' = FreedAreas(c, [area EXCEPT ![pb[p].area].refs = @ + 1], p)
  /\ text' = Forget([text EXCEPT ![q] = text[p]], p)
  /\ UNCHANGED halted

(* The copy may take the name of a pbuff that goes away.                   *)
pb_unshare(p, q) ==
  /\ Live(p) /\ pb_cloned(p)
  /\ Live(q) => q = p /\ ~pb_shared(p)
  /\ \E a \in FreeArea(area) : LET c == CopyInto(pb, area, p, q, a)
       IN  /\ pb' = IF q = p THEN c.pbs ELSE Freed(c.pbs, p)
           /\ area' = FreedAreas(pb, c.as, p)
  /\ text' = IF q = p THEN text ELSE Forget([text EXCEPT ![q] = text[p]], p)
  /\ UNCHANGED halted

(* __pb_expand_head: the whole old area moves nhead bytes into a new one.  *)
Expanded(p, nhead, ntail, a) ==
  LET old == pb[p]
      bytes == area[old.area].bytes
      len == ALIGN(nhead + Len(bytes) + ntail)
  IN  [pbs |-> [pb EXCEPT ![p] = [old EXCEPT !.cloned = FALSE, !.area = a,
                                   !.data = @ + nhead, !.tail = @ + nhead]],
       as |-> [pb_release_data(area, old.area) EXCEPT ![a] = NewArea(len, Blank(nhead) \o bytes)]]

pb_expand_head(p, nhead, ntail) ==
  LET h == IF pb_headroom(p) >= nhead THEN 0 ELSE 2 * nhead
      t == IF pb_tailroom(p) >= ntail THEN 0 ELSE 2 * ntail
  IN  /\ Live(p) /\ h + t > 0 /\ ~pb_shared(p) /\ ALIGN(h + pb_size(p) + t) <= MaxDataLen
      /\ \E a \in FreeArea(area) : LET e == Expanded(p, h, t, a)
           IN  pb' = e.pbs /\ area' = e.as
      /\ UNCHANGED <<text, halted>>

-----------------------------------------------------------------------------
Write(as, a, at, n, v) ==
  [as EXCEPT ![a].bytes = [i \in DOMAIN @ |-> IF i \in at + 1 .. at + n THEN v ELSE @[i]]]
Values(n, v) == [i \in 1 .. n |-> v]

pb_putdata(p, n, v) ==
  /\ Live(p) /\ ~pb_cloned(p) /\ n <= pb_tailroom(p)
  /\ area' = Write(area, pb[p].area, pb[p].tail, n, v)
  /\ pb' = [pb EXCEPT ![p].tail = @ + n]
  /\ text' = [text EXCEPT ![p] = @ \o Values(n, v)]
  /\ UNCHANGED halted

pb_pushdata(p, n, v) ==
  /\ Live(p) /\ ~pb_cloned(p) /\ n <= pb_headroom(p)
  /\ area' = Write(area, pb[p].area, pb[p].data - n, n, v)
  /\ pb' = [pb EXCEPT ![p].data = @ - n]
  /\ text' = [text EXCEPT ![p] = Values(n, v) \o @]
  /\ UNCHANGED halted

(* Windows shrink: from the tail (pb_popdata, pb_trimdata) or the head     *)
(* (pb_pulldata and the pb_read functions).                                *)
pb_popdata(p, n) ==
  /\ Live(p) /\ n <= pb_headlen(p)
  /\ pb' = [pb EXCEPT ![p].tail = @ - n]
  /\ text' = [text EXCEPT ![p] = SubSeq(@, 1, Len(@) - n)]
  /\ UNCHANGED <<area, halted>>

pb_pulldata(p, n) ==
  /\ Live(p) /\ n <= pb_headlen(p)
  /\ pb' = [pb EXCEPT ![p].data = @ + n]
  /\ text' = [text EXCEPT ![p] = SubSeq(@, n + 1, Len(@))]
  /\ UNCHANGED <<area, halted>>

pb_trimdata(p, len) == pb_headlen(p) > len /\ pb_popdata(p, pb_headlen(p) - len)

(* pb_read_uint8 .. pb_read_bytes: -ENODATA, or n bytes from the head.     *)
pb_read(p, n) == pb_headlen(p) >= n /\ pb_pulldata(p, n)

pb_reserve(p, n) ==
  /\ Live(p) /\ pb[p].data = 0 /\ pb_headlen(p) = 0 /\ n <= pb_tailroom(p)
  /\ pb' = [pb EXCEPT ![p].data = @ + n, ![p].tail = @ + n]
  /\ UNCHANGED <<area, text, halted>>

pb_reset(p) ==
  /\ Live(p) /\ ~pb_shared(p) /\ ~pb_cloned(p)
  /\ pb' = [pb EXCEPT ![p].cloned = FALSE, ![p].data = 0, ![p].tail = 0]
  /\ text' = [text EXCEPT ![p] = <<>>]
  /\ UNCHANGED <<area, halted>>

(* pb_write_*: pb_prepare_write compares n with the headroom; when that is *)
(* short it enlarges the tail, else it leaves the buffer as it is.         *)
(* pb_putdata's BUG_ON stops the program when the tail has no room.        *)
pb_write(p, n, v) ==
  LET size == pb_size(p)
      more == IF n > size \div 2 THEN n ELSE size \div 2
  IN  /\ Live(p) /\ ~pb_cloned(p) /\ n > 0
      /\ IF pb_headroom(p) < n
         THEN /\ ~pb_shared(p) /\ ALIGN(size + more) <= MaxDataLen
              /\ \E a \in FreeArea(area) : LET e == Expanded(p, 0, more, a)
                   IN  /\ pb' = [e.pbs EXCEPT ![p].tail = @ + n]
                       /\ area' = Write(e.as, a, e.pbs[p].tail, n, v)
              /\ text' = [text EXCEPT ![p] = @ \o Values(n, v)]
              /\ UNCHANGED halted
         ELSE IF pb_tailroom(p) < n
         THEN halted' = TRUE /\ UNCHANGED <<pb, area, text>>
         ELSE pb_putdata(p, n, v)

Halted == halted /\ UNCHANGED pbvars

PbuffNext ==
  \/ ~halted /\ \E p \in PbNames :
       \/ \E s \in PbSizes : alloc_pb(p, s)
       \/ pb_get(p) \/ free_pb(p) \/ pb_reset(p)
       \/ \E n \in PbLens : LET v == ByteOf[p]
            IN  pb_putdata(p, n, v) \/ pb_pushdata(p, n, v) \/ pb_write(p, n, v)
       \/ \E n \in PbLens : pb_popdata(p, n) \/ pb_pulldata(p, n) \/ pb_trimdata(p, n)
                            \/ pb_read(p, n) \/ pb_reserve(p, n)
       \/ \E h, t \in PbLens \cup {0} : pb_expand_head(p, h, t)
       \/ \E q \in PbNames :
            \/ pb_clone(p, q) \/ pb_copy(p, q) \/ pb_share_check(p, q) \/ pb_unshare(p, q)
            \/ \E l \in PbLens : pb_share(p, q, l) \/ pb_share(p, q, -l)
  \/ Halted

PbuffSpec == PbuffInit /\ [][PbuffNext]_pbvars

-----------------------------------------------------------------------------
(* As long as owners unshare before they write, every pbuff holds what its *)
(* owner put into it, whatever is cloned, copied, expanded, shared and     *)
(* freed around it: no window is left in an area that was freed, no area   *)
(* outlives its windows, and a pbuff whose area another window shares is   *)
(* never taken for unshared (pb_cloned), also after the one it was cloned  *)
(* from has gone its own way.                                              *)
BuffersKeepText ==
  /\ \A p \in PbNames : Live(p) =>
       /\ 0 <= pb[p].data /\ pb[p].data <= pb[p].tail /\ pb[p].tail <= pb_size(p)
       /\ SubSeq(area[pb[p].area].bytes, pb[p].data + 1, pb[p].tail) = text[p]
  /\ \A a \in AreaNames : LET on == {p \in PbNames : Live(p) /\ pb[p].area = a}
       IN  /\ area[a].refs = Cardinality(on)
           /\ Cardinality(on) > 1 => \A p \in on : pb_cloned(p)

(* pb_write_* makes room before it appends ("BUG_ON(pb->tail > pb->end)"   *)
(* in pb_putdata), so an append never runs past the end of the area.       *)
WritesFindRoom == ~halted
=============================================================================
