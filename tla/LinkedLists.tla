---------------------------- MODULE LinkedLists ----------------------------
(***************************************************************************)
(* The doubly linked lists of include/skp/adt/list.h, pointer by pointer.  *)
(* A list is a ring of struct list_head through its head; an entry that is *)
(* on no list points to itself (list_del_init) or holds poison (list_del). *)
(* `lists` remembers which sequence of entries each head should hold: it   *)
(* is the abstraction the other modules use (ListOps).                     *)
(***************************************************************************)
EXTENDS Integers, Sequences, SequencesExt

CONSTANTS ListHeads, ListEntries, Poison

VARIABLES link, lists

dlvars == <<link, lists>>

Links == ListHeads \cup ListEntries
Member(h) == Range(lists[h])
Free == ListEntries \ UNION {Member(h) : h \in ListHeads}

INIT_LIST_HEAD(l, n) == [l EXCEPT !.next[n] = n, !.prev[n] = n]

__list_add(l, n, prev, next) ==
  [next |-> [l.next EXCEPT ![n] = next, ![prev] = n],
   prev |-> [l.prev EXCEPT ![next] = n, ![n] = prev]]

list_add(l, n, head) == __list_add(l, n, head, l.next[head])
list_add_tail(l, n, head) == __list_add(l, n, l.prev[head], head)

__list_del(l, prev, next) ==
  [l EXCEPT !.prev[next] = prev, !.next[prev] = next]

__list_del_entry(l, n) == __list_del(l, l.prev[n], l.next[n])

list_empty(l, head) == l.next[head] = head
list_is_singular(l, head) == ~list_empty(l, head) /\ l.next[head] = l.prev[head]

(* The four stores of list_replace, each reading what the ones before it   *)
(* left.                                                                   *)
list_replace(l, old, new) ==
  LET a == [l EXCEPT !.next[new] = l.next[old]]
      b == [a EXCEPT !.prev[a.next[new]] = new]
      c == [b EXCEPT !.prev[new] = b.prev[old]]
  IN  [c EXCEPT !.next[c.prev[new]] = new]

(* Mutant: the cut-off part keeps its old first neighbour.                 *)
CutForgetsBack(l, list, head, entry) ==
  LET first == l.next[entry]
  IN  [next |-> [l.next EXCEPT ![list] = l.next[head], ![entry] = list,
                               ![head] = first],
       prev |-> [l.prev EXCEPT ![list] = entry, ![first] = head]]

__list_cut_position(l, list, head, entry) ==
  LET first == l.next[entry]
      old == l.next[head]
  IN  [next |-> [l.next EXCEPT ![list] = old, ![entry] = list, ![head] = first],
       prev |-> [l.prev EXCEPT ![old] = list, ![list] = entry, ![first] = head]]

list_cut_position(l, list, head, entry) ==
  IF list_empty(l, head)
     \/ (list_is_singular(l, head) /\ l.next[head] # entry /\ head # entry)
  THEN l
  ELSE IF entry = head THEN INIT_LIST_HEAD(l, list)
                       ELSE __list_cut_position(l, list, head, entry)

__list_splice(l, list, prev, next) ==
  LET first == l.next[list]
      last == l.prev[list]
  IN  [next |-> [l.next EXCEPT ![prev] = first, ![last] = next],
       prev |-> [l.prev EXCEPT ![first] = prev, ![next] = last]]

list_splice_init(l, list, head) ==
  IF list_empty(l, list) THEN l
  ELSE INIT_LIST_HEAD(__list_splice(l, list, head, l.next[head]), list)

list_splice_tail_init(l, list, head) ==
  IF list_empty(l, list) THEN l
  ELSE INIT_LIST_HEAD(__list_splice(l, list, l.prev[head], head), list)

-----------------------------------------------------------------------------
DListInit ==
  /\ link = [next |-> [n \in Links |-> n], prev |-> [n \in Links |-> n]]
  /\ lists = [h \in ListHeads |-> <<>>]

Add(h, e, tail) ==
  /\ e \in Free
  /\ link' = IF tail THEN list_add_tail(link, e, h) ELSE list_add(link, e, h)
  /\ lists' = [lists EXCEPT ![h] = IF tail THEN Append(@, e) ELSE <<e>> \o @]

Del(h, e, init) ==
  /\ e \in Member(h)
  /\ link' = LET l == __list_del_entry(link, e)
             IN  IF init THEN INIT_LIST_HEAD(l, e)
                 ELSE [l EXCEPT !.next[e] = Poison, !.prev[e] = Poison]
  /\ lists' = [lists EXCEPT ![h] = Remove(@, e)]

(* list_del_init of an entry that already points to itself.                *)
DelAgain(e) ==
  /\ e \in Free /\ link.next[e] = e
  /\ link' = INIT_LIST_HEAD(__list_del_entry(link, e), e)
  /\ UNCHANGED lists

ReplaceEntry(h, old, new) ==
  /\ old \in Member(h) /\ new \in Free
  /\ link' = INIT_LIST_HEAD(list_replace(link, old, new), old)
  /\ lists' = [lists EXCEPT ![h] = [i \in DOMAIN @ |-> IF @[i] = old THEN new ELSE @[i]]]

(* list_replace_init of a whole list: the new head takes its entries.      *)
ReplaceHead(old, new) ==
  /\ old # new /\ lists[new] = <<>>
  /\ link' = INIT_LIST_HEAD(list_replace(link, old, new), old)
  /\ lists' = [lists EXCEPT ![new] = lists[old], ![old] = <<>>]

Move(h, e, to, tail) ==
  /\ e \in Member(h)
  /\ link' = LET l == __list_del_entry(link, e)
             IN  IF tail THEN list_add_tail(l, e, to) ELSE list_add(l, e, to)
  /\ lists' = LET s == [lists EXCEPT ![h] = Remove(@, e)]
              IN  [s EXCEPT ![to] = IF tail THEN Append(@, e) ELSE <<e>> \o @]

list_rotate_left(h) ==
  /\ ~list_empty(link, h)
  /\ LET first == link.next[h]
     IN  link' = list_add_tail(__list_del_entry(link, first), first, h)
  /\ lists' = [lists EXCEPT ![h] = Append(Tail(@), Head(@))]

Cut(list, h, e) ==
  /\ list # h /\ lists[list] = <<>> /\ e \in Member(h) \cup {h}
  /\ link' = list_cut_position(link, list, h, e)
  /\ LET n == IF e = h THEN 0 ELSE CHOOSE i \in DOMAIN lists[h] : lists[h][i] = e
     IN  lists' = [lists EXCEPT ![list] = SubSeq(lists[h], 1, n),
                                ![h] = SubSeq(@, n + 1, Len(@))]

Splice(from, to, tail) ==
  /\ from # to
  /\ link' = IF tail THEN list_splice_tail_init(link, from, to)
                     ELSE list_splice_init(link, from, to)
  /\ lists' = [lists EXCEPT ![from] = <<>>,
                 ![to] = IF tail THEN @ \o lists[from] ELSE lists[from] \o @]

DListNext ==
  \/ \E h \in ListHeads, e \in ListEntries, b \in BOOLEAN : Add(h, e, b) \/ Del(h, e, b)
  \/ \E e \in ListEntries : DelAgain(e)
  \/ \E h \in ListHeads, e, f \in ListEntries : ReplaceEntry(h, e, f)
  \/ \E h, g \in ListHeads : ReplaceHead(h, g)
  \/ \E h, g \in ListHeads, e \in ListEntries, b \in BOOLEAN : Move(h, e, g, b)
  \/ \E h \in ListHeads : list_rotate_left(h)
  \/ \E h, g \in ListHeads : \E e \in Links : Cut(g, h, e)
  \/ \E h, g \in ListHeads, b \in BOOLEAN : Splice(h, g, b)

DListSpec == DListInit /\ [][DListNext]_dlvars

-----------------------------------------------------------------------------
(* Whatever sequence of list.h calls was made, each head's ring runs       *)
(* through exactly the entries it should hold, forwards along next and     *)
(* backwards along prev, and the entries on no list are either alone or    *)
(* poisoned: list_replace, list_cut_position and the splices rewire up to  *)
(* six pointers, and one of them left behind shows only when the list is   *)
(* next walked the other way.                                              *)
ListsAreRings ==
  /\ \A h \in ListHeads :
       LET ring == <<h>> \o lists[h] \o <<h>>
       IN  \A i \in 1 .. Len(ring) - 1 :
             link.next[ring[i]] = ring[i + 1] /\ link.prev[ring[i + 1]] = ring[i]
  /\ \A e \in Free : link.next[e] = link.prev[e] /\ link.next[e] \in {e, Poison}
-----------------------------------------------------------------------------
(***************************************************************************)
(* The hash chains of include/skp/adt/hlist_table.h, pointer by pointer.   *)
(* A node keeps the address of the pointer to it (pprev): the `first` of   *)
(* its head or the `next` of the node before it.  Plain chains (struct     *)
(* hlist_head) are used by one caller at a time.  A hlist_bl_head keeps a  *)
(* bit lock in bit 0 of `first`, so each store through pprev must carry    *)
(* the bit over.  `chains` is the sequence each head should hold.          *)
(***************************************************************************)
CONSTANTS HHeads, BlHeads, HNodes, HThreads, NoNode, NoOwner

VARIABLES hfirst, hnext, pprev, lockbit, chains, blowner

hlvars == <<hfirst, hnext, pprev, lockbit, chains, blowner>>

At(h) == [of |-> "first", at |-> h]
After(n) == [of |-> "next", at |-> n]
Nowhere == [of |-> "null", at |-> NoNode]
Chain == [first |-> hfirst, next |-> hnext, pprev |-> pprev]
AllHeads == HHeads \cup BlHeads
Unhashed == {n \in HNodes : \A h \in AllHeads : n \notin Range(chains[h])}
hlist_unhashed(n) == pprev[n] = Nowhere

Become(c) == hfirst' = c.first /\ hnext' = c.next /\ pprev' = c.pprev

(* *pp = n for a pprev value pp.                                           *)
StoreThrough(c, pp, n) ==
  CASE pp.of = "first" -> [c EXCEPT !.first[pp.at] = n]
    [] pp.of = "next" -> [c EXCEPT !.next[pp.at] = n]

(* Mutant: the successor still points back at the node that left.          *)
DelKeepsBack(c, n) == StoreThrough(c, c.pprev[n], c.next[n])

__hlist_del(c, n) ==
  LET d == StoreThrough(c, c.pprev[n], c.next[n])
  IN  IF c.next[n] = NoNode THEN d ELSE [d EXCEPT !.pprev[c.next[n]] = c.pprev[n]]

INIT_HLIST_NODE(c, n) == [c EXCEPT !.next[n] = NoNode, !.pprev[n] = Nowhere]

hlist_add_head(c, n, h) ==
  LET old == c.first[h]
      d == [c EXCEPT !.next[n] = old, !.first[h] = n]
      e == IF old = NoNode THEN d ELSE [d EXCEPT !.pprev[old] = After(n)]
  IN  [e EXCEPT !.pprev[n] = At(h)]

hlist_add_before(c, n, next) ==
  LET pp == c.pprev[next]
      d == [c EXCEPT !.pprev[n] = pp, !.next[n] = next]
  IN  StoreThrough([d EXCEPT !.pprev[next] = After(n)], pp, n)

hlist_add_behind(c, n, prev) ==
  LET next == c.next[prev]
      d == [c EXCEPT !.next[n] = next, !.next[prev] = n, !.pprev[n] = After(prev)]
  IN  IF next = NoNode THEN d ELSE [d EXCEPT !.pprev[next] = After(n)]

hlist_move_list(c, old, new) ==
  LET d == [c EXCEPT !.first[new] = c.first[old]]
      e == IF d.first[new] = NoNode THEN d ELSE [d EXCEPT !.pprev[d.first[new]] = At(new)]
  IN  [e EXCEPT !.first[old] = NoNode]

-----------------------------------------------------------------------------
HListInit ==
  /\ hfirst = [h \in AllHeads |-> NoNode]
  /\ hnext = [n \in HNodes |-> NoNode]
  /\ pprev = [n \in HNodes |-> Nowhere]
  /\ lockbit = [h \in BlHeads |-> FALSE]
  /\ chains = [h \in AllHeads |-> <<>>]
  /\ blowner = [h \in BlHeads |-> NoOwner]

Put(s, i, n) == SubSeq(s, 1, i) \o <<n>> \o SubSeq(s, i + 1, Len(s))

AddHead(h, n) ==
  /\ h \in HHeads /\ n \in Unhashed
  /\ Become(hlist_add_head(Chain, n, h))
  /\ chains' = [chains EXCEPT ![h] = <<n>> \o @]
  /\ UNCHANGED <<lockbit, blowner>>

AddBeside(h, n, i, behind) ==
  /\ h \in HHeads /\ n \in Unhashed /\ i \in DOMAIN chains[h]
  /\ Become(IF behind THEN hlist_add_behind(Chain, n, chains[h][i])
                      ELSE hlist_add_before(Chain, n, chains[h][i]))
  /\ chains' = [chains EXCEPT ![h] = Put(@, IF behind THEN i ELSE i - 1, n)]
  /\ UNCHANGED <<lockbit, blowner>>

(* hash_del: hlist_del_init, which does nothing to an unhashed node.       *)
DelInit(n) ==
  /\ \A h \in BlHeads : n \notin Range(chains[h])
  /\ ~hlist_unhashed(n)
  /\ Become(INIT_HLIST_NODE(__hlist_del(Chain, n), n))
  /\ chains' = [h \in AllHeads |-> Remove(chains[h], n)]
  /\ UNCHANGED <<lockbit, blowner>>

MoveList(old, new) ==
  /\ {old, new} \subseteq HHeads /\ old # new /\ chains[new] = <<>>
  /\ Become(hlist_move_list(Chain, old, new))
  /\ chains' = [chains EXCEPT ![new] = chains[old], ![old] = <<>>]
  /\ UNCHANGED <<lockbit, blowner>>

hlist_bl_lock(t, h) ==
  /\ h \in BlHeads /\ ~lockbit[h] /\ \A g \in BlHeads : blowner[g] # t
  /\ lockbit' = [lockbit EXCEPT ![h] = TRUE]
  /\ blowner' = [blowner EXCEPT ![h] = t]
  /\ UNCHANGED <<hfirst, hnext, pprev, chains>>

(* hlist_bl_add_head: hlist_bl_set_first or-s the lock bit in again.       *)
hlist_bl_add_head(t, h, n) ==
  /\ h \in BlHeads /\ blowner[h] = t /\ n \in Unhashed
  /\ Become(hlist_add_head(Chain, n, h))
  /\ lockbit' = [lockbit EXCEPT ![h] = TRUE]
  /\ chains' = [chains EXCEPT ![h] = <<n>> \o @]
  /\ UNCHANGED blowner

(* The bit of the pointer that pprev leads to, after the store.            *)
DropsBit(h, n) == lockbit[h] /\ pprev[n] # At(h)
KeepsBit(h, n) == lockbit[h]

hlist_bl_del_init(t, h, n) ==
  /\ h \in BlHeads /\ blowner[h] = t /\ n \in Range(chains[h])
  /\ Become(INIT_HLIST_NODE(__hlist_del(Chain, n), n))
  /\ lockbit' = [lockbit EXCEPT ![h] = KeepsBit(h, n)]
  /\ chains' = [chains EXCEPT ![h] = Remove(@, n)]
  /\ UNCHANGED blowner

hlist_bl_unlock(t, h) ==
  /\ h \in BlHeads /\ blowner[h] = t
  /\ lockbit' = [lockbit EXCEPT ![h] = FALSE]
  /\ blowner' = [blowner EXCEPT ![h] = NoOwner]
  /\ UNCHANGED <<hfirst, hnext, pprev, chains>>

HListNext ==
  \/ \E h \in HHeads, n \in HNodes :
       AddHead(h, n) \/ \E i \in 1 .. Len(chains[h]), b \in BOOLEAN : AddBeside(h, n, i, b)
  \/ \E n \in HNodes : DelInit(n)
  \/ \E g, h \in HHeads : MoveList(g, h)
  \/ \E t \in HThreads, h \in BlHeads :
       \/ hlist_bl_lock(t, h) \/ hlist_bl_unlock(t, h)
       \/ \E n \in HNodes : hlist_bl_add_head(t, h, n) \/ hlist_bl_del_init(t, h, n)

HListSpec == HListInit /\ [][HListNext]_hlvars

-----------------------------------------------------------------------------
(* Every chain runs from its head through the nodes it should hold, and    *)
(* each node's pprev is the address of the very pointer that leads to it   *)
(* (hlist_del writes through it without knowing the head); a locked        *)
(* hlist_bl_head keeps its lock bit through insertions and deletions at    *)
(* its front ("be careful not to lose the lock bit", __hlist_bl_del).      *)
ChainsAreLinked ==
  /\ \A h \in AllHeads : LET s == chains[h]
       IN  /\ hfirst[h] = IF s = <<>> THEN NoNode ELSE s[1]
           /\ \A i \in DOMAIN s :
                /\ hnext[s[i]] = IF i = Len(s) THEN NoNode ELSE s[i + 1]
                /\ pprev[s[i]] = IF i = 1 THEN At(h) ELSE After(s[i - 1])
  /\ \A n \in Unhashed : hlist_unhashed(n)
  /\ \A h \in BlHeads : lockbit[h] = (blowner[h] # NoOwner)
=============================================================================
