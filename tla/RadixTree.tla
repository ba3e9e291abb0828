----------------------------- MODULE RadixTree -----------------------------
(***************************************************************************)
(* The radix tree of src/adt/radix_tree.c: extension, insertion, deletion, *)
(* tags, the gang lookups and the iterators built on them, and the         *)
(* per-thread cache of preloaded nodes.                                    *)
(*                                                                         *)
(* A node is a record: the count of used slots, the used slots (a function *)
(* on the offsets that are not NULL) and, per tag, the offsets tagged.  An *)
(* item stands for itself: at the bottom level a slot holds its index.     *)
(* Indexes are unsigned numbers of IndexBits bits and wrap around.         *)
(***************************************************************************)
EXTENDS Integers, Sequences, FiniteSets, TLC

CONSTANTS
  MapShift,    \* RADIX_TREE_MAP_SHIFT (6 in the code)
  IndexBits,   \* RADIX_TREE_INDEX_BITS (64 in the code)
  Indexes,     \* the indexes the caller uses
  Tags,        \* RADIX_TREE_TAGS
  CacheMax     \* NODE_CACAH_MAX (24 in the code)

VARIABLES
  root,        \* height, rnode (a sequence of at most one node), nr_nodes, nodes
  cache,       \* preload_tls->nr of the calling thread
  stored,      \* the indexes the map holds
  marks,       \* marks[g]: the indexes that carry tag g
  starved      \* an allocation has failed

rdvars == <<root, cache, stored, marks, starved>>

MapSize == 2 ^ MapShift
Wrap(i) == i % 2 ^ IndexBits
Shift(h) == (h - 1) * MapShift
Align(i, shift) == i - (i % 2 ^ shift)
calc_offset(i, shift) == (i \div 2 ^ shift) % MapSize

(* __maxindex *)
rdtree_maxindex(h) == 2 ^ (IF h * MapShift >= IndexBits THEN IndexBits ELSE h * MapShift) - 1

NewNode == [count |-> 0, slots |-> << >>, tags |-> [g \in Tags |-> {}]]
Has(node, o) == o \in DOMAIN node.slots
Put(f, o, v) == [x \in DOMAIN f \cup {o} |-> IF x = o THEN v ELSE f[x]]
Drop(f, o) == [x \in DOMAIN f \ {o} |-> f[x]]
-----------------------------------------------------------------------------
(* node_alloc: radix_tree_preload tops the cache up as far as the memory    *)
(* goes (mem is how many more mallocs succeed), then one node is taken.    *)
NodeAlloc(m) ==
  LET need == IF m.nr < CacheMax \div 2 THEN CacheMax \div 2 - m.nr ELSE 0
      got  == IF need <= m.mem THEN need ELSE m.mem
      nr   == m.nr + got
  IN  [nr |-> IF nr > 0 THEN nr - 1 ELSE 0, mem |-> m.mem - got,
       ok |-> nr > 0, used |-> m.used + IF nr > 0 THEN 1 ELSE 0]

(* node_free: a full cache gives its oldest node back first. *)
NodeFree(nr) == IF nr = CacheMax THEN nr ELSE nr + 1

(* rdtree_extend: push new top nodes until height h; tags go up with them. *)
RECURSIVE Grow(_, _, _, _)
Grow(top, height, h, m) ==
  LET a == NodeAlloc(m)
      n == [count |-> 1, slots |-> (0 :> top),
            tags |-> [g \in Tags |-> IF top.tags[g] # {} THEN {0} ELSE {}]]
  IN  CASE height >= h            -> [top |-> top, height |-> height, m |-> m, ok |-> TRUE]
        [] height < h /\ ~a.ok    -> [top |-> top, height |-> height, m |-> a, ok |-> FALSE]
        [] height < h /\ a.ok     -> Grow(n, height + 1, h, a)

HeightFor(i, h) == CHOOSE k \in h .. IndexBits + 1 :
  i <= rdtree_maxindex(k) /\ \A j \in h .. k - 1 : i > rdtree_maxindex(j)

rdtree_extend(r, i, m) ==
  LET h == HeightFor(i, r.height + 1)
  IN  IF r.rnode = <<>> THEN [r |-> [r EXCEPT !.height = h], m |-> m, ok |-> TRUE]
      ELSE LET g == Grow(r.rnode[1], r.height, h, m)
           IN  [r |-> [r EXCEPT !.height = g.height, !.rnode = <<g.top>>], m |-> g.m, ok |-> g.ok]

(* The loop of __radix_tree_insert below node, whose height is h.  A failed *)
(* allocation leaves the nodes added on the way down in place.             *)
RECURSIVE InsertBelow(_, _, _, _)
InsertBelow(node, h, i, m) ==
  LET o == calc_offset(i, Shift(h))
      a == NodeAlloc(m)
      fresh == ~Has(node, o)
      sub == InsertBelow(IF fresh THEN NewNode ELSE node.slots[o], h - 1, i, IF fresh THEN a ELSE m)
      Counted(v) == [node EXCEPT !.slots = Put(node.slots, o, v),
                                 !.count = IF fresh THEN @ + 1 ELSE @]
  IN  CASE h = 1 /\ ~fresh      -> [node |-> node, m |-> m, rc |-> "EEXIST"]
        [] h = 1 /\ fresh       -> [node |-> Counted(i), m |-> m, rc |-> "ok"]
        [] h > 1 /\ fresh /\ ~a.ok -> [node |-> node, m |-> a, rc |-> "ENOMEM"]
        [] OTHER                -> [node |-> Counted(sub.node), m |-> sub.m, rc |-> sub.rc]

radix_tree_insert(r, i, m) ==
  LET e == IF (i = 0 /\ r.rnode = <<>>) \/ i > rdtree_maxindex(r.height)
             THEN rdtree_extend(r, i, m) ELSE [r |-> r, m |-> m, ok |-> TRUE]
      fresh == e.r.rnode = <<>>
      a == IF fresh THEN NodeAlloc(e.m) ELSE e.m
      in == InsertBelow(IF fresh THEN NewNode ELSE e.r.rnode[1], e.r.height, i, a)
  IN  CASE ~e.ok                     -> [r |-> e.r, m |-> e.m, rc |-> "ENOMEM"]
        [] e.ok /\ fresh /\ ~a.ok    -> [r |-> e.r, m |-> a, rc |-> "ENOMEM"]
        [] OTHER -> [r |-> [e.r EXCEPT !.rnode = <<in.node>>,
                                       !.nr_nodes = IF in.rc = "ok" THEN @ + 1 ELSE @],
                     m |-> in.m, rc |-> in.rc]
-----------------------------------------------------------------------------
(* The nodes on the path of i, from the top; shorter when a slot is NULL.  *)
RECURSIVE PathBelow(_, _, _)
PathBelow(node, h, i) ==
  LET o == calc_offset(i, Shift(h))
  IN  IF h = 1 \/ ~Has(node, o) THEN <<node>>
      ELSE <<node>> \o PathBelow(node.slots[o], h - 1, i)

(* __fill_path, and the descent of __radix_tree_lookup. *)
fill_path(r, i) ==
  IF i > rdtree_maxindex(r.height) \/ r.rnode = <<>> THEN <<>>
  ELSE PathBelow(r.rnode[1], r.height, i)

OffsetAt(r, i, d) == calc_offset(i, Shift(r.height + 1 - d))

radix_tree_lookup(r, i) ==
  LET p == fill_path(r, i)
  IN  r.height > 0 /\ Len(p) = r.height /\ Has(p[r.height], OffsetAt(r, i, r.height))

(* The tree with the nodes of i's path replaced, bottom first. *)
RECURSIVE Rebuild(_, _, _, _)
Rebuild(p, r, i, d) ==
  IF d = 1 THEN p[1]
  ELSE LET up == [p[d - 1] EXCEPT !.slots = Put(@, OffsetAt(r, i, d - 1), p[d])]
       IN  Rebuild([p EXCEPT ![d - 1] = up], r, i, d - 1)

radix_tree_tag_set(r, i, g) ==
  LET p == fill_path(r, i)
      q == [d \in 1 .. Len(p) |-> [p[d] EXCEPT !.tags[g] = @ \cup {OffsetAt(r, i, d)}]]
  IN  [r EXCEPT !.rnode = <<Rebuild(q, r, i, Len(p))>>]

(* __clear_node_tag: upwards from the leaf while the tag was the last one. *)
RECURSIVE ClearUp(_, _, _, _, _)
ClearUp(p, r, i, g, d) ==
  LET o == OffsetAt(r, i, d)
      q == [p EXCEPT ![d].tags[g] = @ \ {o}]
  IN  CASE o \notin p[d].tags[g] -> p
        [] o \in p[d].tags[g] /\ (q[d].tags[g] # {} \/ d = 1) -> q
        [] OTHER -> ClearUp(q, r, i, g, d - 1)

(* The tag leaves the bottom node only. *)
TagClearLeaf(r, i, g) ==
  LET p == fill_path(r, i)
      q == [p EXCEPT ![Len(p)].tags[g] = @ \ {OffsetAt(r, i, Len(p))}]
  IN  [r EXCEPT !.rnode = <<Rebuild(q, r, i, Len(p))>>]

radix_tree_tag_clear(r, i, g) ==
  LET p == fill_path(r, i)
  IN  [r EXCEPT !.rnode = <<Rebuild(ClearUp(p, r, i, g, Len(p)), r, i, Len(p))>>]

radix_tree_tag_get(r, i, g) ==
  LET p == fill_path(r, i)
  IN  r.height > 0 /\ Len(p) = r.height /\ OffsetAt(r, i, r.height) \in p[r.height].tags[g]

(* radix_tree_delete: empty the slot, then free every node left empty. *)
RECURSIVE FreeUp(_, _, _, _, _)
FreeUp(p, r, i, d, nr) ==
  LET n == [p[d] EXCEPT !.slots = Drop(@, OffsetAt(r, i, d)), !.count = @ - 1]
  IN  CASE n.count > 0 -> [p |-> [p EXCEPT ![d] = n], d |-> d, nr |-> nr]
        [] n.count = 0 /\ d = 1 -> [p |-> p, d |-> 0, nr |-> NodeFree(nr)]
        [] OTHER -> FreeUp(p, r, i, d - 1, NodeFree(nr))

RECURSIVE ClearAll(_, _, _, _)
ClearAll(p, r, i, gs) ==
  IF gs = {} THEN p
  ELSE LET g == CHOOSE x \in gs : TRUE
       IN  ClearAll(ClearUp(p, r, i, g, Len(p)), r, i, gs \ {g})

radix_tree_delete(r, i) ==
  LET p == fill_path(r, i)
      f == FreeUp(ClearAll(p, r, i, Tags), r, i, Len(p), cache)
      less == [r EXCEPT !.nr_nodes = @ - 1, !.nodes = @ - (Len(p) - f.d)]
  IN  [cache |-> f.nr,
       r |-> IF f.d = 0 THEN [less EXCEPT !.rnode = <<>>, !.height = 0]
             ELSE [less EXCEPT !.rnode = <<Rebuild(f.p, r, i, f.d)>>]]
-----------------------------------------------------------------------------
(* One pass of __lookup below node: the items from index i on, at most max, *)
(* and the index the next pass starts from.                                *)
RECURSIVE LookupPass(_, _, _, _)
LookupPass(node, h, i, max) ==
  LET o == calc_offset(i, Shift(h))
      used == {x \in DOMAIN node.slots : x >= o}
      to == IF used = {} THEN MapSize ELSE CHOOSE x \in used : \A y \in used : x <= y
      at == IF to = o THEN i ELSE Align(i, Shift(h)) + (to - o) * 2 ^ Shift(h)
      take == {x \in used : Cardinality({y \in used : y <= x}) <= max}
      last == CHOOSE x \in take : \A y \in take : y <= x
      base == Align(i, MapShift)
  IN  CASE at >= 2 ^ IndexBits -> [found |-> {}, next |-> 0]
        [] at < 2 ^ IndexBits /\ used = {} -> [found |-> {}, next |-> at]
        [] at < 2 ^ IndexBits /\ used # {} /\ h > 1 -> LookupPass(node.slots[to], h - 1, at, max)
        [] OTHER -> [found |-> {node.slots[x] : x \in take},
                     next |-> Wrap(base + IF Cardinality(take) = max THEN last + 1 ELSE MapSize)]

(* One pass of __lookup_tag. *)
RECURSIVE TagPass(_, _, _, _, _)
TagPass(node, h, i, max, g) ==
  LET o == calc_offset(i, Shift(h))
      used == {x \in node.tags[g] : x >= o}
      to == IF used = {} THEN MapSize ELSE CHOOSE x \in used : \A y \in used : x <= y
      at == IF to = o THEN i ELSE Align(Wrap(i + (to - o) * 2 ^ Shift(h)), Shift(h))
      take == {x \in used : Cardinality({y \in used : y <= x}) <= max}
      last == CHOOSE x \in take : \A y \in take : y <= x
      base == Align(at, MapShift)
  IN  CASE used = {} -> [found |-> {}, next |-> at]
        [] used # {} /\ h > 1 -> TagPass(node.slots[to], h - 1, at, max, g)
        [] OTHER -> [found |-> {node.slots[x] : x \in take},
                     next |-> Wrap(base + IF Cardinality(take) = max THEN last + 1 ELSE MapSize)]

(* __radix_tree_gang_lookup; with a tag, __radix_tree_gang_lookup_tag. *)
RECURSIVE Gang(_, _, _, _, _)
Gang(r, cur, max, found, tag) ==
  LET left == max - Cardinality(found)
      pass == IF tag = <<>> THEN LookupPass(r.rnode[1], r.height, cur, left)
                            ELSE TagPass(r.rnode[1], r.height, cur, left, tag[1])
      all  == found \cup pass.found
  IN  IF left = 0 \/ cur > rdtree_maxindex(r.height) THEN [found |-> found, next |-> cur]
      ELSE IF pass.next = 0 THEN [found |-> all, next |-> 0]
      ELSE Gang(r, pass.next, max, all, tag)

gang_lookup(r, first, max, tag) ==
  IF r.height = 0 THEN [found |-> {}, next |-> 0] ELSE Gang(r, first, max, {}, tag)

(* radix_tree_iter_next until it gives NULL: the indexes visited, in order. *)
RECURSIVE IterFrom(_, _, _, _)
IterFrom(r, index, next, tag) ==
  LET one == gang_lookup(r, next, 1, tag)
  IN  IF (next = 0 /\ index # 0) \/ one.found = {} THEN <<>>
      ELSE <<Wrap(one.next - 1)>> \o IterFrom(r, Wrap(one.next - 1), one.next, tag)
-----------------------------------------------------------------------------
RdInit ==
  /\ root = [height |-> 0, rnode |-> <<>>, nr_nodes |-> 0, nodes |-> 0]
  /\ cache = 0 /\ stored = {} /\ marks = [g \in Tags |-> {}] /\ starved = FALSE

(* Mallocs that succeed during one insertion: enough, or, once, too few. *)
Plenty == 4 * CacheMax
Memory == IF starved THEN {Plenty} ELSE {0, 1, Plenty}

(* __radix_tree_insert with mem successful mallocs left *)
RdInsert(i, mem) ==
  LET in == radix_tree_insert(root, i, [nr |-> cache, mem |-> mem, ok |-> TRUE, used |-> 0])
  IN  /\ root' = [in.r EXCEPT !.nodes = @ + in.m.used]
      /\ cache' = in.m.nr
      /\ stored' = IF in.rc = "ok" THEN stored \cup {i} ELSE stored
      /\ starved' = (starved \/ in.rc = "ENOMEM")
      /\ UNCHANGED marks

RdDelete(i) ==
  /\ radix_tree_lookup(root, i)
  /\ root' = radix_tree_delete(root, i).r
  /\ cache' = radix_tree_delete(root, i).cache
  /\ stored' = stored \ {i}
  /\ marks' = [g \in Tags |-> marks[g] \ {i}]
  /\ UNCHANGED starved

(* The tag operations require an item at the index (BUG_ON otherwise). *)
RdTag(i, g) ==
  /\ i \in stored
  /\ \/ root' = radix_tree_tag_set(root, i, g) /\ marks' = [marks EXCEPT ![g] = @ \cup {i}]
     \/ root' = radix_tree_tag_clear(root, i, g) /\ marks' = [marks EXCEPT ![g] = @ \ {i}]
  /\ UNCHANGED <<cache, stored, starved>>

(* radix_tree_reclaim *)
RdReclaim == cache > 0 /\ cache' = 0 /\ UNCHANGED <<root, stored, marks, starved>>

RdNext ==
  \/ \E i \in Indexes, mem \in Memory : RdInsert(i, mem)
  \/ \E i \in Indexes : RdDelete(i)
  \/ \E i \in Indexes, g \in Tags : RdTag(i, g)
  \/ RdReclaim
-----------------------------------------------------------------------------
RECURSIVE NodesBelow(_, _, _)
(* Every node with its height and the offsets that lead to it. *)
NodesBelow(node, h, path) ==
  {<<h, node, path>>} \cup
    IF h = 1 THEN {}
    ELSE UNION {NodesBelow(node.slots[o], h - 1, Append(path, o)) : o \in DOMAIN node.slots}

Sorted(S) == [k \in 1 .. Cardinality(S) |->
               CHOOSE x \in S : Cardinality({y \in S : y <= x}) = k]
FromOn(S, first, max) ==
  LET T == {x \in S : x >= first} IN {x \in T : Cardinality({y \in T : y <= x}) <= max}

(***************************************************************************)
(* Every lookup agrees with the map: radix_tree_lookup, both gang lookups  *)
(* from every start and for every length (over the wrap-around of the      *)
(* index at the top of its range), the iterators, and nr_nodes.  It holds  *)
(* whatever allocations failed, except in a tree whose first insertion     *)
(* failed after rdtree_extend had set the height: there __lookup would     *)
(* follow the NULL rnode.                                                  *)
(***************************************************************************)
LooksUpTheMap ==
  /\ root.nr_nodes = Cardinality(stored)
  /\ \A i \in 0 .. 2 ^ IndexBits - 1 :
       /\ radix_tree_lookup(root, i) <=> i \in stored
       /\ \A g \in Tags : radix_tree_tag_get(root, i, g) <=> i \in marks[g]
  /\ (root.rnode # <<>> \/ root.height = 0) =>
       /\ \A first \in 0 .. 2 ^ IndexBits - 1, max \in 1 .. 3 :
            /\ gang_lookup(root, first, max, <<>>).found = FromOn(stored, first, max)
            /\ \A g \in Tags : gang_lookup(root, first, max, <<g>>).found
                                 = FromOn(marks[g], first, max)
       /\ IterFrom(root, 0, 0, <<>>) = Sorted(stored)
       /\ \A g \in Tags : IterFrom(root, 0, 0, <<g>>) = Sorted(marks[g])

(***************************************************************************)
(* The bookkeeping the next operation relies on: count is the number of    *)
(* used slots of every node, a tag is set above a slot exactly when it is  *)
(* set below it (radix_tree_tagged looks at the top only), alloc_mm is the *)
(* number of nodes, and, as BUG_ON(root->rnode) at the end of              *)
(* radix_tree_release demands, a tree without items has no nodes unless an *)
(* insertion failed half way.                                              *)
(***************************************************************************)
NodesAddUp ==
  LET all == IF root.rnode = <<>> THEN {} ELSE NodesBelow(root.rnode[1], root.height, <<>>)
  IN  /\ \A hn \in all :
           /\ hn[2].count = Cardinality(DOMAIN hn[2].slots)
           /\ hn[1] > 1 => \A o \in DOMAIN hn[2].slots, g \in Tags :
                             o \in hn[2].tags[g] <=> hn[2].slots[o].tags[g] # {}
      /\ ~starved => (stored = {} => root.rnode = <<>> /\ root.height = 0)
      /\ root.nodes = Cardinality(all)
      /\ cache \in 0 .. CacheMax

(***************************************************************************)
(* BUG_ON(root->rnode) at the end of radix_tree_release: once every item   *)
(* is deleted the tree has no node left.                                   *)
(***************************************************************************)
ReleaseEmptiesTree == stored = {} => root.rnode = <<>>
=============================================================================
