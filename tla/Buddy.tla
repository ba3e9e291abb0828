------------------------------- MODULE Buddy -------------------------------
(***************************************************************************)
(* The page allocator of src/mm/pgalloc.c over the nodes of                *)
(* src/mm/mmzone.c: one buddy system per node, behind its zone lock, and a *)
(* cache of single pages per thread.  Memory comes from mmap in blocks of  *)
(* the highest order and surplus blocks of that order go back with munmap, *)
(* outside the zone lock.                                                  *)
(*                                                                         *)
(* A page is its frame number; block b is frames b * 2^Top .. .  A section *)
(* under a zone lock is one step.  Where mmap lands is a free choice.      *)
(***************************************************************************)
EXTENDS Integers, FiniteSets, Sequences, SequencesExt, FiniteSetsExt

CONSTANTS
  Cpus,               \* threads
  Top,                \* MAX_ORDER - 1
  NodeOf,             \* NodeOf[b]: the node of block b
  Reserved,           \* pages of a node's first block that hold its page descriptors
  TlsLow, TlsHigh, TlsBatch,   \* tls->low, high and batch (8, 12 and 4)
  MaxHeld             \* bound: no allocation begins with as many blocks allocated

VARIABLES
  zone,               \* zone[n]: free_area as a sequence of first pages per order, free_pages
  order,              \* order[p]: order of the free block p heads, -1 if none (PageBuddy)
  up,                 \* nodes started (node_map.has_up)
  has_free,           \* node_map.has_free
  mapped,             \* blocks mapped from the operating system
  pgtls,              \* pgtls[c]: single pages cached by c
  held,               \* the blocks allocated, <<page, order>>; any thread may free one
  reserve,            \* pages of descriptors
  cpu                 \* cpu[c]: what c is doing, its request and its page

bvars == <<zone, order, up, has_free, mapped, pgtls, held, reserve, cpu>>

Blocks == DOMAIN NodeOf
Nodes == {NodeOf[b] : b \in Blocks}
BlockPages == 2 ^ Top
BlockOf(p) == p \div BlockPages
Frames(b) == b * BlockPages .. (b + 1) * BlockPages - 1
AllFrames == UNION {Frames(b) : b \in Blocks}
PageNode(p) == NodeOf[BlockOf(p)]
Extent(p, k) == p .. p + 2 ^ k - 1
Orders == 0 .. Top
EmptyZone == [area |-> [k \in Orders |-> <<>>], free_pages |-> 0]
AtRest == [pc |-> "rest", order |-> 0, page |-> -1]

(* A zone and the order array, as the functions below pass them around *)
buddy_idx(p, k) == IF (p \div 2 ^ k) % 2 = 0 THEN p + 2 ^ k ELSE p - 2 ^ k

(* The merging loop of __free_pages_bulk and the insertion at the head *)
RECURSIVE MergeUp(_, _, _)
MergeUp(z, p, k) ==
  LET b == buddy_idx(p, k)
  IN  IF k < Top /\ z.order[b] = k
        THEN MergeUp([z EXCEPT !.order[b] = -1, !.area[k] = Remove(@, b)],
                     IF b < p THEN b ELSE p, k + 1)
        ELSE [z EXCEPT !.order[p] = k, !.area[k] = <<p>> \o @]

__free_pages_bulk(z, p, k) == MergeUp([z EXCEPT !.free_pages = @ + 2 ^ k], p, k)

(* expand: the upper halves go to the lower lists, at the tail *)
RECURSIVE Expand(_, _, _, _)
Expand(z, p, low, high) ==
  IF high = low THEN z
  ELSE LET h == high - 1
           q == p + 2 ^ h
       IN  Expand([z EXCEPT !.area[h] = Append(@, q), !.order[q] = h], p, low, h)

(* __rmqueue: the page and the zone after, or no page *)
__rmqueue(z, k) ==
  LET ks == {j \in Orders : j >= k /\ z.area[j] # <<>>}
      j == Min(ks)
      p == Head(z.area[j])
  IN  IF ks = {} THEN [page |-> -1, z |-> z]
      ELSE [page |-> p,
            z |-> Expand([z EXCEPT !.area[j] = Tail(@), !.order[p] = -1,
                                   !.free_pages = @ - 2 ^ k], p, k, j)]

RECURSIVE rmqueue_bulk(_, _, _)
rmqueue_bulk(z, count, list) ==
  LET r == __rmqueue(z, 0)
  IN  IF count = 0 \/ r.page = -1 THEN [z |-> z, list |-> list]
      ELSE rmqueue_bulk(r.z, count - 1, Append(list, r.page))

RECURSIVE FreeEach(_, _)
FreeEach(z, ps) == IF ps = <<>> THEN z ELSE FreeEach(__free_pages_bulk(z, Head(ps), 0), Tail(ps))

(* startup_node: the first pages of a node's first block hold descriptors, *)
(* the others are freed one by one                                         *)
Descriptors(b) == b * BlockPages .. b * BlockPages + Reserved - 1
startup_node(z, b) ==
  FreeEach(z, [i \in 1 .. BlockPages - Reserved |-> b * BlockPages + Reserved + i - 1])

(* __setup_memory: a first block is mapped, anywhere, and starts its node *)
BuddyInit ==
  /\ \E b \in Blocks :
       LET z == startup_node([area |-> EmptyZone.area, free_pages |-> 0,
                              order |-> [p \in AllFrames |-> -1]], b)
       IN  /\ mapped = {b} /\ reserve = Descriptors(b)
           /\ up = {NodeOf[b]} /\ has_free = up /\ order = z.order
           /\ zone = [n \in Nodes |-> IF n = NodeOf[b]
                        THEN [area |-> z.area, free_pages |-> z.free_pages] ELSE EmptyZone]
  /\ pgtls = [c \in Cpus |-> <<>>] /\ held = {}
  /\ cpu = [c \in Cpus |-> AtRest]

OfNode(n) == [area |-> zone[n].area, free_pages |-> zone[n].free_pages, order |-> order]
SetZone(n, z) ==
  /\ zone' = [zone EXCEPT ![n] = [area |-> z.area, free_pages |-> z.free_pages]]
  /\ order' = z.order
  /\ has_free' = IF z.free_pages > 0 THEN has_free \cup {n} ELSE has_free \ {n}

Step(c, rec) == cpu' = [cpu EXCEPT ![c] = rec]
-----------------------------------------------------------------------------
(* __alloc_pages; a request of order 0 tries node 0 first, whatever has_free says *)
AllocStart(c, k) ==
  /\ cpu[c].pc = "rest" /\ Cardinality(held) < MaxHeld
  /\ Step(c, [AtRest EXCEPT !.pc = IF k = 0 THEN "node0" ELSE "nodes", !.order = k])
  /\ UNCHANGED <<zone, order, up, has_free, mapped, pgtls, held, reserve>>

Got(c, p) ==
  /\ held' = held \cup {<<p, cpu[c].order>>}
  /\ Step(c, AtRest)

(* buffered_rmqueue: through the thread's cache for a single page *)
FromNode(c, n, otherwise) ==
  LET k == cpu[c].order
      list == pgtls[c]
      refill == IF Len(list) <= TlsLow THEN rmqueue_bulk(OfNode(n), TlsBatch, list)
                ELSE [z |-> OfNode(n), list |-> list]
      r == __rmqueue(OfNode(n), k)
      Fail == Step(c, otherwise) /\ UNCHANGED held
  IN  IF k = 0
        THEN /\ SetZone(n, refill.z)
             /\ IF refill.list = <<>> THEN Fail /\ UNCHANGED pgtls
                ELSE /\ Got(c, Head(refill.list))
                     /\ pgtls' = [pgtls EXCEPT ![c] = Tail(refill.list)]
        ELSE /\ SetZone(n, r.z)
             /\ IF r.page = -1 THEN Fail ELSE Got(c, r.page)
             /\ UNCHANGED pgtls

AllocNode0(c) ==
  /\ cpu[c].pc = "node0"
  /\ FromNode(c, 0, [cpu[c] EXCEPT !.pc = "nodes"])
  /\ UNCHANGED <<up, mapped, reserve>>

(* for_each_free_node; huge requests (order > MAX_ORDER / 2) look at the lists first *)
AllocFromFree(c, n) ==
  /\ cpu[c].pc = "nodes" /\ n \in has_free
  /\ cpu[c].order > (Top + 1) \div 2 => \E j \in Orders : j >= cpu[c].order /\ zone[n].area[j] # <<>>
  /\ FromNode(c, n, [cpu[c] EXCEPT !.pc = "supply"])
  /\ UNCHANGED <<up, mapped, reserve>>

AllocNoNode(c) ==
  /\ cpu[c].pc = "nodes"
  /\ \A n \in has_free : cpu[c].order > (Top + 1) \div 2
       /\ \A j \in Orders : j >= cpu[c].order => zone[n].area[j] = <<>>
  /\ Step(c, [cpu[c] EXCEPT !.pc = "supply"])
  /\ UNCHANGED <<zone, order, up, has_free, mapped, pgtls, held, reserve>>

(* pgcache_reclaim, through umem_cache_shrink_all: once per request in the code *)
AllocReclaim(c) ==
  /\ cpu[c].pc = "supply" /\ pgtls[c] # <<>>
  /\ Step(c, [pc |-> "free", order |-> cpu[c].order, page |-> -1, list |-> Reverse(pgtls[c]),
              k |-> 0, then |-> "nodes"])
  /\ pgtls' = [pgtls EXCEPT ![c] = <<>>]
  /\ UNCHANGED <<zone, order, up, has_free, mapped, held, reserve>>

(* The end of __free_pages_bulk: z is the zone after the merge.  A surplus  *)
(* block of the highest order leaves the free list before the unlock and   *)
(* is unmapped next; without one the thread goes on with rest.             *)
Release(c, rest, n, z, k, list, then) ==
  IF Len(z.area[Top]) > 1
    THEN /\ SetZone(n, [z EXCEPT !.area[Top] = Tail(@), !.free_pages = @ - BlockPages])
         /\ Step(c, [pc |-> "unmap", order |-> cpu[c].order, page |-> Head(z.area[Top]),
                     list |-> list, k |-> k, then |-> then])
    ELSE SetZone(n, z) /\ Step(c, rest)

(* node_supply_memory, under the big lock: a last look, then a new block.  *)
(* The first block of a node gives up its first pages to the descriptors   *)
(* and is freed page by page; a later one is freed whole.                  *)
Supply(c) ==
  LET k == cpu[c].order
      found == \E n \in has_free, j \in Orders : j >= k /\ zone[n].area[j] # <<>>
      again == [cpu[c] EXCEPT !.pc = "nodes"]
  IN  /\ cpu[c].pc = "supply"
      /\ UNCHANGED <<pgtls, held>>
      /\ \/ /\ found /\ Step(c, again)
            /\ UNCHANGED <<zone, order, up, has_free, mapped, reserve>>
         \/ /\ ~found /\ mapped = Blocks   \* mmap fails: -ENOMEM
            /\ Step(c, AtRest)
            /\ UNCHANGED <<zone, order, up, has_free, mapped, reserve>>
         \/ \E b \in Blocks \ mapped :
              LET n == NodeOf[b]
                  first == b * BlockPages
              IN  /\ ~found
                  /\ mapped' = mapped \cup {b} /\ up' = up \cup {n}
                  /\ reserve' = IF n \in up THEN reserve ELSE reserve \cup Descriptors(b)
                  /\ IF n \in up
                       THEN Release(c, [cpu[c] EXCEPT !.pc = "nodes"], n,
                                    __free_pages_bulk(OfNode(n), first, Top), Top, <<>>, "nodes")
                       ELSE SetZone(n, startup_node(OfNode(n), b)) /\ Step(c, again)

(* The overflow of the cache keeps one of the pages it gives back. *)
FreeHotKeepsOne(c, p) ==
  LET list == pgtls[c]
      keep == Len(list) - TlsBatch
  IN  /\ cpu[c].pc = "rest" /\ <<p, 0>> \in held
      /\ held' = held \ {<<p, 0>>}
      /\ IF Len(list) >= TlsHigh
           THEN /\ Step(c, [pc |-> "free", order |-> 0, page |-> -1, k |-> 0, then |-> "rest",
                            list |-> Reverse(SubSeq(list, keep + 1, Len(list)))])
                /\ pgtls' = [pgtls EXCEPT ![c] = <<p>> \o SubSeq(list, 1, keep + 1)]
           ELSE /\ pgtls' = [pgtls EXCEPT ![c] = <<p>> \o list]
                /\ UNCHANGED cpu
      /\ UNCHANGED <<zone, order, up, has_free, mapped, reserve>>

(* __free_pages and free_hot_page for one page: the cache, or its overflow first *)
FreeHot(c, p) ==
  LET list == pgtls[c]
      keep == Len(list) - TlsBatch
  IN  /\ cpu[c].pc = "rest" /\ <<p, 0>> \in held
      /\ held' = held \ {<<p, 0>>}
      /\ IF Len(list) >= TlsHigh
           THEN /\ Step(c, [pc |-> "free", order |-> 0, page |-> -1, k |-> 0, then |-> "rest",
                            list |-> Reverse(SubSeq(list, keep + 1, Len(list)))])
                /\ pgtls' = [pgtls EXCEPT ![c] = <<p>> \o SubSeq(list, 1, keep)]
           ELSE /\ pgtls' = [pgtls EXCEPT ![c] = <<p>> \o list]
                /\ UNCHANGED cpu
      /\ UNCHANGED <<zone, order, up, has_free, mapped, reserve>>

(* __free_pages_ok: several pages, or one page past the cache (___free_pages) *)
FreeOk(c, p, k) ==
  /\ cpu[c].pc = "rest" /\ <<p, k>> \in held
  /\ held' = held \ {<<p, k>>}
  /\ Step(c, [pc |-> "free", order |-> 0, page |-> -1, list |-> <<p>>, k |-> k, then |-> "rest"])
  /\ UNCHANGED <<zone, order, up, has_free, mapped, pgtls, reserve>>

(* pgcache_reclaim, and pgtls_reclaim when a thread ends *)
ReclaimTls(c) ==
  /\ cpu[c].pc = "rest" /\ pgtls[c] # <<>>
  /\ Step(c, [pc |-> "free", order |-> 0, page |-> -1, list |-> Reverse(pgtls[c]), k |-> 0,
              then |-> "rest"])
  /\ pgtls' = [pgtls EXCEPT ![c] = <<>>]
  /\ UNCHANGED <<zone, order, up, has_free, mapped, held, reserve>>

(* One round of free_pages_bulk under the zone lock *)
FreeOne(c) ==
  LET r == cpu[c]
      p == Head(r.list)
      n == PageNode(p)
      rest == IF Tail(r.list) = <<>> THEN [AtRest EXCEPT !.pc = r.then, !.order = r.order]
              ELSE [r EXCEPT !.list = Tail(@)]
  IN  /\ r.pc = "free"
      /\ Release(c, rest, n, __free_pages_bulk(OfNode(n), p, r.k), r.k, Tail(r.list), r.then)
      /\ UNCHANGED <<up, mapped, pgtls, held, reserve>>

(* node_reclaim_memory without the zone lock, then the loop looks again *)
Unmap(c) ==
  LET r == cpu[c]
      n == PageNode(r.page)
      again == Len(zone[n].area[Top]) > 1
      z == OfNode(n)
      o == [order EXCEPT ![r.page] = -1]
  IN  /\ r.pc = "unmap"
      /\ mapped' = mapped \ {BlockOf(r.page)}
      /\ IF again
           THEN /\ SetZone(n, [z EXCEPT !.area[Top] = Tail(@), !.free_pages = @ - BlockPages,
                                        !.order = o])
                /\ Step(c, [r EXCEPT !.page = Head(zone[n].area[Top])])
           ELSE /\ order' = o /\ UNCHANGED <<zone, has_free>>
                /\ Step(c, IF r.list = <<>> THEN [AtRest EXCEPT !.pc = r.then, !.order = r.order]
                           ELSE [r EXCEPT !.pc = "free", !.page = -1])
      /\ UNCHANGED <<up, pgtls, held, reserve>>

BuddyNext ==
  \E c \in Cpus :
    \/ \E k \in Orders : AllocStart(c, k)
    \/ AllocNode0(c) \/ (\E n \in Nodes : AllocFromFree(c, n)) \/ AllocNoNode(c)
    \/ AllocReclaim(c) \/ Supply(c)
    \/ \E h \in held : FreeOk(c, h[1], h[2]) \/ (h[2] = 0 /\ FreeHot(c, h[1]))
    \/ ReclaimTls(c) \/ FreeOne(c) \/ Unmap(c)
-----------------------------------------------------------------------------
Listed(n) == UNION {UNION {Extent(p, k) : p \in Range(zone[n].area[k])} : k \in Orders}
InHandOf(c) ==
  CASE cpu[c].pc = "free" -> UNION {Extent(p, cpu[c].k) : p \in Range(cpu[c].list)}
    [] cpu[c].pc = "unmap" -> Frames(BlockOf(cpu[c].page)) \cup
                              UNION {Extent(p, cpu[c].k) : p \in Range(cpu[c].list)}
    [] OTHER -> {}
Allocated == UNION {Extent(h[1], h[2]) : h \in held}

(***************************************************************************)
(* Every mapped page is in one place: in one free block of its node, in    *)
(* one thread's cache, allocated to one caller, on its way between them,   *)
(* or reserved; so no page is given out twice, none is lost, and munmap    *)
(* never takes a page somebody uses.                                       *)
(***************************************************************************)
PagesInOnePlace ==
  LET all == UNION {Listed(n) : n \in Nodes} \cup UNION {Range(pgtls[c]) \cup InHandOf(c) : c \in Cpus}
             \cup Allocated \cup reserve
      size == FoldSet(LAMBDA n, a : a + Cardinality(Listed(n)), 0, Nodes)
              + FoldSet(LAMBDA c, a : a + Len(pgtls[c]) + Cardinality(InHandOf(c)), 0, Cpus)
              + FoldSet(LAMBDA h, a : a + 2 ^ h[2], 0, held) + Cardinality(reserve)
  IN  /\ all = UNION {Frames(b) : b \in mapped}
      /\ size = Cardinality(all)

(***************************************************************************)
(* The free lists are those of a buddy system: no two free buddies below   *)
(* the highest order are left unmerged, page->order names exactly the      *)
(* heads of the lists, free_pages counts their pages, has_free names the   *)
(* nodes that have any, and a node keeps at most one free block of the     *)
(* highest order unless a thread is about to unmap the surplus.            *)
(***************************************************************************)
BuddyLists ==
  \A n \in Nodes :
    /\ \A k \in Orders : \A p \in Range(zone[n].area[k]) :
         /\ order[p] = k /\ p % 2 ^ k = 0
         /\ k < Top => order[buddy_idx(p, k)] # k
    /\ zone[n].free_pages = Cardinality(Listed(n))
    /\ n \in has_free <=> zone[n].free_pages > 0
    /\ Len(zone[n].area[Top]) > 1 => \E c \in Cpus : cpu[c].pc = "unmap"
=============================================================================
