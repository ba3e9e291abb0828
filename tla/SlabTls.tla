------------------------------ MODULE SlabTls ------------------------------
(***************************************************************************)
(* A cache of src/mm/slab.c whose slabs threads load into thread storage   *)
(* (index >= 0, the caches behind umalloc and ufree): allocation from the  *)
(* loaded slab without a lock, refill from the slab's locked free list,    *)
(* the partial list, new slabs, frees of another thread's objects batched  *)
(* in the freeing thread, reclaim when a thread ends, and shrinking.       *)
(*                                                                         *)
(* A section under the lock of a page (PG_locked) or of the cache          *)
(* (node.lock) is one step; a page lock held while the cache lock is       *)
(* awaited is kept in the state.  Free lists are sets.                     *)
(***************************************************************************)
EXTENDS Integers, FiniteSets, Sequences, SequencesExt

CONSTANTS
  Threads, NoThread,
  Pages, NoPage,
  NrObjects,      \* s->objects
  FreelistCap,    \* TLS_FREELIST_CAP
  MinPartial      \* UMALLOC_MIN_PARTIAL

VARIABLES
  page,           \* page[p]: struct vpage of a slab
  partial,        \* s->node.partial; its length is nr_partial
  shrinker,       \* who shrinks the cache (__SLAB_SHRINKING, under node.lock)
  tls,            \* tls[t]: loaded page, and the batch of frees with its page
  live,           \* objects in use by the program
  act             \* act[t]: what t is doing

svars == <<page, partial, shrinker, tls, live, act>>

Objects(p) == {p} \X (1 .. NrObjects)
FreePage == [slab |-> FALSE, frozen |-> FALSE, inuse |-> 0, freelist |-> {}, lockless |-> {},
             lock |-> NoThread]
FreshSlab(p) == [FreePage EXCEPT !.slab = TRUE, !.freelist = Objects(p)]
Idle == [pc |-> "idle", page |-> NoPage, objs |-> {}, last |-> FALSE, todo |-> <<>>,
         ret |-> "idle", new |-> NoPage]
PickObject(S) == CHOOSE o \in S : TRUE

SlabInit ==
  /\ page = [p \in Pages |-> FreePage]
  /\ partial = <<>> /\ shrinker = NoThread /\ live = {}
  /\ tls = [t \in Threads |-> [page |-> NoPage, objs |-> {}, flpage |-> NoPage]]
  /\ act = [t \in Threads |-> Idle]

CacheFree == shrinker = NoThread      \* node.lock is free
Unlocked(p) == page[p].lock = NoThread
At(t, pc) == act[t].pc = pc
Become(t, rec) == act' = [act EXCEPT ![t] = rec]
need_discard == shrinker # NoThread \/ Len(partial) > MinPartial
-----------------------------------------------------------------------------
(* lockless_alloc from the loaded slab *)
AllocFast(t) ==
  LET p == tls[t].page
  IN  /\ At(t, "idle") /\ p # NoPage /\ page[p].lockless # {}
      /\ LET o == PickObject(page[p].lockless)
         IN  /\ page' = [page EXCEPT ![p].lockless = @ \ {o}]
             /\ live' = live \cup {o}
      /\ UNCHANGED <<partial, shrinker, tls, act>>

(* freelist_alloc of the loaded slab p: one object, the rest becomes lockless *)
Load(t, p, pg, pages) ==
  LET o == PickObject(pg.freelist)
  IN  /\ page' = [pages EXCEPT ![p] = [pg EXCEPT !.frozen = TRUE, !.freelist = {},
                    !.lockless = pg.freelist \ {o}, !.inuse = NrObjects]]
      /\ live' = live \cup {o}
      /\ tls' = [tls EXCEPT ![t].page = p]
      /\ Become(t, Idle)

(* slab_alloc: refill from the free list, or unload the full slab (deactivate_slab) *)
AllocSlow(t) ==
  LET p == tls[t].page
  IN  /\ At(t, "idle")
      /\ IF p = NoPage
           THEN Become(t, [Idle EXCEPT !.pc = "partial"]) /\ UNCHANGED <<page, live, tls>>
           ELSE /\ page[p].lockless = {} /\ Unlocked(p)
                /\ IF page[p].freelist # {} THEN Load(t, p, page[p], page)
                   ELSE /\ page' = [page EXCEPT ![p].frozen = FALSE]
                        /\ tls' = [tls EXCEPT ![t].page = NoPage]
                        /\ Become(t, [Idle EXCEPT !.pc = "partial"])
                        /\ UNCHANGED live
      /\ UNCHANGED <<partial, shrinker>>

(* get_partial_lockless: the first slab of the partial list whose lock is free *)
GetPartial(t) ==
  LET open == {i \in 1 .. Len(partial) : Unlocked(partial[i])}
  IN  /\ At(t, "partial")
      /\ IF partial = <<>>
           THEN Become(t, IF act[t].new # NoPage THEN [act[t] EXCEPT !.pc = "loadnew"]
                          ELSE IF act[t].last THEN Idle ELSE [act[t] EXCEPT !.pc = "grow"])
                /\ UNCHANGED <<page, partial, tls, live>>
           ELSE /\ CacheFree /\ open # {}
                /\ LET p == partial[CHOOSE i \in open : \A j \in open : i <= j]
                       pages == IF act[t].new = NoPage THEN page
                                ELSE [page EXCEPT ![act[t].new] = FreePage]   \* discard_slab(new)
                   IN  partial' = Remove(partial, p) /\ Load(t, p, page[p], pages)
      /\ UNCHANGED shrinker

(* new_slab.  The first page a thread allocates makes pgtls_acquire call   *)
(* umalloc, which may load a slab of this very cache (nested).             *)
GrowNested(t) ==
  /\ At(t, "grow") /\ ~act[t].last /\ tls[t].page = NoPage
  /\ \E q \in Pages :
       /\ ~page[q].slab
       /\ LET o == PickObject(Objects(q))
          IN  /\ page' = [page EXCEPT ![q] = [FreshSlab(q) EXCEPT !.frozen = TRUE, !.freelist = {},
                            !.lockless = Objects(q) \ {o}, !.inuse = NrObjects]]
              /\ live' = live \cup {o}
       /\ tls' = [tls EXCEPT ![t].page = q]
  /\ UNCHANGED <<partial, shrinker, act>>

Grow(t) ==
  /\ At(t, "grow")
  /\ \E p \in Pages :
       /\ ~page[p].slab
       /\ IF tls[t].page = NoPage THEN Load(t, p, FreshSlab(p), page)
          ELSE /\ page' = [page EXCEPT ![p] = FreshSlab(p)]   \* "exist": unload the other one
               /\ Become(t, [Idle EXCEPT !.pc = "unload", !.new = p, !.ret = "partial"])
               /\ UNCHANGED <<tls, live>>
  /\ UNCHANGED <<partial, shrinker>>

LoadNew(t) ==
  /\ At(t, "loadnew")
  /\ Load(t, act[t].new, page[act[t].new], page)
  /\ UNCHANGED <<partial, shrinker>>

(* __alloc_pages has no page: umem_cache_shrink_all once, unless another   *)
(* thread is in it; then NULL, or a slab of the list after the nested load *)
GrowFails(t) ==
  /\ At(t, "grow") /\ \A p \in Pages : page[p].slab
  /\ IF act[t].last
       THEN Become(t, IF tls[t].page = NoPage THEN Idle
                      ELSE [Idle EXCEPT !.pc = "unload", !.last = TRUE, !.ret = "partial"])
       ELSE \E pc \in {"reclaim", "grow"} : Become(t, [Idle EXCEPT !.pc = pc, !.last = TRUE])
  /\ UNCHANGED <<page, partial, shrinker, tls, live>>
-----------------------------------------------------------------------------
(* ufree: into the loaded slab, or into the batch, flushing it when it is  *)
(* of another page or full                                                 *)
Free(t, o) ==
  LET p == o[1]
      fl == tls[t]
  IN  /\ At(t, "idle") /\ o \in live
      /\ live' = live \ {o}
      /\ IF fl.page = p
           THEN page' = [page EXCEPT ![p].lockless = @ \cup {o}] /\ UNCHANGED <<tls, act>>
           ELSE /\ tls' = [tls EXCEPT ![t].objs = IF @ = {} \/ (fl.flpage = p /\ Cardinality(@) < FreelistCap)
                                                   THEN @ \cup {o} ELSE {o},
                                      ![t].flpage = p]
                /\ IF fl.objs # {} /\ (fl.flpage # p \/ Cardinality(fl.objs) >= FreelistCap)
                     THEN Become(t, [Idle EXCEPT !.pc = "free", !.page = fl.flpage, !.objs = fl.objs])
                     ELSE UNCHANGED act
                /\ UNCHANGED page
      /\ UNCHANGED <<partial, shrinker>>

(* __ufree and cache_free: past every cache *)
FreeDirect(t, o) ==
  /\ At(t, "idle") /\ o \in live
  /\ live' = live \ {o}
  /\ Become(t, [Idle EXCEPT !.pc = "free", !.page = o[1], !.objs = {o}])
  /\ UNCHANGED <<page, partial, shrinker, tls>>

(* __slab_free up to the first need of the cache lock *)
SlabFree(t) ==
  LET a == act[t]
      pg == page[a.page]
      now == [pg EXCEPT !.freelist = @ \cup a.objs, !.inuse = @ - Cardinality(a.objs)]
      back == [Idle EXCEPT !.pc = a.ret, !.last = a.last]
      Await(pc) == /\ page' = [page EXCEPT ![a.page] = [now EXCEPT !.lock = t]]
                   /\ Become(t, [a EXCEPT !.pc = pc, !.objs = {}])
  IN  /\ At(t, "free") /\ Unlocked(a.page)
      /\ CASE ~pg.frozen /\ now.inuse = 0 /\ need_discard /\ pg.freelist # {} -> Await("remove")
           [] ~pg.frozen /\ now.inuse = 0 /\ need_discard /\ pg.freelist = {} ->
                page' = [page EXCEPT ![a.page] = FreePage] /\ Become(t, back)
           [] ~pg.frozen /\ ~(now.inuse = 0 /\ need_discard) /\ pg.freelist = {} -> Await("addtail")
           [] OTHER -> page' = [page EXCEPT ![a.page] = now] /\ Become(t, back)
      /\ UNCHANGED <<partial, shrinker, tls, live>>

(* A discarded slab stays on the partial list. *)
DiscardKeepsListed(t) ==
  /\ At(t, "remove") /\ CacheFree
  /\ page' = [page EXCEPT ![act[t].page] = FreePage]
  /\ Become(t, [Idle EXCEPT !.pc = act[t].ret, !.last = act[t].last])
  /\ UNCHANGED <<partial, shrinker, tls, live>>

(* remove_partial and discard_slab *)
RemovePartial(t) ==
  /\ At(t, "remove") /\ CacheFree
  /\ partial' = Remove(partial, act[t].page)
  /\ page' = [page EXCEPT ![act[t].page] = FreePage]
  /\ Become(t, [Idle EXCEPT !.pc = act[t].ret, !.last = act[t].last])
  /\ UNCHANGED <<shrinker, tls, live>>

(* add_partial and add_partial_tail, then slab_unlock *)
AddPartial(t) ==
  /\ act[t].pc \in {"addhead", "addtail"} /\ CacheFree
  /\ partial' = IF At(t, "addhead") THEN <<act[t].page>> \o partial
                ELSE Append(partial, act[t].page)
  /\ page' = [page EXCEPT ![act[t].page].lock = NoThread]
  /\ Become(t, [Idle EXCEPT !.pc = act[t].ret, !.new = act[t].new, !.last = act[t].last])
  /\ UNCHANGED <<shrinker, tls, live>>
-----------------------------------------------------------------------------
(* cache_reclaim, and slabtls_release at the end of a thread: the batch,   *)
(* then the loaded slab.                                                   *)
Reclaim(t) ==
  /\ At(t, "idle") /\ (tls[t].page # NoPage \/ tls[t].objs # {})
  /\ Become(t, [Idle EXCEPT !.pc = "reclaim"])
  /\ UNCHANGED <<page, partial, shrinker, tls, live>>

ReclaimBatch(t) ==
  /\ At(t, "reclaim")
  /\ IF tls[t].objs # {}
       THEN /\ Become(t, [act[t] EXCEPT !.pc = "free", !.page = tls[t].flpage, !.objs = tls[t].objs,
                                        !.ret = "reclaim"])
            /\ tls' = [tls EXCEPT ![t].objs = {}, ![t].flpage = NoPage]
       ELSE /\ Become(t, [act[t] EXCEPT !.pc = IF tls[t].page # NoPage THEN "unload"
                                               ELSE IF act[t].last THEN "shrinkall" ELSE "idle",
                                        !.ret = IF tls[t].page # NoPage THEN "reclaim" ELSE "idle"])
            /\ UNCHANGED tls
  /\ UNCHANGED <<page, partial, shrinker, live>>

(* deactivate_slab of the loaded slab *)
Unload(t) ==
  LET p == tls[t].page
      pg == page[p]
      now == [pg EXCEPT !.freelist = @ \cup pg.lockless, !.inuse = @ - Cardinality(pg.lockless),
                        !.lockless = {}, !.frozen = FALSE]
      Await(pc) == /\ page' = [page EXCEPT ![p] = [now EXCEPT !.lock = t]]
                   /\ Become(t, [act[t] EXCEPT !.pc = pc, !.page = p])
      Done(pg1) == /\ page' = [page EXCEPT ![p] = pg1]
                   /\ Become(t, [act[t] EXCEPT !.pc = act[t].ret])
  IN  /\ At(t, "unload") /\ Unlocked(p)
      /\ tls' = [tls EXCEPT ![t].page = NoPage]
      /\ CASE now.inuse > 0 /\ now.freelist # {} -> Await("addhead")
           [] now.inuse > 0 /\ now.freelist = {} -> Done(now)
           [] now.inuse = 0 /\ need_discard -> Done(FreePage)
           [] OTHER -> Await("addtail")
      /\ UNCHANGED <<partial, shrinker, live>>

(* cache_shrink: under node.lock, the free slabs first; not while another  *)
(* thread does it                                                          *)
ShrinkSkip(t) ==
  /\ At(t, "shrinkall") /\ ~CacheFree
  /\ Become(t, [Idle EXCEPT !.pc = "grow", !.last = TRUE])
  /\ UNCHANGED <<page, partial, shrinker, tls, live>>

ShrinkStart(t) ==
  /\ At(t, "idle") \/ At(t, "shrinkall")
  /\ CacheFree
  /\ shrinker' = t
  /\ LET sorted == SortSeq(partial, LAMBDA a, b : page[a].inuse < page[b].inuse)
     IN  partial' = sorted /\ Become(t, [Idle EXCEPT !.pc = "shrink", !.todo = sorted, !.last = act[t].last])
  /\ UNCHANGED <<page, tls, live>>

ShrinkOne(t) ==
  LET p == Head(act[t].todo)
  IN  /\ At(t, "shrink") /\ act[t].todo # <<>>
      /\ IF page[p].inuse > 0
           THEN Become(t, [act[t] EXCEPT !.todo = <<>>]) /\ UNCHANGED <<page, partial>>
           ELSE /\ Become(t, [act[t] EXCEPT !.todo = Tail(@)])
                /\ IF Unlocked(p)
                     THEN /\ partial' = Remove(partial, p)
                          /\ page' = [page EXCEPT ![p] = FreePage]
                     ELSE UNCHANGED <<page, partial>>
      /\ UNCHANGED <<shrinker, tls, live>>

ShrinkEnd(t) ==
  /\ At(t, "shrink") /\ act[t].todo = <<>>
  /\ shrinker' = NoThread
  /\ Become(t, [Idle EXCEPT !.pc = IF act[t].last THEN "grow" ELSE "idle", !.last = act[t].last])
  /\ UNCHANGED <<page, partial, tls, live>>

SlabNext ==
  \E t \in Threads :
    \/ AllocFast(t) \/ AllocSlow(t) \/ GetPartial(t) \/ GrowNested(t) \/ Grow(t)
    \/ LoadNew(t) \/ GrowFails(t) \/ (\E o \in live : Free(t, o) \/ FreeDirect(t, o))
    \/ SlabFree(t) \/ RemovePartial(t) \/ AddPartial(t) \/ Reclaim(t) \/ ReclaimBatch(t)
    \/ Unload(t) \/ ShrinkSkip(t) \/ ShrinkStart(t) \/ ShrinkOne(t) \/ ShrinkEnd(t)
-----------------------------------------------------------------------------
(***************************************************************************)
(* Every object of a slab is in one place: given out, in one free list of  *)
(* its page, or in one thread's batch; a page that went back to the page   *)
(* allocator has no object anywhere (a slab is never discarded under a     *)
(* live object, and no object is given out twice).                         *)
(***************************************************************************)
ObjectsInOnePlace ==
  \A p \in Pages :
    LET parts == {page[p].freelist, page[p].lockless, live \cap Objects(p)} \cup
                 {tls[t].objs \cap Objects(p) : t \in Threads} \cup
                 {act[t].objs \cap Objects(p) : t \in Threads}
        count == Cardinality(page[p].freelist) + Cardinality(page[p].lockless)
                 + Cardinality(live \cap Objects(p))
    IN  /\ UNION parts = IF page[p].slab THEN Objects(p) ELSE {}
        /\ \A a, b \in parts : a = b \/ a \cap b = {}
        /\ count <= NrObjects

(***************************************************************************)
(* No slab is lost or found twice: inuse counts the objects outside the    *)
(* free list, only a loaded slab has lockless objects and it is loaded by  *)
(* one thread, and an unlocked slab is on the partial list exactly when it *)
(* is not loaded and has a free object.                                    *)
(***************************************************************************)
SlabsAccounted ==
  /\ \A i, j \in 1 .. Len(partial) : partial[i] = partial[j] => i = j
  /\ \A p \in Pages :
       LET pg == page[p]
           loaders == {t \in Threads : tls[t].page = p}
           inHand == \E t \in Threads : act[t].new = p
       IN  /\ pg.slab => pg.inuse + Cardinality(pg.freelist) = NrObjects
           /\ Cardinality(loaders) = IF pg.frozen THEN 1 ELSE 0
           /\ pg.lockless # {} => pg.frozen
           /\ p \in Range(partial) => pg.slab /\ ~pg.frozen /\ pg.freelist # {}
           /\ pg.slab /\ ~pg.frozen /\ pg.freelist # {} /\ Unlocked(p) /\ ~inHand
                => p \in Range(partial)
=============================================================================
