---------------------------- MODULE SlabShared ----------------------------
(***************************************************************************)
(* A cache of src/mm/slab.c made by umem_cache_create (index -1): one      *)
(* loaded slab, s->slab_page, that every thread finds without a lock, pins *)
(* with a page reference, locks and checks again.  Objects are counted,    *)
(* not named (SlabTls follows them).  Pages come from and go to the page   *)
(* allocator, where the slab of another cache may pick them up.            *)
(***************************************************************************)
EXTENDS Integers, FiniteSets, Sequences, SequencesExt

CONSTANTS
  Threads, NoThread,
  Pages, NoPage,
  NrObjects,      \* s->objects
  MinPartial      \* UMALLOC_MIN_PARTIAL

VARIABLES
  vpage,          \* vpage[p]: slab, count, frozen, lock, freelist, lockless, inuse
  slab_page, spartial,
  inhand,         \* inhand[p]: objects given to the program
  worker,         \* worker[t]: program counter and page
  bug             \* the assertion that stopped the program, or "none"

shvars == <<vpage, slab_page, spartial, inhand, worker, bug>>

NoSlab == [slab |-> "none", count |-> 0, frozen |-> FALSE, lock |-> NoThread,
           freelist |-> 0, lockless |-> 0, inuse |-> 0]
Resting == [pc |-> "idle", page |-> NoPage]

SharedInit ==
  /\ vpage = [p \in Pages |-> NoSlab]
  /\ slab_page = NoPage /\ spartial = <<>>
  /\ inhand = [p \in Pages |-> 0]
  /\ worker = [t \in Threads |-> Resting]
  /\ bug = "none"

Goto(t, pc, p) == worker' = [worker EXCEPT ![t] = [pc |-> pc, page |-> p]]
InPc(t, pc) == worker[t].pc = pc /\ bug = "none"
Open(p) == vpage[p].lock = NoThread
need_discard_shared == Len(spartial) > MinPartial
(* put_page: the last reference returns the page *)
Put(pg) == IF pg.count = 1 THEN NoSlab ELSE [pg EXCEPT !.count = @ - 1]
(* put_slab_page: the reference is dropped only when the page's slab is of a shared cache *)
PutSlabPage(pg) ==
  LET open == [pg EXCEPT !.lock = NoThread]
  IN  IF pg.slab = "other" THEN open ELSE Put(open)
-----------------------------------------------------------------------------
(* get_slab_page: an unlocked look, a reference, the lock, the look again *)
LookSlabPage(t) ==
  /\ InPc(t, "idle")
  /\ IF slab_page # NoPage /\ vpage[slab_page].frozen
       THEN Goto(t, "pin", slab_page) ELSE Goto(t, "partial", NoPage)
  /\ UNCHANGED <<vpage, slab_page, spartial, inhand, bug>>

PinSlabPage(t) ==
  LET p == worker[t].page
  IN  /\ InPc(t, "pin")
      /\ IF vpage[p].count = 0
           THEN Goto(t, "partial", NoPage) /\ UNCHANGED vpage
           ELSE Goto(t, "lock", p) /\ vpage' = [vpage EXCEPT ![p].count = @ + 1]
      /\ UNCHANGED <<slab_page, spartial, inhand, bug>>

(* The page is not looked at again under its lock. *)
LockNoRecheck(t) ==
  LET p == worker[t].page
  IN  /\ InPc(t, "lock") /\ Open(p)
      /\ vpage' = [vpage EXCEPT ![p].lock = t]
      /\ Goto(t, "loaded", p)
      /\ UNCHANGED <<slab_page, spartial, inhand, bug>>

LockSlabPage(t) ==
  LET p == worker[t].page
  IN  /\ InPc(t, "lock") /\ Open(p)
      /\ vpage' = [vpage EXCEPT ![p].lock = t]
      /\ Goto(t, IF vpage[p].frozen /\ p = slab_page THEN "loaded" ELSE "putback", p)
      /\ UNCHANGED <<slab_page, spartial, inhand, bug>>

(* the page was unloaded meanwhile: put_slab_page looks at page->slab *)
PutBack(t) ==
  LET p == worker[t].page
  IN  /\ InPc(t, "putback")
      /\ bug' = IF vpage[p].slab = "none" THEN "page->slab" ELSE bug
      /\ vpage' = [vpage EXCEPT ![p] = PutSlabPage(@)]
      /\ Goto(t, "partial", NoPage)
      /\ UNCHANGED <<slab_page, spartial, inhand>>

(* slab_alloc with the locked loaded slab *)
AllocLoaded(t) ==
  LET p == worker[t].page
      pg == vpage[p]
  IN  /\ InPc(t, "loaded")
      /\ IF pg.lockless > 0 \/ pg.freelist > 0
           THEN /\ vpage' = [vpage EXCEPT ![p] = PutSlabPage(
                     IF pg.lockless > 0 THEN [pg EXCEPT !.lockless = @ - 1]
                     ELSE [pg EXCEPT !.lockless = pg.freelist - 1, !.freelist = 0,
                                     !.inuse = NrObjects])]
                /\ inhand' = [inhand EXCEPT ![p] = @ + 1]
                /\ Goto(t, "idle", NoPage) /\ UNCHANGED slab_page
           ELSE \* deactivate_slab up to the end of its cache section
                /\ slab_page' = NoPage
                /\ Goto(t, "unfreeze", p) /\ UNCHANGED <<vpage, inhand>>
      /\ UNCHANGED <<spartial, bug>>

(* deactivate_slab: a slab some free got into meanwhile goes to the partial list *)
Unfreeze(t) ==
  LET p == worker[t].page
  IN  /\ InPc(t, "unfreeze")
      /\ vpage' = [vpage EXCEPT ![p] = PutSlabPage([@ EXCEPT !.frozen = FALSE])]
      /\ spartial' = IF vpage[p].freelist > 0 THEN <<p>> \o spartial ELSE spartial
      /\ Goto(t, "partial", NoPage)
      /\ UNCHANGED <<slab_page, inhand, bug>>

(* get_partial, one section under node.lock *)
GetPartialShared(t) ==
  LET open == {i \in 1 .. Len(spartial) : Open(spartial[i])}
      Take(p, pg) == /\ vpage' = [vpage EXCEPT ![p] = [pg EXCEPT !.lock = t, !.count = @ + 1]]
                     /\ Goto(t, "loaded", p)
  IN  /\ InPc(t, "partial")
      /\ CASE slab_page # NoPage ->
                Open(slab_page) /\ Take(slab_page, vpage[slab_page]) /\ UNCHANGED <<slab_page, spartial>>
           [] slab_page = NoPage /\ spartial # <<>> ->
                /\ open # {}
                /\ LET p == spartial[CHOOSE i \in open : \A j \in open : i <= j]
                   IN  /\ Take(p, [vpage[p] EXCEPT !.frozen = TRUE])
                       /\ slab_page' = p
                       /\ spartial' = Remove(spartial, p)
           [] OTHER -> Goto(t, "new", NoPage) /\ UNCHANGED <<vpage, slab_page, spartial>>
      /\ UNCHANGED <<inhand, bug>>

NewSlab(t) ==
  /\ InPc(t, "new")
  /\ \/ \E p \in Pages :
          /\ vpage[p].count = 0
          /\ vpage' = [vpage EXCEPT ![p] = [NoSlab EXCEPT !.slab = "this", !.count = 1,
                                                          !.freelist = NrObjects]]
          /\ Goto(t, "load", p)
     \/ /\ \A p \in Pages : vpage[p].count > 0        \* no memory
        /\ Goto(t, "idle", NoPage) /\ UNCHANGED vpage
  /\ UNCHANGED <<slab_page, spartial, inhand, bug>>

(* BUG_ON(!lock_and_freeze_slab), or the slab nobody needs any more *)
LoadNewSlab(t) ==
  LET p == worker[t].page
  IN  /\ InPc(t, "load")
      /\ CASE slab_page = NoPage /\ Open(p) ->
                /\ vpage' = [vpage EXCEPT ![p].frozen = TRUE, ![p].lock = t, ![p].count = @ + 1]
                /\ slab_page' = p /\ Goto(t, "loaded", p) /\ UNCHANGED <<spartial, bug>>
           [] slab_page = NoPage /\ ~Open(p) ->
                bug' = "lock_and_freeze_slab" /\ UNCHANGED <<vpage, slab_page, spartial, worker>>
           [] slab_page # NoPage /\ ~need_discard_shared ->
                /\ spartial' = Append(spartial, p)
                /\ Goto(t, "partial", NoPage) /\ UNCHANGED <<vpage, slab_page, bug>>
           [] OTHER ->
                /\ vpage' = [vpage EXCEPT ![p] = Put([@ EXCEPT !.slab = "none", !.freelist = 0])]
                /\ Goto(t, "partial", NoPage) /\ UNCHANGED <<slab_page, spartial, bug>>
      /\ UNCHANGED inhand
-----------------------------------------------------------------------------
(* __slab_free of one object: under the page lock, then the list, then discard *)
FreeShared(t, p) ==
  LET pg == vpage[p]
      now == [pg EXCEPT !.freelist = @ + 1, !.inuse = @ - 1]
      Await(pc) == vpage' = [vpage EXCEPT ![p] = [now EXCEPT !.lock = t]] /\ Goto(t, pc, p)
  IN  /\ InPc(t, "idle") /\ inhand[p] > 0 /\ Open(p)
      /\ inhand' = [inhand EXCEPT ![p] = @ - 1]
      /\ CASE pg.frozen -> vpage' = [vpage EXCEPT ![p] = now] /\ UNCHANGED worker
           [] ~pg.frozen /\ now.inuse = 0 /\ need_discard_shared ->
                Await(IF pg.freelist > 0 THEN "unlist" ELSE "discard")
           [] ~pg.frozen /\ ~(now.inuse = 0 /\ need_discard_shared) /\ pg.freelist = 0 -> Await("list")
           [] OTHER -> vpage' = [vpage EXCEPT ![p] = now] /\ UNCHANGED worker
      /\ UNCHANGED <<slab_page, spartial, bug>>

FreeList(t) ==
  LET p == worker[t].page
  IN  /\ InPc(t, "list") \/ InPc(t, "unlist")
      /\ IF InPc(t, "list")
           THEN /\ spartial' = Append(spartial, p)
                /\ vpage' = [vpage EXCEPT ![p].lock = NoThread] /\ Goto(t, "idle", NoPage)
           ELSE /\ spartial' = Remove(spartial, p)
                /\ Goto(t, "discard", p) /\ UNCHANGED vpage
      /\ UNCHANGED <<slab_page, inhand, bug>>

(* slab_unlock, then discard_slab *)
UnlockEmpty(t) ==
  /\ InPc(t, "discard") /\ vpage[worker[t].page].lock = t
  /\ vpage' = [vpage EXCEPT ![worker[t].page].lock = NoThread]
  /\ UNCHANGED <<slab_page, spartial, inhand, worker, bug>>

DiscardSlab(t) ==
  LET p == worker[t].page
  IN  /\ InPc(t, "discard") /\ vpage[p].lock # t
      /\ vpage' = [vpage EXCEPT ![p] = Put([@ EXCEPT !.slab = "none", !.freelist = 0, !.inuse = 0])]
      /\ Goto(t, "idle", NoPage)
      /\ UNCHANGED <<slab_page, spartial, inhand, bug>>

(* the page as the loaded slab of a lockless cache, and its return (external users) *)
OtherCache ==
  /\ bug = "none"
  /\ \E p \in Pages :
       \/ /\ vpage[p].count = 0
          /\ vpage' = [vpage EXCEPT ![p] = [NoSlab EXCEPT !.slab = "other", !.count = 1, !.frozen = TRUE]]
       \/ /\ vpage[p].slab = "other" /\ Open(p)
          /\ vpage' = [vpage EXCEPT ![p] = Put([@ EXCEPT !.slab = "none", !.frozen = FALSE])]
  /\ UNCHANGED <<slab_page, spartial, inhand, worker, bug>>

(* umem_cache_destroy: cache_flush unloads the slab and frees the partial  *)
(* list; a cache with objects in use stays (its unused slabs are gone).    *)
Destroy ==
  LET flushed == [p \in Pages |->
        IF p # slab_page THEN vpage[p]
        ELSE [vpage[p] EXCEPT !.frozen = FALSE, !.freelist = @ + vpage[p].lockless,
                              !.inuse = @ - vpage[p].lockless, !.lockless = 0]]
      mine == {p \in Pages : flushed[p].slab = "this"}
      empty == {p \in mine : flushed[p].inuse = 0}
      listed == IF slab_page = NoPage \/ flushed[slab_page].freelist = 0 THEN spartial
                ELSE <<slab_page>> \o spartial
  IN  /\ bug = "none" /\ \A t \in Threads : InPc(t, "idle")   \* nobody uses the cache
      /\ mine # {}
      /\ vpage' = [p \in Pages |-> IF p \in empty
                     THEN Put([flushed[p] EXCEPT !.slab = "none", !.freelist = 0]) ELSE flushed[p]]
      /\ spartial' = SelectSeq(listed, LAMBDA p : p \notin empty)
      /\ slab_page' = NoPage
      /\ UNCHANGED <<inhand, worker, bug>>

(* after a failed assertion the program has stopped *)
Stopped == bug # "none" /\ UNCHANGED shvars

SharedNext ==
  \/ \E t \in Threads :
       \/ LookSlabPage(t) \/ PinSlabPage(t) \/ LockSlabPage(t) \/ PutBack(t) \/ AllocLoaded(t)
       \/ Unfreeze(t) \/ GetPartialShared(t) \/ NewSlab(t) \/ LoadNewSlab(t)
       \/ (\E p \in Pages : FreeShared(t, p)) \/ FreeList(t) \/ UnlockEmpty(t) \/ DiscardSlab(t)
  \/ OtherCache \/ Destroy \/ Stopped
-----------------------------------------------------------------------------
(***************************************************************************)
(* The shared slabs stay whole: the objects of a slab are in its free list,*)
(* its lockless list or in use; the loaded slab is this cache's and        *)
(* frozen; a page the program has an object of is never given to anybody   *)
(* else; and a slab with free objects that nobody is handling is loaded or *)
(* on the partial list.                                                    *)
(***************************************************************************)
SharedAccounted ==
  /\ slab_page # NoPage => vpage[slab_page].slab = "this" /\ vpage[slab_page].frozen
  /\ \A p \in Pages :
       LET pg == vpage[p]
           handled == \E t \in Threads : worker[t].page = p /\ ~InPc(t, "pin") /\ ~InPc(t, "lock")
       IN  /\ inhand[p] > 0 => pg.slab = "this"
           /\ pg.slab = "this" => /\ pg.inuse + pg.freelist = NrObjects
                                  /\ pg.inuse = pg.lockless + inhand[p]
                                  /\ pg.count >= 1
           /\ pg.slab = "this" /\ pg.freelist > 0 /\ ~handled
                => p = slab_page \/ p \in Range(spartial)
           /\ p \in Range(spartial) => pg.slab = "this" /\ ~pg.frozen

(***************************************************************************)
(* The assertions of the cache never fire: a page whose reference was      *)
(* taken still has a slab when put_slab_page looks (SLAB_BUG_ON(           *)
(* !page->slab)), and nobody else holds the lock of a slab just made       *)
(* (BUG_ON(!lock_and_freeze_slab(s, page)) in get_partial).                *)
(***************************************************************************)
SlabAssertionsHold == bug = "none"
-----------------------------------------------------------------------------
(***************************************************************************)
(* How slab.c sizes its caches: which general cache serves a size, the     *)
(* layout of a new cache (alignment, page order, objects per slab) in      *)
(* arithmetic of WordBits bits, and which existing cache a request may     *)
(* share.  The constants scale the code's (22, 11, 12, 3, 32) down.        *)
(***************************************************************************)
CONSTANTS
  PageShift,      \* VPAGE_SHIFT
  MaxOrder,       \* MAX_ORDER
  MinObjShift,    \* SLAB_MIN_OBJECTS is 2^MinObjShift
  SlabMaxOrder,   \* SLAB_MAX_ORDER
  WordBits,       \* width of uint32_t
  Line,           \* CACHELINE_BYTES
  Requests,       \* sizes and alignments asked for, <<size, align, hwcache>>
  MaxCaches       \* bound on the caches of a behaviour

VARIABLES slab_caches, asked
zvars == <<slab_caches, asked>>

Ptr == 8          \* sizeof(void *), and UMALLOC_MIN_SIZE
PageSize == 2 ^ PageShift
ALIGN(x, a) == ((x + a - 1) \div a) * a
order_base_2(n) == CHOOSE k \in 0 .. WordBits : 2 ^ k >= n /\ (k = 0 \/ 2 ^ (k - 1) < n)
fls(n) == CHOOSE k \in 0 .. WordBits : n < 2 ^ k /\ (k = 0 \/ n >= 2 ^ (k - 1))
Larger(a, b) == IF a > b THEN a ELSE b

(* the general cache of a size, -1 when whole pages are used *)
get_index(size) ==
  IF size = 96 THEN 1 ELSE IF size = 192 THEN 2
  ELSE LET index == order_base_2(ALIGN(Larger(size, 1), Ptr))
       IN  IF index > PageShift - 1 THEN -1 ELSE index
GeneralSize(index) == CASE index = 1 -> 96 [] index = 2 -> 192 [] OTHER -> 2 ^ index

calculate_alignment(hwcache, align, size) ==
  IF hwcache /\ size > Line \div 2 THEN Larger(align, Line)
  ELSE IF align < Ptr THEN Ptr ELSE ALIGN(align, Ptr)

RECURSIVE OrderFrom(_, _, _, _, _)
OrderFrom(order, size, need, max, fract) ==
  LET slab == PageSize * 2 ^ order
  IN  IF order > max \/ (slab >= need /\ slab % size <= slab \div fract) THEN order
      ELSE OrderFrom(order + 1, size, need, max, fract)
slab_order(size, min_objs, max, fract) ==
  LET need == (min_objs * size) % 2 ^ WordBits
      bits == fls((need - 1) % 2 ^ WordBits)
  IN  OrderFrom(Larger(0, bits - PageShift), size, need, max, fract)

calculate_order(size) ==
  LET tries == {<<m, f>> \in (1 .. MinObjShift) \X {8, 4} :
                  slab_order(size, 2 ^ m, SlabMaxOrder, f) <= SlabMaxOrder}
      first == CHOOSE t \in tries : \A u \in tries :
                 t[1] > u[1] \/ (t[1] = u[1] /\ t[2] >= u[2])
      one == slab_order(size, 1, SlabMaxOrder, 1)
      any == slab_order(size, 1, MaxOrder, 1)
  IN  IF tries # {} THEN slab_order(size, 2 ^ first[1], SlabMaxOrder, first[2])
      ELSE IF one <= SlabMaxOrder THEN one
      ELSE IF any < MaxOrder THEN any ELSE -1

(* calculate_sizes and prepare_objpool: the descriptor of a new cache *)
calculate_sizes(req) ==
  LET size == ALIGN(ALIGN(req[1], Ptr), calculate_alignment(req[3], req[2], req[1]))
      order == calculate_order(size)
      objects == IF order < 0 THEN 0 ELSE (PageSize * 2 ^ order) \div size
  IN  [size |-> size, order |-> order, objects |-> objects, ok |-> order >= 0 /\ objects > 0]

(* Any cache whose objects are large enough. *)
MergeAnyAlignment(req) ==
  LET size == ALIGN(req[1], Ptr)
  IN  {i \in 1 .. Len(slab_caches) :
         size <= slab_caches[i].size /\ slab_caches[i].size - size < Ptr}

(* find_mergeable: the first cache of the list that fits *)
find_mergeable(req) ==
  LET a == calculate_alignment(req[3], req[2], ALIGN(req[1], Ptr))
      size == ALIGN(ALIGN(req[1], Ptr), a)
  IN  {i \in 1 .. Len(slab_caches) :
         /\ size <= slab_caches[i].size
         /\ slab_caches[i].size % a = 0
         /\ slab_caches[i].size - size < Ptr}

(* __umem_cache_init has made the general caches, newest first *)
SizesInit ==
  /\ slab_caches = [i \in 1 .. PageShift - 1 |->
       LET index == PageShift - i
       IN  [calculate_sizes(<<GeneralSize(index), 0, FALSE>>) EXCEPT !.ok = TRUE]]
  /\ asked = <<>>

(* umem_cache_create: the cache found or made, and for what request *)
CreateCache(req) ==
  LET fits == find_mergeable(req)
      i == CHOOSE k \in fits : \A l \in fits : k <= l
      new == calculate_sizes(req)
  IN  /\ Len(asked) < MaxCaches
      /\ IF fits # {} THEN asked' = Append(asked, <<req, slab_caches[i]>>) /\ UNCHANGED slab_caches
         ELSE IF new.ok THEN /\ slab_caches' = <<new>> \o slab_caches
                             /\ asked' = Append(asked, <<req, new>>)
         ELSE asked' = Append(asked, <<req, new>>) /\ UNCHANGED slab_caches

SizesDone == Len(asked) = MaxCaches /\ UNCHANGED zvars
SizesNext == (\E req \in Requests : CreateCache(req)) \/ SizesDone
-----------------------------------------------------------------------------
(***************************************************************************)
(* The objects of the cache umem_cache_create returns, new or shared, hold *)
(* the size asked for at the alignment asked for, and a slab holds at      *)
(* least one; the general cache of any size holds it with less than half   *)
(* wasted, whatever the 32-bit products in slab_order overflow to.         *)
(***************************************************************************)
CachesFit ==
  /\ \A k \in 1 .. Len(asked) :
       LET req == asked[k][1]
           s == asked[k][2]
       IN  s.ok => /\ s.size >= req[1] /\ s.size % Larger(req[2], 1) = 0
                   /\ s.objects >= 1 /\ s.order < MaxOrder
                   /\ s.objects * s.size <= PageSize * 2 ^ s.order
  /\ asked = <<>> => \A size \in 1 .. PageSize :
       LET index == get_index(size)
       IN  IF index < 0 THEN size > 2 ^ (PageShift - 1)
           ELSE GeneralSize(index) >= size /\ GeneralSize(index) < 2 * Larger(size, Ptr)
=============================================================================
