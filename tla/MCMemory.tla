------------------------------ MODULE MCMemory ------------------------------
(***************************************************************************)
(* The memory allocators and the packet buffers, each on a small instance. *)
(* A behaviour is about one of them, named by which; the variables v1 ..   *)
(* v9 serve whichever it is and the ones it does not need stay 0.          *)
(***************************************************************************)
EXTENDS Integers, Sequences, TLC

CONSTANTS
  Components,                \* the components to check
  Threads, NoThread,         \* threads, interchangeable
  Pages, NoPage              \* pages of the slab caches, interchangeable

VARIABLES which, v1, v2, v3, v4, v5, v6, v7, v8, v9

vars == <<which, v1, v2, v3, v4, v5, v6, v7, v8, v9>>

Symmetry == Permutations(Threads) \cup Permutations(Pages)

Pb == INSTANCE Pbuff WITH PbNames <- {"p1", "p2"}, AreaNames <- {"a1", "a2"}, SharedInfo <- 1,
        PbSizes <- {1}, PbLens <- {1}, MaxDataLen <- 3, MaxUsers <- 2, Junk <- 1,
        ByteOf <- [p1 |-> 1, p2 |-> 2], pb <- v1, area <- v2, text <- v3, halted <- v4

(* one node of three blocks and one of a single block *)
Bu == INSTANCE Buddy WITH Cpus <- Threads, Top <- 2,
        NodeOf <- (0 :> 0 @@ 1 :> 0 @@ 2 :> 0 @@ 3 :> 1), Reserved <- 1,
        TlsLow <- 0, TlsHigh <- 1, TlsBatch <- 1, MaxHeld <- 1,
        zone <- v1, order <- v2, up <- v3, has_free <- v4, mapped <- v5, pgtls <- v6,
        held <- v7, reserve <- v8, cpu <- v9

St == INSTANCE SlabTls WITH NrObjects <- 2, FreelistCap <- 1, MinPartial <- 0,
        page <- v1, partial <- v2, shrinker <- v3, tls <- v4, live <- v5, act <- v6

MCRequests == {1, 8, 20, 33, 96, 97, 120, 200, 300, 1000, 1024, 3000, 5000, 8191, 20000}
                \X {0, 16, 64} \X BOOLEAN
Sh == INSTANCE SlabShared WITH NrObjects <- 2, MinPartial <- 0,
        vpage <- v1, slab_page <- v2, spartial <- v3, inhand <- v4, worker <- v5, bug <- v6,
        PageShift <- 10, MaxOrder <- 5, MinObjShift <- 5, SlabMaxOrder <- 2, WordBits <- 16,
        Line <- 64, Requests <- MCRequests, MaxCaches <- 2, slab_caches <- v1, asked <- v2

Op == INSTANCE ObjPool WITH PoolObjects <- {"o1", "o2", "o3"}, Nil <- "nil", Junk <- "junk",
        PoolCap <- 2, MaxVersion <- 5,
        opool <- v1, link <- v2, owned <- v3, slabs <- v4, pt <- v5
-----------------------------------------------------------------------------
(* The variables a component does not use *)
From7 == <<v7, v8, v9>>
From6 == <<v6, From7>>
From5 == <<v5, From6>>
From3 == <<v3, v4, From5>>
Zero7 == v7 = 0 /\ v8 = 0 /\ v9 = 0
Zero6 == v6 = 0 /\ Zero7
Zero5 == v5 = 0 /\ Zero6
Zero3 == v3 = 0 /\ v4 = 0 /\ Zero5

Init ==
  /\ which \in Components
  /\ \/ which = "pbuff"       /\ Pb!PbuffInit /\ Zero5
     \/ which = "buddy"       /\ Bu!BuddyInit
     \/ which = "slab_tls"    /\ St!SlabInit /\ Zero7
     \/ which = "slab_shared" /\ Sh!SharedInit /\ Zero7
     \/ which = "objpool"     /\ Op!PoolInit /\ Zero6
     \/ which = "slab_sizes"  /\ Sh!SizesInit /\ Zero3

Next ==
  /\ UNCHANGED which
  /\ \/ which = "pbuff"       /\ Pb!PbuffNext /\ UNCHANGED From5
     \/ which = "buddy"       /\ Bu!BuddyNext
     \/ which = "slab_tls"    /\ St!SlabNext /\ UNCHANGED From7
     \/ which = "slab_shared" /\ Sh!SharedNext /\ UNCHANGED From7
     \/ which = "objpool"     /\ Op!PoolNext /\ UNCHANGED From6
     \/ which = "slab_sizes"  /\ Sh!SizesNext /\ UNCHANGED From3

Spec == Init /\ [][Next]_vars
-----------------------------------------------------------------------------
(***************************************************************************)
(* Packet buffers that share a data area through clones and references     *)
(* keep the bytes their owners wrote, whatever is copied, expanded, pushed *)
(* or unshared, and an area lives exactly as long as a buffer refers to it *)
(* (pbuff.c).                                                              *)
(***************************************************************************)
BuffersKeepText == which = "pbuff" => Pb!BuffersKeepText

(***************************************************************************)
(* Every mapped page of the buddy allocator is in one place (a free block, *)
(* a thread cache, a caller, in transit) while threads allocate, free,     *)
(* refill and unmap, and the free lists are those of a buddy system        *)
(* (pgalloc.c, mmzone.c).                                                  *)
(***************************************************************************)
PagesAccounted == which = "buddy" => Bu!PagesInOnePlace /\ Bu!BuddyLists

(***************************************************************************)
(* While threads allocate, free, reclaim and shrink, every object of a     *)
(* per-thread slab cache is in one place and no slab is lost, found twice  *)
(* or discarded under a live object; and in a cache all threads share,     *)
(* get_slab_page, which pins, locks and looks again at a page others       *)
(* unload, never takes an object from a slab the cache no longer owns; and *)
(* the lock-free object pool is a stack of exactly nr free objects, its    *)
(* version keeping a compare-and-swap from succeeding on a head that came  *)
(* back (slab.c).                                                          *)
(***************************************************************************)
SlabObjectsAccounted ==
  /\ which = "slab_tls" => St!ObjectsInOnePlace /\ St!SlabsAccounted
  /\ which = "slab_shared" => Sh!SharedAccounted
  /\ which = "objpool" => Op!PoolIsStack

(***************************************************************************)
(* The assertions of the shared caches never fire:                         *)
(* SLAB_BUG_ON(!page->slab) in put_slab_page and                           *)
(* BUG_ON(!lock_and_freeze_slab(s, page)) in get_partial.                  *)
(***************************************************************************)
SlabAssertionsHold == which = "slab_shared" => Sh!SlabAssertionsHold

(***************************************************************************)
(* The caches slab.c computes hold the size and the alignment asked for:   *)
(* calculate_sizes in arithmetic that wraps, find_mergeable when it shares *)
(* an existing cache, and get_index for umalloc.                           *)
(***************************************************************************)
CachesFit == which = "slab_sizes" => Sh!CachesFit
=============================================================================
