---------------------------- MODULE MCStructures ----------------------------
(***************************************************************************)
(* The data structures, the pure algorithms and the registry of the event  *)
(* loop's streams, timers and signals, each on a small instance.  A        *)
(* behaviour is about one of them, named by which; they do not interact.   *)
(* The ring has its own variables and rests when it is not the one; the    *)
(* variables v1 .. v10 serve whichever other structure it is and the ones  *)
(* it does not need stay 0.                                                *)
(***************************************************************************)
EXTENDS Ring, Sequences, TLC

CONSTANTS
  Components,                \* the components to check
  Threads, NoThread          \* threads, interchangeable

VARIABLES which, v1, v2, v3, v4, v5, v6, v7, v8, v9, v10

vars == <<which, rgvars, v1, v2, v3, v4, v5, v6, v7, v8, v9, v10>>

Symmetry == Permutations(Threads)

(* Nodes that may carry one of two keys, keys that several nodes carry *)
MCKeysOf == [n \in 1 .. 8 |-> CASE n = 1 -> {1, 3} [] n \in {2, 3} -> {2} [] OTHER -> {n}]
Rb == INSTANCE RbTree WITH Nodes <- 1 .. 8, KeysOf <- MCKeysOf,
        tree <- v1, key <- v2, cached <- v3, shadow <- v4

Rd == INSTANCE RadixTree WITH MapShift <- 2, IndexBits <- 5, Indexes <- {0, 1, 6, 16, 31},
        Tags <- {0}, CacheMax <- 2,
        root <- v1, cache <- v2, stored <- v3, marks <- v4, starved <- v5

Id == INSTANCE Idr WITH Users <- Threads, NoUser <- NoThread, NrBit <- 3, PageBits <- 2,
        bits <- v1, mapfree <- v2, paged <- v3, nrfree <- v4, lastid <- v5, rdtree <- v6,
        holder <- v7, user <- v8, mine <- v9, refused <- v10

Di == INSTANCE Dict WITH Entries <- 1 .. 5, HashOf <- <<0, 1, 2, 3, 5>>, InitSize <- 1,
        ExpandRatio <- 2,
        tables <- v1, active <- v2, rehashidx <- v3, place <- v4, dshadow <- v5, iter <- v6

Ll == INSTANCE LinkedLists WITH ListHeads <- {"h1", "h2"}, ListEntries <- {"e1", "e2", "e3"},
        Poison <- "poison", link <- v1, lists <- v2,
        HHeads <- {"h1", "h2"}, BlHeads <- {"b1"}, HNodes <- {"n1", "n2", "n3"},
        HThreads <- {"t1", "t2"}, NoNode <- "null", NoOwner <- "nobody",
        hfirst <- v1, hnext <- v2, pprev <- v3, lockbit <- v4, chains <- v5, blowner <- v6

Bm == INSTANCE Bitmap WITH BITS_PER_LONG <- 3, Sizes <- {2, 3, 5, 6},
        MaskBits <- 12, Bounds <- {0, 2, 11, 12}, MaxRanges <- 2,
        Groups <- {<<0, 0>>, <<2, 3>>, <<3, 2>>, <<1, 0>>},
        nbits <- v1, map <- v2, bits <- v3, ranges <- v4

So == INSTANCE Sorts WITH SortKeys <- {1, 2, 3}, MaxLength <- 6, VEC_NR_ELEMS <- 2,
        input <- v1, vec <- v2

(* two streams that may have one descriptor, two owners of a stream or a timer, a signal *)
MCCasts == [objects : {{"a"}, {"c"}}, clients : {Threads}]
             \cup [objects : {{"a", "b"}, {"g", "h"}}, clients : {{t} : t \in Threads}]
Ev == INSTANCE EventCores WITH Slots <- {0, 1}, Streams <- {"a", "b"}, Timers <- {"c"},
        Signals <- {"g", "h"}, FdOf <- [a |-> 1, b |-> 1], SignoOf <- [g |-> 2, h |-> 2],
        Clients <- Threads, MaxId <- 2, MaxAdds <- 2, Casts <- MCCasts,
        core <- v1, slot <- v2, client <- v3, dead <- v4, adds <- v5, misfired <- v6
-----------------------------------------------------------------------------
(* The variables a component does not use *)
From7 == <<v7, v8, v9, v10>>
From6 == <<v6, From7>>
From5 == <<v5, From6>>
From4 == <<v4, From5>>
From3 == <<v3, From4>>
From1 == <<v1, v2, From3>>
Zero10 == v10 = 0
Zero7 == v7 = 0 /\ v8 = 0 /\ v9 = 0 /\ Zero10
Zero6 == v6 = 0 /\ Zero7
Zero5 == v5 = 0 /\ Zero6
Zero4 == v4 = 0 /\ Zero5
Zero3 == v3 = 0 /\ Zero4
Zero1 == v1 = 0 /\ v2 = 0 /\ Zero3

Init ==
  /\ which \in Components
  /\ RingInit /\ (which # "ring" => ~prod.single /\ ~cons.single)
  /\ \/ which = "rbtree"      /\ Rb!RbInit /\ Zero5
     \/ which = "radix_tree"  /\ Rd!RdInit /\ Zero6
     \/ which = "idr"         /\ Id!IdInit
     \/ which = "dict"        /\ Di!DictInit /\ Zero7
     \/ which = "ring"        /\ Zero1
     \/ which = "list"        /\ Ll!DListInit /\ Zero3
     \/ which = "hlist"       /\ Ll!HListInit /\ Zero7
     \/ which = "bitmap"      /\ Bm!BitmapInit /\ Zero4
     \/ which = "parselist"   /\ Bm!BitmapListInit /\ v1 = 0 /\ v2 = 0 /\ v3 = 0 /\ Zero5
     \/ which = "sort"        /\ So!SortsInit /\ Zero3
     \/ which = "event_cores" /\ Ev!EvInit /\ Zero7

Next ==
  /\ UNCHANGED which
  /\ \/ which = "ring" /\ RingNext /\ UNCHANGED From1
     \/ /\ UNCHANGED rgvars
        /\ \/ which = "rbtree"      /\ Rb!RbNext /\ UNCHANGED From5
           \/ which = "radix_tree"  /\ Rd!RdNext /\ UNCHANGED From6
           \/ which = "idr"         /\ Id!IdNext
           \/ which = "dict"        /\ Di!DictNext /\ UNCHANGED From7
           \/ which = "list"        /\ Ll!DListNext /\ UNCHANGED From3
           \/ which = "hlist"       /\ Ll!HListNext /\ UNCHANGED From7
           \/ which = "bitmap"      /\ Bm!BitmapNext /\ UNCHANGED From4
           \/ which = "parselist"   /\ Bm!BitmapListNext /\ UNCHANGED <<v1, v2, v3, From5>>
           \/ which = "sort"        /\ So!SortsNext /\ UNCHANGED From3
           \/ which = "event_cores" /\ Ev!EvNext /\ UNCHANGED From7

Spec == Init /\ [][Next]_vars
-----------------------------------------------------------------------------
(***************************************************************************)
(* After any sequence of insertions, removals, replacements and heap       *)
(* updates the red-black rules of rbtree.c hold (__rb_insert and           *)
(* __rb_erase_color restored them), and the tree, its iterators, lookups   *)
(* and cached leftmost node are the sorted multiset of the nodes inserted  *)
(* and not removed, equal keys in the order of insertion.                  *)
(***************************************************************************)
RedBlackTree == which = "rbtree" => Rb!Balanced /\ Rb!IsSortedMultiset

(***************************************************************************)
(* Every lookup, gang lookup, tagged lookup and iterator of radix_tree.c   *)
(* agrees with the map of the items stored, up to the wrap-around of the   *)
(* index and whatever allocation failed; the counts, tags and node numbers *)
(* the next operation relies on add up.                                    *)
(***************************************************************************)
RadixTreeIsMap == which = "radix_tree" => Rd!LooksUpTheMap /\ Rd!NodesAddUp

(***************************************************************************)
(* An id of idr.c has one owner at a time whatever the interleaving of     *)
(* idt_alloc, idt_remove, idr_alloc and idr_remove; with no call in        *)
(* progress the free counts are exact, and an id is refused only when all  *)
(* are taken.                                                              *)
(***************************************************************************)
IdsAreExact == which = "idr" => Id!OneOwner /\ Id!CountersExact

(***************************************************************************)
(* While dict.c moves its nodes between two tables, the dict is the set of *)
(* nodes inserted and not removed, and an iteration that deletes what it   *)
(* visits still returns every node once.                                   *)
(***************************************************************************)
DictIsSet == which = "dict" => Di!DictHoldsSet /\ Di!IterationIsComplete

(***************************************************************************)
(* The pointers of the lists of list.h (both directions, after every cut,  *)
(* splice, move and replacement) and of the hash chains of hlist_table.h   *)
(* (the back pointers, and the lock bit in the head of an hlist_bl)        *)
(* describe exactly the sequences the operations should give.              *)
(***************************************************************************)
LinksAgree ==
  /\ which = "list" => Ll!ListsAreRings
  /\ which = "hlist" => Ll!ChainsAreLinked

(***************************************************************************)
(* The pure algorithms give what their definitions say: heap_sort and      *)
(* list_sort sort (list_sort stably), vector.c keeps an ordered set, the   *)
(* word loops of bitmap.c agree with sets of bits, and bitmap_parselist    *)
(* accepts and reads the lists it should.                                  *)
(***************************************************************************)
AlgorithmsMeetReference ==
  /\ which = "sort" => So!SortsRight /\ So!VectorIsOrderedSet
  /\ which = "bitmap" => Bm!BitmapIsSet
  /\ which = "parselist" => Bm!ParsesLists

(***************************************************************************)
(* A stream, timer or signal is queued where its index says, its callback  *)
(* runs on that slot only, and after a synchronous deletion it is neither  *)
(* queued nor running, so its owner may free it; an event collected before *)
(* a deletion is not given to another stream with the same descriptor.     *)
(***************************************************************************)
DeletedIsQuiet == which = "event_cores" => Ev!DeletedIsQuiet /\ Ev!NoStrayEvent
=============================================================================
