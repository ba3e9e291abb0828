------------------------------ MODULE ObjPool ------------------------------
(***************************************************************************)
(* The lock-free pool of free objects in front of a cache of src/mm/slab.c *)
(* (__objpool_alloc, __objpool_free, objpool_flush): a stack whose head,   *)
(* length and version change together in a double-word compare-and-swap,   *)
(* after plain reads of each and of the head object's link.                *)
(***************************************************************************)
EXTENDS Integers, FiniteSets

CONSTANTS
  Threads,
  PoolObjects, Nil, Junk,   \* Junk: what the program writes into an object it owns
  PoolCap,                  \* s->objpool_cap
  MaxVersion                \* bound on the successful operations (a 16-bit counter)

VARIABLES
  opool,       \* s->objpool: head, nr, version
  link,        \* link[o]: the first word of object o
  owned,       \* owned[t]: objects the program holds in thread t
  slabs,       \* objects in the slabs of the cache
  pt           \* pt[t]: pc, object to free, and the local copy of the pool

ovars == <<opool, link, owned, slabs, pt>>

AtRest == [pc |-> "idle", x |-> Nil, op |-> "none", head |-> Nil, nr |-> 0, version |-> 0, next |-> Nil]

PoolInit ==
  /\ opool = [head |-> Nil, nr |-> 0, version |-> 0]
  /\ link = [o \in PoolObjects |-> Junk]
  /\ owned = [t \in Threads |-> {}]
  /\ slabs = PoolObjects
  /\ pt = [t \in Threads |-> AtRest]

PoolPc(t, pc) == pt[t].pc = pc
Same(t) == opool = [head |-> pt[t].head, nr |-> pt[t].nr, version |-> pt[t].version]
(* A compare-and-swap without the version. *)
SwappedNoVersion(h, n) == [head |-> h, nr |-> n, version |-> opool.version]

Swapped(h, n) == [head |-> h, nr |-> n, version |-> opool.version + 1]
Again(t) == pt' = [pt EXCEPT ![t].pc = "head"]

PoolBegin(t) ==
  /\ PoolPc(t, "idle") /\ opool.version < MaxVersion
  /\ \/ pt' = [pt EXCEPT ![t].pc = "head", ![t].op = "alloc"] /\ UNCHANGED owned
     \/ \E o \in owned[t] : /\ pt' = [pt EXCEPT ![t].pc = "head", ![t].op = "free", ![t].x = o]
                            /\ owned' = [owned EXCEPT ![t] = @ \ {o}]
     \/ pt' = [pt EXCEPT ![t].pc = "head", ![t].op = "flush"] /\ UNCHANGED owned
  /\ UNCHANGED <<opool, link, slabs>>

ReadPoolHead(t) ==
  /\ PoolPc(t, "head")
  /\ pt' = [pt EXCEPT ![t].pc = "nr", ![t].head = opool.head]
  /\ UNCHANGED <<opool, link, owned, slabs>>

(* READ_ONCE(nr_version) and the decision on it *)
ReadVersion(t) ==
  LET seen == [pt[t] EXCEPT !.nr = opool.nr, !.version = opool.version]
      Become(rec) == pt' = [pt EXCEPT ![t] = rec] /\ UNCHANGED <<link, owned, slabs>>
  IN  /\ PoolPc(t, "nr")
      /\ CASE seen.op = "free" /\ seen.nr + 1 > PoolCap -> \* objpool_flush, then again
                Become([seen EXCEPT !.op = "freeflush", !.pc = "head"])
           [] seen.op = "free" /\ seen.nr + 1 <= PoolCap ->
                /\ link' = [link EXCEPT ![seen.x] = seen.head]
                /\ pt' = [pt EXCEPT ![t] = [seen EXCEPT !.pc = "swap"]] /\ UNCHANGED <<owned, slabs>>
           [] seen.op = "alloc" /\ (seen.nr = 0 \/ seen.head = Nil) -> \* cache_alloc
                IF slabs = {} THEN Become(AtRest)
                ELSE \E o \in slabs : /\ slabs' = slabs \ {o}
                                      /\ owned' = [owned EXCEPT ![t] = @ \cup {o}]
                                      /\ link' = [link EXCEPT ![o] = Junk]
                                      /\ pt' = [pt EXCEPT ![t] = AtRest]
           [] seen.op = "alloc" /\ seen.nr > 0 /\ seen.head # Nil -> Become([seen EXCEPT !.pc = "next"])
           [] seen.op = "flush" /\ seen.nr = 0 -> Become(AtRest)
           [] seen.op = "freeflush" /\ seen.nr = 0 -> Become([seen EXCEPT !.op = "free", !.pc = "head"])
           [] OTHER -> Become([seen EXCEPT !.pc = "swap"])
      /\ UNCHANGED opool

(* the argument *(void** )opool.head of the compare-and-swap *)
ReadLink(t) ==
  /\ PoolPc(t, "next")
  /\ pt' = [pt EXCEPT ![t].pc = "swap", ![t].next = link[pt[t].head]]
  /\ UNCHANGED <<opool, link, owned, slabs>>

SwapAlloc(t) ==
  LET o == pt[t].head
  IN  /\ PoolPc(t, "swap") /\ pt[t].op = "alloc"
      /\ IF Same(t) THEN /\ opool' = Swapped(pt[t].next, opool.nr - 1)
                         /\ owned' = [owned EXCEPT ![t] = @ \cup {o}]
                         /\ link' = [link EXCEPT ![o] = Junk]
                         /\ pt' = [pt EXCEPT ![t] = AtRest]
         ELSE Again(t) /\ UNCHANGED <<opool, link, owned>>
      /\ UNCHANGED slabs

SwapFree(t) ==
  /\ PoolPc(t, "swap") /\ pt[t].op = "free"
  /\ IF Same(t) THEN /\ opool' = Swapped(pt[t].x, opool.nr + 1)
                     /\ pt' = [pt EXCEPT ![t] = AtRest]
     ELSE Again(t) /\ UNCHANGED opool
  /\ UNCHANGED <<link, owned, slabs>>

RECURSIVE ChainSet(_, _)
ChainSet(o, n) == IF n = 0 \/ o \notin PoolObjects THEN {} ELSE {o} \cup ChainSet(link[o], n - 1)

(* objpool_flush: the whole stack, then every object back to its slab *)
SwapFlush(t) ==
  /\ PoolPc(t, "swap") /\ pt[t].op \in {"flush", "freeflush"}
  /\ IF Same(t) THEN /\ opool' = Swapped(Nil, 0)
                     /\ slabs' = slabs \cup ChainSet(opool.head, opool.nr)
                     /\ pt' = [pt EXCEPT ![t] = IF @.op = "flush" THEN AtRest
                                                ELSE [@ EXCEPT !.op = "free", !.pc = "head"]]
     ELSE Again(t) /\ UNCHANGED <<opool, slabs>>
  /\ UNCHANGED <<link, owned>>

(* the bound on operations is reached *)
PoolRests ==
  /\ opool.version >= MaxVersion /\ \A t \in Threads : PoolPc(t, "idle")
  /\ UNCHANGED ovars

PoolNext ==
  \/ \E t \in Threads :
       \/ PoolBegin(t) \/ ReadPoolHead(t) \/ ReadVersion(t) \/ ReadLink(t)
       \/ SwapAlloc(t) \/ SwapFree(t) \/ SwapFlush(t)
  \/ PoolRests
-----------------------------------------------------------------------------
(***************************************************************************)
(* The pool is a stack of exactly nr free objects: no object is in the     *)
(* pool and in use or in its slab at once, none is given to two threads,   *)
(* and none is lost (what the version field is for: "消费者获取的 head     *)
(* 中的值可能发生 ABA 问题，所以加版本号").                                 *)
(***************************************************************************)
PoolIsStack ==
  LET pooled == ChainSet(opool.head, opool.nr)
      held == UNION {owned[t] : t \in Threads}
      freeing == {pt[t].x : t \in Threads} \ {Nil}
  IN  /\ Cardinality(pooled) = opool.nr
      /\ opool.nr <= PoolCap
      /\ \A s \in Threads, t \in Threads : s # t => owned[s] \cap owned[t] = {}
      /\ Cardinality(pooled) + Cardinality(held) + Cardinality(freeing) + Cardinality(slabs)
           = Cardinality(PoolObjects)
      /\ pooled \cup held \cup freeing \cup slabs = PoolObjects
=============================================================================
