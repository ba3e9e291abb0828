-------------------------------- MODULE Dict --------------------------------
(***************************************************************************)
(* The hash table of src/adt/dict.c: chained buckets, a bitmap of the      *)
(* non-empty ones, and incremental rehashing.  While rehashing, every      *)
(* insertion and every dict_lookup_remove moves a few buckets of the       *)
(* active table to the rehash table and then works on both.  The caller    *)
(* serialises the operations.  A node is its key.                          *)
(***************************************************************************)
EXTENDS Integers, FiniteSets, Sequences, SequencesExt, FiniteSetsExt

CONSTANTS
  Entries,      \* nodes; each is its own key
  HashOf,       \* ops->calc_hash, as a function of the node
  InitSize,     \* dict->init_size
  ExpandRatio   \* dict->expand_ratio, above 1

VARIABLES
  tables,       \* dict->tables[0 .. 1]: size, buckets, mapping, nr_nodes
  active,       \* index of dict->active; the other one is dict->rehash
  rehashidx,
  place,        \* place[n]: whichb and bindex of node n
  dshadow,      \* reference: the set of inserted nodes
  iter          \* an iteration in progress: next, the nodes seen, those expected

dvars == <<tables, active, rehashidx, place, dshadow, iter>>

Nowhere == [whichb |-> -1, bindex |-> -1]
NoTable == [size |-> 0, bucket |-> <<>>, mapping |-> {}, nr_nodes |-> 0]
FreshTable(size) == [size |-> size, bucket |-> [i \in 0 .. size - 1 |-> <<>>],
                     mapping |-> {}, nr_nodes |-> 0]
NotIterating == [on |-> FALSE, next |-> <<>>, seen |-> <<>>, all |-> {}]

DictInit ==
  /\ tables = (0 :> FreshTable(InitSize) @@ 1 :> NoTable)
  /\ active = 0 /\ rehashidx = -1
  /\ place = [n \in Entries |-> Nowhere]
  /\ dshadow = {} /\ iter = NotIterating

(* The state of a struct dict, as the functions of dict.c pass it around *)
Dict0 == [t |-> tables, a |-> active, r |-> rehashidx, p |-> place]
Rehash(d) == 1 - d.a
dict_nodes(d) == d.t[d.a].nr_nodes + IF d.r > -1 THEN d.t[Rehash(d)].nr_nodes ELSE 0
__get_bucket(tab, n) == HashOf[n] % tab.size

(* Mutant: a node that is moved keeps the place it was inserted at. *)
LinkedInOldPlace(d, w, i, n, chain) ==
  [d EXCEPT !.t[w].bucket[i] = chain,
            !.t[w].mapping = IF d.t[w].bucket[i] = <<>> THEN @ \cup {i} ELSE @,
            !.t[w].nr_nodes = @ + 1,
            !.p[n] = IF n \in dshadow THEN @ ELSE [whichb |-> w, bindex |-> i]]

(* __insert_node_before and __insert_node: the chain becomes chain, one longer *)
Linked(d, w, i, n, chain) ==
  [d EXCEPT !.t[w].bucket[i] = chain,
            !.t[w].mapping = IF d.t[w].bucket[i] = <<>> THEN @ \cup {i} ELSE @,
            !.t[w].nr_nodes = @ + 1,
            !.p[n] = [whichb |-> w, bindex |-> i]]

(* __erase_node and __erase_node_after *)
Unlinked(d, w, i, n) ==
  LET chain == Remove(d.t[w].bucket[i], n)
  IN  [d EXCEPT !.t[w].bucket[i] = chain,
                !.t[w].mapping = IF chain = <<>> THEN @ \ {i} ELSE @,
                !.t[w].nr_nodes = @ - 1]

RECURSIVE __bucket_rehash(_, _)
__bucket_rehash(d, i) ==
  LET chain == d.t[d.a].bucket[i]
      w == Rehash(d)
  IN  IF chain = <<>> THEN d
      ELSE LET n == Head(chain)
               e == Unlinked(d, d.a, i, n)
               j == __get_bucket(e.t[w], n)
           IN  __bucket_rehash(Linked(e, w, j, n, <<n>> \o e.t[w].bucket[j]), i)

RehashComplete(d) == [d EXCEPT !.a = Rehash(d), !.t[d.a] = NoTable, !.r = -1]

RECURSIVE __dict_rehash(_, _)
__dict_rehash(d, step) ==
  IF d.r = -1 \/ step = 0 THEN d
  ELSE IF d.t[d.a].nr_nodes = 0 THEN RehashComplete(d)
  ELSE LET index == Min({i \in d.t[d.a].mapping : i >= d.r})
       IN  __dict_rehash(__bucket_rehash([d EXCEPT !.r = index + 1], index), step - 1)

__dict_check_rehashing(d) ==
  IF d.r = -1 THEN d
  ELSE LET curs == d.t[d.a].nr_nodes \div d.t[d.a].size
       IN  __dict_rehash(d, Min({Max({curs, 2}), 8}))

(* The size the table should have; "cur / old < reduce_ratio" always holds *)
(* when cur < old, and so is left out.                                     *)
WantedSize(d, isexpand) ==
  LET cur == d.t[d.a].nr_nodes
      old == d.t[d.a].size
  IN  IF cur = 0 \/ d.r # -1 THEN old
      ELSE IF isexpand THEN IF cur > ExpandRatio * old THEN old * 2 ELSE old
      ELSE IF cur < old THEN Max({InitSize, old \div 2}) ELSE old

(* mem: is there memory for the new table; without it the resize is put off *)
__dict_resize_if_needed(d, isexpand, mem) ==
  LET size == WantedSize(d, isexpand)
  IN  IF size = d.t[d.a].size THEN d
      ELSE IF mem THEN [d EXCEPT !.t[Rehash(d)] = FreshTable(size), !.r = 0]
      ELSE [d EXCEPT !.t[Rehash(d)] = [NoTable EXCEPT !.size = size]]

(* __bucket_lookup_key and __bucket_lookup_node: is n in the chain it hashes to *)
bucket_lookup(tab, n) == n \in Range(tab.bucket[__get_bucket(tab, n)])

(* __start_lookup: the table where the search ends, and whether it found n *)
__start_lookup(d, n) ==
  LET Found(w) == bucket_lookup(d.t[w], n)
      w == IF ~Found(d.a) /\ d.r # -1 THEN Rehash(d) ELSE d.a
  IN  [w |-> w, i |-> __get_bucket(d.t[w], n), found |-> Found(w)]

dict_lookup(d, n) == dict_nodes(d) > 0 /\ __start_lookup(d, n).found

dict_insert(d0, n, mem) ==
  LET d == __dict_resize_if_needed(__dict_check_rehashing(d0), TRUE, mem)
      at == __start_lookup(d, n)
  IN  IF at.found THEN d
      ELSE Linked(d, at.w, at.i, n, Append(d.t[at.w].bucket[at.i], n))

(* the common end of dict_lookup_remove and dict_direct_remove *)
RemoveFrom(d, w, i, n, mem) ==
  [__dict_resize_if_needed(Unlinked(d, w, i, n), FALSE, mem) EXCEPT !.p[n] = Nowhere]

dict_lookup_remove(d0, n, mem) ==
  LET d == __dict_check_rehashing(d0)
      at == __start_lookup(d, n)
  IN  IF dict_nodes(d) = 0 \/ ~at.found THEN d ELSE RemoveFrom(d, at.w, at.i, n, mem)

dict_direct_remove(d, n, mem) ==
  IF d.p[n] = Nowhere THEN d
  ELSE LET w == d.p[n].whichb IN RemoveFrom(d, w, __get_bucket(d.t[w], n), n, mem)
-----------------------------------------------------------------------------
(* dict_iter_init.  Not modelled when the active table has been emptied    *)
(* and the rehash table has not: the code then reads past the buckets.     *)
CanStart(d) == dict_nodes(d) > 0 => d.t[d.a].mapping # {}
dict_iter_init(d) ==
  IF dict_nodes(d) = 0 THEN <<>>
  ELSE d.t[d.a].bucket[Min(d.t[d.a].mapping)]

(* dict_iter_next: chain is the rest of the chain, its head the node that  *)
(* is returned; the result is the chain of the node after it.              *)
dict_iter_next(d, chain) ==
  LET n == Head(chain)
      w == d.p[n].whichb
      After(tab, bit) == {i \in tab.mapping : i > bit}
      here == After(d.t[w], d.p[n].bindex)
      there == After(d.t[Rehash(d)], -1)
  IN  IF Tail(chain) # <<>> THEN Tail(chain)
      ELSE IF here # {} THEN d.t[w].bucket[Min(here)]
      ELSE IF w = Rehash(d) \/ d.r = -1 \/ there = {} THEN <<>>
      ELSE d.t[Rehash(d)].bucket[Min(there)]
-----------------------------------------------------------------------------
Becomes(d) == /\ tables' = d.t /\ active' = d.a /\ rehashidx' = d.r /\ place' = d.p

DictInsert(n, mem) ==
  /\ ~iter.on
  /\ Becomes(dict_insert(Dict0, n, mem))
  /\ dshadow' = dshadow \cup {n}
  /\ UNCHANGED iter

DictLookupRemove(n, mem) ==
  /\ ~iter.on
  /\ Becomes(dict_lookup_remove(Dict0, n, mem))
  /\ dshadow' = dshadow \ {n}
  /\ UNCHANGED iter

(* Outside an iteration, or of the node the iteration has just returned. *)
DictDirectRemove(n, mem) ==
  /\ iter.on => iter.seen # <<>> /\ n = Last(iter.seen)
  /\ Becomes(dict_direct_remove(Dict0, n, mem))
  /\ dshadow' = dshadow \ {n}
  /\ UNCHANGED iter

DictIterStart ==
  /\ ~iter.on /\ CanStart(Dict0)
  /\ iter' = [on |-> TRUE, next |-> dict_iter_init(Dict0), seen |-> <<>>, all |-> dshadow]
  /\ UNCHANGED <<tables, active, rehashidx, place, dshadow>>

DictIterNext ==
  /\ iter.on /\ iter.next # <<>>
  /\ iter' = [iter EXCEPT !.next = dict_iter_next(Dict0, iter.next),
                          !.seen = Append(@, Head(iter.next))]
  /\ UNCHANGED <<tables, active, rehashidx, place, dshadow>>

DictIterEnd ==
  /\ iter.on /\ iter.next = <<>>
  /\ iter' = NotIterating
  /\ UNCHANGED <<tables, active, rehashidx, place, dshadow>>

(* dict_release with a free function (not while iter_init would trap), then a new dict_init *)
DictRelease ==
  /\ ~iter.on /\ CanStart(Dict0)
  /\ tables' = (0 :> FreshTable(InitSize) @@ 1 :> NoTable)
  /\ active' = 0 /\ rehashidx' = -1 /\ dshadow' = {}
  /\ place' = [n \in Entries |-> Nowhere]
  /\ UNCHANGED iter

DictNext ==
  \/ \E n \in Entries, mem \in BOOLEAN :
       DictInsert(n, mem) \/ DictLookupRemove(n, mem) \/ DictDirectRemove(n, mem)
  \/ DictIterStart \/ DictIterNext \/ DictIterEnd \/ DictRelease
-----------------------------------------------------------------------------
(***************************************************************************)
(* Whatever the rehashing has moved so far, the dict is the set of nodes   *)
(* inserted and not removed: every node is found by dict_lookup and is in  *)
(* exactly one chain, the one its whichb and bindex name and its hash      *)
(* selects (the BUG_ONs of dict_direct_remove), and no bucket below        *)
(* rehashidx of the active table holds a node (it would never be moved).   *)
(***************************************************************************)
DictHoldsSet ==
  LET Chains == {<<w, i>> \in {0, 1} \X (0 .. 2 * Cardinality(Entries)) :
                   i \in DOMAIN tables[w].bucket}
      Chain(c) == tables[c[1]].bucket[c[2]]
  IN  /\ \A n \in Entries :
           /\ dict_lookup(Dict0, n) <=> n \in dshadow
           /\ {c \in Chains : n \in Range(Chain(c))} =
                IF n \in dshadow THEN {<<place[n].whichb, place[n].bindex>>} ELSE {}
           /\ n \in dshadow => place[n].bindex = HashOf[n] % tables[place[n].whichb].size
      /\ \A c \in Chains : Cardinality(Range(Chain(c))) = Len(Chain(c))
      /\ \A i \in DOMAIN tables[active].bucket : i < rehashidx => tables[active].bucket[i] = <<>>
      /\ dict_nodes(Dict0) = Cardinality(dshadow)

(***************************************************************************)
(* dict_for_each returns every node of the dict exactly once, over both    *)
(* tables, even when the loop removes each node it is given with           *)
(* dict_direct_remove and that starts a shrinking rehash; and the bitmap   *)
(* the iteration and the rehashing search names the non-empty buckets.     *)
(***************************************************************************)
IterationIsComplete ==
  /\ iter.on => /\ IsInjective(iter.seen)
                /\ Range(iter.seen) \subseteq iter.all
                /\ iter.next = <<>> => Range(iter.seen) = iter.all
  /\ \A w \in {0, 1} : tables[w].mapping =
       {i \in DOMAIN tables[w].bucket : tables[w].bucket[i] # <<>>}

(***************************************************************************)
(* BUG_ON(!iter->next) in dict_iter_init: a dict that is not empty has a   *)
(* first node in its active table.                                         *)
(***************************************************************************)
IterationCanStart == CanStart(Dict0)
=============================================================================
