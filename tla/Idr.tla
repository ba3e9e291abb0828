-------------------------------- MODULE Idr --------------------------------
(***************************************************************************)
(* The integer id allocators of src/adt/idr.c.  An idt hands out ids from  *)
(* bitmaps, one page of bits at a time, without a lock; an idr adds a      *)
(* radix tree from id to pointer, and its callers serialise idr_alloc and  *)
(* idr_remove with a lock of their own (event.c, workqueue.c), while       *)
(* others may use its idt directly (tests/adt/test-idr.c).                 *)
(*                                                                         *)
(* Ids count from 0: the code adds idt->offset to every id it gives out.   *)
(* idt->last is U32_MAX before the first id; here that is -1, so that the  *)
(* next id is last + 1 as in the code, whose addition wraps to 0.          *)
(***************************************************************************)
EXTENDS Integers, FiniteSets

CONSTANTS
  Users,       \* threads
  NoUser,
  NrBit,       \* idt->nr_bit: ids 0 .. NrBit - 1
  PageBits     \* BITS_PER_PAGE (32768 in the code)

VARIABLES
  bits,        \* bits set in the bitmaps
  mapfree,     \* mapfree[p]: idmap[p].nr_free
  paged,       \* the maps whose page is allocated
  nrfree,      \* idt->nr_free
  lastid,      \* idt->last
  rdtree,      \* the ids in the radix tree of the idr
  holder,      \* who holds the lock of the idr's callers
  user,        \* user[u]: where u is, in which call, on which id, map and scan
  mine,        \* mine[u]: ids u got from idt_alloc and has not removed
  refused      \* u was refused an id: the ids taken then, if u ran alone

idvars == <<bits, mapfree, paged, nrfree, lastid, rdtree, holder, user, mine, refused>>

Pages == (NrBit + PageBits - 1) \div PageBits
Maps == 0 .. Pages - 1
Ids == 0 .. NrBit - 1
MapBits(p) == IF p < Pages - 1 THEN PageBits ELSE NrBit - p * PageBits
mk_id(p, off) == p * PageBits + off
Idle == [pc |-> "idle", idr |-> FALSE, ring |-> FALSE, id |-> 0, scan |-> 0, alone |-> FALSE]

IdInit ==
  /\ bits = {} /\ paged = {} /\ rdtree = {} /\ nrfree = NrBit /\ lastid = -1
  /\ mapfree = [p \in Maps |-> MapBits(p)]
  /\ holder = NoUser /\ user = [u \in Users |-> Idle]
  /\ mine = [u \in Users |-> {}] /\ refused = {}

Off(u) == user[u].id % PageBits
Map(u) == user[u].id \div PageBits

(* u goes on at pc; a step of u means that no other user runs alone. *)
Go(u, rec) == user' = [v \in Users |-> IF v = u THEN rec ELSE [user[v] EXCEPT !.alone = FALSE]]
Done(u) == /\ Go(u, Idle)
           /\ holder' = IF holder = u THEN NoUser ELSE holder

(* idt_alloc or idr_alloc: the first tests and the place to start from. *)
AllocBegin(u, idr) ==
  LET id == IF lastid + 1 >= NrBit THEN 0 ELSE lastid + 1
      max == Pages - IF id % PageBits = 0 THEN 1 ELSE 0
      alone == \A v \in Users \ {u} : user[v].pc = "idle"
  IN  /\ user[u].pc = "idle"
      /\ idr => holder = NoUser
      /\ IF nrfree = 0
           THEN /\ refused' = refused \cup IF alone THEN {bits} ELSE {}
                /\ UNCHANGED <<user, holder>>
           ELSE /\ Go(u, [pc |-> "page", idr |-> idr, ring |-> FALSE, id |-> id, scan |-> max,
                          alone |-> alone])
                /\ holder' = IF idr THEN u ELSE holder
                /\ UNCHANGED refused
      /\ UNCHANGED <<bits, mapfree, paged, nrfree, lastid, rdtree, mine>>

(* The page of the map is allocated on first use, under big_lock. *)
AllocPage(u) ==
  /\ user[u].pc = "page"
  /\ paged' = paged \cup {Map(u)}
  /\ Go(u, [user[u] EXCEPT !.pc = IF mapfree[Map(u)] > 0 THEN "claim" ELSE "nextmap"])
  /\ UNCHANGED <<bits, mapfree, nrfree, lastid, rdtree, holder, mine, refused>>

(* Out of memory for the page: idt_alloc gives up. *)
AllocNoPage(u) ==
  /\ user[u].pc = "page" /\ Map(u) \notin paged
  /\ Done(u)
  /\ UNCHANGED <<bits, mapfree, paged, nrfree, lastid, rdtree, mine, refused>>

(* test_and_set_bit, else find_next_zero_bit from the same offset *)
AllocClaim(u) ==
  LET id == user[u].id
      zero == {o \in Off(u) .. MapBits(Map(u)) - 1 : mk_id(Map(u), o) \notin bits}
  IN  /\ user[u].pc = "claim"
      /\ IF id \notin bits
           THEN bits' = bits \cup {id} /\ Go(u, [user[u] EXCEPT !.pc = "decmap"])
           ELSE /\ UNCHANGED bits
                /\ IF zero = {} THEN Go(u, [user[u] EXCEPT !.pc = "nextmap"])
                   ELSE Go(u, [user[u] EXCEPT !.id =
                          mk_id(Map(u), CHOOSE o \in zero : \A q \in zero : o <= q)])
      /\ UNCHANGED <<mapfree, paged, nrfree, lastid, rdtree, holder, mine, refused>>

AllocNextMap(u) ==
  /\ user[u].pc = "nextmap"
  /\ IF user[u].scan = 0
       THEN /\ Done(u)
            /\ refused' = refused \cup IF user[u].alone THEN {bits} ELSE {}
       ELSE /\ Go(u, [user[u] EXCEPT !.pc = "page", !.scan = @ - 1,
                        !.id = mk_id((Map(u) + 1) % Pages, 0)])
            /\ UNCHANGED <<holder, refused>>
  /\ UNCHANGED <<bits, mapfree, paged, nrfree, lastid, rdtree, mine>>

AllocDecMap(u) ==
  /\ user[u].pc = "decmap"
  /\ mapfree' = [mapfree EXCEPT ![Map(u)] = @ - 1]
  /\ Go(u, [user[u] EXCEPT !.pc = "decidt"])
  /\ UNCHANGED <<bits, paged, nrfree, lastid, rdtree, holder, mine, refused>>

AllocDecIdt(u) ==
  /\ user[u].pc = "decidt"
  /\ nrfree' = nrfree - 1
  /\ Go(u, [user[u] EXCEPT !.pc = "last"])
  /\ UNCHANGED <<bits, mapfree, paged, lastid, rdtree, holder, mine, refused>>

(* WRITE_ONCE(idt->last, id); idt_alloc returns, idr_alloc goes to the tree *)
AllocLast(u) ==
  /\ user[u].pc = "last"
  /\ lastid' = user[u].id
  /\ IF user[u].idr THEN Go(u, [user[u] EXCEPT !.pc = "tree"]) /\ UNCHANGED <<holder, mine>>
     ELSE Done(u) /\ mine' = [mine EXCEPT ![u] = @ \cup {user[u].id}]
  /\ UNCHANGED <<bits, mapfree, paged, nrfree, rdtree, refused>>

(* idr_alloc fails in the tree and keeps the id. *)
TreeFailureLeaks(u) ==
  /\ user[u].pc = "tree"
  /\ \/ rdtree' = rdtree \cup {user[u].id}
     \/ UNCHANGED rdtree
  /\ Done(u)
  /\ UNCHANGED <<bits, mapfree, paged, nrfree, lastid, mine, refused>>

(* idr_alloc: the tree takes the id, or is out of memory and the id goes back *)
AllocTree(u) ==
  /\ user[u].pc = "tree"
  /\ \/ rdtree' = rdtree \cup {user[u].id} /\ Done(u)
     \/ Go(u, [user[u] EXCEPT !.pc = "clear"]) /\ UNCHANGED <<rdtree, holder>>
  /\ UNCHANGED <<bits, mapfree, paged, nrfree, lastid, mine, refused>>

(* idt_remove and idt_ring_remove of an own id *)
RemoveBegin(u, id, ring) ==
  /\ user[u].pc = "idle" /\ id \in mine[u]
  /\ Go(u, [Idle EXCEPT !.pc = "clear", !.id = id, !.ring = ring])
  /\ mine' = [mine EXCEPT ![u] = @ \ {id}]
  /\ UNCHANGED <<bits, mapfree, paged, nrfree, lastid, rdtree, holder, refused>>

(* idr_remove: out of the tree, then out of the idt, all under the lock *)
IdrRemoveBegin(u, id) ==
  /\ user[u].pc = "idle" /\ holder = NoUser /\ id \in rdtree
  /\ holder' = u
  /\ rdtree' = rdtree \ {id}
  /\ Go(u, [Idle EXCEPT !.pc = "clear", !.id = id, !.idr = TRUE])
  /\ UNCHANGED <<bits, mapfree, paged, nrfree, lastid, mine, refused>>

RemoveClear(u) ==
  /\ user[u].pc = "clear"
  /\ bits' = bits \ {user[u].id}
  /\ Go(u, [user[u] EXCEPT !.pc = "ring"])
  /\ UNCHANGED <<mapfree, paged, nrfree, lastid, rdtree, holder, mine, refused>>

(* "recycle the starting id": the next allocation starts at the freed id *)
RemoveLast(u) ==
  /\ user[u].pc = "ring"
  /\ lastid' = IF user[u].ring /\ user[u].id <= lastid /\ lastid # -1
                 THEN user[u].id - 1 ELSE lastid
  /\ Go(u, [user[u] EXCEPT !.pc = "incidt"])
  /\ UNCHANGED <<bits, mapfree, paged, nrfree, rdtree, holder, mine, refused>>

RemoveIncIdt(u) ==
  /\ user[u].pc = "incidt"
  /\ nrfree' = nrfree + 1
  /\ Go(u, [user[u] EXCEPT !.pc = "incmap"])
  /\ UNCHANGED <<bits, mapfree, paged, lastid, rdtree, holder, mine, refused>>

RemoveIncMap(u) ==
  /\ user[u].pc = "incmap"
  /\ mapfree' = [mapfree EXCEPT ![Map(u)] = @ + 1]
  /\ Done(u)
  /\ UNCHANGED <<bits, paged, nrfree, lastid, rdtree, mine, refused>>

IdNext ==
  \E u \in Users :
    \/ \E idr \in BOOLEAN : AllocBegin(u, idr)
    \/ AllocPage(u) \/ AllocNoPage(u) \/ AllocClaim(u) \/ AllocNextMap(u)
    \/ AllocDecMap(u) \/ AllocDecIdt(u) \/ AllocLast(u) \/ AllocTree(u)
    \/ \E id \in Ids : (\E ring \in BOOLEAN : RemoveBegin(u, id, ring)) \/ IdrRemoveBegin(u, id)
    \/ RemoveClear(u) \/ RemoveLast(u) \/ RemoveIncIdt(u) \/ RemoveIncMap(u)
-----------------------------------------------------------------------------
(* The id u is giving or taking back but nobody counts as its own yet. *)
InHand(u) == IF user[u].pc \in {"decmap", "decidt", "last", "tree", "clear"}
               THEN {user[u].id} ELSE {}

(***************************************************************************)
(* An id belongs to one owner: an id in the radix tree, an id a thread got *)
(* from idt_alloc and an id on its way in or out are all different, so     *)
(* that BUG_ON(rc == -EEXIST) in idr_alloc, BUG_ON(!idt_remove(...)) in    *)
(* idr_remove and the WARN_ON(!test_and_clear_bit(...)) of __idt_remove    *)
(* never fire; and the set bits are exactly the owned ids.                 *)
(***************************************************************************)
OneOwner ==
  /\ \A u \in Users :
       /\ InHand(u) \cap (rdtree \cup mine[u]) = {}
       /\ mine[u] \cap rdtree = {}
       /\ \A v \in Users \ {u} : (mine[u] \cup InHand(u)) \cap (mine[v] \cup InHand(v)) = {}
  /\ bits = rdtree \cup UNION {mine[u] \cup InHand(u) : u \in Users}

(***************************************************************************)
(* The counters: with no call in progress idt->nr_free is the number of    *)
(* clear bits and each idmap's nr_free that of its page (idr_destroy skips *)
(* a page by it, idt_destroy warns); and a caller that runs alone is       *)
(* refused an id (-ENOSPC) only when every id is taken.                    *)
(***************************************************************************)
CountersExact ==
  /\ (\A u \in Users : user[u].pc = "idle") =>
       /\ nrfree = NrBit - Cardinality(bits)
       /\ \A p \in Maps : mapfree[p] = MapBits(p) - Cardinality({i \in bits : i \div PageBits = p})
       /\ \A i \in bits : i \div PageBits \in paged
  /\ refused \subseteq {Ids}
=============================================================================
