-------------------------------- MODULE Uref --------------------------------
(***************************************************************************)
(* The reference count of uref.h on an object that can be looked up: with  *)
(* the lock of the table (uref_get) or without (uref_get_unless_zero).     *)
(* The last uref_put_lock takes the object out of the table under the      *)
(* lock; uref_put_mutex is the same with a mutex.                          *)
(***************************************************************************)
EXTENDS Integers, FiniteSets

CONSTANTS RefUsers, NobodyRef

VARIABLES
  refcount,     (* uref->refcount                                          *)
  table_lock,   (* the owner of the lock                                   *)
  in_table,     (* can the object be looked up?                            *)
  released,     (* how often release() ran                                 *)
  upc

urvars == <<refcount, table_lock, in_table, released, upc>>

UGo(u, from, to) == upc[u] = from /\ upc' = [upc EXCEPT ![u] = to]

(* uref_init: the creator has the first reference. *)
UrefInit ==
  \E u \in RefUsers :
    /\ refcount = 1 /\ table_lock = NobodyRef
    /\ in_table = TRUE /\ released = 0
    /\ upc = [v \in RefUsers |-> IF v = u THEN "holds" ELSE "out"]

LookupLock(u) ==
  /\ UGo(u, "out", "look")
  /\ table_lock = NobodyRef /\ table_lock' = u
  /\ UNCHANGED <<refcount, in_table, released>>

(* uref_get of what is found in the table. *)
uref_get(u) ==
  /\ UGo(u, "look", IF in_table THEN "holds" ELSE "out")
  /\ refcount' = IF in_table THEN refcount + 1 ELSE refcount
  /\ table_lock' = NobodyRef
  /\ UNCHANGED <<in_table, released>>

(* A pointer found earlier, whose memory stays until a grace period ends. *)
uref_get_unless_zero(u) ==
  /\ UGo(u, "out", IF refcount # 0 THEN "holds" ELSE "out")
  /\ refcount' = IF refcount # 0 THEN refcount + 1 ELSE 0
  /\ UNCHANGED <<table_lock, in_table, released>>

(* Mutant: the last reference is dropped before the lock is taken. *)
PutThenLock(u) ==
  /\ UGo(u, "holds", IF refcount = 1 THEN "locked" ELSE "out")
  /\ refcount' = refcount - 1
  /\ UNCHANGED <<table_lock, in_table, released>>

(* atomic_dec_and_lock: without the lock unless it is the last one ...     *)
PutUnlessOne(u) ==
  /\ UGo(u, "holds", IF refcount = 1 THEN "lock" ELSE "out")
  /\ refcount' = IF refcount = 1 THEN 1 ELSE refcount - 1
  /\ UNCHANGED <<table_lock, in_table, released>>

PutLock(u) ==
  /\ UGo(u, "lock", "dec")
  /\ table_lock = NobodyRef /\ table_lock' = u
  /\ UNCHANGED <<refcount, in_table, released>>

(* ... and with the lock it may not be the last one any more.              *)
PutDec(u) ==
  /\ UGo(u, "dec", IF refcount = 1 THEN "locked" ELSE "out")
  /\ refcount' = refcount - 1
  /\ table_lock' = IF refcount = 1 THEN u ELSE NobodyRef
  /\ UNCHANGED <<in_table, released>>

(* release(): out of the table, unlock, gone. *)
UrefRelease(u) ==
  /\ UGo(u, "locked", "out")
  /\ in_table' = FALSE
  /\ released' = released + 1
  /\ table_lock' = NobodyRef
  /\ UNCHANGED refcount

UrefNext ==
  \E u \in RefUsers :
    \/ LookupLock(u) \/ uref_get(u) \/ uref_get_unless_zero(u)
    \/ PutUnlessOne(u) \/ PutLock(u) \/ PutDec(u) \/ UrefRelease(u)

UrefSpec == UrefInit /\ [][UrefNext]_urvars

-----------------------------------------------------------------------------
(* uref_put_lock: "return true then dec ref to zero and hold lock".  The   *)
(* count is the number of holders, an object is never got back from zero,  *)
(* it is released once, and who looks into the table under the lock never  *)
(* finds an object that is being released.                                 *)
NeverResurrected ==
  /\ refcount = Cardinality({u \in RefUsers : upc[u] \in {"holds", "lock", "dec"}})
  /\ released <= 1 /\ (released = 1 => refcount = 0)
  /\ \A u \in RefUsers : upc[u] = "look" /\ in_table => refcount > 0
=============================================================================
