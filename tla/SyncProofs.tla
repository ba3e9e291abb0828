----------------------------- MODULE SyncProofs -----------------------------
(***************************************************************************)
(* Proofs about the reference count, the queued reader/writer lock, the    *)
(* reader/writer semaphore and completions, for every finite set of        *)
(* threads: the argument about each counts threads.  Each has its own      *)
(* variables and its own specification; they only share this module.       *)
(***************************************************************************)
EXTENDS Uref, QRwLock, RwSem, Completion, ListLemmas

-----------------------------------------------------------------------------
(***************************************************************************)
(* Uref.  NeverResurrected is not inductive: it needs that the table lock  *)
(* is held exactly by those between lock and unlock, and that the count is *)
(* zero only from the last put on, that is while the object is released    *)
(* under the lock or when it is out of the table.                          *)
(***************************************************************************)
HoldPlaces == {"holds", "lock", "dec"}
LockPlaces == {"look", "dec", "locked"}
RefHolders == {u \in RefUsers : upc[u] \in HoldPlaces}

UrefTypeOK ==
  /\ table_lock \in RefUsers \cup {NobodyRef}
  /\ in_table \in BOOLEAN
  /\ released = IF in_table THEN 0 ELSE 1
  /\ upc \in [RefUsers -> {"out"} \cup HoldPlaces \cup LockPlaces]

UrefInv ==
  /\ UrefTypeOK
  /\ refcount = Cardinality(RefHolders)
  /\ \A u \in RefUsers : table_lock = u <=> upc[u] \in LockPlaces
  /\ refcount = 0 <=> (~in_table \/ \E u \in RefUsers : upc[u] = "locked")
  /\ \A u \in RefUsers : upc[u] = "locked" => in_table

(* A step of u adds a holder or takes one away, as u's place says. *)
LEMMA HoldersCounted ==
  ASSUME IsFiniteSet(RefUsers), UrefTypeOK,
         NEW u \in RefUsers, NEW p, upc' = [upc EXCEPT ![u] = p]
  PROVE  /\ Cardinality(RefHolders) \in Nat
         /\ upc[u] \in HoldPlaces => Cardinality(RefHolders) > 0
         /\ Cardinality(RefHolders') =
              Cardinality(RefHolders) + (IF p \in HoldPlaces THEN 1 ELSE 0)
                                      - (IF upc[u] \in HoldPlaces THEN 1 ELSE 0)
<1>1. IsFiniteSet(RefHolders)
  BY CardSubset DEF RefHolders
<1>2. Cardinality(RefHolders) \in Nat
  BY <1>1, CardType
<1>3. /\ \A v \in RefUsers \ {u} : upc'[v] = upc[v]
      /\ upc'[u] = p
  BY DEF UrefTypeOK
<1>4. upc[u] \in HoldPlaces => Cardinality(RefHolders) > 0
  <2> SUFFICES ASSUME upc[u] \in HoldPlaces PROVE Cardinality(RefHolders) # 0
    BY <1>2
  <2> u \in RefHolders
    BY DEF RefHolders
  <2> QED
    BY <1>1, CardEmpty
<1>5. CASE p \in HoldPlaces /\ upc[u] \notin HoldPlaces
  <2>1. RefHolders' = RefHolders \cup {u} /\ u \notin RefHolders
    BY <1>3, <1>5 DEF RefHolders
  <2>2. Cardinality(RefHolders') = Cardinality(RefHolders) + 1
    BY Zenon, <1>1, <2>1, CardAdd
  <2> QED
    BY <1>2, <1>4, <1>5, <2>2
<1>6. CASE p \notin HoldPlaces /\ upc[u] \in HoldPlaces
  <2>1. RefHolders' = RefHolders \ {u} /\ u \in RefHolders
    BY <1>3, <1>6 DEF RefHolders
  <2>2. Cardinality(RefHolders') = Cardinality(RefHolders) - 1
    BY Zenon, <1>1, <2>1, CardRemove
  <2> QED
    BY <1>2, <1>4, <1>6, <2>2
<1>7. CASE p \in HoldPlaces <=> upc[u] \in HoldPlaces
  <2>1. RefHolders' = RefHolders
    BY <1>3, <1>7 DEF RefHolders
  <2> QED
    BY <1>2, <1>4, <1>7, <2>1
<1> QED
  BY Zenon, <1>5, <1>6, <1>7

LEMMA UrefInitInv ==
  ASSUME NobodyRef \notin RefUsers, UrefInit
  PROVE  UrefInv
<1>1. PICK u \in RefUsers :
        /\ refcount = 1 /\ table_lock = NobodyRef
        /\ in_table = TRUE /\ released = 0
        /\ upc = [v \in RefUsers |-> IF v = u THEN "holds" ELSE "out"]
  BY DEF UrefInit
<1>2. RefHolders = {u}
  BY <1>1 DEF RefHolders, HoldPlaces
<1>3. Cardinality(RefHolders) = 1
  BY Zenon, <1>2, CardSingleton
<1> QED
  BY <1>1, <1>3 DEF UrefInv, UrefTypeOK, HoldPlaces, LockPlaces

LEMMA UrefStepInv ==
  ASSUME IsFiniteSet(RefUsers), NobodyRef \notin RefUsers, UrefInv, [UrefNext]_urvars
  PROVE  UrefInv'
<1>1. CASE UNCHANGED urvars
  BY Zenon, <1>1 DEF urvars, UrefInv, UrefTypeOK, RefHolders
<1>2. ASSUME NEW u \in RefUsers, LookupLock(u)
      PROVE  UrefInv'
  <2> DEFINE p == "look"
  <2>1. upc' = [upc EXCEPT ![u] = p]
    BY <1>2 DEF LookupLock, UGo
  <2> HIDE DEF p
  <2>2. /\ refcount \in Nat
        /\ upc[u] \in HoldPlaces => refcount > 0
        /\ Cardinality(RefHolders') = refcount + (IF p \in HoldPlaces THEN 1 ELSE 0)
                                               - (IF upc[u] \in HoldPlaces THEN 1 ELSE 0)
    BY Zenon, <2>1, HoldersCounted DEF UrefInv
  <2>3. refcount' = Cardinality(RefHolders')
    BY <1>2, <2>2 DEF LookupLock, UGo, HoldPlaces, p
  <2>4. upc'[u] = p /\ \A v \in RefUsers \ {u} : upc'[v] = upc[v]
    BY <2>1 DEF UrefInv, UrefTypeOK
  <2>5. UrefTypeOK'
    BY Zenon, <1>2, <2>1 DEF UrefInv, UrefTypeOK, LookupLock, UGo, HoldPlaces, LockPlaces, p
  <2>6. \A v \in RefUsers : table_lock' = v <=> upc'[v] \in LockPlaces
    BY Zenon, <1>2, <2>2, <2>4 DEF UrefInv, LookupLock, UGo, HoldPlaces, LockPlaces, p
  <2>7. refcount' = 0 <=> (~in_table' \/ \E v \in RefUsers : upc'[v] = "locked")
    BY Zenon, <1>2, <2>2, <2>4 DEF UrefInv, UrefTypeOK, LookupLock, UGo, HoldPlaces, LockPlaces, p
  <2>8. \A v \in RefUsers : upc'[v] = "locked" => in_table'
    BY Zenon, <1>2, <2>2, <2>4 DEF UrefInv, UrefTypeOK, LookupLock, UGo, HoldPlaces, LockPlaces, p
  <2> QED
    BY Zenon, <2>3, <2>5, <2>6, <2>7, <2>8 DEF UrefInv
<1>3. ASSUME NEW u \in RefUsers, uref_get(u)
      PROVE  UrefInv'
  <2> DEFINE p == IF in_table THEN "holds" ELSE "out"
  <2>1. upc' = [upc EXCEPT ![u] = p]
    BY <1>3 DEF uref_get, UGo
  <2> HIDE DEF p
  <2>2. /\ refcount \in Nat
        /\ upc[u] \in HoldPlaces => refcount > 0
        /\ Cardinality(RefHolders') = refcount + (IF p \in HoldPlaces THEN 1 ELSE 0)
                                               - (IF upc[u] \in HoldPlaces THEN 1 ELSE 0)
    BY Zenon, <2>1, HoldersCounted DEF UrefInv
  <2>3. refcount' = Cardinality(RefHolders')
    BY <1>3, <2>2 DEF uref_get, UGo, HoldPlaces, p
  <2>4. upc'[u] = p /\ \A v \in RefUsers \ {u} : upc'[v] = upc[v]
    BY <2>1 DEF UrefInv, UrefTypeOK
  <2>5. UrefTypeOK'
    BY Zenon, <1>3, <2>1 DEF UrefInv, UrefTypeOK, uref_get, UGo, HoldPlaces, LockPlaces, p
  <2>6. \A v \in RefUsers : table_lock' = v <=> upc'[v] \in LockPlaces
    BY <1>3, <2>2, <2>4 DEF UrefInv, uref_get, UGo, HoldPlaces, LockPlaces, p
  <2>7. refcount' = 0 <=> (~in_table' \/ \E v \in RefUsers : upc'[v] = "locked")
    BY <1>3, <2>2, <2>4 DEF UrefInv, UrefTypeOK, uref_get, UGo, HoldPlaces, LockPlaces, p
  <2>8. \A v \in RefUsers : upc'[v] = "locked" => in_table'
    BY Zenon, <1>3, <2>2, <2>4 DEF UrefInv, UrefTypeOK, uref_get, UGo, HoldPlaces, LockPlaces, p
  <2> QED
    BY Zenon, <2>3, <2>5, <2>6, <2>7, <2>8 DEF UrefInv
<1>4. ASSUME NEW u \in RefUsers, uref_get_unless_zero(u)
      PROVE  UrefInv'
  <2> DEFINE p == IF refcount # 0 THEN "holds" ELSE "out"
  <2>1. upc' = [upc EXCEPT ![u] = p]
    BY <1>4 DEF uref_get_unless_zero, UGo
  <2> HIDE DEF p
  <2>2. /\ refcount \in Nat
        /\ upc[u] \in HoldPlaces => refcount > 0
        /\ Cardinality(RefHolders') = refcount + (IF p \in HoldPlaces THEN 1 ELSE 0)
                                               - (IF upc[u] \in HoldPlaces THEN 1 ELSE 0)
    BY Zenon, <2>1, HoldersCounted DEF UrefInv
  <2>3. refcount' = Cardinality(RefHolders')
    BY <1>4, <2>2 DEF uref_get_unless_zero, UGo, HoldPlaces, p
  <2>4. upc'[u] = p /\ \A v \in RefUsers \ {u} : upc'[v] = upc[v]
    BY <2>1 DEF UrefInv, UrefTypeOK
  <2>5. UrefTypeOK'
    BY Zenon, <1>4, <2>1 DEF UrefInv, UrefTypeOK, uref_get_unless_zero, UGo, HoldPlaces, LockPlaces, p
  <2>6. \A v \in RefUsers : table_lock' = v <=> upc'[v] \in LockPlaces
    BY <1>4, <2>2, <2>4 DEF UrefInv, uref_get_unless_zero, UGo, HoldPlaces, LockPlaces, p
  <2>7. refcount' = 0 <=> (~in_table' \/ \E v \in RefUsers : upc'[v] = "locked")
    BY <1>4, <2>2, <2>4 DEF UrefInv, UrefTypeOK, uref_get_unless_zero, UGo, HoldPlaces, LockPlaces, p
  <2>8. \A v \in RefUsers : upc'[v] = "locked" => in_table'
    BY Zenon, <1>4, <2>2, <2>4 DEF UrefInv, UrefTypeOK, uref_get_unless_zero, UGo, HoldPlaces, LockPlaces, p
  <2> QED
    BY Zenon, <2>3, <2>5, <2>6, <2>7, <2>8 DEF UrefInv
<1>5. ASSUME NEW u \in RefUsers, PutUnlessOne(u)
      PROVE  UrefInv'
  <2> DEFINE p == IF refcount = 1 THEN "lock" ELSE "out"
  <2>1. upc' = [upc EXCEPT ![u] = p]
    BY <1>5 DEF PutUnlessOne, UGo
  <2> HIDE DEF p
  <2>2. /\ refcount \in Nat
        /\ upc[u] \in HoldPlaces => refcount > 0
        /\ Cardinality(RefHolders') = refcount + (IF p \in HoldPlaces THEN 1 ELSE 0)
                                               - (IF upc[u] \in HoldPlaces THEN 1 ELSE 0)
    BY Zenon, <2>1, HoldersCounted DEF UrefInv
  <2>3. refcount' = Cardinality(RefHolders')
    BY <1>5, <2>2 DEF PutUnlessOne, UGo, HoldPlaces, p
  <2>4. upc'[u] = p /\ \A v \in RefUsers \ {u} : upc'[v] = upc[v]
    BY Zenon, <2>1 DEF UrefInv, UrefTypeOK
  <2>5. UrefTypeOK'
    BY Zenon, <1>5, <2>1 DEF UrefInv, UrefTypeOK, PutUnlessOne, UGo, HoldPlaces, LockPlaces, p
  <2>6. \A v \in RefUsers : table_lock' = v <=> upc'[v] \in LockPlaces
    BY <1>5, <2>2, <2>4 DEF UrefInv, PutUnlessOne, UGo, HoldPlaces, LockPlaces, p
  <2>7. refcount' = 0 <=> (~in_table' \/ \E v \in RefUsers : upc'[v] = "locked")
    BY <1>5, <2>2, <2>4 DEF UrefInv, UrefTypeOK, PutUnlessOne, UGo, HoldPlaces, LockPlaces, p
  <2>8. \A v \in RefUsers : upc'[v] = "locked" => in_table'
    BY Zenon, <1>5, <2>2, <2>4 DEF UrefInv, UrefTypeOK, PutUnlessOne, UGo, HoldPlaces, LockPlaces, p
  <2> QED
    BY Zenon, <2>3, <2>5, <2>6, <2>7, <2>8 DEF UrefInv
<1>6. ASSUME NEW u \in RefUsers, PutLock(u)
      PROVE  UrefInv'
  <2> DEFINE p == "dec"
  <2>1. upc' = [upc EXCEPT ![u] = p]
    BY <1>6 DEF PutLock, UGo
  <2> HIDE DEF p
  <2>2. /\ refcount \in Nat
        /\ upc[u] \in HoldPlaces => refcount > 0
        /\ Cardinality(RefHolders') = refcount + (IF p \in HoldPlaces THEN 1 ELSE 0)
                                               - (IF upc[u] \in HoldPlaces THEN 1 ELSE 0)
    BY Zenon, <2>1, HoldersCounted DEF UrefInv
  <2>3. refcount' = Cardinality(RefHolders')
    BY <1>6, <2>2 DEF PutLock, UGo, HoldPlaces, p
  <2>4. upc'[u] = p /\ \A v \in RefUsers \ {u} : upc'[v] = upc[v]
    BY Zenon, <2>1 DEF UrefInv, UrefTypeOK
  <2>5. UrefTypeOK'
    BY Zenon, <1>6, <2>1 DEF UrefInv, UrefTypeOK, PutLock, UGo, HoldPlaces, LockPlaces, p
  <2>6. \A v \in RefUsers : table_lock' = v <=> upc'[v] \in LockPlaces
    BY Zenon, <1>6, <2>2, <2>4 DEF UrefInv, PutLock, UGo, HoldPlaces, LockPlaces, p
  <2>7. refcount' = 0 <=> (~in_table' \/ \E v \in RefUsers : upc'[v] = "locked")
    BY Zenon, <1>6, <2>2, <2>4 DEF UrefInv, UrefTypeOK, PutLock, UGo, HoldPlaces, LockPlaces, p
  <2>8. \A v \in RefUsers : upc'[v] = "locked" => in_table'
    BY Zenon, <1>6, <2>2, <2>4 DEF UrefInv, UrefTypeOK, PutLock, UGo, HoldPlaces, LockPlaces, p
  <2> QED
    BY Zenon, <2>3, <2>5, <2>6, <2>7, <2>8 DEF UrefInv
<1>7. ASSUME NEW u \in RefUsers, PutDec(u)
      PROVE  UrefInv'
  <2> DEFINE p == IF refcount = 1 THEN "locked" ELSE "out"
  <2>1. upc' = [upc EXCEPT ![u] = p]
    BY <1>7 DEF PutDec, UGo
  <2> HIDE DEF p
  <2>2. /\ refcount \in Nat
        /\ upc[u] \in HoldPlaces => refcount > 0
        /\ Cardinality(RefHolders') = refcount + (IF p \in HoldPlaces THEN 1 ELSE 0)
                                               - (IF upc[u] \in HoldPlaces THEN 1 ELSE 0)
    BY Zenon, <2>1, HoldersCounted DEF UrefInv
  <2>3. refcount' = Cardinality(RefHolders')
    BY <1>7, <2>2 DEF PutDec, UGo, HoldPlaces, p
  <2>4. upc'[u] = p /\ \A v \in RefUsers \ {u} : upc'[v] = upc[v]
    BY Zenon, <2>1 DEF UrefInv, UrefTypeOK
  <2>5. UrefTypeOK'
    BY Zenon, <1>7, <2>1 DEF UrefInv, UrefTypeOK, PutDec, UGo, HoldPlaces, LockPlaces, p
  <2>6. \A v \in RefUsers : table_lock' = v <=> upc'[v] \in LockPlaces
    BY <1>7, <2>2, <2>4 DEF UrefInv, PutDec, UGo, HoldPlaces, LockPlaces, p
  <2>7. refcount' = 0 <=> (~in_table' \/ \E v \in RefUsers : upc'[v] = "locked")
    BY <1>7, <2>2, <2>4 DEF UrefInv, UrefTypeOK, PutDec, UGo, HoldPlaces, LockPlaces, p
  <2>8. \A v \in RefUsers : upc'[v] = "locked" => in_table'
    BY <1>7, <2>2, <2>4 DEF UrefInv, UrefTypeOK, PutDec, UGo, HoldPlaces, LockPlaces, p
  <2> QED
    BY Zenon, <2>3, <2>5, <2>6, <2>7, <2>8 DEF UrefInv
<1>8. ASSUME NEW u \in RefUsers, UrefRelease(u)
      PROVE  UrefInv'
  <2> DEFINE p == "out"
  <2>1. upc' = [upc EXCEPT ![u] = p]
    BY <1>8 DEF UrefRelease, UGo
  <2> HIDE DEF p
  <2>2. /\ refcount \in Nat
        /\ upc[u] \in HoldPlaces => refcount > 0
        /\ Cardinality(RefHolders') = refcount + (IF p \in HoldPlaces THEN 1 ELSE 0)
                                               - (IF upc[u] \in HoldPlaces THEN 1 ELSE 0)
    BY Zenon, <2>1, HoldersCounted DEF UrefInv
  <2>3. refcount' = Cardinality(RefHolders')
    BY <1>8, <2>2 DEF UrefRelease, UGo, HoldPlaces, p
  <2>4. upc'[u] = p /\ \A v \in RefUsers \ {u} : upc'[v] = upc[v]
    BY Zenon, <2>1 DEF UrefInv, UrefTypeOK
  <2>5. UrefTypeOK'
    <3>1. in_table /\ released = 0
      BY Zenon, <1>8 DEF UrefInv, UrefTypeOK, UrefRelease, UGo
    <3>2. released' = 1 /\ in_table' = FALSE /\ table_lock' = NobodyRef
      BY <1>8, <3>1 DEF UrefRelease
    <3> QED
      BY Zenon, <2>1, <3>2 DEF UrefInv, UrefTypeOK, HoldPlaces, p
  <2>6. \A v \in RefUsers : table_lock' = v <=> upc'[v] \in LockPlaces
    BY Zenon, <1>8, <2>2, <2>4 DEF UrefInv, UrefRelease, UGo, HoldPlaces, LockPlaces, p
  <2>7. refcount' = 0 <=> (~in_table' \/ \E v \in RefUsers : upc'[v] = "locked")
    BY Zenon, <1>8, <2>2, <2>4 DEF UrefInv, UrefTypeOK, UrefRelease, UGo, HoldPlaces, LockPlaces, p
  <2>8. \A v \in RefUsers : upc'[v] = "locked" => in_table'
    BY Zenon, <1>8, <2>2, <2>4 DEF UrefInv, UrefTypeOK, UrefRelease, UGo, HoldPlaces, LockPlaces, p
  <2> QED
    BY Zenon, <2>3, <2>5, <2>6, <2>7, <2>8 DEF UrefInv
<1> QED
  BY Zenon, <1>1, <1>2, <1>3, <1>4, <1>5, <1>6, <1>7, <1>8 DEF UrefNext

(* uref_put_lock and the lookups: the object is released once, never got   *)
(* back from zero, and never found in the table while it is released, for  *)
(* any number of users.                                                    *)
THEOREM UrefNeverResurrected ==
  ASSUME IsFiniteSet(RefUsers), NobodyRef \notin RefUsers
  PROVE  UrefSpec => []NeverResurrected
<1>1. UrefInit => UrefInv
  BY UrefInitInv
<1>2. UrefInv /\ [UrefNext]_urvars => UrefInv'
  BY UrefStepInv
<1>3. UrefInv => NeverResurrected
  <2> SUFFICES ASSUME UrefInv PROVE NeverResurrected
    OBVIOUS
  <2>1. RefHolders = {u \in RefUsers : upc[u] \in {"holds", "lock", "dec"}}
    BY DEF RefHolders, HoldPlaces
  <2>2. Cardinality(RefHolders) \in Nat
    BY CardSubset, CardType DEF RefHolders
  <2> QED
    BY <2>1, <2>2 DEF NeverResurrected, UrefInv, UrefTypeOK, HoldPlaces, LockPlaces
<1> QED
  BY <1>1, <1>2, <1>3, PTL DEF UrefSpec

-----------------------------------------------------------------------------
(***************************************************************************)
(* QRwLock.  cnts.readers counts more than the readers that are in: also   *)
(* those that have counted themselves and will take it back, or spin.  The *)
(* invariant names them, and says that the locked byte is set exactly      *)
(* while a writer is in.  Who owns wait_lock does not matter for safety.   *)
(***************************************************************************)
CountPlaces == {"r_back", "r_spin", "r_giveup", "reading"}
RwPlaces == CountPlaces \cup
  {"out", "r_queue", "r_count", "r_try", "w_queue", "w_direct", "w_flag", "w_spin",
   "w_swap", "writing"}
Counted == {t \in Spinners : rwpc[t] \in CountPlaces}
Reading == {t \in Spinners : rwpc[t] = "reading"}
Writing == {t \in Spinners : rwpc[t] = "writing"}

QRwTypeOK ==
  /\ cnts \in [locked : BOOLEAN, waiting : BOOLEAN, readers : Nat]
  /\ rwpc \in [Spinners -> RwPlaces]

WriterAlone ==
  /\ cnts.locked <=> Writing # {}
  /\ \A t \in Writing : Writing = {t} /\ Reading = {}

QRwInv == QRwTypeOK /\ cnts.readers = Cardinality(Counted) /\ WriterAlone

(* A step of t counts t in or out, as t's place says. *)
LEMMA CountedStep ==
  ASSUME IsFiniteSet(Spinners), QRwTypeOK, cnts.readers = Cardinality(Counted),
         NEW t \in Spinners, NEW p \in RwPlaces, rwpc' = [rwpc EXCEPT ![t] = p]
  PROVE  /\ rwpc' \in [Spinners -> RwPlaces]
         /\ rwpc[t] \in CountPlaces => cnts.readers > 0
         /\ cnts.readers = 0 => Reading = {}
         /\ Cardinality(Counted') =
              cnts.readers + (IF p \in CountPlaces THEN 1 ELSE 0)
                           - (IF rwpc[t] \in CountPlaces THEN 1 ELSE 0)
         /\ Reading' = IF p = "reading" THEN Reading \cup {t} ELSE Reading \ {t}
         /\ Writing' = IF p = "writing" THEN Writing \cup {t} ELSE Writing \ {t}
<1>1. IsFiniteSet(Counted) /\ cnts.readers \in Nat
  BY CardSubset DEF Counted, QRwTypeOK
<1>2. rwpc' \in [Spinners -> RwPlaces]
  BY DEF QRwTypeOK
<1>3. /\ \A v \in Spinners \ {t} : rwpc'[v] = rwpc[v]
      /\ rwpc'[t] = p
  BY DEF QRwTypeOK
<1>4. cnts.readers = 0 => Counted = {}
  BY Zenon, <1>1, CardEmpty
<1>5. Reading \subseteq Counted /\ (rwpc[t] \in CountPlaces => t \in Counted)
  BY DEF Reading, Counted, CountPlaces
<1>6. /\ Reading' = IF p = "reading" THEN Reading \cup {t} ELSE Reading \ {t}
      /\ Writing' = IF p = "writing" THEN Writing \cup {t} ELSE Writing \ {t}
  BY <1>3 DEF Reading, Writing
<1>7. Cardinality(Counted') =
        cnts.readers + (IF p \in CountPlaces THEN 1 ELSE 0)
                     - (IF rwpc[t] \in CountPlaces THEN 1 ELSE 0)
  <2>1. CASE p \in CountPlaces /\ rwpc[t] \notin CountPlaces
    <3>1. Counted' = Counted \cup {t} /\ t \notin Counted
      BY Zenon, <1>3, <2>1 DEF Counted
    <3>2. Cardinality(Counted') = Cardinality(Counted) + 1
      BY Zenon, <1>1, <3>1, CardAdd
    <3> QED
      BY <1>1, <2>1, <3>2
  <2>2. CASE p \notin CountPlaces /\ rwpc[t] \in CountPlaces
    <3>1. Counted' = Counted \ {t} /\ t \in Counted
      BY Zenon, <1>3, <2>2 DEF Counted
    <3>2. Cardinality(Counted') = Cardinality(Counted) - 1
      BY Zenon, <1>1, <3>1, CardRemove
    <3> QED
      BY <1>1, <2>2, <3>2
  <2>3. CASE p \in CountPlaces <=> rwpc[t] \in CountPlaces
    <3>1. Counted' = Counted
      BY Zenon, <1>3, <2>3 DEF Counted
    <3> QED
      BY <1>1, <2>3, <3>1
  <2> QED
    BY Zenon, <2>1, <2>2, <2>3
<1> QED
  BY <1>1, <1>2, <1>4, <1>5, <1>6, <1>7

(* A step from rwpc[t] to p counts t in or out of the word as it must. *)
CountsRight(t, p) ==
  /\ cnts' \in [locked : BOOLEAN, waiting : BOOLEAN, readers : Int]
  /\ cnts'.readers = cnts.readers + (IF p \in CountPlaces THEN 1 ELSE 0)
                                  - (IF rwpc[t] \in CountPlaces THEN 1 ELSE 0)

(* The five things a step from rwpc[t] to p can be for the lock, and what  *)
(* it must have seen and done to the locked byte.                          *)
Passes(t, p) ==
  LET in(q) == q \in {"reading", "writing"}
  IN  \/ ~in(rwpc[t]) /\ ~in(p) /\ cnts'.locked = cnts.locked
      \/ ~in(rwpc[t]) /\ p = "reading" /\ ~cnts.locked /\ ~cnts'.locked
      \/ rwpc[t] = "reading" /\ ~in(p) /\ cnts'.locked = cnts.locked
      \/ ~in(rwpc[t]) /\ p = "writing" /\ ~cnts.locked /\ cnts.readers = 0 /\ cnts'.locked
      \/ rwpc[t] = "writing" /\ ~in(p) /\ ~cnts'.locked

(* What every step of the lock does to it. *)
RwStepKept == QRwInv' /\ (QRw!RwNext \/ UNCHANGED <<Reading, Writing>>)

LEMMA PassesKeep ==
  ASSUME IsFiniteSet(Spinners), QRwInv,
         NEW t \in Spinners, rwpc' = [rwpc EXCEPT ![t] = rwpc'[t]], rwpc'[t] \in RwPlaces,
         CountsRight(t, rwpc'[t]), Passes(t, rwpc'[t])
  PROVE  RwStepKept
<1> DEFINE p == rwpc'[t]
<1>1. /\ rwpc' \in [Spinners -> RwPlaces]
      /\ cnts.readers = 0 => Reading = {}
      /\ Reading' = IF p = "reading" THEN Reading \cup {t} ELSE Reading \ {t}
      /\ Writing' = IF p = "writing" THEN Writing \cup {t} ELSE Writing \ {t}
  BY Zenon, CountedStep DEF QRwInv
<1>2. (t \in Reading <=> rwpc[t] = "reading") /\ (t \in Writing <=> rwpc[t] = "writing")
  BY DEF Reading, Writing
<1>3. cnts.locked \in BOOLEAN /\ cnts'.locked \in BOOLEAN
  BY DEF QRwInv, QRwTypeOK, CountsRight
<1>4. Writing \subseteq Spinners /\ Reading \subseteq Spinners
  BY DEF Reading, Writing
<1> HIDE DEF p
<1>5. \/ Reading' = Reading /\ Writing' = Writing /\ cnts'.locked = cnts.locked
      \/ ~cnts.locked /\ ~cnts'.locked /\ Reading' = Reading \cup {t} /\ Writing' = Writing
      \/ /\ t \in Reading /\ Reading' = Reading \ {t} /\ Writing' = Writing
         /\ cnts'.locked = cnts.locked
      \/ /\ ~cnts.locked /\ Reading = {} /\ Reading' = {} /\ cnts'.locked
         /\ Writing' = Writing \cup {t}
      \/ t \in Writing /\ Reading' = Reading /\ Writing' = Writing \ {t} /\ ~cnts'.locked
  BY ZenonT(30), <1>1, <1>2, <1>3 DEF Passes, p
<1>6. \/ UNCHANGED <<Reading, Writing>> /\ cnts'.locked = cnts.locked
      \/ QRw!AcquireRead(t) /\ ~cnts'.locked /\ Writing' = {}
      \/ QRw!ReleaseRead(t) /\ cnts'.locked = cnts.locked
      \/ QRw!AcquireWrite(t) /\ cnts'.locked
      \/ QRw!ReleaseWrite(t, {}) /\ ~cnts'.locked
  BY Zenon, <1>5 DEF QRwInv, WriterAlone, QRw!AcquireRead, QRw!ReleaseRead, QRw!AcquireWrite,
              QRw!ReleaseWrite, Reading, Writing
<1>7. WriterAlone'
  BY Zenon, <1>5, <1>6, <1>4 DEF QRwInv, WriterAlone
<1>8. cnts'.readers = Cardinality(Counted')
  BY Zenon, CountedStep DEF QRwInv, CountsRight
<1>9. cnts'.readers \in Nat
  BY Zenon, <1>8, CardSubset, CardType DEF Counted
<1>10. cnts' \in [locked : BOOLEAN, waiting : BOOLEAN, readers : Nat]
  BY Zenon, <1>9 DEF CountsRight
<1> QED
  BY Zenon, <1>1, <1>6, <1>7, <1>8, <1>10 DEF RwStepKept, QRwInv, QRwTypeOK, QRw!RwNext

LEMMA QRwStep ==
  ASSUME IsFiniteSet(Spinners), QRwInv, [QRwNext]_rwvars
  PROVE  RwStepKept
<1> USE DEF Move
<1>1. CASE UNCHANGED rwvars
  BY Zenon, <1>1 DEF rwvars, RwStepKept, QRwInv, QRwTypeOK, WriterAlone, Counted, Reading, Writing
<1>2. ASSUME NEW t \in Spinners, read_lock(t) PROVE RwStepKept
  <2>1. rwpc' = [rwpc EXCEPT ![t] = rwpc'[t]] /\ rwpc'[t] \in RwPlaces
    BY <1>2 DEF read_lock, QRwInv, QRwTypeOK, RwPlaces, CountPlaces
  <2>2. CountsRight(t, rwpc'[t])
    BY <1>2, <2>1 DEF read_lock, Bias, WMask, CountsRight, QRwInv, QRwTypeOK, CountPlaces
  <2>3. Passes(t, rwpc'[t])
    BY Zenon, <1>2, <2>1 DEF read_lock, Bias, WMask, Passes, QRwInv, QRwTypeOK
  <2> QED
    BY Zenon, <2>1, <2>2, <2>3, PassesKeep
<1>3. ASSUME NEW t \in Spinners, ReadBackOff(t) PROVE RwStepKept
  <2>1. rwpc' = [rwpc EXCEPT ![t] = rwpc'[t]] /\ rwpc'[t] \in RwPlaces
    BY <1>3 DEF ReadBackOff, QRwInv, QRwTypeOK, RwPlaces, CountPlaces
  <2>2. CountsRight(t, rwpc'[t])
    BY <1>3, <2>1 DEF ReadBackOff, Bias, CountsRight, QRwInv, QRwTypeOK, CountPlaces
  <2>3. Passes(t, rwpc'[t])
    BY Zenon, <1>3, <2>1 DEF ReadBackOff, Bias, Passes, QRwInv, QRwTypeOK
  <2> QED
    BY Zenon, <2>1, <2>2, <2>3, PassesKeep
<1>4. ASSUME NEW t \in Spinners, ReadQueue(t) PROVE RwStepKept
  <2>1. rwpc' = [rwpc EXCEPT ![t] = rwpc'[t]] /\ rwpc'[t] \in RwPlaces
    BY <1>4 DEF ReadQueue, QRwInv, QRwTypeOK, RwPlaces, CountPlaces
  <2>2. CountsRight(t, rwpc'[t])
    BY <1>4, <2>1 DEF ReadQueue, CountsRight, QRwInv, QRwTypeOK, CountPlaces
  <2>3. Passes(t, rwpc'[t])
    BY Zenon, <1>4, <2>1 DEF ReadQueue, Passes, QRwInv, QRwTypeOK
  <2> QED
    BY Zenon, <2>1, <2>2, <2>3, PassesKeep
<1>5. ASSUME NEW t \in Spinners, ReadCount(t) PROVE RwStepKept
  <2>1. rwpc' = [rwpc EXCEPT ![t] = rwpc'[t]] /\ rwpc'[t] \in RwPlaces
    BY <1>5 DEF ReadCount, QRwInv, QRwTypeOK, RwPlaces, CountPlaces
  <2>2. CountsRight(t, rwpc'[t])
    BY <1>5, <2>1 DEF ReadCount, Bias, CountsRight, QRwInv, QRwTypeOK, CountPlaces
  <2>3. Passes(t, rwpc'[t])
    BY Zenon, <1>5, <2>1 DEF ReadCount, Bias, Passes, QRwInv, QRwTypeOK
  <2> QED
    BY Zenon, <2>1, <2>2, <2>3, PassesKeep
<1>6. ASSUME NEW t \in Spinners, ReadSpin(t) PROVE RwStepKept
  <2>1. rwpc' = [rwpc EXCEPT ![t] = rwpc'[t]] /\ rwpc'[t] \in RwPlaces
    BY <1>6 DEF ReadSpin, QRwInv, QRwTypeOK, RwPlaces, CountPlaces
  <2>2. CountsRight(t, rwpc'[t])
    BY <1>6, <2>1 DEF ReadSpin, CountsRight, QRwInv, QRwTypeOK, CountPlaces
  <2>3. Passes(t, rwpc'[t])
    BY Zenon, <1>6, <2>1 DEF ReadSpin, Passes, QRwInv, QRwTypeOK
  <2> QED
    BY Zenon, <2>1, <2>2, <2>3, PassesKeep
<1>7. ASSUME NEW t \in Spinners, ReadTryLook(t) PROVE RwStepKept
  <2>1. rwpc' = [rwpc EXCEPT ![t] = rwpc'[t]] /\ rwpc'[t] \in RwPlaces
    BY <1>7 DEF ReadTryLook, QRwInv, QRwTypeOK, RwPlaces, CountPlaces
  <2>2. CountsRight(t, rwpc'[t])
    BY <1>7, <2>1 DEF ReadTryLook, WMask, CountsRight, QRwInv, QRwTypeOK, CountPlaces
  <2>3. Passes(t, rwpc'[t])
    BY Zenon, <1>7, <2>1 DEF ReadTryLook, WMask, Passes, QRwInv, QRwTypeOK
  <2> QED
    BY Zenon, <2>1, <2>2, <2>3, PassesKeep
<1>8. ASSUME NEW t \in Spinners, ReadTryCount(t) PROVE RwStepKept
  <2>1. rwpc' = [rwpc EXCEPT ![t] = rwpc'[t]] /\ rwpc'[t] \in RwPlaces
    BY <1>8 DEF ReadTryCount, QRwInv, QRwTypeOK, RwPlaces, CountPlaces
  <2>2. CountsRight(t, rwpc'[t])
    BY <1>8, <2>1 DEF ReadTryCount, Bias, WMask, CountsRight, QRwInv, QRwTypeOK, CountPlaces
  <2>3. Passes(t, rwpc'[t])
    BY Zenon, <1>8, <2>1 DEF ReadTryCount, Bias, WMask, Passes, QRwInv, QRwTypeOK
  <2> QED
    BY Zenon, <2>1, <2>2, <2>3, PassesKeep
<1>9. ASSUME NEW t \in Spinners, ReadGiveUp(t) PROVE RwStepKept
  <2>1. rwpc' = [rwpc EXCEPT ![t] = rwpc'[t]] /\ rwpc'[t] \in RwPlaces
    BY <1>9 DEF ReadGiveUp, QRwInv, QRwTypeOK, RwPlaces, CountPlaces
  <2>2. CountsRight(t, rwpc'[t])
    BY <1>9, <2>1 DEF ReadGiveUp, Bias, CountsRight, QRwInv, QRwTypeOK, CountPlaces
  <2>3. Passes(t, rwpc'[t])
    BY Zenon, <1>9, <2>1 DEF ReadGiveUp, Bias, Passes, QRwInv, QRwTypeOK
  <2> QED
    BY Zenon, <2>1, <2>2, <2>3, PassesKeep
<1>10. ASSUME NEW t \in Spinners, read_unlock(t) PROVE RwStepKept
  <2>1. rwpc' = [rwpc EXCEPT ![t] = rwpc'[t]] /\ rwpc'[t] \in RwPlaces
    BY <1>10 DEF read_unlock, QRwInv, QRwTypeOK, RwPlaces, CountPlaces
  <2>2. CountsRight(t, rwpc'[t])
    BY <1>10, <2>1 DEF read_unlock, Bias, CountsRight, QRwInv, QRwTypeOK, CountPlaces
  <2>3. Passes(t, rwpc'[t])
    BY Zenon, <1>10, <2>1 DEF read_unlock, Bias, Passes, QRwInv, QRwTypeOK
  <2> QED
    BY Zenon, <2>1, <2>2, <2>3, PassesKeep
<1>11. ASSUME NEW t \in Spinners, write_lock(t) PROVE RwStepKept
  <2>1. rwpc' = [rwpc EXCEPT ![t] = rwpc'[t]] /\ rwpc'[t] \in RwPlaces
    BY Zenon, <1>11 DEF write_lock, QRwInv, QRwTypeOK, RwPlaces, CountPlaces
  <2>2. CountsRight(t, rwpc'[t])
    <3>1. /\ rwpc[t] \notin CountPlaces /\ rwpc'[t] \notin CountPlaces
          /\ cnts'.readers = cnts.readers
      BY Zenon, <1>11, <2>1 DEF write_lock, Free, QRwInv, QRwTypeOK, CountPlaces
    <3>2. cnts' \in [locked : BOOLEAN, waiting : BOOLEAN, readers : Nat]
      BY Zenon, <1>11 DEF write_lock, Free, QRwInv, QRwTypeOK
    <3> QED
      BY <3>1, <3>2 DEF CountsRight, QRwInv, QRwTypeOK
  <2>3. Passes(t, rwpc'[t])
    BY <1>11, <2>1 DEF write_lock, Free, Passes, QRwInv, QRwTypeOK
  <2> QED
    BY Zenon, <2>1, <2>2, <2>3, PassesKeep
<1>12. ASSUME NEW t \in Spinners, WriteQueue(t) PROVE RwStepKept
  <2>1. rwpc' = [rwpc EXCEPT ![t] = rwpc'[t]] /\ rwpc'[t] \in RwPlaces
    BY <1>12 DEF WriteQueue, QRwInv, QRwTypeOK, RwPlaces, CountPlaces
  <2>2. CountsRight(t, rwpc'[t])
    BY <1>12, <2>1 DEF WriteQueue, CountsRight, QRwInv, QRwTypeOK, CountPlaces
  <2>3. Passes(t, rwpc'[t])
    BY Zenon, <1>12, <2>1 DEF WriteQueue, Passes, QRwInv, QRwTypeOK
  <2> QED
    BY Zenon, <2>1, <2>2, <2>3, PassesKeep
<1>13. ASSUME NEW t \in Spinners, WriteDirect(t) PROVE RwStepKept
  <2>1. rwpc' = [rwpc EXCEPT ![t] = rwpc'[t]] /\ rwpc'[t] \in RwPlaces
    BY Zenon, <1>13 DEF WriteDirect, QRwInv, QRwTypeOK, RwPlaces, CountPlaces
  <2>2. CountsRight(t, rwpc'[t])
    <3>1. /\ rwpc[t] \notin CountPlaces /\ rwpc'[t] \notin CountPlaces
          /\ cnts'.readers = cnts.readers
      BY Zenon, <1>13, <2>1 DEF WriteDirect, Free, QRwInv, QRwTypeOK, CountPlaces
    <3>2. cnts' \in [locked : BOOLEAN, waiting : BOOLEAN, readers : Nat]
      BY Zenon, <1>13 DEF WriteDirect, Free, QRwInv, QRwTypeOK
    <3> QED
      BY <3>1, <3>2 DEF CountsRight, QRwInv, QRwTypeOK
  <2>3. Passes(t, rwpc'[t])
    BY <1>13, <2>1 DEF WriteDirect, Free, Passes, QRwInv, QRwTypeOK
  <2> QED
    BY Zenon, <2>1, <2>2, <2>3, PassesKeep
<1>14. ASSUME NEW t \in Spinners, WriteFlag(t) PROVE RwStepKept
  <2>1. rwpc' = [rwpc EXCEPT ![t] = rwpc'[t]] /\ rwpc'[t] \in RwPlaces
    BY <1>14 DEF WriteFlag, QRwInv, QRwTypeOK, RwPlaces, CountPlaces
  <2>2. CountsRight(t, rwpc'[t])
    <3>1. /\ rwpc[t] \notin CountPlaces /\ rwpc'[t] \notin CountPlaces
          /\ cnts'.readers = cnts.readers
      BY Zenon, <1>14, <2>1 DEF WriteFlag, QRwInv, QRwTypeOK, CountPlaces
    <3>2. cnts' \in [locked : BOOLEAN, waiting : BOOLEAN, readers : Nat]
      BY Zenon, <1>14 DEF WriteFlag, QRwInv, QRwTypeOK
    <3> QED
      BY <3>1, <3>2 DEF CountsRight, QRwInv, QRwTypeOK
  <2>3. Passes(t, rwpc'[t])
    BY Zenon, <1>14, <2>1 DEF WriteFlag, Passes, QRwInv, QRwTypeOK
  <2> QED
    BY Zenon, <2>1, <2>2, <2>3, PassesKeep
<1>15. ASSUME NEW t \in Spinners, WriteSpin(t) PROVE RwStepKept
  <2>1. rwpc' = [rwpc EXCEPT ![t] = rwpc'[t]] /\ rwpc'[t] \in RwPlaces
    BY Zenon, <1>15 DEF WriteSpin, QRwInv, QRwTypeOK, RwPlaces, CountPlaces
  <2>2. CountsRight(t, rwpc'[t])
    BY <1>15, <2>1 DEF WriteSpin, CountsRight, QRwInv, QRwTypeOK, CountPlaces
  <2>3. Passes(t, rwpc'[t])
    BY Zenon, <1>15, <2>1 DEF WriteSpin, Passes, QRwInv, QRwTypeOK
  <2> QED
    BY Zenon, <2>1, <2>2, <2>3, PassesKeep
<1>16. ASSUME NEW t \in Spinners, WriteSwap(t) PROVE RwStepKept
  <2>1. rwpc' = [rwpc EXCEPT ![t] = rwpc'[t]] /\ rwpc'[t] \in RwPlaces
    BY Zenon, <1>16 DEF WriteSwap, QRwInv, QRwTypeOK, RwPlaces, CountPlaces
  <2>2. CountsRight(t, rwpc'[t])
    <3>1. /\ rwpc[t] \notin CountPlaces /\ rwpc'[t] \notin CountPlaces
          /\ cnts'.readers = cnts.readers
      BY Zenon, <1>16, <2>1 DEF WriteSwap, Free, QRwInv, QRwTypeOK, CountPlaces
    <3>2. cnts' \in [locked : BOOLEAN, waiting : BOOLEAN, readers : Nat]
      BY Zenon, <1>16 DEF WriteSwap, Free, QRwInv, QRwTypeOK
    <3> QED
      BY <3>1, <3>2 DEF CountsRight, QRwInv, QRwTypeOK
  <2>3. Passes(t, rwpc'[t])
    BY Zenon, <1>16, <2>1 DEF WriteSwap, Free, Passes, QRwInv, QRwTypeOK
  <2> QED
    BY Zenon, <2>1, <2>2, <2>3, PassesKeep
<1>17. ASSUME NEW t \in Spinners, write_unlock(t) PROVE RwStepKept
  <2>1. rwpc' = [rwpc EXCEPT ![t] = rwpc'[t]] /\ rwpc'[t] \in RwPlaces
    BY <1>17 DEF write_unlock, QRwInv, QRwTypeOK, RwPlaces, CountPlaces
  <2>2. CountsRight(t, rwpc'[t])
    <3>1. /\ rwpc[t] \notin CountPlaces /\ rwpc'[t] \notin CountPlaces
          /\ cnts'.readers = cnts.readers
      BY Zenon, <1>17, <2>1 DEF write_unlock, QRwInv, QRwTypeOK, CountPlaces
    <3>2. cnts' \in [locked : BOOLEAN, waiting : BOOLEAN, readers : Nat]
      BY Zenon, <1>17 DEF write_unlock, QRwInv, QRwTypeOK
    <3> QED
      BY <3>1, <3>2 DEF CountsRight, QRwInv, QRwTypeOK
  <2>3. Passes(t, rwpc'[t])
    BY Zenon, <1>17, <2>1 DEF write_unlock, Passes, QRwInv, QRwTypeOK
  <2> QED
    BY Zenon, <2>1, <2>2, <2>3, PassesKeep
<1> QED
  BY Zenon, <1>1, <1>2, <1>3, <1>4, <1>5, <1>6, <1>7, <1>8, <1>9,
     <1>10, <1>11, <1>12, <1>13, <1>14, <1>15, <1>16, <1>17 DEF QRwNext, RwStep

LEMMA QRwInitInv == QRwInit => QRwInv /\ QRw!RwInit
<1> SUFFICES ASSUME QRwInit PROVE QRwInv /\ QRw!RwInit
  OBVIOUS
<1>1. Counted = {} /\ Reading = {} /\ Writing = {}
  BY DEF QRwInit, Counted, Reading, Writing, CountPlaces
<1>2. cnts = [locked |-> FALSE, waiting |-> FALSE, readers |-> 0]
  BY DEF QRwInit, Free
<1>3. cnts.readers = Cardinality(Counted)
  BY Zenon, <1>1, <1>2, CardEmpty
<1>4. QRwTypeOK
  BY <1>2 DEF QRwTypeOK, QRwInit, RwPlaces
<1> QED
  BY Zenon, <1>1, <1>2, <1>3, <1>4 DEF QRwInv, WriterAlone, QRw!RwInit, Reading, Writing

(* queued_read_lock, queued_write_lock, their try versions and unlocks:    *)
(* every step is one of the reader/writer lock or leaves it as it is, for  *)
(* any finite set of threads.                                              *)
THEOREM QRwLockImplementsRwLock ==
  ASSUME IsFiniteSet(Spinners)
  PROVE  QRwSpec => ImplementsQRwLock
<1>1. QRwInit => QRwInv /\ QRw!RwInit
  BY QRwInitInv
<1>2. QRwInv /\ [QRwNext]_rwvars => QRwInv' /\ [QRw!RwNext]_<<Reading, Writing>>
  BY QRwStep DEF RwStepKept
<1> QED
  BY <1>1, <1>2, PTL DEF QRwSpec, ImplementsQRwLock, QRw!RwSpec, Reading, Writing

-----------------------------------------------------------------------------
(***************************************************************************)
(* RwSem, for any finite set of threads.                                   *)
(*                                                                         *)
(* The types and RwSemQueue are inductive together.  activity alone does   *)
(* not tell who may get in: a release lets in the readers at the head of   *)
(* the list, which needs that the list holds only threads nobody let in,   *)
(* once each (their number is then what rwsem_do_wake adds), and a reader  *)
(* that leaves wakes the head, which needs that the head is a writer.      *)
(***************************************************************************)

RwInv == TypeOK /\ RwSemQueue

-----------------------------------------------------------------------------
(* FrontReaders is well defined: the readers before the first writer. *)
LEMMA FrontReadersFacts ==
  ASSUME TypeOK
  PROVE  /\ FrontReaders \in 0 .. Len(wait_list)
         /\ \A i \in 1 .. FrontReaders : IsReader(wait_list[i])
         /\ FrontReaders < Len(wait_list) => ~ IsReader(wait_list[FrontReaders + 1])
<1> DEFINE Ends(n) == n < Len(wait_list) => ~ IsReader(wait_list[n + 1])
           E == {n \in 0 .. Len(wait_list) : Ends(n)}
<1>1. Len(wait_list) \in Nat /\ Len(wait_list) \in E /\ E \subseteq Nat
  BY DEF TypeOK
<1>2. PICK n \in E : \A m \in E : n <= m
  BY Zenon, <1>1, NatMin
<1>3. ASSUME NEW i \in 1 .. n PROVE IsReader(wait_list[i])
  <2>1. i - 1 \in 0 .. Len(wait_list) /\ i - 1 < n
    BY <1>1, <1>2, <1>3
  <2>2. ~ (n <= i - 1)
    BY <1>1, <1>2, <2>1
  <2> HIDE DEF Ends
  <2>3. ~ Ends(i - 1)
    BY Zenon, <1>2, <2>1, <2>2
  <2> USE DEF Ends
  <2> QED
    BY <2>1, <2>3
<1>4. \E m \in 0 .. Len(wait_list) :
        /\ \A i \in 1 .. m : IsReader(wait_list[i])
        /\ m < Len(wait_list) => ~ IsReader(wait_list[m + 1])
  BY Zenon, <1>2, <1>3
<1> QED
  BY Zenon, <1>4 DEF FrontReaders

(* A wake-up moves the caller, and nobody else out of a call or a section. *)
LEMMA WakeFacts ==
  ASSUME TypeOK, NEW t \in Threads, pc[t] \in {"reading", "writing"},
         NEW W, NEW p \in {"idle", "reading"}, Wake(t, W, p)
  PROVE  /\ pc' \in [Threads -> Places]
         /\ signalled' \in [Threads -> BOOLEAN]
         /\ pc'[t] = p
         /\ \A u \in Threads \ {t} : /\ pc'[u] \in ReadWait <=> pc[u] \in ReadWait
                                     /\ pc'[u] \in WriteWait <=> pc[u] \in WriteWait
                                     /\ pc'[u] = "reading" <=> pc[u] = "reading"
                                     /\ pc'[u] = "writing" <=> pc[u] = "writing"
         /\ \A u \in Threads : signalled'[u] <=> signalled[u] \/ u \in W
<1>1. ASSUME NEW u \in Threads
      PROVE  /\ u = t => pc'[u] = p
             /\ u # t => \/ pc'[u] = pc[u]
                         \/ pc[u] = "r_sleep" /\ pc'[u] = "r_relock"
                         \/ pc[u] = "w_sleep" /\ pc'[u] = "w_relock"
  BY Zenon DEF Wake
<1>3. pc' \in [Threads -> Places]
  <2>1. \A u \in Threads : pc'[u] \in Places
    BY Zenon, <1>1 DEF TypeOK, Places, ReadWait, WriteWait
  <2> QED
    BY Zenon, <2>1 DEF Wake
<1>2. /\ signalled' \in [Threads -> BOOLEAN]
      /\ \A u \in Threads : signalled'[u] <=> signalled[u] \/ u \in W
  BY Zenon DEF Wake, TypeOK
<1> QED
  BY Zenon, <1>1, <1>2, <1>3 DEF ReadWait, WriteWait

(***************************************************************************)
(* __rwsem_do_wake by the writer t, which becomes a reader if a is 1: the  *)
(* granted readers and perhaps t are the readers now, and activity is      *)
(* their number.                                                           *)
(***************************************************************************)
LEMMA DoWakeFacts ==
  ASSUME IsFiniteSet(Threads), RwInv, NEW t \in Threads, pc[t] = "writing",
         NEW wakewrite \in BOOLEAN, NEW a \in {0, 1}, NEW p \in {"idle", "reading"},
         a = 1 <=> p = "reading", rwsem_do_wake(t, wakewrite, a, p)
  PROVE  RwInv' /\ Writers = {t} /\ Writers' = {}
<1> DEFINE n == FrontReaders
           G == Granted
           R == IF a = 1 THEN {t} ELSE {}
           W == IF n = 0 THEN IF wakewrite /\ wait_list # <<>> THEN {wait_list[1]} ELSE {}
                ELSE G
<1>1. TypeOK /\ ActivityCounts /\ ListedAreWaiting
  BY DEF RwInv, RwSemQueue
<1>2. Writers = {t} /\ Readers = {}
  BY Zenon, <1>1 DEF ActivityCounts, Writers
<1>3. /\ n \in 0 .. Len(wait_list) /\ Len(wait_list) \in Nat
      /\ \A i \in 1 .. n : IsReader(wait_list[i])
      /\ n < Len(wait_list) => ~ IsReader(wait_list[n + 1])
  BY <1>1, FrontReadersFacts DEF TypeOK
<1>4. Wake(t, W, p) /\ activity' = a + n /\ wait_list' = SubSeq(wait_list, n + 1, Len(wait_list))
  <2>1. CASE n = 0
    <3>1. SubSeq(wait_list, 1, Len(wait_list)) = wait_list
      BY <1>1 DEF TypeOK
    <3> QED
      BY <2>1, <3>1 DEF rwsem_do_wake
  <2>2. CASE n > 0
    BY <2>2 DEF rwsem_do_wake
  <2> QED
    BY <1>3, <2>1, <2>2
<1>5. /\ wait_list' \in Seq(Threads) /\ Distinct(wait_list')
      /\ Len(wait_list') = Len(wait_list) - n
      /\ \A k \in 1 .. Len(wait_list) - n : wait_list'[k] = wait_list[n + k]
      /\ \A u \in Threads : Occurs(wait_list', u) <=> Occurs(wait_list, u) /\ u \notin G
  BY <1>1, <1>3, <1>4, ListSuffixFacts DEF TypeOK, ListedAreWaiting, Granted
<1>6. /\ IsFiniteSet(G) /\ Cardinality(G) = n
  BY SMTT(30), <1>1, <1>3, ListPrefixCardinality DEF TypeOK, ListedAreWaiting, Granted
<1>7. /\ \A u \in G : u \in Threads /\ IsReader(u) /\ ~ signalled[u] /\ Occurs(wait_list, u)
      /\ t \notin G /\ ~ Occurs(wait_list, t)
  <2>1. \A i \in 1 .. n : wait_list[i] \in Threads /\ Occurs(wait_list, wait_list[i])
    BY <1>1, <1>3 DEF TypeOK, Occurs
  <2>2. \A i \in 1 .. n : pc[wait_list[i]] \in ReadWait /\ ~ signalled[wait_list[i]]
    BY Zenon, <1>1, <1>3, <2>1 DEF ListedAreWaiting, IsReader, ReadWait, WriteWait
  <2>3. pc[t] \notin ReadWait /\ pc[t] \notin WriteWait
    BY DEF ReadWait, WriteWait
  <2> QED
    BY Zenon, <1>1, <2>1, <2>2, <2>3 DEF ListedAreWaiting, IsReader, Granted
<1> HIDE DEF n, G, W, R
<1>8. /\ pc' \in [Threads -> Places] /\ signalled' \in [Threads -> BOOLEAN] /\ pc'[t] = p
      /\ \A u \in Threads \ {t} : /\ pc'[u] \in ReadWait <=> pc[u] \in ReadWait
                                  /\ pc'[u] \in WriteWait <=> pc[u] \in WriteWait
                                  /\ pc'[u] = "reading" <=> pc[u] = "reading"
                                  /\ pc'[u] = "writing" <=> pc[u] = "writing"
      /\ \A u \in Threads : signalled'[u] <=> signalled[u] \/ u \in W
  BY SMTT(30), <1>1, <1>4, WakeFacts
<1>9. \A u \in Threads : IsReader(u) => (u \in W <=> u \in G)
  BY <1>1, <1>3, <1>6, CardEmpty DEF W, TypeOK
<1>10. p \notin ReadWait /\ p \notin WriteWait /\ p # "writing"
  BY DEF ReadWait, WriteWait
<1>11. Writers' = {} /\ Readers' = G \cup R
  <2>1. Writers' = {}
    BY Zenon, <1>2, <1>8, <1>10 DEF Writers
  <2>2. \A u \in Threads \ {t} : u \in Readers' <=> u \in G
    BY Zenon, <1>2, <1>7, <1>8, <1>9 DEF Readers, IsReader
  <2>3. t \in Readers' <=> t \in R
    BY Zenon, <1>8, <1>10 DEF Readers, IsReader, R
  <2>4. R \subseteq {t}
    BY DEF R
  <2> QED
    BY Zenon, <1>7, <2>1, <2>2, <2>3, <2>4 DEF Readers
<1>12. ActivityCounts'
  <2>1. Cardinality(G \cup R) = a + n
    <3>1. CASE a = 0
      BY <1>3, <1>6, <3>1 DEF R
    <3>2. CASE a = 1
      <4>1. IsFiniteSet(G) /\ t \notin G
        BY Zenon, <1>6, <1>7
      <4>2. Cardinality(G \cup {t}) = Cardinality(G) + 1
        BY ONLY <4>1, CardAdd
      <4> QED
        BY <1>3, <1>6, <3>2, <4>2 DEF R
    <3> QED
      BY Zenon, <3>1, <3>2
  <2> QED
    BY Zenon, <1>4, <1>11, <2>1 DEF ActivityCounts
<1>13. FrontIsWriter'
  <2>1. ASSUME wait_list' # <<>>
        PROVE  wait_list'[1] = wait_list[n + 1] /\ n + 1 \in 1 .. Len(wait_list)
    BY <1>3, <1>5, <2>1
  <2>2. ASSUME wait_list' # <<>>
        PROVE  pc'[wait_list'[1]] \notin ReadWait
    <3>1. ~ IsReader(wait_list[n + 1]) /\ wait_list[n + 1] \in Threads \ {t}
      BY <1>1, <1>3, <1>7, <2>1, <2>2 DEF TypeOK, Occurs
    <3> QED
      BY Zenon, <1>8, <2>1, <2>2, <3>1 DEF IsReader
  <2> QED
    BY Zenon, <2>2 DEF FrontIsWriter, IsReader
<1>14. ListedAreWaiting'
  <2>1. ASSUME NEW u \in Threads \ {t}
        PROVE  Occurs(wait_list', u) <=> \/ pc'[u] \in WriteWait
                                         \/ pc'[u] \in ReadWait /\ ~ signalled'[u]
    <3>1. pc[u] \in ReadWait => pc[u] \notin WriteWait
      BY DEF ReadWait, WriteWait
    <3> QED
      BY Zenon, <1>1, <1>5, <1>7, <1>8, <1>9, <3>1 DEF ListedAreWaiting, IsReader
  <2>2. ~ Occurs(wait_list', t) /\ pc'[t] \notin WriteWait /\ pc'[t] \notin ReadWait
    BY Zenon, <1>5, <1>7, <1>8, <1>10
  <2> QED
    BY Zenon, <1>5, <2>1, <2>2 DEF ListedAreWaiting, IsReader
<1>15. TypeOK'
  <2>1. activity' \in Int /\ activity' >= -1
    BY <1>3, <1>4
  <2> QED
    BY Zenon, <1>5, <1>8, <2>1 DEF TypeOK
<1> QED
  BY Zenon, <1>2, <1>11, <1>12, <1>13, <1>14, <1>15 DEF RwInv, RwSemQueue

-----------------------------------------------------------------------------
(* The holders after a step that takes the semaphore at once. *)
LEMMA TakeReadFacts ==
  ASSUME IsFiniteSet(Threads), RwInv, NEW t \in Threads, pc[t] = "idle", activity >= 0,
         activity' = activity + 1, Goto(t, "reading"), UNCHANGED <<wait_list, signalled>>
  PROVE  RwInv' /\ Writers = {} /\ Writers' = {} /\ Readers' = Readers \cup {t}
<1> USE DEF RwInv, RwSemQueue, TypeOK
<1>1. Writers = {} /\ activity = Cardinality(Readers)
  BY DEF ActivityCounts
<1>2. /\ pc' \in [Threads -> Places] /\ pc'[t] = "reading"
      /\ \A u \in Threads \ {t} : pc'[u] = pc[u]
  BY DEF Goto, Places
<1>3. Writers' = {} /\ Readers' = Readers \cup {t} /\ t \notin Readers
  BY Zenon, <1>1, <1>2 DEF Writers, Readers, IsReader, ReadWait
<1>4. ActivityCounts'
  <2>1. IsFiniteSet(Readers)
    BY Zenon, CardSubset DEF Readers
  <2> QED
    BY Zenon, <1>1, <1>3, <2>1, CardAdd DEF ActivityCounts
<1>5. FrontIsWriter' /\ ListedAreWaiting'
  <2>1. ~ Occurs(wait_list, t)
    BY DEF ListedAreWaiting, IsReader, ReadWait, WriteWait
  <2> QED
    BY <1>2, <2>1 DEF FrontIsWriter, ListedAreWaiting, IsReader, ReadWait, WriteWait, Occurs
<1> QED
  BY <1>1, <1>2, <1>3, <1>4, <1>5

LEMMA TakeWriteFacts ==
  ASSUME IsFiniteSet(Threads), RwInv, NEW t \in Threads, pc[t] = "idle", activity = 0,
         activity' = -1, Goto(t, "writing"), UNCHANGED <<wait_list, signalled>>
  PROVE  RwInv' /\ Readers = {} /\ Writers = {} /\ Readers' = {} /\ Writers' = {t}
<1> USE DEF RwInv, RwSemQueue, TypeOK
<1>1. Writers = {} /\ Readers = {}
  <2>1. IsFiniteSet(Readers)
    BY Zenon, CardSubset DEF Readers
  <2> QED
    BY <2>1, CardEmpty DEF ActivityCounts
<1>2. /\ pc' \in [Threads -> Places] /\ pc'[t] = "writing"
      /\ \A u \in Threads \ {t} : pc'[u] = pc[u]
  BY DEF Goto, Places
<1>3. Readers' = {} /\ Writers' = {t}
  BY Zenon, <1>1, <1>2 DEF Writers, Readers, IsReader, ReadWait
<1>4. ActivityCounts'
  BY Zenon, <1>3 DEF ActivityCounts
<1>5. FrontIsWriter' /\ ListedAreWaiting'
  BY <1>2 DEF FrontIsWriter, ListedAreWaiting, IsReader, ReadWait, WriteWait
<1> QED
  BY <1>1, <1>2, <1>3, <1>4, <1>5

(* A thread that joins the list holds nothing: a reader because the first  *)
(* of the list is a writer or a writer is inside.                          *)
LEMMA EnqueueFacts ==
  ASSUME RwInv, NEW t \in Threads, pc[t] = "idle", NEW p \in {"r_futex", "w_futex"},
         p = "r_futex" => activity < 0 \/ wait_list # <<>>,
         signalled' = [signalled EXCEPT ![t] = FALSE],
         wait_list' = list_add_tail(wait_list, t), Goto(t, p), UNCHANGED activity
  PROVE  RwInv' /\ Readers' = Readers /\ Writers' = Writers
<1> USE DEF RwInv, RwSemQueue, TypeOK
<1>1. /\ pc' \in [Threads -> Places] /\ pc'[t] = p
      /\ \A u \in Threads \ {t} : pc'[u] = pc[u]
      /\ signalled' \in [Threads -> BOOLEAN] /\ ~ signalled'[t]
      /\ \A u \in Threads \ {t} : signalled'[u] = signalled[u]
  BY DEF Goto, Places, ReadWait, WriteWait
<1>2. ~ Occurs(wait_list, t)
  BY DEF ListedAreWaiting, IsReader, ReadWait, WriteWait
<1>3. /\ wait_list' \in Seq(Threads) /\ Distinct(wait_list')
      /\ \A u \in Threads : Occurs(wait_list', u) <=> Occurs(wait_list, u) \/ u = t
  BY Zenon, <1>2, ListAddTailFacts DEF ListedAreWaiting
<1>4. Readers' = Readers /\ Writers' = Writers
  BY Zenon, <1>1 DEF Writers, Readers, IsReader, ReadWait
<1>5. ListedAreWaiting'
  BY Zenon, <1>1, <1>3 DEF ListedAreWaiting, IsReader, ReadWait, WriteWait
<1>6. FrontIsWriter'
  <2>1. CASE wait_list = <<>>
    <3>1. wait_list'[1] = t
      BY <2>1 DEF list_add_tail
    <3> QED
      BY <1>1, <2>1, <3>1 DEF FrontIsWriter, IsReader, ReadWait
  <2>2. CASE wait_list # <<>>
    <3>1. wait_list'[1] = wait_list[1] /\ wait_list[1] \in Threads \ {t}
      BY <1>2, <2>2 DEF list_add_tail, Occurs
    <3> QED
      BY Zenon, <1>1, <2>2, <3>1 DEF FrontIsWriter, IsReader
  <2> QED
    BY Zenon, <2>1, <2>2
<1>7. ActivityCounts'
  BY Zenon, <1>4 DEF ActivityCounts
<1> QED
  BY Zenon, <1>1, <1>3, <1>4, <1>5, <1>6, <1>7

(* A waiter that goes to sleep, wakes up or finds itself granted changes   *)
(* nothing for the others.                                                 *)
LEMMA WaiterMoves ==
  ASSUME RwInv, NEW t \in Threads, NEW p, Goto(t, p),
         UNCHANGED <<activity, wait_list, signalled>>,
         \/ pc[t] \in ReadWait /\ p \in ReadWait
         \/ pc[t] \in WriteWait /\ p \in WriteWait
         \/ pc[t] \in ReadWait /\ signalled[t] /\ p = "reading"
  PROVE  RwInv' /\ Readers' = Readers /\ Writers' = Writers
<1> USE DEF RwInv, RwSemQueue, TypeOK
<1>1. /\ pc' \in [Threads -> Places] /\ pc'[t] = p
      /\ \A u \in Threads \ {t} : pc'[u] = pc[u]
  BY DEF Goto, Places, ReadWait, WriteWait
<1>2. Readers' = Readers /\ Writers' = Writers
  BY Zenon, <1>1 DEF Writers, Readers, IsReader, ReadWait, WriteWait
<1>3. ListedAreWaiting'
  BY Zenon, <1>1 DEF ListedAreWaiting, IsReader, ReadWait, WriteWait
<1>4. FrontIsWriter'
  BY <1>1 DEF FrontIsWriter, IsReader, ReadWait, WriteWait
<1> QED
  BY Zenon, <1>1, <1>2, <1>3, <1>4 DEF ActivityCounts

LEMMA WriteAwakeFacts ==
  ASSUME IsFiniteSet(Threads), RwInv, NEW t \in Threads, down_write_awake(t)
  PROVE  /\ RwInv'
         /\ \/ Readers' = Readers /\ Writers' = Writers
            \/ Readers = {} /\ Writers = {} /\ Readers' = {} /\ Writers' = {t}
<1> USE DEF RwInv, RwSemQueue, TypeOK
<1>1. /\ pc[t] = "w_relock"
      /\ pc' \in [Threads -> Places] /\ pc'[t] \in {"writing", "w_futex"}
      /\ \A u \in Threads \ {t} : pc'[u] = pc[u] /\ signalled'[u] = signalled[u]
      /\ signalled' \in [Threads -> BOOLEAN]
  BY Zenon DEF down_write_awake, Goto, Places, ReadWait, WriteWait
<1>2. Occurs(wait_list, t)
  BY Zenon, <1>1 DEF ListedAreWaiting, WriteWait
<1>3. CASE activity = 0
  <2>1. Writers = {} /\ Readers = {}
    <3>1. IsFiniteSet(Readers)
      BY Zenon, CardSubset DEF Readers
    <3> QED
      BY <1>3, <3>1, CardEmpty DEF ActivityCounts
  <2>2. activity' = -1 /\ wait_list' = list_del(wait_list, t) /\ pc'[t] = "writing"
    BY Zenon, <1>3 DEF down_write_awake, Goto
  <2>3. /\ wait_list' \in Seq(Threads) /\ Distinct(wait_list')
        /\ \A u \in Threads : Occurs(wait_list', u) <=> Occurs(wait_list, u) /\ u # t
    BY Zenon, <1>2, <2>2, ListDelFacts DEF ListedAreWaiting
  <2>4. Readers' = {} /\ Writers' = {t}
    BY Zenon, <1>1, <2>1, <2>2 DEF Writers, Readers, IsReader, ReadWait
  <2>5. ActivityCounts' /\ FrontIsWriter'
    BY <2>2, <2>4 DEF ActivityCounts, FrontIsWriter
  <2>6. ListedAreWaiting'
    BY Zenon, <1>1, <2>2, <2>3 DEF ListedAreWaiting, IsReader, ReadWait, WriteWait
  <2> QED
    BY <1>1, <2>1, <2>2, <2>3, <2>4, <2>5, <2>6
<1>4. CASE activity # 0
  <2>1. UNCHANGED <<activity, wait_list>> /\ pc'[t] = "w_futex"
    BY Zenon, <1>4 DEF down_write_awake, Goto
  <2>2. Readers' = Readers /\ Writers' = Writers
    BY Zenon, <1>1, <2>1 DEF Writers, Readers, IsReader, ReadWait
  <2>3. ListedAreWaiting'
    BY Zenon, <1>1, <2>1 DEF ListedAreWaiting, IsReader, ReadWait, WriteWait
  <2>4. FrontIsWriter'
    BY <1>1, <2>1 DEF FrontIsWriter, IsReader, ReadWait
  <2> QED
    BY Zenon, <1>1, <2>1, <2>2, <2>3, <2>4 DEF ActivityCounts
<1> QED
  BY Zenon, <1>3, <1>4

(* up_read wakes the head of the list, which is a writer: no reader is     *)
(* signalled that was not counted.                                         *)
LEMMA UpReadFacts ==
  ASSUME IsFiniteSet(Threads), RwInv, NEW t \in Threads, up_read(t)
  PROVE  RwInv' /\ t \in Readers /\ Readers' = Readers \ {t} /\ Writers' = Writers
<1> DEFINE W == IF activity - 1 = 0 /\ wait_list # <<>> THEN {wait_list[1]} ELSE {}
<1> USE DEF RwInv, RwSemQueue
<1>1. /\ pc[t] = "reading" /\ activity' = activity - 1 /\ Wake(t, W, "idle")
      /\ UNCHANGED wait_list
  BY DEF up_read
<1>2. t \in Readers /\ IsFiniteSet(Readers) /\ Writers = {}
  BY Zenon, <1>1, CardSubset DEF Readers, ActivityCounts
<1>3. activity = Cardinality(Readers) /\ activity \in Nat \ {0}
  BY Zenon, <1>2, CardEmpty, CardType DEF ActivityCounts
<1>4. \A u \in W : u \in Threads /\ pc[u] \notin ReadWait
  BY <1>3 DEF FrontIsWriter, IsReader, TypeOK
<1> HIDE DEF W
<1>5. /\ pc' \in [Threads -> Places] /\ signalled' \in [Threads -> BOOLEAN] /\ pc'[t] = "idle"
      /\ \A u \in Threads \ {t} : /\ pc'[u] \in ReadWait <=> pc[u] \in ReadWait
                                  /\ pc'[u] \in WriteWait <=> pc[u] \in WriteWait
                                  /\ pc'[u] = "reading" <=> pc[u] = "reading"
                                  /\ pc'[u] = "writing" <=> pc[u] = "writing"
      /\ \A u \in Threads : signalled'[u] <=> signalled[u] \/ u \in W
  BY Zenon, <1>1, WakeFacts
<1>6. "idle" \notin ReadWait /\ "idle" \notin WriteWait /\ pc[t] \notin ReadWait
      /\ pc[t] \notin WriteWait
  BY Zenon, <1>1 DEF ReadWait, WriteWait
<1>7. Readers' = Readers \ {t}
  BY Zenon, <1>4, <1>5, <1>6 DEF Readers, IsReader
<1>8. Writers' = {}
  BY Zenon, <1>2, <1>5 DEF Writers
<1>9. ActivityCounts'
  BY ZenonT(30), <1>1, <1>2, <1>3, <1>7, <1>8, CardRemove DEF ActivityCounts
<1>10. ~ Occurs(wait_list, t)
  BY Zenon, <1>6 DEF ListedAreWaiting, IsReader
<1>11. ListedAreWaiting'
  BY Zenon, <1>1, <1>4, <1>5, <1>6, <1>10 DEF ListedAreWaiting, IsReader
<1>12. FrontIsWriter'
  <2>1. ASSUME wait_list # <<>>
        PROVE  wait_list[1] \in Threads \ {t} /\ pc[wait_list[1]] \notin ReadWait
    BY <1>3, <1>10, <2>1 DEF TypeOK, Occurs, FrontIsWriter, IsReader
  <2> QED
    BY Zenon, <1>1, <1>5, <2>1 DEF FrontIsWriter, IsReader
<1>13. TypeOK'
  BY <1>1, <1>3, <1>5 DEF TypeOK
<1> QED
  BY Zenon, <1>2, <1>7, <1>8, <1>9, <1>11, <1>12, <1>13

-----------------------------------------------------------------------------
(* Every step keeps the invariant and is a step of the abstract lock or    *)
(* leaves the holders alone.                                               *)
LEMMA StepFacts ==
  ASSUME IsFiniteSet(Threads), RwInv, NEW t \in Threads, Step(t)
  PROVE  RwInv' /\ (RwLock!RwNext \/ UNCHANGED <<Readers, Writers>>)
<1> USE DEF RwLock!RwNext
<1>1. CASE down_read(t)
  <2>1. CASE ReadGranted(t)
    <3>1. activity >= 0
      BY <2>1 DEF ReadGranted, RwInv, TypeOK
    <3> QED
      BY Zenon, <1>1, <2>1, <3>1, TakeReadFacts DEF down_read, RwLock!AcquireRead
  <2>2. CASE ~ ReadGranted(t)
    <3>1. activity < 0 \/ wait_list # <<>>
      BY <2>2 DEF ReadGranted, RwInv, TypeOK
    <3> QED
      BY Zenon, <1>1, <2>2, <3>1, EnqueueFacts DEF down_read
  <2> QED
    BY Zenon, <2>1, <2>2
<1>2. CASE down_read_trylock(t)
  BY Zenon, <1>2, TakeReadFacts DEF down_read_trylock, RwLock!AcquireRead
<1>3. CASE down_write(t)
  <2>1. CASE activity = 0
    BY Zenon, <1>3, <2>1, TakeWriteFacts DEF down_write, RwLock!AcquireWrite
  <2>2. CASE activity # 0
    BY Zenon, <1>3, <2>2, EnqueueFacts DEF down_write
  <2> QED
    BY Zenon, <2>1, <2>2
<1>4. CASE down_write_trylock(t)
  BY Zenon, <1>4, TakeWriteFacts DEF down_write_trylock, RwLock!AcquireWrite
<1>5. CASE downgrade_write(t)
  <2>1. RwInv' /\ Writers = {t} /\ Writers' = {}
    BY ZenonT(30), <1>5, DoWakeFacts DEF downgrade_write
  <2>2. Readers' \in SUBSET Threads
    BY DEF Readers
  <2> QED
    BY Zenon, <2>1, <2>2 DEF RwLock!ReleaseWrite
<1>6. CASE futex_wait_eintr(t)
  BY Zenon, <1>6, WaiterMoves DEF futex_wait_eintr, ReadWait, WriteWait
<1>7. CASE futex_wait(t)
  <2>1. CASE pc[t] = "r_futex"
    <3>1. PICK p \in ReadWait : Goto(t, p)
      BY Zenon, <1>7, <2>1 DEF futex_wait, ReadWait
    <3> QED
      BY Zenon, <1>7, <2>1, <3>1, WaiterMoves DEF futex_wait, ReadWait
  <2>2. CASE pc[t] = "w_futex"
    <3>1. PICK p \in WriteWait : Goto(t, p)
      BY Zenon, <1>7, <2>2 DEF futex_wait, WriteWait
    <3> QED
      BY Zenon, <1>7, <2>2, <3>1, WaiterMoves DEF futex_wait, WriteWait
  <2> QED
    BY Zenon, <1>7, <2>1, <2>2 DEF futex_wait
<1>8. CASE down_read_awake(t)
  <2>1. CASE signalled[t]
    BY Zenon, <1>8, <2>1, WaiterMoves DEF down_read_awake, ReadWait
  <2>2. CASE ~ signalled[t]
    BY Zenon, <1>8, <2>2, WaiterMoves DEF down_read_awake, ReadWait
  <2> QED
    BY Zenon, <2>1, <2>2
<1>9. CASE down_write_awake(t)
  BY Zenon, <1>9, WriteAwakeFacts DEF RwLock!AcquireWrite
<1>10. CASE up_read(t)
  BY Zenon, <1>10, UpReadFacts DEF RwLock!ReleaseRead
<1>11. CASE up_write(t)
  <2>1. RwInv' /\ Writers = {t} /\ Writers' = {}
    <3>1. pc[t] = "writing" /\ rwsem_do_wake(t, TRUE, 0, "idle")
      BY Zenon, <1>11 DEF up_write
    <3>2. 0 = 1 <=> "idle" = "reading"
      OBVIOUS
    <3> QED
      BY Zenon, <3>1, <3>2, DoWakeFacts
  <2>2. Readers' \in SUBSET Threads
    BY DEF Readers
  <2> QED
    BY Zenon, <2>1, <2>2 DEF RwLock!ReleaseWrite
<1> QED
  BY ZenonT(30), <1>1, <1>2, <1>3, <1>4, <1>5, <1>6, <1>7, <1>8, <1>9, <1>10, <1>11
     DEF Step, Continue

LEMMA RwInvHolds == ASSUME IsFiniteSet(Threads) PROVE Spec => []RwInv
<1>1. Init => RwInv
  <2> SUFFICES ASSUME Init PROVE RwInv
    OBVIOUS
  <2>1. Readers = {} /\ Writers = {} /\ Cardinality({}) = 0
    BY Zenon, CardEmpty DEF Init, Readers, Writers, IsReader, ReadWait
  <2> QED
    BY <2>1 DEF Init, RwInv, TypeOK, Places, RwSemQueue, ActivityCounts, FrontIsWriter,
       ListedAreWaiting, IsReader, ReadWait, WriteWait, Occurs, Distinct
<1>2. RwInv /\ [Next]_vars => RwInv'
  <2>1. ASSUME RwInv, UNCHANGED vars PROVE RwInv'
    BY Zenon, <2>1 DEF vars, RwInv, TypeOK, RwSemQueue, ActivityCounts, Readers, Writers,
       FrontIsWriter, ListedAreWaiting, IsReader
  <2> QED
    BY Zenon, <2>1, StepFacts DEF Next
<1> QED
  BY <1>1, <1>2, PTL DEF Spec

(* activity is never below -1, and the list holds threads. *)
THEOREM RwSemTypeOK == ASSUME IsFiniteSet(Threads) PROVE Spec => []TypeOK
BY RwInvHolds, PTL DEF RwInv

(***************************************************************************)
(* rwsem.c keeps activity, the list and its head true: activity is -1 with *)
(* one writer inside and otherwise the number of readers, the ones counted *)
(* while they slept included; the head of a list that outlives a writer is *)
(* a writer (the BUG_ON of __rwsem_wake_one_writer cannot fire); and the   *)
(* list holds exactly the threads that nobody has let in.                  *)
(***************************************************************************)
THEOREM RwSemQueueHolds == ASSUME IsFiniteSet(Threads) PROVE Spec => []RwSemQueue
BY RwInvHolds, PTL DEF RwInv

(* down/up_read/write and downgrade_write implement AbstractRwLock. *)
THEOREM RwSemImplementsRwLock == ASSUME IsFiniteSet(Threads) PROVE Spec => ImplementsRwLock
<1>1. Init => RwLock!RwInit
  BY DEF Init, RwLock!RwInit, Readers, Writers, IsReader, ReadWait
<1>2. RwInv /\ [Next]_vars => [RwLock!RwNext]_<<Readers, Writers>>
  <2>1. ASSUME UNCHANGED vars PROVE UNCHANGED <<Readers, Writers>>
    BY Zenon, <2>1 DEF vars, Readers, Writers, IsReader
  <2> QED
    BY Zenon, <2>1, StepFacts DEF Next
<1> QED
  BY <1>1, <1>2, RwInvHolds, PTL DEF Spec, ImplementsRwLock, RwLock!RwSpec

-----------------------------------------------------------------------------
(***************************************************************************)
(* Completion.  A parked waiter is on the list and has had no wake-up; a   *)
(* taker is awake and will look at done.  SleeperMeansTaker alone is not   *)
(* inductive: a taker takes one completion and goes, so as long as anybody *)
(* is parked there must be as many takers as completions.                  *)
(***************************************************************************)
Parked(t) == Occurs(task_list, t) /\ cpc[t] \in {"wait", "sleep"} /\ ~ woken[t]
Takers == {t \in Waiters : \/ cpc[t] = "wait" /\ woken[t]
                           \/ cpc[t] \in {"awake", "relock"}}

CompletionInv ==
  /\ CplTypeOK
  /\ ListedAreInside
  /\ \A t \in Waiters : cpc[t] = "sleep" => ~ woken[t]
  /\ \A t \in Waiters : Parked(t) => done <= Cardinality(Takers)

LEMMA TakersCounted ==
  ASSUME IsFiniteSet(Waiters)
  PROVE  /\ IsFiniteSet(Takers) /\ IsFiniteSet(Takers')
         /\ Cardinality(Takers) \in Nat /\ Cardinality(Takers') \in Nat
         /\ Takers \subseteq Takers' => Cardinality(Takers) <= Cardinality(Takers')
         /\ \A v \in Takers' \ Takers :
              Takers \subseteq Takers' => Cardinality(Takers) + 1 <= Cardinality(Takers')
         /\ \A v \in Takers :
              Takers \ {v} \subseteq Takers' => Cardinality(Takers) - 1 <= Cardinality(Takers')
         /\ Takers # {} => Cardinality(Takers) > 0
<1>1. IsFiniteSet(Takers) /\ IsFiniteSet(Takers')
  BY Zenon, CardSubset DEF Takers
<1>2. Cardinality(Takers) \in Nat /\ Cardinality(Takers') \in Nat
  BY Zenon, <1>1, CardType
<1>3. Takers \subseteq Takers' => Cardinality(Takers) <= Cardinality(Takers')
  BY Zenon, <1>1, CardSubset
<1>4. ASSUME NEW v \in Takers' \ Takers, Takers \subseteq Takers'
      PROVE  Cardinality(Takers) + 1 <= Cardinality(Takers')
  <2>1. Cardinality(Takers \cup {v}) = Cardinality(Takers) + 1
    BY Zenon, <1>1, <1>4, CardAdd
  <2>2. Takers \cup {v} \subseteq Takers'
    BY <1>4
  <2> QED
    BY Zenon, <1>1, <2>1, <2>2, CardSubset
<1>5. ASSUME NEW v \in Takers, Takers \ {v} \subseteq Takers'
      PROVE  Cardinality(Takers) - 1 <= Cardinality(Takers')
  <2>1. Cardinality(Takers \ {v}) = Cardinality(Takers) - 1
    BY Zenon, <1>1, CardRemove
  <2> QED
    BY Zenon, <1>1, <1>5, <2>1, CardSubset
<1>6. Takers # {} => Cardinality(Takers) > 0
  BY <1>1, <1>2, CardEmpty
<1> QED
  BY Zenon, <1>1, <1>2, <1>3, <1>4, <1>5, <1>6

(* A step of one waiter that leaves the list as it is. *)
LEMMA RemoveFacts ==
  ASSUME CplTypeOK, ListedAreInside, NEW t \in Waiters, Remove(t)
  PROVE  /\ task_list' \in Seq(Waiters) /\ Distinct(task_list')
         /\ \A u \in Waiters : Occurs(task_list', u) <=> Occurs(task_list, u) /\ u # t
<1>1. CASE Occurs(task_list, t)
  BY Zenon, <1>1, ListDelFacts DEF Remove, CplTypeOK, ListedAreInside
<1>2. CASE ~ Occurs(task_list, t)
  BY Zenon, <1>2 DEF Remove, CplTypeOK, ListedAreInside
<1> QED
  BY Zenon, <1>1, <1>2

LEMMA CompletionInitInv ==
  ASSUME MaxDone \in Nat, CplInit
  PROVE  CompletionInv
BY DEF CplInit, CompletionInv, CplTypeOK, CplPlaces, ListedAreInside, Distinct, Occurs, Parked

(* The wake-ups: whoever is parked afterwards was parked before and was    *)
(* not reached, nobody stops being a taker, and a sleeper that was reached *)
(* is a new one.                                                           *)
LEMMA WakeFirstFacts ==
  ASSUME CompletionInv, NEW n \in 0 .. Len(task_list), WakeFirst(n)
  PROVE  /\ task_list' \in Seq(Waiters)
         /\ woken' \in [Waiters -> BOOLEAN]
         /\ cpc' \in [Waiters -> CplPlaces]
         /\ ListedAreInside'
         /\ \A t \in Waiters : cpc'[t] = "sleep" => ~ woken'[t]
         /\ \A t \in Waiters : Parked(t)' => Parked(t) /\ t \notin {task_list[i] : i \in 1 .. n}
         /\ Takers \subseteq Takers'
         /\ \A i \in 1 .. n :
              cpc[task_list[i]] = "sleep" => task_list[i] \in Takers' \ Takers
<1> DEFINE reached == {task_list[i] : i \in 1 .. n}
           K == {t \in Waiters : ~ (t \in reached /\ cpc[t] = "sleep")}
<1>1. task_list \in Seq(Waiters) /\ Distinct(task_list)
  BY DEF CompletionInv, CplTypeOK, ListedAreInside
<1>2. /\ woken' = [t \in Waiters |-> woken[t] \/ t \in reached]
      /\ cpc' = [t \in Waiters |-> IF t \in reached /\ cpc[t] = "sleep" THEN "awake" ELSE cpc[t]]
      /\ task_list' = list_keep(task_list, K)
  BY Zenon DEF WakeFirst
<1>3. \A i \in 1 .. n : task_list[i] \in Waiters /\ task_list[i] \in reached
  BY <1>1
<1> HIDE DEF K
<1>4. /\ task_list' \in Seq(Waiters)
      /\ Distinct(task_list')
      /\ \A u \in Waiters : Occurs(task_list', u) <=> Occurs(task_list, u) /\ u \in K
  BY Zenon, <1>1, <1>2, ListKeepFacts
<1> HIDE DEF reached
<1>5. \A t \in Waiters :
        /\ woken'[t] = (woken[t] \/ t \in reached)
        /\ cpc'[t] = IF t \in reached /\ cpc[t] = "sleep" THEN "awake" ELSE cpc[t]
  BY Zenon, <1>2
<1>6. woken' \in [Waiters -> BOOLEAN]
  BY Zenon, <1>2
<1>7. cpc' \in [Waiters -> CplPlaces]
  BY Zenon, <1>2 DEF CompletionInv, CplTypeOK, CplPlaces
<1>8. ListedAreInside'
  BY Zenon, <1>4, <1>5 DEF CompletionInv, ListedAreInside
<1>9. \A t \in Waiters : cpc'[t] = "sleep" => ~ woken'[t]
  BY Zenon, <1>5 DEF CompletionInv
<1>10. \A t \in Waiters : Parked(t)' => Parked(t) /\ t \notin reached
  BY Zenon, <1>4, <1>5 DEF Parked
<1>11. Takers \subseteq Takers'
  BY ZenonT(30), <1>5 DEF Takers
<1>12. \A i \in 1 .. n : cpc[task_list[i]] = "sleep" => task_list[i] \in Takers' \ Takers
  BY Zenon, <1>3, <1>5 DEF Takers
<1> QED
  BY Zenon, <1>4, <1>6, <1>7, <1>8, <1>9, <1>10, <1>11, <1>12 DEF reached

LEMMA CompletionStepInv ==
  ASSUME IsFiniteSet(Waiters), MaxDone \in Nat, All \in Nat, CompletionInv, [CplNext]_cplvars
  PROVE  CompletionInv'
<1>1. CASE UNCHANGED cplvars
  BY Zenon, <1>1 DEF cplvars, CompletionInv, CplTypeOK, ListedAreInside, Parked, Takers
<1>2. ASSUME NEW t \in Waiters, wait_for_completion(t)
      PROVE  CompletionInv'
  <2>1. CASE done # 0
    <3>1. done' = done - 1 /\ UNCHANGED <<task_list, woken, cpc>>
      BY Zenon, <1>2, <2>1 DEF wait_for_completion
    <3>2. Takers' = Takers /\ \A u \in Waiters : Parked(u)' <=> Parked(u)
      BY Zenon, <3>1 DEF Takers, Parked
    <3>3. Cardinality(Takers) \in Nat /\ done \in Nat
      BY TakersCounted DEF CompletionInv, CplTypeOK
    <3> QED
      BY <2>1, <3>1, <3>2, <3>3 DEF CompletionInv, CplTypeOK, ListedAreInside
  <2>2. CASE done = 0
    <3>1. /\ task_list' = list_add_tail(task_list, t)
          /\ woken' = [woken EXCEPT ![t] = FALSE]
          /\ cpc' = [cpc EXCEPT ![t] = "wait"]
          /\ cpc[t] = "idle" /\ done' = 0
      BY Zenon, <1>2, <2>2 DEF wait_for_completion, CplGoto
    <3>2. ~ Occurs(task_list, t)
      BY Zenon, <3>1 DEF CompletionInv, ListedAreInside
    <3>3. /\ task_list' \in Seq(Waiters) /\ Distinct(task_list')
          /\ \A u \in Waiters : Occurs(task_list', u) <=> Occurs(task_list, u) \/ u = t
      BY Zenon, <3>1, <3>2, ListAddTailFacts DEF CompletionInv, CplTypeOK, ListedAreInside
    <3>4. Cardinality(Takers') \in Nat
      BY Zenon, TakersCounted
    <3> QED
      BY <3>1, <3>3, <3>4 DEF CompletionInv, CplTypeOK, ListedAreInside, CplPlaces
  <2> QED
    BY Zenon, <2>1, <2>2
<1>3. ASSUME NEW t \in Waiters, NEW p \in CplPlaces, cpc[t] # "idle",
             cpc' = [cpc EXCEPT ![t] = p], UNCHANGED <<done, task_list, woken>>,
             p # "idle", p = "sleep" => ~ woken[t],
             t \in Takers => p \in {"awake", "relock"} \/ done = 0,
             p \in {"wait", "sleep"} /\ ~ woken[t] => cpc[t] \in {"wait", "sleep"} \/ done = 0
      PROVE  CompletionInv'
  <2>1. Takers \subseteq Takers' \/ done = 0
    BY Zenon, <1>3 DEF Takers, CompletionInv, CplTypeOK
  <2>2. \A u \in Waiters : Parked(u)' => Parked(u) \/ done = 0
    BY Zenon, <1>3 DEF Parked, CompletionInv, CplTypeOK
  <2>3. /\ Cardinality(Takers) \in Nat /\ Cardinality(Takers') \in Nat /\ done \in Nat
        /\ Takers \subseteq Takers' => Cardinality(Takers) <= Cardinality(Takers')
    BY TakersCounted DEF CompletionInv, CplTypeOK
  <2>4. \A u \in Waiters : Parked(u)' => done' <= Cardinality(Takers')
    BY <1>3, <2>1, <2>2, <2>3 DEF CompletionInv
  <2> QED
    BY Zenon, <1>3, <2>4 DEF CompletionInv, CplTypeOK, ListedAreInside
<1>4. ASSUME NEW t \in Waiters, wait_on(t)
      PROVE  CompletionInv'
  BY Zenon, <1>3, <1>4 DEF wait_on, CplGoto, CplPlaces, Takers, CompletionInv, CplTypeOK
<1>5. ASSUME NEW t \in Waiters, futex_wait_interrupted(t)
      PROVE  CompletionInv'
  BY Zenon, <1>3, <1>5 DEF futex_wait_interrupted, CplGoto, CplPlaces, Takers, CompletionInv, CplTypeOK
<1>6. ASSUME NEW t \in Waiters, wait_on_timedout(t)
      PROVE  CompletionInv'
  BY ZenonT(30), <1>3, <1>6 DEF wait_on_timedout, CplGoto, CplPlaces, Takers, CompletionInv, CplTypeOK
<1>7. ASSUME NEW t \in Waiters, wait_on_consume(t)
      PROVE  CompletionInv'
  <2>1. Takers' = Takers /\ \A u \in Waiters : Parked(u)' => Parked(u)
    BY Zenon, <1>7 DEF wait_on_consume, CplGoto, Takers, Parked, CompletionInv, CplTypeOK
  <2> QED
    BY Zenon, <1>7, <2>1
       DEF wait_on_consume, CplGoto, CplPlaces, CompletionInv, CplTypeOK, ListedAreInside
<1>8. ASSUME NEW t \in Waiters, wait_timedout(t)
      PROVE  CompletionInv'
  <2>1. /\ task_list' \in Seq(Waiters) /\ Distinct(task_list')
        /\ \A u \in Waiters : Occurs(task_list', u) <=> Occurs(task_list, u) /\ u # t
    BY ZenonT(30), <1>8, RemoveFacts DEF wait_timedout, CompletionInv
  <2>2. Takers' = Takers /\ \A u \in Waiters : Parked(u)' => Parked(u)
    BY Zenon, <1>8, <2>1 DEF wait_timedout, CplGoto, Takers, Parked, CompletionInv, CplTypeOK
  <2> QED
    BY Zenon, <1>8, <2>1, <2>2
       DEF wait_timedout, CplGoto, CplPlaces, CompletionInv, CplTypeOK, ListedAreInside
<1>9. ASSUME NEW t \in Waiters, wait_relock(t)
      PROVE  CompletionInv'
  <2>1. CASE done = 0
    BY Zenon, <1>3, <1>9, <2>1 DEF wait_relock, CplGoto, CplPlaces, Takers, CompletionInv, CplTypeOK
  <2>2. CASE done # 0
    <3>1. /\ Remove(t) /\ done' = done - 1 /\ cpc' = [cpc EXCEPT ![t] = "idle"]
          /\ cpc[t] = "relock" /\ woken' = woken
      BY Zenon, <1>9, <2>2 DEF wait_relock, CplGoto
    <3>2. /\ task_list' \in Seq(Waiters) /\ Distinct(task_list')
          /\ \A u \in Waiters : Occurs(task_list', u) <=> Occurs(task_list, u) /\ u # t
      BY Zenon, <3>1, RemoveFacts DEF CompletionInv
    <3>3. /\ t \in Takers /\ Takers \ {t} \subseteq Takers'
          /\ \A u \in Waiters : Parked(u)' => Parked(u)
      BY Zenon, <3>1, <3>2 DEF Takers, Parked, CompletionInv, CplTypeOK
    <3>4. /\ Cardinality(Takers) - 1 <= Cardinality(Takers')
          /\ Cardinality(Takers) \in Nat /\ Cardinality(Takers') \in Nat
          /\ done \in 0 .. MaxDone
      BY Zenon, <3>3, TakersCounted DEF CompletionInv, CplTypeOK
    <3>5. \A u \in Waiters : Parked(u)' => done' <= Cardinality(Takers')
      BY <3>1, <3>3, <3>4 DEF CompletionInv
    <3> QED
      BY <2>2, <3>1, <3>2, <3>4, <3>5 DEF CompletionInv, CplTypeOK, ListedAreInside, CplPlaces
  <2> QED
    BY Zenon, <2>1, <2>2
<1>10. CASE complete
  <2>1. PICK n \in ReachedByOne : WakeFirst(n)
    BY Zenon, <1>10 DEF complete
  <2>2. /\ n \in 0 .. Len(task_list)
        /\ n < Len(task_list) => n > 0 /\ cpc[task_list[n]] = "sleep"
    BY DEF ReachedByOne
  <2>3. ASSUME NEW t \in Waiters, Parked(t)'
        PROVE  done' <= Cardinality(Takers')
    <3>1. Parked(t) /\ t \notin {task_list[i] : i \in 1 .. n} /\ Takers \subseteq Takers'
      BY Zenon, <2>1, <2>2, <2>3, WakeFirstFacts
    <3>2. n < Len(task_list)
      <4>1. PICK i \in 1 .. Len(task_list) : task_list[i] = t
        BY Zenon, <3>1 DEF Parked, Occurs
      <4>2. i \notin 1 .. n
        BY Zenon, <3>1, <4>1
      <4>3. Len(task_list) \in Nat
        BY DEF CompletionInv, CplTypeOK
      <4> QED
        BY <2>2, <4>1, <4>2, <4>3
    <3>3. task_list[n] \in Takers' \ Takers
      <4>1. n \in 1 .. n
        BY <2>2, <3>2
      <4> QED
        BY ZenonT(30), <2>1, <2>2, <3>2, <4>1, WakeFirstFacts
    <3>4. /\ Cardinality(Takers) + 1 <= Cardinality(Takers')
          /\ Cardinality(Takers) \in Nat /\ Cardinality(Takers') \in Nat
      BY Zenon, <3>1, <3>3, TakersCounted
    <3>5. done <= Cardinality(Takers) /\ done \in Nat
      BY <3>1 DEF CompletionInv, CplTypeOK
    <3> QED
      BY <1>10, <3>4, <3>5 DEF complete
  <2>4. done' \in 0 .. MaxDone
    BY <1>10 DEF complete, CompletionInv, CplTypeOK
  <2> QED
    BY Zenon, <2>1, <2>2, <2>3, <2>4, WakeFirstFacts DEF CompletionInv, CplTypeOK
<1>11. CASE complete_all
  <2>1. WakeFirst(Len(task_list)) /\ Len(task_list) \in 0 .. Len(task_list)
    BY <1>11 DEF complete_all, CompletionInv, CplTypeOK
  <2>2. \A t \in Waiters : ~ Parked(t)'
    BY <2>1, WakeFirstFacts DEF Parked, Occurs
  <2>3. done' \in 0 .. MaxDone
    BY <1>11 DEF complete_all, CompletionInv, CplTypeOK
  <2> QED
    BY ZenonT(30), <2>1, <2>2, <2>3, WakeFirstFacts DEF CompletionInv, CplTypeOK
<1> QED
  BY Zenon, <1>1, <1>2, <1>4, <1>5, <1>6, <1>7, <1>8, <1>9, <1>10, <1>11 DEF CplNext, CplContinue

(* wait_for_completion_timeout, complete and complete_all, timeouts        *)
(* included: while completions are left, somebody is awake to take one for *)
(* every sleeper on the list, and the list holds no entry of a call that   *)
(* has returned.                                                           *)
THEOREM CompletionSleepersHaveTaker ==
  ASSUME IsFiniteSet(Waiters), MaxDone \in Nat, All \in Nat
  PROVE  CplSpec => []SleepersHaveTaker
<1>1. CplInit => CompletionInv
  BY CompletionInitInv
<1>2. CompletionInv /\ [CplNext]_cplvars => CompletionInv'
  BY CompletionStepInv
<1>3. CompletionInv => SleepersHaveTaker
  <2> SUFFICES ASSUME CompletionInv, NEW t \in Waiters,
                      done > 0, cpc[t] = "sleep", Occurs(task_list, t)
               PROVE  \E u \in Waiters : cpc[u] \in {"wait", "awake", "relock"}
    BY Zenon DEF CompletionInv, SleepersHaveTaker, SleeperMeansTaker
  <2>1. done <= Cardinality(Takers) /\ done \in Nat
    BY DEF CompletionInv, Parked, CplTypeOK
  <2>2. Takers # {}
    BY <2>1, CardEmpty
  <2> QED
    BY Zenon, <2>2 DEF Takers
<1> QED
  BY <1>1, <1>2, <1>3, PTL DEF CplSpec
=============================================================================
