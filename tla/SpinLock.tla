------------------------------ MODULE SpinLock ------------------------------
(***************************************************************************)
(* The queued spinlock of include/skp/utils/spinlock.h and                 *)
(* src/utils/spinlock.c.  The lock is one word: the low byte is the locked *)
(* byte, the next one the pending byte.  The tail bits of the kernel's     *)
(* lock are declared but never written, so the word takes four values.     *)
(*                                                                         *)
(* A thread first tries MaxContends times to move the word from 0 to       *)
(* locked; then it enters the slow path, where it becomes the pending      *)
(* thread (it owns the next hand-over), or waits until nobody is pending   *)
(* and tries again.  Every compare-and-swap, load and store of the word is *)
(* one step.                                                               *)
(***************************************************************************)
EXTENDS Naturals

CONSTANTS
  Threads,       (* the threads that use the lock                          *)
  MaxContends    (* __SPINLOCK_MAX_CONTENDS, the tries of the fast path    *)

ASSUME MaxContendsAssumption == MaxContends \in Nat \ {0}

VARIABLES
  word,          (* lock->raw_lock                                         *)
  pc,            (* where each thread is                                   *)
  val,           (* the local "val" of the lock functions                  *)
  tries          (* the local "i" of __queued_spin_lock_fast               *)

vars == <<word, pc, val, tries>>

LockedVal  == 1                  (* _Q_LOCKED_VAL  *)
PendingVal == 256                (* _Q_PENDING_VAL *)
Words      == {0, LockedVal, PendingVal, PendingVal + LockedVal}

Locked(w)  == w \in {LockedVal, PendingVal + LockedVal}
Pending(w) == w \in {PendingVal, PendingVal + LockedVal}

Places == {"idle", "fast_cas", "fast_wait", "fair", "try", "cas", "pend",
           "take", "queue", "queue_cas", "cs"}

Goto(t, p) == pc' = [pc EXCEPT ![t] = p]

Init ==
  /\ word = 0
  /\ pc = [t \in Threads |-> "idle"]
  /\ val = [t \in Threads |-> 0]
  /\ tries = [t \in Threads |-> 0]

-----------------------------------------------------------------------------
(* Mutant: a compare-and-swap that looks only at the locked byte. *)
CasFreeStealing(t, p) ==
  \/ /\ ~ Locked(word)
     /\ word' = LockedVal
     /\ Goto(t, "cs")
     /\ UNCHANGED val
  \/ /\ Locked(word)
     /\ val' = [val EXCEPT ![t] = word]
     /\ Goto(t, p)
     /\ UNCHANGED word

(* atomic_cmpxchg(&lock->raw_lock, 0, _Q_LOCKED_VAL): into the critical    *)
(* section, or to place p with the value that was read.                    *)
CasFree(t, p) ==
  \/ /\ word = 0
     /\ word' = LockedVal
     /\ Goto(t, "cs")
     /\ UNCHANGED val
  \/ /\ word # 0
     /\ val' = [val EXCEPT ![t] = word]
     /\ Goto(t, p)
     /\ UNCHANGED word

(* spin_lock: the inline first try of queued_spin_lock_fast. *)
spin_lock(t) ==
  /\ pc[t] = "idle"
  /\ CasFree(t, "fast_cas")
  /\ tries' = [tries EXCEPT ![t] = MaxContends]

(* __queued_spin_lock_fast: one try, ... *)
fast_cas(t) ==
  /\ pc[t] = "fast_cas"
  /\ CasFree(t, "fast_wait")
  /\ UNCHANGED tries

(* ... then spin until the locked byte is clear, and count the try. *)
fast_wait(t) ==
  /\ pc[t] = "fast_wait"
  /\ ~ Locked(word)
  /\ tries' = [tries EXCEPT ![t] = @ - 1]
  /\ Goto(t, IF tries[t] - 1 > 0 THEN "fast_cas" ELSE "try")
  /\ UNCHANGED <<word, val>>

(* spin_fairlock: one try, then the slow path. *)
spin_fairlock(t) ==
  /\ pc[t] \in {"idle", "fair"}
  /\ CasFree(t, "try")
  /\ UNCHANGED tries

(* A failed spin_trylock changes nothing, so only the successful one is a  *)
(* step.                                                                   *)
spin_trylock(t) ==
  /\ pc[t] = "idle"
  /\ word = 0
  /\ word' = LockedVal
  /\ Goto(t, "cs")
  /\ UNCHANGED <<val, tries>>

(* queued_spin_lock_slowpath, label try: if the word was pending and not   *)
(* locked, wait for the hand-over in progress to finish.                   *)
slowpath_try(t) ==
  /\ pc[t] = "try"
  /\ val[t] = PendingVal => word # PendingVal
  /\ val' = [val EXCEPT ![t] = IF @ = PendingVal THEN word ELSE @]
  /\ Goto(t, "cas")
  /\ UNCHANGED <<word, tries>>

(* The for loop: queue if somebody is pending; otherwise take a free lock  *)
(* or become the pending thread of a locked one.                           *)
slowpath_cas(t) ==
  /\ pc[t] = "cas"
  /\ UNCHANGED tries
  /\ \/ /\ Pending(val[t])
        /\ Goto(t, "queue")
        /\ UNCHANGED <<word, val>>
     \/ /\ ~ Pending(val[t])
        /\ word = val[t]
        /\ word' = IF val[t] = LockedVal THEN PendingVal + LockedVal
                                         ELSE LockedVal
        /\ Goto(t, IF val[t] = LockedVal THEN "pend" ELSE "cs")
        /\ UNCHANGED val
     \/ /\ ~ Pending(val[t])
        /\ word # val[t]
        /\ val' = [val EXCEPT ![t] = word]
        /\ UNCHANGED <<word, pc>>

(* Mutant: the pending thread does not wait for the owner. *)
SlowpathPendNoWait(t) ==
  /\ pc[t] = "pend"
  /\ Goto(t, "take")
  /\ UNCHANGED <<word, val, tries>>

(* The pending thread waits for the owner to go away, ... *)
slowpath_pend(t) ==
  /\ pc[t] = "pend"
  /\ ~ Locked(word)
  /\ Goto(t, "take")
  /\ UNCHANGED <<word, val, tries>>

(* ... and clear_pending_set_locked stores locked over both bytes. *)
clear_pending_set_locked(t) ==
  /\ pc[t] = "take"
  /\ word' = LockedVal
  /\ Goto(t, "cs")
  /\ UNCHANGED <<val, tries>>

(* Label queue: wait until nobody is pending, ... *)
slowpath_queue(t) ==
  /\ pc[t] = "queue"
  /\ ~ Pending(word)
  /\ Goto(t, "queue_cas")
  /\ UNCHANGED <<word, val, tries>>

(* ... try once more, and start over. *)
slowpath_queue_cas(t) ==
  /\ pc[t] = "queue_cas"
  /\ CasFree(t, "try")
  /\ UNCHANGED tries

(* Mutant: the unlock clears the whole word. *)
UnlockedWhole(w) == 0

(* The word after queued_spin_unlock: the locked byte is cleared and the   *)
(* pending byte is left alone.                                             *)
Unlocked(w) == IF Pending(w) THEN PendingVal ELSE 0

spin_unlock(t) ==
  /\ pc[t] = "cs"
  /\ word' = Unlocked(word)
  /\ Goto(t, "idle")
  /\ UNCHANGED <<val, tries>>

(* cond_resched_lock: with a pending thread, unlock and lock again through *)
(* spin_fairlock; otherwise nothing.                                       *)
cond_resched_lock(t) ==
  /\ pc[t] = "cs"
  /\ Pending(word)
  /\ word' = Unlocked(word)
  /\ Goto(t, "fair")
  /\ UNCHANGED <<val, tries>>

-----------------------------------------------------------------------------
(* The steps a thread takes once it has started a call or owns the lock. *)
Continue(t) ==
  \/ fast_cas(t)
  \/ fast_wait(t)
  \/ pc[t] = "fair" /\ spin_fairlock(t)
  \/ slowpath_try(t)
  \/ slowpath_cas(t)
  \/ slowpath_pend(t)
  \/ clear_pending_set_locked(t)
  \/ slowpath_queue(t)
  \/ slowpath_queue_cas(t)
  \/ spin_unlock(t)

Step(t) ==
  \/ spin_lock(t)
  \/ spin_trylock(t)
  \/ spin_fairlock(t)
  \/ cond_resched_lock(t)
  \/ Continue(t)

Next == \E t \in Threads : Step(t)

Spec == Init /\ [][Next]_vars

(* A thread that spins keeps running, and critical sections end. *)
FairSpec == Spec /\ \A t \in Threads : WF_vars(Continue(t))

-----------------------------------------------------------------------------
Holders  == {t \in Threads : pc[t] = "cs"}
Pendings == {t \in Threads : pc[t] \in {"pend", "take"}}

(* Type correctness: the word is one of the four the two bytes make, and a *)
(* caller of spin_lock has at most MaxContends tries left.                 *)
TypeOK ==
  /\ word \in Words
  /\ pc \in [Threads -> Places]
  /\ val \in [Threads -> Words]
  /\ tries \in [Threads -> 0 .. MaxContends]

(* Between queued_spin_lock_* returning and queued_spin_unlock at most one *)
(* thread is inside, whichever mix of spin_lock, spin_fairlock,            *)
(* spin_trylock and cond_resched_lock the threads use.                     *)
MutualExclusion == \A t, u \in Holders : t = u

(* The two bytes of the word tell who owns the lock and who is next: the   *)
(* locked byte is set exactly while a thread owns it, the pending byte     *)
(* exactly while one single thread waits for the hand-over, and the store  *)
(* of clear_pending_set_locked finds the word pending and not locked.      *)
WordTellsOwner ==
  /\ Locked(word) <=> Holders # {}
  /\ Pending(word) <=> Pendings # {}
  /\ \A t, u \in Pendings : t = u
  /\ \A t \in Threads : pc[t] = "take" => word = PendingVal

(* "Lock stealing is not allowed" (spinlock.c:84): while a thread is       *)
(* pending, the next thread to enter the critical section is that one.     *)
NoLockStealing ==
  [][\A t \in Threads, u \in Pendings :
        t \notin Holders /\ t \in Holders' => t = u]_vars

(* The word and the program counters implement an exclusive lock. *)
Lock == INSTANCE AbstractRwLock WITH readers <- {}, writers <- Holders
ImplementsLock == Lock!RwSpec

(* A thread that has set the pending byte owns the lock some time later. *)
PendingIsServed == \A t \in Threads : pc[t] = "pend" ~> pc[t] = "cs"

=============================================================================
