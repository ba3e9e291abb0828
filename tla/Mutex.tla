------------------------------- MODULE Mutex -------------------------------
(***************************************************************************)
(* The sleeping mutex of include/skp/utils/mutex.h and src/utils/mutex.c,  *)
(* with the futex of src/utils/futex.c it sleeps on.                       *)
(*                                                                         *)
(* count is 1 when the mutex is free, 0 when it is locked, negative when   *)
(* it is locked and somebody may wait.  The fast paths touch count alone;  *)
(* the slow paths queue a waiter that lives on the caller's stack on       *)
(* wait_list, under the spinlock wait_lock.  Each access to count is one   *)
(* step, so the fast paths interleave with the slow ones at every access;  *)
(* wait_lock is the exclusive lock that SpinLock implements.  Of a futex   *)
(* word only "is it still 0" is ever looked at, so flags keeps 0 or 1; the *)
(* wrap-around after 2^32 signals to a waiter that never ran is left out.  *)
(***************************************************************************)
EXTENDS Integers, Sequences, ListOps

CONSTANTS
  Threads,      (* the threads that use the mutex                          *)
  NoThread      (* nobody                                                  *)

ASSUME NoThreadAssumption == NoThread \notin Threads

VARIABLES
  count,        (* mutex->count                                            *)
  wait_lock,    (* who owns mutex->wait_lock                               *)
  wait_list,    (* mutex->wait_list: the threads whose waiter is queued    *)
  flags,        (* the futex word of each thread's waiter                  *)
  target,       (* the waiter an unlocking thread has signalled            *)
  pc

vars == <<count, wait_lock, wait_list, flags, target, pc>>

Places == {"idle", "slow_lock", "xchg", "futex", "sleep", "relock", "won",
           "cs", "slow_unlock", "signal", "wake"}

Goto(t, p) == pc' = [pc EXCEPT ![t] = p]

Queued(t) == Occurs(wait_list, t)

Init ==
  /\ count = 1
  /\ wait_lock = NoThread
  /\ wait_list = <<>>
  /\ flags = [t \in Threads |-> 0]
  /\ target = [t \in Threads |-> NoThread]
  /\ pc = [t \in Threads |-> "idle"]

-----------------------------------------------------------------------------
(* mutex_lock: __mutex_fastpath_lock decrements count and owns the mutex   *)
(* unless the result is negative.                                          *)
mutex_lock(t) ==
  /\ pc[t] = "idle"
  /\ count' = count - 1
  /\ Goto(t, IF count - 1 < 0 THEN "slow_lock" ELSE "cs")
  /\ UNCHANGED <<wait_lock, wait_list, flags, target>>

(* Mutant: a trylock that also takes a mutex locked without waiters. *)
TrylockLocked(t) ==
  /\ pc[t] = "idle"
  /\ count >= 0
  /\ count' = 0
  /\ Goto(t, "cs")
  /\ UNCHANGED <<wait_lock, wait_list, flags, target>>

(* mutex_trylock: __mutex_fastpath_trylock moves count from 1 to 0, or     *)
(* changes nothing.                                                        *)
mutex_trylock(t) ==
  /\ pc[t] = "idle"
  /\ count = 1
  /\ count' = 0
  /\ Goto(t, "cs")
  /\ UNCHANGED <<wait_lock, wait_list, flags, target>>

(* __mutex_lock_slowpath: queue a waiter under wait_lock. *)
lock_slowpath_enqueue(t) ==
  /\ pc[t] = "slow_lock"
  /\ wait_lock = NoThread
  /\ wait_lock' = t
  /\ flags' = [flags EXCEPT ![t] = 0]
  /\ wait_list' = list_add_tail(wait_list, t)
  /\ Goto(t, "xchg")
  /\ UNCHANGED <<count, target>>

(* Mutant: the loop ends on any value that is not negative. *)
XchgNonNegative(t) ==
  /\ pc[t] = "xchg"
  /\ count' = -1
  /\ \/ /\ count >= 0
        /\ Goto(t, "won")
        /\ UNCHANGED wait_lock
     \/ /\ count < 0
        /\ wait_lock' = NoThread
        /\ Goto(t, "futex")
  /\ UNCHANGED <<wait_list, flags, target>>

(* while (atomic_xchg(&mutex->count, -1) != 1): the mutex was free, or the *)
(* wait_lock is dropped to go and sleep.                                   *)
lock_slowpath_xchg(t) ==
  /\ pc[t] = "xchg"
  /\ count' = -1
  /\ \/ /\ count = 1
        /\ Goto(t, "won")
        /\ UNCHANGED wait_lock
     \/ /\ count # 1
        /\ wait_lock' = NoThread
        /\ Goto(t, "futex")
  /\ UNCHANGED <<wait_list, flags, target>>

(* Mutant: the sleeper does not look at the futex word again. *)
FutexWaitBlind(t) ==
  /\ pc[t] = "futex"
  /\ Goto(t, "sleep")
  /\ UNCHANGED <<count, wait_lock, wait_list, flags, target>>

(* futex_wait(&waiter.flags, 0, -1): the kernel compares the word and puts *)
(* the thread to sleep in one step; a changed word returns at once.        *)
futex_wait(t) ==
  /\ pc[t] = "futex"
  /\ Goto(t, IF flags[t] = 0 THEN "sleep" ELSE "relock")
  /\ UNCHANGED <<count, wait_lock, wait_list, flags, target>>

(* A signal interrupts the sleep (EINTR): futex_wait goes round its loop. *)
futex_wait_eintr(t) ==
  /\ pc[t] = "sleep"
  /\ Goto(t, "futex")
  /\ UNCHANGED <<count, wait_lock, wait_list, flags, target>>

(* Awake: take wait_lock again and reset the futex word. *)
lock_slowpath_relock(t) ==
  /\ pc[t] = "relock"
  /\ wait_lock = NoThread
  /\ wait_lock' = t
  /\ flags' = [flags EXCEPT ![t] = 0]
  /\ Goto(t, "xchg")
  /\ UNCHANGED <<count, wait_list, target>>

(* Mutant: the new owner resets count without looking at the list. *)
DoneAlwaysReset(t) ==
  /\ pc[t] = "won"
  /\ wait_list' = list_del(wait_list, t)
  /\ count' = 0
  /\ wait_lock' = NoThread
  /\ Goto(t, "cs")
  /\ UNCHANGED <<flags, target>>

(* The new owner leaves the list, and if it was the last one gives the     *)
(* fast path of unlock back.                                               *)
lock_slowpath_done(t) ==
  /\ pc[t] = "won"
  /\ wait_list' = list_del(wait_list, t)
  /\ count' = IF wait_list' = <<>> THEN 0 ELSE count
  /\ wait_lock' = NoThread
  /\ Goto(t, "cs")
  /\ UNCHANGED <<flags, target>>

(* mutex_unlock: __mutex_fastpath_unlock increments count and is done      *)
(* unless the result is below 1.                                           *)
mutex_unlock(t) ==
  /\ pc[t] = "cs"
  /\ count' = count + 1
  /\ Goto(t, IF count + 1 < 1 THEN "slow_unlock" ELSE "idle")
  /\ UNCHANGED <<wait_lock, wait_list, flags, target>>

(* __mutex_unlock_slowpath: under wait_lock the mutex becomes free, ... *)
unlock_slowpath_set(t) ==
  /\ pc[t] = "slow_unlock"
  /\ wait_lock = NoThread
  /\ wait_lock' = t
  /\ count' = 1
  /\ Goto(t, "signal")
  /\ UNCHANGED <<wait_list, flags, target>>

(* ... the first waiter's word is changed, ... *)
unlock_slowpath_signal(t) ==
  /\ pc[t] = "signal"
  /\ UNCHANGED <<count, wait_list>>
  /\ \/ /\ wait_list = <<>>
        /\ wait_lock' = NoThread
        /\ Goto(t, "idle")
        /\ UNCHANGED <<flags, target>>
     \/ /\ wait_list # <<>>
        /\ flags' = [flags EXCEPT ![Head(wait_list)] = 1]
        /\ target' = [target EXCEPT ![t] = Head(wait_list)]
        /\ Goto(t, "wake")
        /\ UNCHANGED wait_lock

(* ... and futex_wake(&waiter->flags, 1) wakes it if it sleeps. *)
unlock_slowpath_wake(t) ==
  /\ pc[t] = "wake"
  /\ pc' = [u \in Threads |-> CASE u = t -> "idle"
                                [] u = target[t] /\ pc[u] = "sleep" -> "relock"
                                [] OTHER -> pc[u]]
  /\ target' = [target EXCEPT ![t] = NoThread]
  /\ wait_lock' = NoThread
  /\ UNCHANGED <<count, wait_list, flags>>

-----------------------------------------------------------------------------
(* The steps of a thread that is inside a call or owns the mutex. *)
Continue(t) ==
  \/ lock_slowpath_enqueue(t)
  \/ lock_slowpath_xchg(t)
  \/ futex_wait(t)
  \/ lock_slowpath_relock(t)
  \/ lock_slowpath_done(t)
  \/ mutex_unlock(t)
  \/ unlock_slowpath_set(t)
  \/ unlock_slowpath_signal(t)
  \/ unlock_slowpath_wake(t)

Step(t) ==
  \/ mutex_lock(t)
  \/ mutex_trylock(t)
  \/ futex_wait_eintr(t)
  \/ Continue(t)

Next == \E t \in Threads : Step(t)

Spec == Init /\ [][Next]_vars

(* Running threads keep running and critical sections end; a thread asleep *)
(* on a futex runs again only when it is woken.                            *)
FairSpec == Spec /\ \A t \in Threads : WF_vars(Continue(t))

-----------------------------------------------------------------------------
(* From the access to count that wins the mutex to the one that frees it. *)
Holders == {t \in Threads : pc[t] \in {"won", "cs", "slow_unlock"}}

(* The places of a thread that is inside __mutex_lock_slowpath with its    *)
(* waiter queued.                                                          *)
Waiting == {"xchg", "futex", "sleep", "relock", "won"}

(* Type correctness; count never exceeds 1, its value for a free mutex. *)
TypeOK ==
  /\ count \in Int /\ count <= 1
  /\ wait_lock \in Threads \cup {NoThread}
  /\ wait_list \in Seq(Threads)
  /\ flags \in [Threads -> {0, 1}]
  /\ target \in [Threads -> Threads \cup {NoThread}]
  /\ pc \in [Threads -> Places]

(* At most one thread owns the mutex. *)
MutualExclusion == \A t, u \in Holders : t = u

(* "1: unlocked, 0: locked, negative: locked, possible waiters"            *)
(* (mutex.h:11): count is 1 exactly when nobody owns the mutex.            *)
CountTellsOwner == count = 1 <=> Holders = {}

(* The waiter an unlocking thread wakes is on the stack of a thread that   *)
(* is still queued, so futex_wake never touches a frame that has returned; *)
(* and the queue holds exactly the threads inside the slow path.           *)
WakeTargetQueued ==
  /\ \A t \in Threads : pc[t] = "wake" => Queued(target[t])
  /\ \A t \in Threads : Queued(t) <=> pc[t] \in Waiting

(* Nobody has told thread t to look at the mutex again. *)
Unsignalled(t) == pc[t] \in {"futex", "sleep"} /\ flags[t] = 0

(* No wake-up is lost: when every queued waiter sleeps unsignalled, either *)
(* the owner's unlock will see a negative count and take the slow path, or *)
(* an unlocking thread is on its way to signal one.  A thread that sleeps  *)
(* although it was signalled is about to be woken.                         *)
NoLostWakeup ==
  /\ (wait_list # <<>> /\ \A t \in Threads : Queued(t) => Unsignalled(t))
       => \/ count < 0
          \/ \E u \in Threads : pc[u] \in {"slow_unlock", "signal"}
  /\ \A t \in Threads :
       pc[t] = "sleep" /\ flags[t] # 0
         => \E u \in Threads : pc[u] = "wake" /\ target[u] = t

(* The mutex implements an exclusive lock. *)
Lock == INSTANCE AbstractRwLock WITH readers <- {}, writers <- Holders
ImplementsLock == Lock!RwSpec

(* Whenever a thread is inside mutex_lock, some thread owns the mutex      *)
(* later: the waiters never all sleep on a free mutex.                     *)
SomebodyGetsIn ==
  (\E t \in Threads : pc[t] \in {"slow_lock", "xchg", "futex", "sleep", "relock"})
    ~> (\E t \in Threads : pc[t] = "cs")
=============================================================================
