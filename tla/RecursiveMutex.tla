--------------------------- MODULE RecursiveMutex ---------------------------
(***************************************************************************)
(* The recursive mutex of src/utils/mutex.c and include/skp/utils/mutex.h: *)
(* an owner and a depth around a mutex.  The mutex inside is the lock of   *)
(* AbstractRwLock without readers, which Mutex is shown to implement.  The *)
(* owner field is read without any lock, so each access to it is one step. *)
(***************************************************************************)
EXTENDS Naturals

CONSTANTS
  Lockers,      (* the threads, by their thread id                         *)
  NoLocker,     (* the value 0 of the owner field                          *)
  MaxDepth      (* bound: how deep a caller nests its calls                *)

VARIABLES
  holders,      (* rmutex->mutex                                           *)
  owner,        (* rmutex->owner                                           *)
  nr_depths,    (* rmutex->nr_depths                                       *)
  calls,        (* how many lock calls of a thread are not undone yet      *)
  rmpc

rmvars == <<holders, owner, nr_depths, calls, rmpc>>

mutex == INSTANCE AbstractRwLock WITH Threads <- Lockers, readers <- {}, writers <- holders

RecPlaces == {"out", "lock", "trylock", "set_owner", "enter", "unlock", "release"}

RecGoto(t, p) == rmpc' = [rmpc EXCEPT ![t] = p]

RecInit ==
  /\ holders = {}
  /\ owner = NoLocker
  /\ nr_depths = 0
  /\ calls = [t \in Lockers |-> 0]
  /\ rmpc = [t \in Lockers |-> "out"]

-----------------------------------------------------------------------------
(* Mutant: the owner is taken for the caller if there is none. *)
LockIfUnowned(t) ==
  /\ rmpc[t] = "out"
  /\ calls[t] < MaxDepth
  /\ RecGoto(t, IF owner \in {t, NoLocker} /\ holders # {} THEN "enter" ELSE "lock")
  /\ UNCHANGED <<holders, owner, nr_depths, calls>>

(* recursive_mutex_lock reads owner: its own id means it is already inside *)
(* and may only count; anything else sends it to mutex_lock.               *)
recursive_mutex_lock(t) ==
  /\ rmpc[t] = "out"
  /\ calls[t] < MaxDepth
  /\ RecGoto(t, IF owner = t THEN "enter" ELSE "lock")
  /\ UNCHANGED <<holders, owner, nr_depths, calls>>

(* recursive_mutex_trylock reads owner in the same way. *)
recursive_mutex_trylock(t) ==
  /\ rmpc[t] = "out"
  /\ calls[t] < MaxDepth
  /\ RecGoto(t, IF owner = t THEN "enter" ELSE "trylock")
  /\ UNCHANGED <<holders, owner, nr_depths, calls>>

(* mutex_lock, or a mutex_trylock that succeeds. *)
lock_acquire(t) ==
  /\ rmpc[t] \in {"lock", "trylock"}
  /\ mutex!AcquireWrite(t)
  /\ RecGoto(t, "set_owner")
  /\ UNCHANGED <<owner, nr_depths, calls>>

(* A trylock whose mutex_trylock fails returns false. *)
trylock_fail(t) ==
  /\ rmpc[t] = "trylock"
  /\ holders # {}
  /\ RecGoto(t, "out")
  /\ UNCHANGED <<holders, owner, nr_depths, calls>>

(* Mutant: the owner field is not set. *)
SetNoOwner(t) ==
  /\ rmpc[t] = "set_owner"
  /\ RecGoto(t, "enter")
  /\ UNCHANGED <<holders, owner, nr_depths, calls>>

(* The new owner of the mutex writes its id. *)
lock_set_owner(t) ==
  /\ rmpc[t] = "set_owner"
  /\ owner' = t
  /\ RecGoto(t, "enter")
  /\ UNCHANGED <<holders, nr_depths, calls>>

(* out: rmutex->nr_depths++. *)
lock_enter(t) ==
  /\ rmpc[t] = "enter"
  /\ nr_depths' = nr_depths + 1
  /\ calls' = [calls EXCEPT ![t] = @ + 1]
  /\ RecGoto(t, "out")
  /\ UNCHANGED <<holders, owner>>

(* recursive_mutex_unlock: the outermost one goes on to give the mutex     *)
(* back.                                                                   *)
recursive_mutex_unlock(t) ==
  /\ rmpc[t] = "out"
  /\ calls[t] > 0
  /\ nr_depths' = nr_depths - 1
  /\ calls' = [calls EXCEPT ![t] = @ - 1]
  /\ RecGoto(t, IF nr_depths - 1 # 0 THEN "out" ELSE "unlock")
  /\ UNCHANGED <<holders, owner>>

(* The owner field is cleared while the mutex is still held, ... *)
unlock_clear_owner(t) ==
  /\ rmpc[t] = "unlock"
  /\ owner' = NoLocker
  /\ RecGoto(t, "release")
  /\ UNCHANGED <<holders, nr_depths, calls>>

(* ... and mutex_unlock follows. *)
unlock_release(t) ==
  /\ rmpc[t] = "release"
  /\ mutex!ReleaseWrite(t, {})
  /\ RecGoto(t, "out")
  /\ UNCHANGED <<owner, nr_depths, calls>>

RecStep(t) ==
  \/ recursive_mutex_lock(t)
  \/ recursive_mutex_trylock(t)
  \/ lock_acquire(t)
  \/ trylock_fail(t)
  \/ lock_set_owner(t)
  \/ lock_enter(t)
  \/ recursive_mutex_unlock(t)
  \/ unlock_clear_owner(t)
  \/ unlock_release(t)

RecNext == \E t \in Lockers : RecStep(t)

RecSpec == RecInit /\ [][RecNext]_rmvars

-----------------------------------------------------------------------------
(* The threads between an outermost lock and its unlock. *)
Inside == {t \in Lockers : calls[t] > 0 \/ rmpc[t] = "enter"}

(* Type correctness: nr_depths is never deeper than one caller nests. *)
RecTypeOK ==
  /\ holders \subseteq Lockers
  /\ owner \in Lockers \cup {NoLocker}
  /\ nr_depths \in 0 .. MaxDepth
  /\ calls \in [Lockers -> 0 .. MaxDepth]
  /\ rmpc \in [Lockers -> RecPlaces]

(* Nested calls are counted right although owner is read without a lock:   *)
(* the threads inside are one and the same, it holds the mutex, it finds   *)
(* itself in the owner field, and nr_depths is its own number of calls.    *)
OneThreadInside ==
  \A t \in Inside :
    /\ Inside = {t}
    /\ holders = {t}
    /\ owner = t
    /\ nr_depths = calls[t]

(* A thread that already holds the mutex never waits for it again: the     *)
(* owner field of a thread that is inside never looks foreign to it.       *)
NoSelfDeadlock ==
  \A t \in Lockers : rmpc[t] \in {"lock", "trylock"} => t \notin holders

(* Both together: what recursive_mutex_lock relies on when it trusts the   *)
(* owner field it has read without a lock.                                 *)
RecursionIsCounted == OneThreadInside /\ NoSelfDeadlock

=============================================================================
