----------------------------- MODULE LockProofs -----------------------------
(***************************************************************************)
(* Proofs about the locks without a queue: the spinlock, the recursive     *)
(* mutex made of an owner and a count, and the sequence lock, for every    *)
(* set of threads.                                                         *)
(***************************************************************************)
EXTENDS SpinLock, RecursiveMutex, SeqLock, TLAPS

-----------------------------------------------------------------------------
(***************************************************************************)
(* SpinLock, for any set of threads and any number of tries of the fast    *)
(* path.  The inductive invariant is TypeOK /\ WordTellsOwner /\           *)
(* MutualExclusion: mutual exclusion alone is not inductive, because a     *)
(* thread about to take the hand-over is safe only as long as the pending  *)
(* byte keeps everybody else's compare-and-swap from succeeding.           *)
(* TriesLeft is needed for the type of the fast path's counter.            *)
(***************************************************************************)
(* The fast path has tries left whenever it is about to use one. *)
TriesLeft ==
  \A t \in Threads : pc[t] \in {"fast_cas", "fast_wait"} => tries[t] > 0

SpinInv == TypeOK /\ TriesLeft /\ WordTellsOwner /\ MutualExclusion

(* The word values used below, as numbers the provers can compare. *)
LEMMA WordFacts ==
  /\ Words = {0, 1, 256, 257}
  /\ \A w \in Words : /\ Locked(w) <=> w \in {1, 257}
                      /\ Pending(w) <=> w \in {256, 257}
  /\ \A w \in Words : Unlocked(w) \in Words
BY DEF Words, Locked, Pending, LockedVal, PendingVal, Unlocked

LEMMA InitInv == Init => SpinInv
BY MaxContendsAssumption
   DEF Init, SpinInv, TypeOK, TriesLeft, WordTellsOwner, MutualExclusion, Holders,
       Pendings, Words, Locked, Pending, LockedVal, PendingVal, Places

(* Every variable keeps its type, and the tries are counted right. *)
LEMMA TypeStep == TypeOK /\ TriesLeft /\ [Next]_vars => TypeOK' /\ TriesLeft'
<1> USE MaxContendsAssumption
<1> SUFFICES ASSUME TypeOK, TriesLeft, [Next]_vars
             PROVE  TypeOK' /\ TriesLeft'
  OBVIOUS
<1>1. CASE UNCHANGED vars
  BY <1>1 DEF TypeOK, TriesLeft, vars
<1>2. ASSUME NEW t \in Threads, Step(t)
      PROVE  TypeOK' /\ TriesLeft'
  <2> USE DEF TypeOK, TriesLeft, Goto, Places
  <2>0. 0 \in Words /\ LockedVal \in Words /\ PendingVal \in Words
        /\ PendingVal + LockedVal \in Words
    BY DEF Words
  <2>1. ASSUME NEW p \in Places, CasFree(t, p)
        PROVE  /\ word' \in Words
               /\ pc' \in [Threads -> Places]
               /\ val' \in [Threads -> Words]
               /\ pc' \in {[pc EXCEPT ![t] = "cs"], [pc EXCEPT ![t] = p]}
    BY <2>0, <2>1 DEF CasFree
  <2>2. CASE spin_lock(t)
    BY <2>1, <2>2 DEF spin_lock
  <2>3. CASE spin_trylock(t)
    BY <2>0, <2>3 DEF spin_trylock
  <2>4. CASE spin_fairlock(t)
    BY <2>1, <2>4 DEF spin_fairlock
  <2>5. CASE cond_resched_lock(t)
    BY <2>5, WordFacts DEF cond_resched_lock
  <2>6. CASE fast_cas(t)
    BY <2>1, <2>6 DEF fast_cas
  <2>7. CASE fast_wait(t)
    BY <2>7 DEF fast_wait
  <2>8. CASE slowpath_try(t)
    BY <2>8 DEF slowpath_try
  <2>9. CASE slowpath_cas(t)
    BY <2>0, <2>9 DEF slowpath_cas
  <2>10. CASE slowpath_pend(t)
    BY <2>10 DEF slowpath_pend
  <2>11. CASE clear_pending_set_locked(t)
    BY <2>0, <2>11 DEF clear_pending_set_locked
  <2>12. CASE slowpath_queue(t)
    BY <2>12 DEF slowpath_queue
  <2>13. CASE slowpath_queue_cas(t)
    BY <2>1, <2>13 DEF slowpath_queue_cas
  <2>14. CASE spin_unlock(t)
    BY <2>14, WordFacts DEF spin_unlock
  <2> QED
    BY <1>2, <2>2, <2>3, <2>4, <2>5, <2>6, <2>7, <2>8, <2>9, <2>10, <2>11,
       <2>12, <2>13, <2>14 DEF Step, Continue
<1> QED
  BY <1>1, <1>2 DEF Next

(* The heart of the argument: who owns the lock and who is next stay       *)
(* written in the word.                                                    *)
LEMMA WordStep == SpinInv /\ [Next]_vars => WordTellsOwner' /\ MutualExclusion'
<1> SUFFICES ASSUME SpinInv, [Next]_vars
             PROVE  WordTellsOwner' /\ MutualExclusion'
  OBVIOUS
<1> USE DEF SpinInv, TypeOK, WordTellsOwner, MutualExclusion, Holders, Pendings
<1>1. CASE UNCHANGED vars
  BY <1>1 DEF vars
<1>2. ASSUME NEW t \in Threads, Step(t)
      PROVE  WordTellsOwner' /\ MutualExclusion'
  <2> USE DEF Goto, Words, Locked, Pending, LockedVal, PendingVal
  <2>1. ASSUME NEW p \in Places \ {"cs", "pend", "take"}, CasFree(t, p),
               pc[t] \notin {"cs", "pend", "take"}
        PROVE  WordTellsOwner' /\ MutualExclusion'
    BY <2>1 DEF CasFree
  <2>2. CASE spin_lock(t)
    BY <2>1, <2>2 DEF spin_lock, Places
  <2>3. CASE spin_trylock(t)
    BY <2>3 DEF spin_trylock
  <2>4. CASE spin_fairlock(t)
    BY <2>1, <2>4 DEF spin_fairlock, Places
  <2>5. CASE cond_resched_lock(t)
    BY <2>5 DEF cond_resched_lock, Unlocked
  <2>6. CASE fast_cas(t)
    BY <2>1, <2>6 DEF fast_cas, Places
  <2>7. CASE fast_wait(t)
    BY <2>7 DEF fast_wait
  <2>8. CASE slowpath_try(t)
    BY <2>8 DEF slowpath_try
  <2>9. CASE slowpath_cas(t)
    BY <2>9 DEF slowpath_cas
  <2>10. CASE slowpath_pend(t)
    BY <2>10 DEF slowpath_pend
  <2>11. CASE clear_pending_set_locked(t)
    BY <2>11 DEF clear_pending_set_locked
  <2>12. CASE slowpath_queue(t)
    BY <2>12 DEF slowpath_queue
  <2>13. CASE slowpath_queue_cas(t)
    BY <2>1, <2>13 DEF slowpath_queue_cas, Places
  <2>14. CASE spin_unlock(t)
    BY <2>14 DEF spin_unlock, Unlocked
  <2> QED
    BY <1>2, <2>2, <2>3, <2>4, <2>5, <2>6, <2>7, <2>8, <2>9, <2>10, <2>11,
       <2>12, <2>13, <2>14 DEF Step, Continue
<1> QED
  BY <1>1, <1>2 DEF Next

LEMMA SpinInvStep == SpinInv /\ [Next]_vars => SpinInv'
BY TypeStep, WordStep DEF SpinInv

LEMMA SpinInvHolds == Spec => []SpinInv
BY InitInv, SpinInvStep, PTL DEF Spec

(* Every variable of the lock and of its callers keeps its type. *)
THEOREM SpinTypeOK == Spec => []TypeOK
<1>1. SpinInv => TypeOK
  BY DEF SpinInv
<1> QED
  BY <1>1, SpinInvHolds, PTL

(* At most one thread is between queued_spin_lock_* and                    *)
(* queued_spin_unlock, for any number of threads.                          *)
THEOREM SpinMutualExclusion == Spec => []MutualExclusion
<1>1. SpinInv => MutualExclusion
  BY DEF SpinInv
<1> QED
  BY <1>1, SpinInvHolds, PTL

(* The locked and pending bytes name the owner and the single next owner. *)
THEOREM SpinWordTellsOwner == Spec => []WordTellsOwner
<1>1. SpinInv => WordTellsOwner
  BY DEF SpinInv
<1> QED
  BY <1>1, SpinInvHolds, PTL

(* A step either leaves the set of owners alone, lets one thread into a    *)
(* free lock, or lets the owner out; and while a thread is pending only    *)
(* that thread gets in.                                                    *)
LEMMA OwnerStep ==
  SpinInv /\ [Next]_vars =>
    /\ Lock!RwNext \/ Holders' = Holders
    /\ \A t \in Threads, u \in Pendings :
         t \notin Holders /\ t \in Holders' => t = u
<1> SUFFICES ASSUME SpinInv, [Next]_vars
             PROVE  /\ Lock!RwNext \/ Holders' = Holders
                    /\ \A t \in Threads, u \in Pendings :
                         t \notin Holders /\ t \in Holders' => t = u
  OBVIOUS
<1> DEFINE Next1(s) == Lock!AcquireWrite(s) \/ Lock!ReleaseWrite(s, {}) \/ Holders' = Holders
           OnlyPending == \A t \in Threads, u \in Pendings :
                            t \notin Holders /\ t \in Holders' => t = u
<1>1. CASE UNCHANGED vars
  BY <1>1 DEF vars, Holders
<1>2. ASSUME NEW t \in Threads, Step(t)
      PROVE  Next1(t) /\ OnlyPending
  <2> USE DEF SpinInv, TypeOK, WordTellsOwner, MutualExclusion, Goto,
              Words, Locked, Pending, LockedVal, PendingVal
  <2>1. ASSUME pc[t] # "cs", pc'[t] = "cs", Holders = {},
               pc' = [pc EXCEPT ![t] = "cs"],
               Pendings \subseteq {t}
        PROVE  Next1(t) /\ OnlyPending
    <3>1. Holders' = {t}
      BY <2>1 DEF Holders
    <3> QED
      BY <2>1, <3>1 DEF Lock!AcquireWrite
  <2>2. ASSUME pc[t] = "cs", pc'[t] # "cs",
               \A s \in Threads \ {t} : pc'[s] = pc[s]
        PROVE  Next1(t) /\ OnlyPending
    <3>1. Holders = {t} /\ Holders' = {}
      BY <2>2 DEF Holders
    <3> QED
      BY <3>1 DEF Lock!ReleaseWrite
  <2>3. ASSUME pc[t] # "cs", pc'[t] # "cs",
               \A s \in Threads \ {t} : pc'[s] = pc[s]
        PROVE  Next1(t) /\ OnlyPending
    <3>1. Holders' = Holders
      BY <2>3 DEF Holders
    <3> QED
      BY <3>1
  <2>4. ASSUME NEW p \in Places \ {"cs"}, CasFree(t, p), pc[t] # "cs"
        PROVE  Next1(t) /\ OnlyPending
    <3>1. CASE word = 0
      <4>1. Holders = {} /\ Pendings = {}
        BY <3>1
      <4> QED
        BY <2>1, <2>4, <3>1, <4>1 DEF CasFree
    <3>2. CASE word # 0
      BY <2>3, <2>4, <3>2 DEF CasFree
    <3> QED
      BY <3>1, <3>2
  <2>5. CASE spin_lock(t)
    BY <2>4, <2>5 DEF spin_lock, Places
  <2>6. CASE spin_trylock(t)
    <3>1. Holders = {} /\ Pendings = {}
      BY <2>6 DEF spin_trylock
    <3> QED
      BY <2>1, <2>6, <3>1 DEF spin_trylock
  <2>7. CASE spin_fairlock(t)
    BY <2>4, <2>7 DEF spin_fairlock, Places
  <2>8. CASE cond_resched_lock(t)
    BY <2>2, <2>8 DEF cond_resched_lock, Places
  <2>9. CASE fast_cas(t)
    BY <2>4, <2>9 DEF fast_cas, Places
  <2>10. CASE fast_wait(t)
    BY <2>3, <2>10 DEF fast_wait, Places
  <2>11. CASE slowpath_try(t)
    BY <2>3, <2>11 DEF slowpath_try, Places
  <2>12. CASE slowpath_cas(t)
    <3>1. CASE pc' = pc
      BY <3>1 DEF Holders
    <3>2. CASE pc' = [pc EXCEPT ![t] = "queue"]
      BY <2>3, <2>12, <3>2 DEF slowpath_cas, Places
    <3>3. CASE pc' = [pc EXCEPT ![t] = "pend"]
      BY <2>3, <2>12, <3>3 DEF slowpath_cas, Places
    <3>4. CASE word = 0 /\ pc' = [pc EXCEPT ![t] = "cs"]
      <4>1. Holders = {} /\ Pendings = {}
        BY <3>4
      <4> QED
        BY <2>1, <2>12, <3>4, <4>1 DEF slowpath_cas
    <3> QED
      BY <2>12, <3>1, <3>2, <3>3, <3>4 DEF slowpath_cas
  <2>13. CASE slowpath_pend(t)
    BY <2>3, <2>13 DEF slowpath_pend, Places
  <2>14. CASE clear_pending_set_locked(t)
    <3>1. Holders = {} /\ Pendings \subseteq {t}
      BY <2>14 DEF clear_pending_set_locked, Pendings
    <3> QED
      BY <2>1, <2>14, <3>1 DEF clear_pending_set_locked
  <2>15. CASE slowpath_queue(t)
    BY <2>3, <2>15 DEF slowpath_queue, Places
  <2>16. CASE slowpath_queue_cas(t)
    BY <2>4, <2>16 DEF slowpath_queue_cas, Places
  <2>17. CASE spin_unlock(t)
    BY <2>2, <2>17 DEF spin_unlock, Places
  <2> QED
    BY <1>2, <2>5, <2>6, <2>7, <2>8, <2>9, <2>10, <2>11, <2>12, <2>13, <2>14,
       <2>15, <2>16, <2>17 DEF Step, Continue
<1> QED
  BY <1>1, <1>2 DEF Next, Lock!RwNext

(* While a thread is pending nobody else enters the critical section. *)
THEOREM SpinNoLockStealing == Spec => NoLockStealing
<1>1. SpinInv /\ [Next]_vars =>
        [\A t \in Threads, u \in Pendings :
            t \notin Holders /\ t \in Holders' => t = u]_vars
  BY OwnerStep
<1> QED
  BY <1>1, SpinInvHolds, PTL DEF Spec, NoLockStealing

(* The spinlock implements AbstractRwLock without readers: an exclusive lock. *)
THEOREM SpinImplementsLock == Spec => ImplementsLock
<1>1. Init => Lock!RwInit
  BY DEF Init, Lock!RwInit, Holders
<1>2. SpinInv /\ [Next]_vars => [Lock!RwNext]_<<{}, Holders>>
  BY OwnerStep
<1> QED
  BY <1>1, <1>2, SpinInvHolds, PTL DEF Spec, ImplementsLock, Lock!RwSpec

-----------------------------------------------------------------------------
(***************************************************************************)
(* RecursiveMutex.  The owner field is what a caller trusts; the invariant *)
(* says for every place in the code whether the thread there is the holder *)
(* of the mutex, is named by owner, and how its calls relate to nr_depths. *)
(***************************************************************************)
Owning(t) == rmpc[t] \in {"enter", "unlock"} \/ calls[t] > 0

RecInv ==
  /\ RecTypeOK
  /\ \A t \in Lockers :
       /\ t \in holders <=> Owning(t) \/ rmpc[t] \in {"set_owner", "release"}
       /\ owner = t <=> Owning(t)
       /\ rmpc[t] \notin {"out", "enter"} => calls[t] = 0
       /\ rmpc[t] \in {"lock", "trylock", "set_owner", "enter"} => calls[t] < MaxDepth
       /\ t \in holders => holders = {t} /\ nr_depths = calls[t]
  /\ holders = {} => nr_depths = 0

LEMMA RecInitInv ==
  ASSUME MaxDepth \in Nat, NoLocker \notin Lockers, RecInit
  PROVE  RecInv
BY DEF RecInit, RecInv, RecTypeOK, RecPlaces, Owning

LEMMA RecStepInv ==
  ASSUME MaxDepth \in Nat, NoLocker \notin Lockers, RecInv, [RecNext]_rmvars
  PROVE  RecInv'
<1>1. CASE UNCHANGED rmvars
  BY <1>1 DEF rmvars, RecInv, RecTypeOK, Owning
<1>2. ASSUME NEW t \in Lockers, recursive_mutex_lock(t)
      PROVE  RecInv'
  BY <1>2 DEF RecInv, RecTypeOK, RecPlaces, RecGoto, Owning, recursive_mutex_lock
<1>3. ASSUME NEW t \in Lockers, recursive_mutex_trylock(t)
      PROVE  RecInv'
  BY <1>3 DEF RecInv, RecTypeOK, RecPlaces, RecGoto, Owning, recursive_mutex_trylock
<1>4. ASSUME NEW t \in Lockers, lock_acquire(t)
      PROVE  RecInv'
  BY <1>4 DEF RecInv, RecTypeOK, RecPlaces, RecGoto, Owning, lock_acquire, mutex!AcquireWrite
<1>5. ASSUME NEW t \in Lockers, trylock_fail(t)
      PROVE  RecInv'
  BY <1>5 DEF RecInv, RecTypeOK, RecPlaces, RecGoto, Owning, trylock_fail
<1>6. ASSUME NEW t \in Lockers, lock_set_owner(t)
      PROVE  RecInv'
  BY <1>6 DEF RecInv, RecTypeOK, RecPlaces, RecGoto, Owning, lock_set_owner
<1>7. ASSUME NEW t \in Lockers, lock_enter(t)
      PROVE  RecInv'
  BY <1>7 DEF RecInv, RecTypeOK, RecPlaces, RecGoto, Owning, lock_enter
<1>8. ASSUME NEW t \in Lockers, recursive_mutex_unlock(t)
      PROVE  RecInv'
  BY <1>8 DEF RecInv, RecTypeOK, RecPlaces, RecGoto, Owning, recursive_mutex_unlock
<1>9. ASSUME NEW t \in Lockers, unlock_clear_owner(t)
      PROVE  RecInv'
  BY <1>9 DEF RecInv, RecTypeOK, RecPlaces, RecGoto, Owning, unlock_clear_owner
<1>10. ASSUME NEW t \in Lockers, unlock_release(t)
      PROVE  RecInv'
  BY <1>10 DEF RecInv, RecTypeOK, RecPlaces, RecGoto, Owning, unlock_release, mutex!ReleaseWrite
<1> QED
  BY <1>1, <1>2, <1>3, <1>4, <1>5, <1>6, <1>7, <1>8, <1>9, <1>10 DEF RecNext, RecStep

(* recursive_mutex_lock and recursive_mutex_unlock: the threads inside are *)
(* one, which owner names, nr_depths is its number of calls, and it never  *)
(* waits for the mutex it holds, for any set of threads and any depth.     *)
THEOREM RecursiveMutexCounts ==
  ASSUME MaxDepth \in Nat, NoLocker \notin Lockers
  PROVE  RecSpec => []RecursionIsCounted
<1>1. RecInit => RecInv
  BY RecInitInv
<1>2. RecInv /\ [RecNext]_rmvars => RecInv'
  BY RecStepInv
<1>3. RecInv => RecursionIsCounted
  BY DEF RecInv, RecTypeOK, Owning, RecursionIsCounted, OneThreadInside, NoSelfDeadlock, Inside
<1> QED
  BY <1>1, <1>2, <1>3, PTL DEF RecSpec

-----------------------------------------------------------------------------
(***************************************************************************)
(* SeqLock.  The invariant counts the increments of the sequence since the *)
(* start, Bumps, and says for a reader in its section at which count it    *)
(* began.  With fewer than SeqModulus increments two equal sequence values *)
(* mean two equal counts, also when the value went round; and at an even   *)
(* count nobody writes, so the reader has what the words still hold.       *)
(***************************************************************************)
SeqAssumptions ==
  /\ SeqModulus \in Nat /\ SeqModulus >= 2 /\ SeqModulus % 2 = 0
  /\ MaxWrites \in Nat /\ 2 * MaxWrites < SeqModulus
  /\ NoWriter \notin SeqWriters

WriterPc == IF seq_owner \in SeqWriters THEN wpc[seq_owner] ELSE "out"

(* The increments made when the k-th write is at p. *)
BumpsAt(k, p) ==
  IF p = "begin" THEN 2 * k - 2
  ELSE IF p \in {"first", "second", "end"} THEN 2 * k - 1 ELSE 2 * k
Bumps == BumpsAt(writes, WriterPc)

(* The sequence after n increments that start at s. *)
SeqAt(s, n) == IF s + n < SeqModulus THEN s + n ELSE s + n - SeqModulus

SeqTypeOK ==
  /\ seq_owner \in SeqWriters \cup {NoWriter}
  /\ wpc \in [SeqWriters -> {"out", "begin", "first", "second", "end", "unlock"}]
  /\ \A w \in SeqWriters : wpc[w] # "out" <=> seq_owner = w
  /\ writes \in 0 .. MaxWrites
  /\ WriterPc # "out" => writes > 0
  /\ words \in [{1, 2} -> Nat]
  /\ reader \in [SeqReaders -> [pc : {"out", "first", "second", "retry", "content"},
                                iv : Nat, first : Nat, second : Nat]]

WordsAgree ==
  IF WriterPc = "second" THEN words[1] = writes ELSE words[1] = words[2]

ReaderBegan(s, r) ==
  \E n \in 0 .. Bumps :
    /\ reader[r].iv = SeqAt(s, n)
    /\ n = Bumps /\ n % 2 = 0 =>
         /\ reader[r].pc \in {"second", "retry"} => reader[r].first = words[1]
         /\ reader[r].pc = "retry" => reader[r].second = words[2]

SeqInv(s) ==
  /\ SeqTypeOK
  /\ sequence = SeqAt(s, Bumps)
  /\ WordsAgree
  /\ \A r \in SeqReaders :
       /\ reader[r].pc \in {"first", "second", "retry"} => ReaderBegan(s, r)
       /\ reader[r].pc = "content" => reader[r].first = reader[r].second

LEMMA BumpsFacts ==
  ASSUME SeqAssumptions, NEW k \in 0 .. MaxWrites,
         NEW p \in {"out", "begin", "first", "second", "end", "unlock"},
         p # "out" => k > 0
  PROVE  /\ BumpsAt(k, p) \in 0 .. 2 * MaxWrites
         /\ p \in {"begin", "unlock", "out"} <=> BumpsAt(k, p) % 2 = 0
BY DEF BumpsAt, SeqAssumptions

(* Counts and sequence values: SeqAt is one to one on the counts there can *)
(* be, keeps their parity, and follows the increment.                      *)
LEMMA SeqAtFacts ==
  ASSUME SeqAssumptions, NEW s \in {0, SeqModulus - 2}, NEW n \in 0 .. 2 * MaxWrites
  PROVE  /\ SeqAt(s, n) \in 0 .. SeqModulus - 1
         /\ SeqAt(s, n) % 2 = n % 2
         /\ \A k \in 0 .. 2 * MaxWrites : SeqAt(s, n) = SeqAt(s, k) => n = k
         /\ n < 2 * MaxWrites => (SeqAt(s, n) + 1) % SeqModulus = SeqAt(s, n + 1)
<1>1. SeqAt(s, n) \in 0 .. SeqModulus - 1
  BY DEF SeqAssumptions, SeqAt
<1>2. \A k \in 0 .. 2 * MaxWrites : SeqAt(s, n) = SeqAt(s, k) => n = k
  BY DEF SeqAssumptions, SeqAt
<1>3. SeqAt(s, n) % 2 = n % 2
  BY DEF SeqAssumptions, SeqAt
<1>4. ASSUME NEW x \in 0 .. SeqModulus - 1
      PROVE  (x + 1) % SeqModulus = IF x + 1 = SeqModulus THEN 0 ELSE x + 1
  BY DEF SeqAssumptions
<1>5. n < 2 * MaxWrites => (SeqAt(s, n) + 1) % SeqModulus = SeqAt(s, n + 1)
  <2>1. (SeqAt(s, n) + 1) % SeqModulus =
          IF SeqAt(s, n) + 1 = SeqModulus THEN 0 ELSE SeqAt(s, n) + 1
    BY <1>1, <1>4
  <2> QED
    BY <2>1 DEF SeqAssumptions, SeqAt
<1> QED
  BY <1>1, <1>2, <1>3, <1>5

(* A writer's step: where the writer is, and what the count becomes. *)
LEMMA WriterMoves ==
  ASSUME SeqAssumptions, SeqTypeOK, NEW w \in SeqWriters,
         \/ SeqLockTaken(w) \/ SeqBegin(w) \/ WriteWord(w) \/ SeqEnd(w) \/ SeqUnlock(w)
  PROVE  /\ SeqTypeOK'
         /\ \/ SeqLockTaken(w) /\ WriterPc = "out" /\ WriterPc' = "begin"
            \/ SeqBegin(w) /\ WriterPc = "begin" /\ WriterPc' = "first"
            \/ WriteWord(w) /\ WriterPc = "first" /\ WriterPc' = "second"
            \/ WriteWord(w) /\ WriterPc = "second" /\ WriterPc' = "end"
            \/ SeqEnd(w) /\ WriterPc = "end" /\ WriterPc' = "unlock"
            \/ SeqUnlock(w) /\ WriterPc = "unlock" /\ WriterPc' = "out"
<1>1. /\ wpc' \in [SeqWriters -> {"out", "begin", "first", "second", "end", "unlock"}]
      /\ \A v \in SeqWriters \ {w} : wpc'[v] = wpc[v]
  BY DEF SeqTypeOK, SeqLockTaken, SeqBegin, WriteWord, SeqEnd, SeqUnlock
<1>2. /\ seq_owner' \in SeqWriters \cup {NoWriter}
      /\ \A v \in SeqWriters : wpc'[v] # "out" <=> seq_owner' = v
  BY <1>1 DEF SeqAssumptions, SeqTypeOK, SeqLockTaken, SeqBegin, WriteWord, SeqEnd, SeqUnlock
<1>3. writes' \in 0 .. MaxWrites /\ (SeqLockTaken(w) => writes' > 0)
  BY DEF SeqAssumptions, SeqTypeOK, SeqLockTaken, SeqBegin, WriteWord, SeqEnd, SeqUnlock
<1>4. words' \in [{1, 2} -> Nat] /\ reader' = reader
  BY DEF SeqTypeOK, SeqLockTaken, SeqBegin, WriteWord, SeqEnd, SeqUnlock
<1>5. \/ SeqLockTaken(w) /\ WriterPc = "out" /\ WriterPc' = "begin"
      \/ SeqBegin(w) /\ WriterPc = "begin" /\ WriterPc' = "first"
      \/ WriteWord(w) /\ WriterPc = "first" /\ WriterPc' = "second"
      \/ WriteWord(w) /\ WriterPc = "second" /\ WriterPc' = "end"
      \/ SeqEnd(w) /\ WriterPc = "end" /\ WriterPc' = "unlock"
      \/ SeqUnlock(w) /\ WriterPc = "unlock" /\ WriterPc' = "out"
  BY <1>1, <1>2
     DEF SeqAssumptions, SeqTypeOK, WriterPc, SeqLockTaken, SeqBegin, WriteWord, SeqEnd, SeqUnlock
<1>6. WriterPc' # "out" => writes' > 0
  BY <1>3, <1>5 DEF SeqTypeOK, SeqBegin, WriteWord, SeqEnd, SeqUnlock
<1> QED
  BY <1>1, <1>2, <1>3, <1>4, <1>5, <1>6 DEF SeqTypeOK

LEMMA WriterKeepsInv ==
  ASSUME SeqAssumptions, NEW s \in {0, SeqModulus - 2}, SeqInv(s), NEW w \in SeqWriters,
         \/ SeqLockTaken(w) \/ SeqBegin(w) \/ WriteWord(w) \/ SeqEnd(w) \/ SeqUnlock(w)
  PROVE  SeqInv(s)'
<1>1. SeqTypeOK /\ SeqTypeOK'
  BY Zenon, WriterMoves DEF SeqInv
<1>2. /\ Bumps \in 0 .. 2 * MaxWrites /\ Bumps' \in 0 .. 2 * MaxWrites
      /\ \/ Bumps' = Bumps /\ sequence' = sequence /\ words' = words
         \/ Bumps' = Bumps /\ sequence' = sequence /\ Bumps % 2 = 1
         \/ Bumps' = Bumps + 1 /\ sequence' = (sequence + 1) % SeqModulus /\ words' = words
  <2>1. /\ WriterPc \in {"out", "begin", "first", "second", "end", "unlock"}
        /\ WriterPc' \in {"out", "begin", "first", "second", "end", "unlock"}
        /\ writes \in 0 .. MaxWrites /\ writes' \in 0 .. MaxWrites
        /\ WriterPc # "out" => writes > 0
        /\ WriterPc' # "out" => writes' > 0
    BY <1>1, WriterMoves DEF SeqTypeOK
  <2>2. Bumps \in 0 .. 2 * MaxWrites /\ Bumps' \in 0 .. 2 * MaxWrites
    BY <2>1, BumpsFacts DEF Bumps
  <2>3. Bumps % 2 = 1 <=> WriterPc \in {"first", "second", "end"}
    BY <2>1, <2>2, BumpsFacts DEF Bumps
  <2>4. \/ SeqLockTaken(w) /\ WriterPc = "out" /\ WriterPc' = "begin"
        \/ SeqBegin(w) /\ WriterPc = "begin" /\ WriterPc' = "first"
        \/ WriteWord(w) /\ WriterPc = "first" /\ WriterPc' = "second"
        \/ WriteWord(w) /\ WriterPc = "second" /\ WriterPc' = "end"
        \/ SeqEnd(w) /\ WriterPc = "end" /\ WriterPc' = "unlock"
        \/ SeqUnlock(w) /\ WriterPc = "unlock" /\ WriterPc' = "out"
    BY <1>1, WriterMoves
  <2>5. \/ Bumps' = Bumps /\ sequence' = sequence /\ words' = words
        \/ Bumps' = Bumps /\ sequence' = sequence /\ WriterPc \in {"first", "second"}
        \/ Bumps' = Bumps + 1 /\ sequence' = (sequence + 1) % SeqModulus /\ words' = words
    <3>1. CASE SeqLockTaken(w) /\ WriterPc = "out" /\ WriterPc' = "begin"
      BY <2>1, <3>1 DEF Bumps, BumpsAt, SeqLockTaken
    <3>2. CASE SeqBegin(w) /\ WriterPc = "begin" /\ WriterPc' = "first"
      BY <2>1, <3>2 DEF Bumps, BumpsAt, SeqBegin, Bump
    <3>3. CASE WriteWord(w) /\ WriterPc = "first" /\ WriterPc' = "second"
      BY <2>1, <3>3 DEF Bumps, BumpsAt, WriteWord
    <3>4. CASE WriteWord(w) /\ WriterPc = "second" /\ WriterPc' = "end"
      BY <2>1, <3>4 DEF Bumps, BumpsAt, WriteWord
    <3>5. CASE SeqEnd(w) /\ WriterPc = "end" /\ WriterPc' = "unlock"
      BY <2>1, <3>5 DEF Bumps, BumpsAt, SeqEnd, Bump
    <3>6. CASE SeqUnlock(w) /\ WriterPc = "unlock" /\ WriterPc' = "out"
      BY <2>1, <3>6 DEF Bumps, BumpsAt, SeqUnlock
    <3> QED
      BY <2>4, <3>1, <3>2, <3>3, <3>4, <3>5, <3>6
  <2> QED
    BY <2>2, <2>3, <2>5
<1>3. sequence' = SeqAt(s, Bumps')
  <2>1. Bumps < 2 * MaxWrites => (SeqAt(s, Bumps) + 1) % SeqModulus = SeqAt(s, Bumps + 1)
    BY <1>2, SeqAtFacts
  <2>2. sequence = SeqAt(s, Bumps)
    BY DEF SeqInv
  <2> HIDE DEF Bumps
  <2> QED
    BY <1>2, <2>1, <2>2 DEF SeqAssumptions
<1>4. WordsAgree'
  <2>1. words \in [{1, 2} -> Nat] /\ WordsAgree
    BY <1>1 DEF SeqTypeOK, SeqInv
  <2>2. ASSUME WriteWord(w), WriterPc = "first", WriterPc' = "second"
        PROVE  WordsAgree'
    <3>1. wpc[w] = "first"
      BY <1>1, <2>2 DEF SeqTypeOK, WriterPc, WriteWord
    <3> QED
      BY <2>1, <2>2, <3>1 DEF WordsAgree, WriteWord
  <2>3. ASSUME WriteWord(w), WriterPc = "second", WriterPc' = "end"
        PROVE  WordsAgree'
    <3>1. wpc[w] = "second"
      BY <1>1, <2>3 DEF SeqTypeOK, WriterPc, WriteWord
    <3> QED
      BY <2>1, <2>3, <3>1 DEF WordsAgree, WriteWord
  <2>4. ASSUME words' = words, WriterPc # "second", WriterPc' # "second"
        PROVE  WordsAgree'
    BY <2>1, <2>4 DEF WordsAgree
  <2> QED
    BY <1>1, <2>2, <2>3, <2>4, WriterMoves DEF SeqLockTaken, SeqBegin, SeqEnd, SeqUnlock
<1>5. reader' = reader
  BY DEF SeqLockTaken, SeqBegin, WriteWord, SeqEnd, SeqUnlock
<1>6. ASSUME NEW r \in SeqReaders, reader[r].pc \in {"first", "second", "retry"}
      PROVE  ReaderBegan(s, r)'
  <2>1. PICK n \in 0 .. Bumps :
          /\ reader[r].iv = SeqAt(s, n)
          /\ n = Bumps /\ n % 2 = 0 =>
               /\ reader[r].pc \in {"second", "retry"} => reader[r].first = words[1]
               /\ reader[r].pc = "retry" => reader[r].second = words[2]
    BY <1>6 DEF SeqInv, ReaderBegan
  <2>2. n \in 0 .. Bumps' /\ (n = Bumps' /\ n % 2 = 0 => n = Bumps /\ words' = words)
    BY <1>2
  <2> QED
    BY <1>5, <2>1, <2>2 DEF ReaderBegan, SeqAt
<1> QED
  BY ZenonT(30), <1>1, <1>3, <1>4, <1>5, <1>6 DEF SeqInv, SeqAt

(* A reader's step touches nothing but its own record. *)
LEMMA ReaderKeepsInv ==
  ASSUME SeqAssumptions, NEW s \in {0, SeqModulus - 2}, SeqInv(s), NEW r \in SeqReaders,
         \/ read_seqbegin(r) \/ ReadWord(r) \/ read_seqretry(r) \/ ReadAgain(r)
  PROVE  SeqInv(s)'
<1>1. /\ UNCHANGED <<sequence, seq_owner, words, wpc, writes>>
      /\ \A q \in SeqReaders \ {r} : reader'[q] = reader[q]
  BY DEF SeqInv, SeqTypeOK, read_seqbegin, ReadWord, read_seqretry, ReadAgain
<1>2. UNCHANGED <<Bumps, WriterPc, WordsAgree>>
  BY <1>1 DEF Bumps, WriterPc, WordsAgree
<1>3. /\ Bumps \in 0 .. 2 * MaxWrites
      /\ WriterPc \in {"begin", "unlock", "out"} <=> Bumps % 2 = 0
  <2>1. WriterPc \in {"out", "begin", "first", "second", "end", "unlock"}
    BY DEF SeqInv, SeqTypeOK, WriterPc
  <2> QED
    BY <2>1, BumpsFacts DEF SeqInv, SeqTypeOK, Bumps
<1>4. sequence = SeqAt(s, Bumps) /\ sequence \in Nat
  BY <1>3, SeqAtFacts DEF SeqInv
<1>5. words[1] \in Nat /\ words[2] \in Nat
  BY DEF SeqInv, SeqTypeOK
<1> DEFINE Rec == [pc : {"out", "first", "second", "retry", "content"},
                   iv : Nat, first : Nat, second : Nat]
<1>6. reader \in [SeqReaders -> Rec]
  BY DEF SeqInv, SeqTypeOK
<1>7. ASSUME reader'[r] \in Rec,
             reader'[r].pc \in {"first", "second", "retry"} => ReaderBegan(s, r)',
             reader'[r].pc = "content" => reader'[r].first = reader'[r].second
      PROVE  SeqInv(s)'
  <2>1. reader' \in [SeqReaders -> Rec]
    BY <1>6, <1>7 DEF read_seqbegin, ReadWord, read_seqretry, ReadAgain
  <2>2. SeqTypeOK'
    BY <1>1, <1>2, <2>1 DEF SeqInv, SeqTypeOK
  <2>3. ASSUME NEW q \in SeqReaders \ {r}
        PROVE  /\ reader'[q].pc \in {"first", "second", "retry"} => ReaderBegan(s, q)'
               /\ reader'[q].pc = "content" => reader'[q].first = reader'[q].second
    BY ZenonT(30), <1>1, <1>2, <2>3 DEF SeqInv, ReaderBegan, SeqAt
  <2> QED
    BY <1>1, <1>2, <1>4, <1>7, <2>2, <2>3 DEF SeqInv, SeqAt
<1>8. CASE read_seqbegin(r)
  <2>1. reader'[r] = [reader[r] EXCEPT !.pc = "first", !.iv = sequence]
    BY <1>6, <1>8 DEF read_seqbegin
  <2>2. reader'[r] \in Rec /\ reader'[r].pc = "first" /\ reader'[r].iv = sequence
    <3>1. reader[r] \in Rec
      BY <1>6
    <3>2. reader'[r] = [pc |-> "first", iv |-> sequence, first |-> reader[r].first,
                        second |-> reader[r].second]
      BY ZenonT(30), <2>1, <3>1
    <3>3. reader[r].first \in Nat /\ reader[r].second \in Nat
      BY <3>1
    <3> QED
      BY <1>4, <3>2, <3>3
  <2>3. ReaderBegan(s, r)'
    BY SMTT(30), <1>1, <1>2, <1>3, <1>4, <2>2 DEF ReaderBegan, SeqAt
  <2> QED
    BY <1>7, <2>2, <2>3
<1>9. ASSUME reader[r].pc \in {"first", "second", "retry"}
      PROVE  \E n \in 0 .. Bumps :
               /\ reader[r].iv = SeqAt(s, n)
               /\ n = Bumps /\ n % 2 = 0 =>
                    /\ reader[r].pc \in {"second", "retry"} => reader[r].first = words[1]
                    /\ reader[r].pc = "retry" => reader[r].second = words[2]
  BY <1>9 DEF SeqInv, ReaderBegan
<1>10. CASE ReadWord(r) /\ reader[r].pc = "first"
  <2>1. reader'[r] = [reader[r] EXCEPT !.pc = "second", !.first = words[1]]
    BY <1>6, <1>10 DEF ReadWord
  <2>2. /\ reader'[r] \in Rec /\ reader'[r].pc = "second" /\ reader'[r].iv = reader[r].iv
        /\ reader'[r].first = words[1]
    <3>1. reader[r] \in Rec
      BY <1>6
    <3> QED
      BY Zenon, <1>5, <2>1, <3>1
  <2>3. ReaderBegan(s, r)'
    BY <1>1, <1>2, <1>9, <1>10, <2>2 DEF ReaderBegan, SeqAt
  <2> QED
    BY Zenon, <1>7, <2>2, <2>3
<1>11. CASE ReadWord(r) /\ reader[r].pc = "second"
  <2>1. reader'[r] = [reader[r] EXCEPT !.pc = "retry", !.second = words[2]]
    BY <1>6, <1>11 DEF ReadWord
  <2>2. /\ reader'[r] \in Rec /\ reader'[r].pc = "retry" /\ reader'[r].iv = reader[r].iv
        /\ reader'[r].first = reader[r].first /\ reader'[r].second = words[2]
    <3>1. reader[r] \in Rec
      BY <1>6
    <3> QED
      BY Zenon, <1>5, <2>1, <3>1
  <2>3. ReaderBegan(s, r)'
    BY <1>1, <1>2, <1>9, <1>11, <2>2 DEF ReaderBegan, SeqAt
  <2> QED
    BY <1>7, <2>2, <2>3
<1>12. Fresh \in Rec /\ Fresh.pc = "out"
  BY DEF Fresh
<1>13. CASE read_seqretry(r) /\ (reader[r].iv % 2 = 1 \/ reader[r].iv # sequence)
  <2>1. reader'[r] = Fresh
    BY <1>6, <1>13 DEF read_seqretry
  <2> QED
    BY <1>7, <1>12, <2>1
<1>14. CASE read_seqretry(r) /\ ~(reader[r].iv % 2 = 1 \/ reader[r].iv # sequence)
  <2>1. reader'[r] = [reader[r] EXCEPT !.pc = "content"]
    BY <1>6, <1>14 DEF read_seqretry
  <2>2. /\ reader'[r] \in Rec /\ reader'[r].pc = "content"
        /\ reader'[r].first = reader[r].first /\ reader'[r].second = reader[r].second
    BY <1>6, <2>1
  <2>3. PICK n \in 0 .. Bumps :
          /\ reader[r].iv = SeqAt(s, n)
          /\ n = Bumps /\ n % 2 = 0 =>
               reader[r].first = words[1] /\ reader[r].second = words[2]
    BY <1>9, <1>14 DEF read_seqretry
  <2>4. n \in 0 .. 2 * MaxWrites
    BY <1>3 DEF SeqAssumptions
  <2>5. n = Bumps
    BY <1>3, <1>4, <1>14, <2>3, <2>4, SeqAtFacts
  <2>6. n % 2 = 0
    <3>1. reader[r].iv % 2 = n % 2
      BY <2>3, <2>4, SeqAtFacts
    <3> QED
      BY <1>14, <2>4, <3>1
  <2>7. words[1] = words[2]
    BY <1>3, <2>5, <2>6 DEF SeqInv, WordsAgree
  <2> QED
    BY <1>7, <2>2, <2>3, <2>5, <2>6, <2>7
<1>15. CASE ReadAgain(r)
  <2>1. reader'[r] = Fresh
    BY <1>6, <1>15 DEF ReadAgain
  <2> QED
    BY <1>7, <1>12, <2>1
<1> QED
  BY <1>8, <1>10, <1>11, <1>13, <1>14, <1>15 DEF ReadWord

(* read_seqretry: a reader that is let go has read the two words of one    *)
(* write, for any number of writers and readers, an even modulus and less  *)
(* than half of it writes in the behaviour.                                *)
THEOREM SeqLockReadIsConsistent ==
  ASSUME SeqAssumptions
  PROVE  SeqSpec => []ReadIsConsistent
<1> DEFINE Inv == \E s \in {0, SeqModulus - 2} : SeqInv(s)
<1>1. SeqInit => Inv
  <2> SUFFICES ASSUME SeqInit PROVE SeqInv(sequence)
    BY DEF SeqInit
  <2>1. WriterPc = "out" /\ Bumps = 0
    BY DEF SeqInit, WriterPc, Bumps, BumpsAt, SeqAssumptions
  <2>2. SeqAt(sequence, 0) = sequence
    BY DEF SeqInit, SeqAt, SeqAssumptions
  <2>3. reader \in [SeqReaders -> [pc : {"out", "first", "second", "retry", "content"},
                                   iv : Nat, first : Nat, second : Nat]]
        /\ \A r \in SeqReaders : reader[r].pc = "out"
    BY DEF SeqInit, Fresh
  <2>4. words \in [{1, 2} -> Nat] /\ words[1] = words[2]
    BY DEF SeqInit
  <2>5. SeqTypeOK
    BY <2>1, <2>3, <2>4 DEF SeqInit, SeqTypeOK, SeqAssumptions
  <2> QED
    BY <2>1, <2>2, <2>3, <2>4, <2>5 DEF SeqInv, WordsAgree
<1>2. Inv /\ [SeqNext]_sqvars => Inv'
  <2> SUFFICES ASSUME NEW s \in {0, SeqModulus - 2}, SeqInv(s), [SeqNext]_sqvars
               PROVE  SeqInv(s)'
    OBVIOUS
  <2>1. CASE UNCHANGED sqvars
    BY SMTT(30), <2>1 DEF sqvars, SeqInv, SeqTypeOK, Bumps, BumpsAt, WriterPc, WordsAgree, ReaderBegan, SeqAt
  <2>2. CASE SeqNext
    BY <2>2, WriterKeepsInv, ReaderKeepsInv DEF SeqNext
  <2> QED
    BY <2>1, <2>2
<1>3. Inv => ReadIsConsistent
  BY DEF SeqInv, ReadIsConsistent
<1> HIDE DEF Inv
<1> QED
  BY <1>1, <1>2, <1>3, PTL DEF SeqSpec
=============================================================================
