----------------------------- MODULE PoolProofs -----------------------------
(***************************************************************************)
(* Proofs about WorkerPool: a pool stays ready for its works and keeps its *)
(* accounts.                                                               *)
(***************************************************************************)
EXTENDS WorkerPool, ListLemmas

-----------------------------------------------------------------------------
(***************************************************************************)
(* The inductive invariant.  Beside what PoolStaysReady says it names the  *)
(* owner of the lock by its place (PlLock), ties the idle list to the      *)
(* workers told to die (PlIdle), keeps the manager unique so that the pool *)
(* does not grow behind its back (PlManager, PlFull), and follows the      *)
(* worker that will come for the works on the list: it is the first of the *)
(* idle workers or not idle, and so not the one that the idle timer        *)
(* destroys (PlLazy), and a worker goes to sleep past works only if        *)
(* another one is busy (PlSleep).                                          *)
(***************************************************************************)
PoolAssumptions ==
  /\ IsFiniteSet(Workers) /\ First \in Workers /\ NoWorker \notin Workers
  /\ NoWork \notin PoolWorks /\ MaxWorkers \in Nat \ {0} /\ Bound \in BOOLEAN

HasLock == {"recheck", "clr_prep", "claim", "keep", "set_prep", "sleep"}
Managing == {"create", "cooldown", "relock"}
Busy == {"run", "hook", "hook_lock", "asleep", "return"}

PlTypes ==
  /\ pool_lock \in Workers \cup {NoWorker}
  /\ worklist \in Seq(PoolWorks) /\ pending \subseteq PoolWorks
  /\ nr_running \in Int /\ nr_workers \in Int
  /\ idle_worker \in Seq(Workers)
  /\ manager \in BOOLEAN /\ idle_timer \in BOOLEAN
  /\ curr_work \in [Workers -> PoolWorks \cup {NoWork}]
  /\ scheduled \in [Workers -> Seq(PoolWorks)]
  /\ die \subseteq Workers
  /\ release \in {"no", "manager", "detach", "wait", "done"}
  /\ wkpc \in [Workers -> Places]

PlLock == \A w \in Workers : wkpc[w] \in HasLock <=> pool_lock = w

PlIdle ==
  /\ Distinct(idle_worker)
  /\ \A w \in Workers :
       /\ Occurs(idle_worker, w) <=> w \notin die /\ wkpc[w] \in {"idle", "woke"}
       /\ w \in die => wkpc[w] \in {"woke", "detach"}
       /\ wkpc[w] = "detach" => w \in die

PlManager ==
  /\ \A v, w \in Workers : wkpc[v] \in Managing /\ wkpc[w] \in Managing => v = w
  /\ \A w \in Workers : wkpc[w] \in Managing => manager /\ release \in {"no", "manager"}
  /\ manager /\ release \in {"no", "manager"} => \E w \in Workers : wkpc[w] \in Managing

PlCount == nr_workers = Cardinality({w \in Workers : LiveWorker(w)})

PlRunning ==
  /\ RunningCounted
  /\ ~Bound => \A w \in Workers : wkpc[w] \notin {"hook", "hook_lock", "asleep"}

PlFull ==
  /\ nr_workers <= MaxWorkers
  /\ \A w \in Workers : wkpc[w] = "create" => nr_workers < MaxWorkers

PlWorks ==
  /\ \A w \in Workers : curr_work[w] # NoWork <=> wkpc[w] \in Busy
  /\ NoReentrance

PlLists ==
  \A w \in Workers :
    /\ scheduled[w] # <<>> => wkpc[w] \in Busy \cup {"claim"}
    /\ wkpc[w] = "claim" => scheduled[w] # <<>> \/ worklist # <<>>
    /\ wkpc[w] = "clr_prep" => worklist # <<>>

PlReserve ==
  manager \/ idle_worker # <<>> \/ nr_workers >= MaxWorkers
  \/ \E w \in Workers : wkpc[w] \in {"recheck", "sleep"}

PlSleep ==
  \A w \in Workers : wkpc[w] \in {"set_prep", "sleep"} /\ worklist # <<>> =>
    Bound /\ \E v \in Workers : wkpc[v] \in Busy

(* worker w will look at the worklist, and is not the next to be destroyed *)
Comes(w) ==
  /\ LiveWorker(w) /\ wkpc[w] # "idle"
  /\ Occurs(idle_worker, w) => w = Head(idle_worker)
  /\ Bound \/ idle_worker = <<>> \/ wkpc[w] # "run"

PlLazy == pool_lock = NoWorker /\ worklist # <<>> => \E w \in Workers : Comes(w)

PlRelease ==
  /\ release # "no" => pending = {} /\ \A w \in Workers : curr_work[w] = NoWork
  /\ release \in {"detach", "wait", "done"} => manager /\ \A w \in Workers : ~ LiveWorker(w)
  /\ Bound => release = "no"

PlInv ==
  /\ PlTypes /\ PlLock /\ PlIdle /\ PlManager /\ PlCount /\ PlRunning /\ PlFull
  /\ PlWorks /\ QueuedOnce /\ PlLists /\ PlReserve /\ PlSleep /\ PlLazy /\ PlRelease

-----------------------------------------------------------------------------
(* A new first entry of a list. *)
LEMMA ListAddHeadFacts ==
  ASSUME NEW S, NEW s \in Seq(S), NEW e \in S, Distinct(s), ~ Occurs(s, e)
  PROVE  LET m == <<e>> \o s
         IN  /\ m \in Seq(S) /\ Distinct(m) /\ m # <<>> /\ Head(m) = e
             /\ \A u \in S : Occurs(m, u) <=> Occurs(s, u) \/ u = e
<1> DEFINE m == <<e>> \o s
<1>1. /\ m \in Seq(S) /\ Len(m) = Len(s) + 1 /\ Len(s) \in Nat /\ m[1] = e
      /\ m # <<>> /\ Head(m) = e
      /\ \A k \in 1 .. Len(s) : m[k + 1] = s[k]
  OBVIOUS
<1> HIDE DEF m
<1>2. \A k \in 2 .. Len(m) : k - 1 \in 1 .. Len(s) /\ m[k] = s[k - 1]
  BY <1>1
<1>3. \A k \in 1 .. Len(s) : k + 1 \in 1 .. Len(m) /\ m[k + 1] = s[k]
  BY <1>1
<1>4. 1 \in 1 .. Len(m) /\ \A k \in 1 .. Len(m) : k = 1 \/ k \in 2 .. Len(m)
  BY <1>1
<1>5. Distinct(m)
  <2> SUFFICES ASSUME NEW i \in 1 .. Len(m), NEW j \in 1 .. Len(m), m[i] = m[j] PROVE i = j
    BY DEF Distinct
  <2>1. CASE i = 1 \/ j = 1
    BY <2>1, <1>1, <1>2, <1>4 DEF Occurs
  <2>2. CASE i \in 2 .. Len(m) /\ j \in 2 .. Len(m)
    <3>1. i - 1 = j - 1
      BY Zenon, <2>2, <1>2 DEF Distinct
    <3> QED BY <3>1
  <2> QED BY <2>1, <2>2, <1>4
<1>6. ASSUME NEW u \in S PROVE Occurs(m, u) <=> Occurs(s, u) \/ u = e
  <2>1. Occurs(m, u) => Occurs(s, u) \/ u = e
    BY <1>1, <1>2, <1>4 DEF Occurs
  <2>2. Occurs(s, u) => Occurs(m, u)
    BY <1>3 DEF Occurs
  <2>3. u = e => Occurs(m, u)
    BY <1>1, <1>4 DEF Occurs
  <2> QED BY <2>1, <2>2, <2>3
<1> QED BY <1>1, <1>5, <1>6 DEF m

(* A list without its last entry. *)
LEMMA ListDropLastFacts ==
  ASSUME NEW S, NEW s \in Seq(S), Distinct(s), Len(s) >= 2
  PROVE  LET m == SubSeq(s, 1, Len(s) - 1)
             e == s[Len(s)]
         IN  /\ m \in Seq(S) /\ Distinct(m) /\ m # <<>> /\ Head(m) = Head(s)
             /\ e \in S /\ e # Head(s) /\ Occurs(s, e)
             /\ \A u \in S : Occurs(m, u) <=> Occurs(s, u) /\ u # e
<1> DEFINE m == SubSeq(s, 1, Len(s) - 1)
           n == Len(s)
<1>1. /\ n \in Nat /\ m \in Seq(S) /\ Len(m) = n - 1 /\ m # <<>>
      /\ \A k \in 1 .. n - 1 : m[k] = s[k]
      /\ Head(m) = s[1] /\ Head(s) = s[1] /\ s[n] \in S
  <2>1. \A i \in 1 .. n - 1 : s[i] \in S
    OBVIOUS
  <2>2. /\ n \in Nat /\ m \in Seq(S) /\ Len(m) = n - 1
        /\ \A k \in 1 .. n - 1 : m[k] = s[k]
    BY <2>1
  <2>3. Head(s) = s[1] /\ s[n] \in S
    OBVIOUS
  <2> HIDE DEF m
  <2>4. m # <<>> /\ Head(m) = m[1]
    BY <2>2
  <2> QED BY <2>2, <2>3, <2>4
<1> HIDE DEF m, n
<1>2. n >= 2
  BY DEF n
<1>3. Distinct(m)
  BY <1>1, <1>2 DEF Distinct, n
<1>4. s[n] # Head(s) /\ Occurs(s, s[n])
  BY <1>1, <1>2 DEF Distinct, Occurs, n
<1>5. ASSUME NEW u \in S PROVE Occurs(m, u) <=> Occurs(s, u) /\ u # s[n]
  <2>1. \A k \in 1 .. n : k = n \/ k \in 1 .. n - 1
    BY <1>1, <1>2
  <2>2. \A k \in 1 .. n - 1 : k \in 1 .. n /\ n \in 1 .. n /\ k # n
    BY <1>1, <1>2
  <2>3. Occurs(s, u) /\ u # s[n] => Occurs(m, u)
    BY <1>1, <2>1 DEF Occurs, n
  <2>4. Occurs(m, u) => Occurs(s, u) /\ u # s[n]
    BY <1>1, <2>2 DEF Occurs, Distinct, n
  <2> QED BY <2>3, <2>4
<1> QED BY <1>1, <1>3, <1>4, <1>5 DEF m, n

(* A list without its first entry. *)
LEMMA ListTailFacts ==
  ASSUME NEW S, NEW s \in Seq(S), Distinct(s), s # <<>>
  PROVE  /\ Tail(s) \in Seq(S) /\ Distinct(Tail(s)) /\ Head(s) \in S /\ Occurs(s, Head(s))
         /\ \A u \in S : Occurs(Tail(s), u) <=> Occurs(s, u) /\ u # Head(s)
<1> DEFINE m == Tail(s)
           n == Len(s)
<1>1. /\ n \in Nat /\ n >= 1 /\ m \in Seq(S) /\ Len(m) = n - 1
      /\ \A k \in 1 .. n - 1 : m[k] = s[k + 1]
      /\ Head(s) = s[1] /\ Head(s) \in S
  OBVIOUS
<1> HIDE DEF m, n
<1>2. \A k \in 1 .. n - 1 : k + 1 \in 1 .. n /\ k + 1 # 1
  BY <1>1
<1>3. \A k \in 1 .. n : k = 1 \/ (k - 1 \in 1 .. n - 1 /\ m[k - 1] = s[k])
  BY <1>1
<1>4. 1 \in 1 .. n
  BY <1>1
<1>5. Distinct(m)
  <2> SUFFICES ASSUME NEW i \in 1 .. n - 1, NEW j \in 1 .. n - 1, m[i] = m[j] PROVE i = j
    BY <1>1 DEF Distinct
  <2>1. i + 1 = j + 1
    BY <1>1, <1>2 DEF Distinct, n
  <2> QED BY <2>1, <1>1
<1>6. Occurs(s, Head(s))
  BY <1>1, <1>4 DEF Occurs, n
<1>7. ASSUME NEW u \in S PROVE Occurs(m, u) <=> Occurs(s, u) /\ u # Head(s)
  <2>1. Occurs(s, u) /\ u # Head(s) => Occurs(m, u)
    BY Zenon, <1>1, <1>3 DEF Occurs, n
  <2>2. Occurs(m, u) => Occurs(s, u) /\ u # Head(s)
    BY <1>1, <1>2, <1>4 DEF Occurs, Distinct, n
  <2> QED BY <2>1, <2>2
<1> QED BY <1>1, <1>5, <1>6, <1>7 DEF m

-----------------------------------------------------------------------------
(***************************************************************************)
(* What a step leaves alone.  Same(v): worker v stays where it is, or is   *)
(* woken up, which most of the invariant does not tell apart.              *)
(***************************************************************************)
Same(v) == wkpc'[v] = wkpc[v] \/ (wkpc[v] = "idle" /\ wkpc'[v] = "woke")
SameIn(S) == \A v \in Workers : wkpc'[v] \in S <=> wkpc[v] \in S

LEMMA SameInMove ==
  ASSUME NEW S, "idle" \in S <=> "woke" \in S, NEW w,
         \A v \in Workers : v # w => Same(v), wkpc'[w] \in S <=> wkpc[w] \in S
  PROVE  SameIn(S)
  BY Zenon DEF Same, SameIn

LEMMA KeepLock ==
  ASSUME PlLock, SameIn(HasLock), pool_lock' = pool_lock
  PROVE  PlLock'
  BY Zenon DEF PlLock, SameIn

LEMMA KeepIdle ==
  ASSUME PlIdle, SameIn({"idle", "woke"}),
         SameIn({"detach"}), \A v \in Workers : wkpc'[v] = "idle" => wkpc[v] = "idle",
         idle_worker' = idle_worker, die' = die
  PROVE  PlIdle'
<1>1. ASSUME NEW w \in Workers
      PROVE  /\ Occurs(idle_worker, w) <=> w \notin die /\ wkpc'[w] \in {"idle", "woke"}
             /\ w \in die => wkpc'[w] \in {"woke", "detach"}
             /\ wkpc'[w] = "detach" => w \in die
  <2>1. /\ wkpc'[w] \in {"idle", "woke"} <=> wkpc[w] \in {"idle", "woke"}
        /\ wkpc'[w] = "detach" <=> wkpc[w] = "detach"
        /\ wkpc'[w] = "idle" => wkpc[w] = "idle"
    BY Zenon DEF SameIn
  <2>2. /\ Occurs(idle_worker, w) <=> w \notin die /\ wkpc[w] \in {"idle", "woke"}
        /\ w \in die => wkpc[w] \in {"woke", "detach"}
        /\ wkpc[w] = "detach" => w \in die
    BY Zenon DEF PlIdle
  <2> QED BY <2>1, <2>2
<1> QED BY Zenon, <1>1 DEF PlIdle

LEMMA KeepManager ==
  ASSUME PlManager, SameIn(Managing), manager' = manager, release' = release
  PROVE  PlManager'
  BY Zenon DEF PlManager, SameIn

LEMMA KeepLive ==
  ASSUME SameIn({"none"}), die' = die
  PROVE  \A w \in Workers : LiveWorker(w)' <=> LiveWorker(w)
  BY Zenon DEF LiveWorker, SameIn

LEMMA KeepRunning ==
  ASSUME PlRunning, SameIn(Running), SameIn({"hook", "hook_lock", "asleep"}),
         nr_running' = nr_running
  PROVE  PlRunning'
<1>1. {w \in Workers : wkpc[w] \in Running}' = {w \in Workers : wkpc[w] \in Running}
  BY DEF SameIn
<1> QED BY Zenon, <1>1 DEF PlRunning, RunningCounted, SameIn

LEMMA KeepCount ==
  ASSUME PlCount, \A w \in Workers : LiveWorker(w)' <=> LiveWorker(w), nr_workers' = nr_workers
  PROVE  PlCount'
<1>1. {w \in Workers : LiveWorker(w)}' = {w \in Workers : LiveWorker(w)}
  OBVIOUS
<1> QED BY Zenon, <1>1 DEF PlCount

LEMMA KeepFull ==
  ASSUME PlFull, nr_workers' = nr_workers,
         \A w \in Workers : wkpc'[w] = "create" => wkpc[w] = "create"
  PROVE  PlFull'
  BY Zenon DEF PlFull

LEMMA KeepWorks ==
  ASSUME PlWorks, SameIn(Busy), curr_work' = curr_work
  PROVE  PlWorks'
  BY Zenon DEF PlWorks, NoReentrance, SameIn

LEMMA KeepQueued ==
  ASSUME QueuedOnce, worklist' = worklist, scheduled' = scheduled, pending' = pending
  PROVE  QueuedOnce'
  BY Zenon DEF QueuedOnce, Queued

LEMMA KeepLists ==
  ASSUME PlLists, worklist' = worklist, scheduled' = scheduled,
         SameIn(Busy \cup {"claim"}), SameIn({"claim"}), SameIn({"clr_prep"})
  PROVE  PlLists'
<1>1. \A w \in Workers : /\ wkpc'[w] \in Busy \cup {"claim"} <=> wkpc[w] \in Busy \cup {"claim"}
                         /\ wkpc'[w] = "claim" <=> wkpc[w] = "claim"
                         /\ wkpc'[w] = "clr_prep" <=> wkpc[w] = "clr_prep"
  BY Zenon DEF SameIn
<1> QED BY Zenon, <1>1 DEF PlLists

LEMMA KeepReserve ==
  ASSUME PlReserve, manager' = manager, idle_worker' = idle_worker, nr_workers' = nr_workers,
         SameIn({"recheck", "sleep"})
  PROVE  PlReserve'
  BY Zenon DEF PlReserve, SameIn

LEMMA KeepSleep ==
  ASSUME PlSleep, worklist' = worklist, SameIn({"set_prep", "sleep"}), SameIn(Busy)
  PROVE  PlSleep'
  BY Zenon DEF PlSleep, SameIn

LEMMA KeepRelease ==
  ASSUME PlRelease, release' = release, pending' = pending, curr_work' = curr_work,
         manager' = manager, \A w \in Workers : LiveWorker(w)' => LiveWorker(w)
  PROVE  PlRelease'
  BY Zenon DEF PlRelease

(* Who comes for the works still comes, if it does not move itself. *)
LEMMA KeepComing ==
  ASSUME NEW v \in Workers, Same(v), Comes(v), v \in die' => v \in die,
         idle_worker' = idle_worker
  PROVE  Comes(v)'
<1>1. /\ wkpc[v] # "idle" /\ wkpc'[v] = wkpc[v]
  BY Zenon DEF Same, Comes
<1> QED BY Zenon, <1>1 DEF Comes, LiveWorker

-----------------------------------------------------------------------------
(***************************************************************************)
(* Steps in which a worker moves and nothing else changes, but nr_running. *)
(***************************************************************************)
PlFrame ==
  /\ pool_lock' = pool_lock /\ worklist' = worklist /\ pending' = pending
  /\ curr_work' = curr_work /\ scheduled' = scheduled
  /\ idle_worker' = idle_worker /\ nr_workers' = nr_workers /\ manager' = manager
  /\ idle_timer' = idle_timer /\ die' = die /\ release' = release

Moves(w) == wkpc' \in [Workers -> Places] /\ \A v \in Workers : v # w => Same(v)

LEMMA FrameTypes ==
  ASSUME PlTypes, PlFrame, nr_running' \in Int, wkpc' \in [Workers -> Places]
  PROVE  PlTypes'
  BY Zenon DEF PlTypes, PlFrame

(* the manager, without the lock *)
ManagerMoves(w) ==
  /\ PlFrame /\ nr_running' = nr_running /\ Moves(w)
  /\ wkpc[w] \in Managing /\ wkpc'[w] \in Managing
  /\ wkpc'[w] = "create" => nr_workers < MaxWorkers

LEMMA ManagerStep ==
  ASSUME PoolAssumptions, PlInv, NEW w \in Workers, ManagerMoves(w)
  PROVE  PlInv'
<1>1. /\ PlFrame /\ nr_running' = nr_running /\ Moves(w)
      /\ wkpc[w] \in Managing /\ wkpc'[w] \in Managing
      /\ wkpc'[w] = "create" => nr_workers < MaxWorkers
  BY DEF ManagerMoves
<1>2. SameIn(HasLock) /\ SameIn(Managing) /\ SameIn(Running) /\ SameIn(Busy)
  BY <1>1 DEF Moves, Same, SameIn, HasLock, Managing, Running, Busy
<1>3. /\ SameIn({"idle", "woke"}) /\ SameIn({"detach"}) /\ SameIn({"none"})
      /\ SameIn({"hook", "hook_lock", "asleep"})
      /\ SameIn(Busy \cup {"claim"}) /\ SameIn({"claim"}) /\ SameIn({"clr_prep"})
      /\ SameIn({"recheck", "sleep"}) /\ SameIn({"set_prep", "sleep"})
  BY <1>1 DEF Moves, Same, SameIn, Managing, Busy
<1>4. /\ \A v \in Workers : wkpc'[v] = "idle" => wkpc[v] = "idle"
      /\ \A v \in Workers : v # w => (wkpc'[v] = "create" <=> wkpc[v] = "create")
  BY <1>1 DEF Moves, Same, Managing
<1>5. \A v \in Workers : LiveWorker(v)' <=> LiveWorker(v)
  BY Zenon, <1>1, <1>3, KeepLive DEF PlFrame
<1>6. PlTypes'
  BY Zenon, <1>1, FrameTypes DEF PlInv, PlTypes, Moves
<1>7. PlLock' /\ PlIdle' /\ PlManager'
  BY Zenon, <1>1, <1>2, <1>3, <1>4, KeepLock, KeepIdle, KeepManager DEF PlInv, PlFrame
<1>8. PlCount' /\ PlRunning' /\ PlWorks'
  BY Zenon, <1>1, <1>2, <1>3, <1>5, KeepCount, KeepRunning, KeepWorks DEF PlInv, PlFrame
<1>9. PlFull'
  BY Zenon, <1>1, <1>4 DEF PlInv, PlFull, PlFrame
<1>10. QueuedOnce' /\ PlLists' /\ PlReserve'
  BY Zenon, <1>1, <1>3, KeepQueued, KeepLists, KeepReserve DEF PlInv, PlFrame
<1>11. PlSleep' /\ PlRelease'
  BY Zenon, <1>1, <1>2, <1>3, <1>5, KeepSleep, KeepRelease DEF PlInv, PlFrame
<1>12. PlLazy'
  <2> SUFFICES ASSUME pool_lock = NoWorker, worklist # <<>> PROVE \E v \in Workers : Comes(v)'
    BY Zenon, <1>1 DEF PlLazy, PlFrame
  <2>1. PICK v \in Workers : Comes(v)
    BY Zenon DEF PlInv, PlLazy
  <2>2. CASE v = w
    <3>1. wkpc'[w] # "idle" /\ wkpc'[w] # "run"
      BY <1>1 DEF Managing
    <3> QED BY Zenon, <2>1, <2>2, <3>1, <1>1, <1>5 DEF Comes, PlFrame
  <2>3. CASE v # w
    BY Zenon, <1>1, <2>1, <2>3, KeepComing DEF Moves, PlFrame
  <2> QED BY <2>2, <2>3
<1> QED
  BY Zenon, <1>6, <1>7, <1>8, <1>9, <1>10, <1>11, <1>12 DEF PlInv

LEMMA ManagerSteps ==
  ASSUME PoolAssumptions, PlTypes, NEW w \in Workers,
         \/ cooldown(w) \/ create_worker_fails(w)
         \/ manage_workers_done(w) /\ need_to_create_worker
  PROVE  ManagerMoves(w)
<1>1. /\ UNCHANGED <<pool_lock, works, nr_running, workers, release>>
      /\ \E p \in {"create", "cooldown", "relock"} :
            Goto(w, p) /\ (p = "create" => need_to_create_worker)
      /\ wkpc[w] \in Managing
  <2>1. CASE cooldown(w) \/ create_worker_fails(w)
    BY <2>1 DEF cooldown, create_worker_fails, Managing
  <2>2. CASE manage_workers_done(w) /\ need_to_create_worker
    BY <2>2 DEF manage_workers_done, Managing, works, workers
  <2> QED BY <2>1, <2>2
<1>2. PlFrame /\ nr_running' = nr_running
  BY <1>1 DEF PlFrame, works, workers
<1>3. PICK p \in {"create", "cooldown", "relock"} :
        Goto(w, p) /\ (p = "create" => need_to_create_worker)
  BY <1>1
<1>4. Moves(w) /\ wkpc'[w] = p
  BY <1>3 DEF Goto, Moves, Same, PlTypes, Places
<1>5. p = "create" => nr_workers < MaxWorkers
  BY <1>3 DEF need_to_create_worker, may_start_working, PlTypes, PoolAssumptions
<1> QED BY Zenon, <1>1, <1>2, <1>3, <1>4, <1>5 DEF ManagerMoves, Managing

-----------------------------------------------------------------------------
(* nr_running follows one worker that moves. *)
Counted(w) ==
  nr_running' = IF Bound
                THEN nr_running + (IF wkpc'[w] \in Running THEN 1 ELSE 0)
                                - (IF wkpc[w] \in Running THEN 1 ELSE 0)
                ELSE nr_running

LEMMA RunningMoves ==
  ASSUME PoolAssumptions, PlTypes, PlRunning, NEW w \in Workers, Moves(w), Counted(w),
         ~Bound => wkpc'[w] \notin {"hook", "hook_lock", "asleep"}
  PROVE  PlRunning' /\ nr_running' \in Int
<1> DEFINE R == {v \in Workers : wkpc[v] \in Running}
           Q == {v \in Workers : wkpc'[v] \in Running}
<1>1. \A v \in Workers : v # w => (wkpc'[v] \in Running <=> wkpc[v] \in Running)
  BY DEF Moves, Same, Running
<1>2. IsFiniteSet(R) /\ Cardinality(R) \in Nat /\ nr_running \in Int
  <2>1. R \in SUBSET Workers
    OBVIOUS
  <2> QED BY Zenon, <2>1, CardSubset, CardType DEF PoolAssumptions, PlTypes
<1> DEFINE Goal == /\ Bound => nr_running' = nr_running + Cardinality(Q) - Cardinality(R)
                   /\ ~Bound => nr_running' = nr_running
                   /\ Cardinality(Q) \in Int
<1>3. ASSUME wkpc'[w] \in Running /\ wkpc[w] \notin Running PROVE Goal
  <2>1. Q = R \cup {w} /\ w \notin R
    BY <1>1, <1>3
  <2> HIDE DEF R, Q
  <2>2. Cardinality(Q) = Cardinality(R) + 1
    BY <1>2, <2>1, CardAdd
  <2>3. nr_running' = (IF Bound THEN nr_running + 1 ELSE nr_running)
    BY <1>3 DEF Counted, PlTypes
  <2> QED BY <1>2, <2>2, <2>3
<1>4. ASSUME wkpc'[w] \notin Running /\ wkpc[w] \in Running PROVE Goal
  <2>1. Q = R \ {w} /\ w \in R
    BY <1>1, <1>4
  <2> HIDE DEF R, Q
  <2>2. Cardinality(Q) = Cardinality(R) - 1
    BY Zenon, <1>2, <2>1, CardRemove
  <2>3. nr_running' = (IF Bound THEN nr_running - 1 ELSE nr_running)
    BY <1>4 DEF Counted, PlTypes
  <2> QED BY <1>2, <2>2, <2>3
<1>5. ASSUME wkpc'[w] \in Running <=> wkpc[w] \in Running PROVE Goal
  <2>1. Q = R
    BY <1>1, <1>5
  <2>2. nr_running' = nr_running
    BY <1>5 DEF Counted, PlTypes
  <2> QED BY <1>2, <2>1, <2>2
<1>6. Goal
  BY Zenon, <1>3, <1>4, <1>5
<1>7. nr_running' = (IF Bound THEN Cardinality(Q) ELSE 0) /\ nr_running' \in Int
  <2> HIDE DEF R, Q
  <2>1. nr_running = IF Bound THEN Cardinality(R) ELSE 0
    BY DEF PlRunning, RunningCounted, R
  <2>2. CASE Bound
    BY <1>2, <1>6, <2>1, <2>2
  <2>3. CASE ~Bound
    BY Zenon, <1>2, <1>6, <2>1, <2>3
  <2> QED BY <2>2, <2>3
<1>8. ~Bound => \A v \in Workers : wkpc'[v] \notin {"hook", "hook_lock", "asleep"}
  BY DEF PlRunning, Moves, Same
<1> QED BY Zenon, <1>7, <1>8 DEF PlRunning, RunningCounted

(* a busy worker: a work returns, blocks or goes on *)
BusyMoves(w) ==
  /\ PlFrame /\ Moves(w) /\ Counted(w)
  /\ wkpc[w] \in Busy /\ wkpc'[w] \in Busy
  /\ ~Bound => wkpc'[w] = "return"

LEMMA BusyStep ==
  ASSUME PoolAssumptions, PlInv, NEW w \in Workers, BusyMoves(w)
  PROVE  PlInv'
<1>1. /\ PlFrame /\ Moves(w) /\ Counted(w)
      /\ wkpc[w] \in Busy /\ wkpc'[w] \in Busy
      /\ ~Bound => wkpc'[w] = "return"
  BY DEF BusyMoves
<1>2. SameIn(HasLock) /\ SameIn(Managing) /\ SameIn(Busy)
  BY <1>1 DEF Moves, Same, SameIn, HasLock, Managing, Busy
<1>3. /\ SameIn({"idle", "woke"}) /\ SameIn({"detach"}) /\ SameIn({"none"})
      /\ SameIn(Busy \cup {"claim"}) /\ SameIn({"claim"}) /\ SameIn({"clr_prep"})
      /\ SameIn({"recheck", "sleep"}) /\ SameIn({"set_prep", "sleep"})
  BY <1>1 DEF Moves, Same, SameIn, Busy
<1>4. /\ \A v \in Workers : wkpc'[v] = "idle" => wkpc[v] = "idle"
      /\ \A v \in Workers : wkpc'[v] = "create" => wkpc[v] = "create"
  BY <1>1 DEF Moves, Same, Busy
<1>5. \A v \in Workers : LiveWorker(v)' <=> LiveWorker(v)
  BY Zenon, <1>1, <1>3, KeepLive DEF PlFrame
<1>6. PlRunning' /\ PlTypes'
  <2>1. PlTypes /\ PlRunning
    BY DEF PlInv
  <2>2. PlRunning' /\ nr_running' \in Int
    BY Zenon, <1>1, <2>1, RunningMoves
  <2> QED BY Zenon, <1>1, <2>1, <2>2, FrameTypes DEF Moves
<1>7. PlLock' /\ PlIdle' /\ PlManager'
  BY Zenon, <1>1, <1>2, <1>3, <1>4, KeepLock, KeepIdle, KeepManager DEF PlInv, PlFrame
<1>8. PlCount' /\ PlFull' /\ PlWorks'
  BY Zenon, <1>1, <1>2, <1>4, <1>5, KeepCount, KeepFull, KeepWorks DEF PlInv, PlFrame
<1>9. QueuedOnce' /\ PlLists' /\ PlReserve'
  BY Zenon, <1>1, <1>3, KeepQueued, KeepLists, KeepReserve DEF PlInv, PlFrame
<1>10. PlSleep' /\ PlRelease'
  BY Zenon, <1>1, <1>2, <1>3, <1>5, KeepSleep, KeepRelease DEF PlInv, PlFrame
<1>11. PlLazy'
  <2> SUFFICES ASSUME pool_lock = NoWorker, worklist # <<>> PROVE \E v \in Workers : Comes(v)'
    BY Zenon, <1>1 DEF PlLazy, PlFrame
  <2>1. PICK v \in Workers : Comes(v)
    BY Zenon DEF PlInv, PlLazy
  <2>2. CASE v = w
    <3>1. wkpc'[w] # "idle" /\ (~Bound => wkpc'[w] # "run")
      BY <1>1 DEF Busy
    <3> QED BY Zenon, <2>1, <2>2, <3>1, <1>1, <1>5 DEF Comes, PlFrame
  <2>3. CASE v # w
    BY Zenon, <1>1, <2>1, <2>3, KeepComing DEF Moves, PlFrame
  <2> QED BY <2>2, <2>3
<1> QED
  BY Zenon, <1>6, <1>7, <1>8, <1>9, <1>10, <1>11 DEF PlInv

(* Waking somebody up is a step of no worker. *)
LEMMA WakeSame ==
  ASSUME PlTypes, NEW c
  PROVE  LET pcs == IF c THEN wake_up_worker(wkpc) ELSE wkpc
         IN  /\ pcs \in [Workers -> Places]
             /\ \A v \in Workers : pcs[v] = wkpc[v] \/ (wkpc[v] = "idle" /\ pcs[v] = "woke")
             /\ c /\ idle_worker # <<>> => /\ Head(idle_worker) \in Workers
                                           /\ pcs[Head(idle_worker)] # "idle"
<1>1. wkpc \in [Workers -> Places] /\ idle_worker \in Seq(Workers)
  BY DEF PlTypes
<1>2. idle_worker # <<>> => Head(idle_worker) \in Workers
  BY <1>1
<1>3. CASE idle_worker = <<>> \/ ~c
  BY <1>1, <1>3 DEF wake_up_worker
<1>4. CASE idle_worker # <<>> /\ c
  <2>1. Head(idle_worker) \in Workers
    BY <1>2, <1>4
  <2>2. (IF c THEN wake_up_worker(wkpc) ELSE wkpc)
          = [wkpc EXCEPT ![Head(idle_worker)] = IF @ = "idle" THEN "woke" ELSE @]
    BY <1>4 DEF wake_up_worker, Wake
  <2> QED BY Zenon, <1>1, <2>1, <2>2 DEF Places
<1> QED BY Zenon, <1>3, <1>4

LEMMA BusySteps ==
  ASSUME PoolAssumptions, PlTypes, PlRunning, NEW w \in Workers,
         \/ func_returns(w) \/ wq_worker_sleeping(w) \/ wq_worker_waking_up(w)
         \/ sleeping_peek(w) \/ sleeping_wake(w)
  PROVE  BusyMoves(w)
<1>1. /\ wkpc \in [Workers -> Places] /\ nr_running \in Int
      /\ ~Bound => wkpc[w] \notin {"hook", "hook_lock", "asleep"}
  BY Zenon DEF PlTypes, PlRunning
<1>2. CASE func_returns(w)
  <2>1. PlFrame /\ nr_running' = nr_running /\ Goto(w, "return") /\ wkpc[w] = "run"
    BY <1>2 DEF func_returns, PlFrame, works, workers
  <2> QED BY <1>1, <2>1 DEF BusyMoves, Goto, Moves, Same, Counted, Running, Busy, Places
<1>3. CASE wq_worker_sleeping(w)
  <2>1. PlFrame /\ nr_running' = nr_running - 1 /\ wkpc[w] = "run" /\ Bound
    BY Zenon, <1>1, <1>3 DEF wq_worker_sleeping, PlFrame, works, workers, add_running
  <2>2. PICK p \in {"hook", "asleep"} : Goto(w, p)
    BY Zenon, <1>3 DEF wq_worker_sleeping
  <2> QED BY <1>1, <2>1, <2>2 DEF BusyMoves, Goto, Moves, Same, Counted, Running, Busy, Places
<1>4. CASE wq_worker_waking_up(w)
  <2>1. PlFrame /\ nr_running' = nr_running + 1 /\ wkpc[w] = "asleep" /\ Bound /\ Goto(w, "run")
    BY Zenon, <1>1, <1>4 DEF wq_worker_waking_up, PlFrame, works, workers, add_running
  <2> QED BY <1>1, <2>1 DEF BusyMoves, Goto, Moves, Same, Counted, Running, Busy, Places
<1>5. CASE sleeping_peek(w)
  <2>1. PlFrame /\ nr_running' = nr_running /\ wkpc[w] = "hook"
    BY <1>5 DEF sleeping_peek, PlFrame, works, workers
  <2>2. PICK p \in {"hook_lock", "asleep"} : Goto(w, p)
    BY Zenon, <1>5 DEF sleeping_peek
  <2> QED BY <1>1, <2>1, <2>2 DEF BusyMoves, Goto, Moves, Same, Counted, Running, Busy, Places
<1>6. CASE sleeping_wake(w)
  <2>1. PlFrame /\ nr_running' = nr_running /\ wkpc[w] = "hook_lock"
    BY <1>6 DEF sleeping_wake, PlFrame, works, workers
  <2> DEFINE pcs == IF worklist # <<>> THEN wake_up_worker(wkpc) ELSE wkpc
  <2>2. wkpc' = [pcs EXCEPT ![w] = "asleep"]
    BY Zenon, <1>6 DEF sleeping_wake
  <2>3. /\ pcs \in [Workers -> Places]
        /\ \A v \in Workers : pcs[v] = wkpc[v] \/ (wkpc[v] = "idle" /\ pcs[v] = "woke")
    BY Zenon, WakeSame
  <2> HIDE DEF pcs
  <2>4. Moves(w) /\ wkpc'[w] = "asleep"
    BY <2>2, <2>3 DEF Moves, Same, Places
  <2> QED BY <1>1, <2>1, <2>4 DEF BusyMoves, Counted, Running, Busy
<1> QED BY Zenon, <1>2, <1>3, <1>4, <1>5, <1>6

(* the owner of the lock: it starts to work, goes on or stops *)
LockMoves(w) ==
  /\ PlFrame /\ Moves(w) /\ Counted(w)
  /\ wkpc[w] \in HasLock /\ wkpc'[w] \in HasLock
  /\ \/ wkpc[w] = "recheck" /\ wkpc'[w] = "sleep" /\ ~need_more_worker
     \/ /\ wkpc[w] = "recheck" /\ wkpc'[w] = "clr_prep"
        /\ need_more_worker /\ (may_start_working \/ manager)
     \/ wkpc[w] = "clr_prep" /\ wkpc'[w] = "claim"
     \/ wkpc[w] = "keep" /\ wkpc'[w] = "claim" /\ keep_working
     \/ wkpc[w] = "keep" /\ wkpc'[w] = "set_prep" /\ ~keep_working
     \/ wkpc[w] = "set_prep" /\ wkpc'[w] = "sleep"

(* If nr_running says that more workers run than the owner of the lock,    *)
(* one of them is in its work.                                             *)
LEMMA OthersRun ==
  ASSUME PoolAssumptions, PlLock, PlRunning, PlTypes, NEW w \in Workers, pool_lock = w,
         nr_running # 0, nr_running = 1 => wkpc[w] \notin Running
  PROVE  Bound /\ \E v \in Workers : v # w /\ wkpc[v] \in Busy
<1> DEFINE R == {v \in Workers : wkpc[v] \in Running}
<1>1. Bound /\ nr_running = Cardinality(R)
  BY Zenon DEF PlRunning, RunningCounted
<1>2. IsFiniteSet(R)
  <2>1. R \in SUBSET Workers
    OBVIOUS
  <2> QED BY <2>1, CardSubset DEF PoolAssumptions
<1>3. \E v \in R : v # w
  <2> SUFFICES ASSUME \A v \in R : v = w PROVE FALSE
    OBVIOUS
  <2>1. CASE wkpc[w] \in Running
    <3>1. R = {w}
      BY <2>1
    <3> HIDE DEF R
    <3> QED BY Zenon, <1>1, <2>1, <3>1, CardSingleton
  <2>2. CASE wkpc[w] \notin Running
    <3>1. R = {}
      BY <2>2
    <3> HIDE DEF R
    <3> QED BY <1>1, <3>1, CardEmpty
  <2> QED BY <2>1, <2>2
<1>4. PICK v \in Workers : v # w /\ wkpc[v] \in Running
  BY <1>3
<1>5. wkpc[v] \notin HasLock
  BY Zenon, <1>4 DEF PlLock
<1>6. wkpc[v] \in Busy
  BY <1>4, <1>5 DEF Running, HasLock, Busy
<1> QED BY <1>1, <1>4, <1>6

LEMMA LockStep ==
  ASSUME PoolAssumptions, PlInv, NEW w \in Workers, LockMoves(w)
  PROVE  PlInv'
<1>1. /\ PlFrame /\ Moves(w) /\ Counted(w)
      /\ wkpc[w] \in HasLock /\ wkpc'[w] \in HasLock
  BY DEF LockMoves
<1>2. SameIn(HasLock) /\ SameIn(Managing) /\ SameIn(Busy)
  BY <1>1 DEF Moves, Same, SameIn, HasLock, Managing, Busy
<1>3. /\ SameIn({"idle", "woke"}) /\ SameIn({"detach"}) /\ SameIn({"none"})
  BY <1>1 DEF Moves, Same, SameIn, HasLock
<1>4. /\ \A v \in Workers : wkpc'[v] = "idle" => wkpc[v] = "idle"
      /\ \A v \in Workers : wkpc'[v] = "create" => wkpc[v] = "create"
  BY <1>1 DEF Moves, Same, HasLock
<1>5. \A v \in Workers : LiveWorker(v)' <=> LiveWorker(v)
  BY Zenon, <1>1, <1>3, KeepLive DEF PlFrame
<1>6. PlRunning' /\ PlTypes'
  <2>1. PlTypes /\ PlRunning
    BY DEF PlInv
  <2>2. wkpc'[w] \notin {"hook", "hook_lock", "asleep"}
    BY <1>1 DEF HasLock
  <2>3. PlRunning' /\ nr_running' \in Int
    BY Zenon, <1>1, <2>1, <2>2, RunningMoves
  <2> QED BY Zenon, <1>1, <2>1, <2>3, FrameTypes DEF Moves
<1>7. PlLock' /\ PlIdle' /\ PlManager'
  BY Zenon, <1>1, <1>2, <1>3, <1>4, KeepLock, KeepIdle, KeepManager DEF PlInv, PlFrame
<1>8. PlCount' /\ PlFull' /\ PlWorks'
  BY Zenon, <1>1, <1>2, <1>4, <1>5, KeepCount, KeepFull, KeepWorks DEF PlInv, PlFrame
<1>9. QueuedOnce' /\ PlRelease'
  BY Zenon, <1>1, <1>5, KeepQueued, KeepRelease DEF PlInv, PlFrame
<1>10. pool_lock = w /\ pool_lock' = w /\ w # NoWorker
  BY Zenon, <1>1 DEF PlInv, PlLock, PlFrame, PoolAssumptions
<1>11. PlLazy'
  BY Zenon, <1>10 DEF PlLazy
<1>12. \A v \in Workers : v # w => wkpc[v] \notin HasLock /\ wkpc'[v] \notin HasLock
  BY Zenon, <1>10, <1>7 DEF PlInv, PlLock
<1>13. PlLists'
  <2>1. ASSUME NEW v \in Workers, v # w
        PROVE  /\ scheduled[v] # <<>> => wkpc'[v] \in Busy \cup {"claim"}
               /\ wkpc'[v] # "claim" /\ wkpc'[v] # "clr_prep"
    <3>1. scheduled[v] # <<>> => wkpc[v] \in Busy
      BY <1>12, <2>1 DEF PlInv, PlLists, HasLock
    <3>2. wkpc'[v] \in Busy <=> wkpc[v] \in Busy
      BY Zenon, <1>2 DEF SameIn
    <3> QED BY Zenon, <1>12, <2>1, <3>1, <3>2 DEF HasLock
  <2>2. /\ scheduled[w] = <<>>
        /\ wkpc'[w] = "claim" \/ wkpc'[w] = "clr_prep" => worklist # <<>>
    <3>1. wkpc[w] # "claim" /\ wkpc[w] \notin Busy
      BY DEF LockMoves, Busy
    <3>2. scheduled[w] = <<>> /\ (wkpc[w] = "clr_prep" => worklist # <<>>)
      BY Zenon, <3>1 DEF PlInv, PlLists
    <3> QED BY <3>2 DEF LockMoves, need_more_worker, keep_working
  <2> QED BY Zenon, <1>1, <2>1, <2>2 DEF PlLists, PlFrame
<1>14. PlReserve'
  <2>1. CASE wkpc'[w] = "sleep"
    BY Zenon, <2>1 DEF PlReserve
  <2>2. CASE wkpc[w] = "recheck" /\ wkpc'[w] # "sleep"
    <3>1. may_start_working \/ manager
      BY <2>2 DEF LockMoves
    <3> QED BY Zenon, <1>1, <3>1 DEF PlReserve, may_start_working, PlFrame
  <2>3. CASE wkpc[w] # "recheck" /\ wkpc'[w] # "sleep"
    <3>1. wkpc[w] \notin {"recheck", "sleep"} /\ wkpc'[w] \notin {"recheck", "sleep"}
      BY <2>3 DEF LockMoves
    <3>2. \A v \in Workers : v # w => wkpc[v] \notin {"recheck", "sleep"}
      BY Zenon, <1>12 DEF HasLock
    <3> QED BY Zenon, <1>1, <3>1, <3>2 DEF PlInv, PlReserve, PlFrame
  <2> QED BY <2>1, <2>2, <2>3
<1>15. PlSleep'
  <2> SUFFICES ASSUME NEW u \in Workers, wkpc'[u] \in {"set_prep", "sleep"}, worklist # <<>>
               PROVE  Bound /\ \E v \in Workers : wkpc'[v] \in Busy
    BY Zenon, <1>1 DEF PlSleep, PlFrame
  <2>1. u = w
    BY Zenon, <1>12 DEF HasLock
  <2>2. SUFFICES Bound /\ \E v \in Workers : wkpc[v] \in Busy
    BY Zenon, <1>2 DEF SameIn
  <2>3. CASE wkpc[w] = "set_prep"
    BY Zenon, <2>3 DEF PlInv, PlSleep
  <2>4. CASE wkpc[w] # "set_prep"
    <3>1. nr_running # 0 /\ (nr_running = 1 => wkpc[w] \notin Running)
      BY <2>1, <2>4 DEF LockMoves, need_more_worker, keep_working, PlInv, PlTypes, Running
    <3> QED BY Zenon, <1>10, <3>1, OthersRun DEF PlInv
  <2> QED BY <2>3, <2>4
<1> QED
  BY Zenon, <1>6, <1>7, <1>8, <1>9, <1>11, <1>13, <1>14, <1>15 DEF PlInv

LEMMA LockSteps ==
  ASSUME PoolAssumptions, PlTypes, NEW w \in Workers,
         \/ recheck(w) /\ wkpc'[w] # "create"
         \/ clr_prep(w) \/ keep_working_check(w) \/ set_prep(w)
  PROVE  LockMoves(w)
<1>1. wkpc \in [Workers -> Places] /\ nr_running \in Int
  BY Zenon DEF PlTypes
<1>2. CASE recheck(w) /\ wkpc'[w] # "create"
  <2>1. \/ ~need_more_worker /\ Goto(w, "sleep") /\ UNCHANGED <<pool_lock, manager>>
        \/ /\ need_more_worker /\ (may_start_working \/ manager)
           /\ Goto(w, "clr_prep") /\ UNCHANGED <<pool_lock, manager>>
    BY Zenon, <1>1, <1>2 DEF recheck, Goto
  <2>2. PlFrame /\ nr_running' = nr_running /\ wkpc[w] = "recheck"
    BY Zenon, <1>2, <2>1 DEF recheck, PlFrame, works
  <2>3. PICK p \in {"sleep", "clr_prep"} : Goto(w, p)
    BY <2>1
  <2>4. Moves(w) /\ wkpc'[w] = p
    BY <1>1, <2>3 DEF Goto, Moves, Same, Places
  <2>5. Counted(w)
    BY <1>1, <2>2, <2>4 DEF Counted, Running
  <2>6. \/ wkpc'[w] = "sleep" /\ ~need_more_worker
        \/ /\ wkpc'[w] = "clr_prep"
           /\ need_more_worker /\ (may_start_working \/ manager)
    BY <1>1, <2>1 DEF Goto
  <2> QED BY Zenon, <2>2, <2>4, <2>5, <2>6 DEF LockMoves, HasLock
<1>3. CASE clr_prep(w)
  <2>1. /\ PlFrame /\ wkpc[w] = "clr_prep" /\ Goto(w, "claim")
        /\ nr_running' = IF Bound THEN nr_running + 1 ELSE nr_running
    BY <1>3 DEF clr_prep, PlFrame, works, workers, add_running
  <2>2. Moves(w) /\ wkpc'[w] = "claim"
    BY <1>1, <2>1 DEF Goto, Moves, Same, Places
  <2>3. Counted(w)
    BY <1>1, <2>1, <2>2 DEF Counted, Running
  <2> QED BY Zenon, <2>1, <2>2, <2>3 DEF LockMoves, HasLock
<1>4. CASE keep_working_check(w)
  <2>1. /\ PlFrame /\ wkpc[w] = "keep" /\ nr_running' = nr_running
        /\ Goto(w, IF keep_working THEN "claim" ELSE "set_prep")
    BY <1>4 DEF keep_working_check, PlFrame, works, workers
  <2>2. Moves(w) /\ wkpc'[w] = IF keep_working THEN "claim" ELSE "set_prep"
    BY <1>1, <2>1 DEF Goto, Moves, Same, Places
  <2>3. Counted(w)
    BY <1>1, <2>1, <2>2 DEF Counted, Running
  <2> QED BY Zenon, <2>1, <2>2, <2>3 DEF LockMoves, HasLock
<1>5. CASE set_prep(w)
  <2>1. /\ PlFrame /\ wkpc[w] = "set_prep" /\ Goto(w, "sleep")
        /\ nr_running' = IF Bound THEN nr_running - 1 ELSE nr_running
    BY Zenon, <1>1, <1>5 DEF set_prep, PlFrame, works, workers, add_running
  <2>2. Moves(w) /\ wkpc'[w] = "sleep"
    BY <1>1, <2>1 DEF Goto, Moves, Same, Places
  <2>3. Counted(w)
    BY <1>1, <2>1, <2>2 DEF Counted, Running
  <2> QED BY Zenon, <2>1, <2>2, <2>3 DEF LockMoves, HasLock
<1> QED BY Zenon, <1>2, <1>3, <1>4, <1>5

-----------------------------------------------------------------------------
(***************************************************************************)
(* The lock is taken: by a worker that was woken up and leaves the idle    *)
(* list, by the manager that has finished, after a work.                   *)
(***************************************************************************)
Takes(w) ==
  /\ pool_lock = NoWorker /\ pool_lock' = w /\ Moves(w)
  /\ wkpc[w] \notin HasLock /\ wkpc'[w] \in HasLock
  /\ wkpc[w] \in Running <=> wkpc'[w] \in Running
  /\ worklist' = worklist /\ scheduled' = scheduled /\ pending' = pending
  /\ nr_running' = nr_running /\ nr_workers' = nr_workers
  /\ die' = die /\ release' = release /\ idle_timer' = idle_timer

(* what taking the lock does not depend on *)
LEMMA TakeStep ==
  ASSUME PoolAssumptions, PlInv, NEW w \in Workers, Takes(w),
         wkpc[w] # "none", wkpc'[w] \notin {"set_prep", "sleep"}
  PROVE  /\ PlLock' /\ PlCount' /\ PlRunning' /\ PlFull' /\ QueuedOnce' /\ PlSleep' /\ PlLazy'
         /\ \A v \in Workers : LiveWorker(v)' <=> LiveWorker(v)
<1>1. /\ pool_lock = NoWorker /\ pool_lock' = w /\ Moves(w) /\ NoWorker \notin Workers
      /\ wkpc[w] \notin HasLock /\ wkpc'[w] \in HasLock
      /\ wkpc[w] \in Running <=> wkpc'[w] \in Running
      /\ worklist' = worklist /\ scheduled' = scheduled /\ pending' = pending
      /\ nr_running' = nr_running /\ nr_workers' = nr_workers /\ die' = die
  BY DEF Takes, PoolAssumptions
<1>2. \A v \in Workers : wkpc[v] \notin HasLock
  BY Zenon, <1>1 DEF PlInv, PlLock
<1>3. \A v \in Workers : v # w => wkpc'[v] \notin HasLock
  BY Zenon, <1>1, <1>2 DEF Moves, Same, HasLock
<1>4. PlLock'
  BY Zenon, <1>1, <1>3 DEF PlLock
<1>5. SameIn({"none"}) /\ SameIn(Running)
  BY <1>1 DEF Moves, Same, SameIn, HasLock, Running
<1>6. \A v \in Workers : LiveWorker(v)' <=> LiveWorker(v)
  BY Zenon, <1>1, <1>5, KeepLive
<1>7. PlCount' /\ QueuedOnce'
  BY Zenon, <1>1, <1>6, KeepCount, KeepQueued DEF PlInv
<1>8. PlFull'
  <2>1. \A v \in Workers : wkpc'[v] = "create" => wkpc[v] = "create"
    BY <1>1 DEF Moves, Same, HasLock
  <2> QED BY Zenon, <1>1, <2>1, KeepFull DEF PlInv
<1>9. PlRunning'
  <2>1. Counted(w)
    BY <1>1 DEF Counted, PlInv, PlTypes
  <2>2. wkpc'[w] \notin {"hook", "hook_lock", "asleep"}
    BY <1>1 DEF HasLock
  <2> QED BY Zenon, <1>1, <2>1, <2>2, RunningMoves DEF PlInv
<1>10. PlSleep'
  <2>1. \A v \in Workers : wkpc'[v] \notin {"set_prep", "sleep"}
    BY <1>3 DEF HasLock
  <2> QED BY Zenon, <2>1 DEF PlSleep
<1>11. PlLazy'
  BY Zenon, <1>1 DEF PlLazy
<1> QED BY Zenon, <1>4, <1>6, <1>7, <1>8, <1>9, <1>10, <1>11

(* worker_cb, woken up and not told to die *)
LEMMA WokeStep ==
  ASSUME PoolAssumptions, PlInv, NEW w \in Workers, woke_up(w), w \notin die
  PROVE  PlInv'
<1>1. /\ wkpc \in [Workers -> Places] /\ idle_worker \in Seq(Workers)
      /\ Distinct(idle_worker)
  BY Zenon DEF PlInv, PlTypes, PlIdle
<1>2. /\ wkpc[w] = "woke" /\ pool_lock = NoWorker /\ pool_lock' = w
      /\ idle_worker' = list_del(idle_worker, w) /\ Goto(w, "recheck")
      /\ worklist' = worklist /\ scheduled' = scheduled /\ pending' = pending
      /\ curr_work' = curr_work /\ nr_running' = nr_running /\ nr_workers' = nr_workers
      /\ manager' = manager /\ idle_timer' = idle_timer /\ die' = die /\ release' = release
  BY DEF woke_up, works
<1>3. Moves(w) /\ wkpc'[w] = "recheck"
  BY <1>1, <1>2 DEF Goto, Moves, Same, Places
<1>4. Takes(w)
  BY <1>2, <1>3 DEF Takes, HasLock, Running
<1>5. /\ PlLock' /\ PlCount' /\ PlRunning' /\ PlFull' /\ QueuedOnce' /\ PlSleep' /\ PlLazy'
      /\ \A v \in Workers : LiveWorker(v)' <=> LiveWorker(v)
  <2>1. wkpc[w] # "none" /\ wkpc'[w] \notin {"set_prep", "sleep"}
    BY <1>2, <1>3
  <2> QED BY Zenon, <1>4, <2>1, TakeStep
<1>6. /\ idle_worker' \in Seq(Workers) /\ Distinct(idle_worker')
      /\ \A u \in Workers : Occurs(idle_worker', u) <=> Occurs(idle_worker, u) /\ u # w
  <2>1. Occurs(idle_worker, w)
    BY Zenon, <1>2 DEF PlInv, PlIdle
  <2> QED BY Zenon, <1>1, <1>2, <2>1, ListDelFacts
<1>7. PlTypes'
  BY Zenon, <1>2, <1>3, <1>6 DEF PlInv, PlTypes, Moves
<1>8. PlIdle'
  <2>1. ASSUME NEW v \in Workers
        PROVE  /\ Occurs(idle_worker', v) <=> v \notin die /\ wkpc'[v] \in {"idle", "woke"}
               /\ v \in die => wkpc'[v] \in {"woke", "detach"}
               /\ wkpc'[v] = "detach" => v \in die
    <3>1. /\ Occurs(idle_worker, v) <=> v \notin die /\ wkpc[v] \in {"idle", "woke"}
          /\ v \in die => wkpc[v] \in {"woke", "detach"}
          /\ wkpc[v] = "detach" => v \in die
      BY Zenon DEF PlInv, PlIdle
    <3> QED BY Zenon, <1>3, <1>6, <3>1 DEF Moves, Same
  <2> QED BY Zenon, <1>2, <1>6, <2>1 DEF PlIdle
<1>9. SameIn(Managing) /\ SameIn(Busy)
  BY Zenon, <1>2, <1>3 DEF Moves, Same, SameIn, Managing, Busy
<1>10. SameIn(Busy \cup {"claim"}) /\ SameIn({"claim"}) /\ SameIn({"clr_prep"})
  BY Zenon, <1>2, <1>3 DEF Moves, Same, SameIn, Busy
<1>11. PlManager' /\ PlWorks' /\ PlLists' /\ PlRelease'
  BY Zenon, <1>2, <1>5, <1>9, <1>10, KeepManager, KeepWorks, KeepLists, KeepRelease DEF PlInv
<1>12. PlReserve'
  BY Zenon, <1>3 DEF PlReserve
<1> QED BY Zenon, <1>5, <1>7, <1>8, <1>11, <1>12 DEF PlInv

(* manage_workers, done *)
LEMMA ManagedStep ==
  ASSUME PoolAssumptions, PlInv, NEW w \in Workers, manage_workers_done(w),
         ~need_to_create_worker
  PROVE  PlInv'
<1>1. wkpc \in [Workers -> Places]
  BY Zenon DEF PlInv, PlTypes
<1>2. /\ wkpc[w] = "relock" /\ pool_lock = NoWorker /\ pool_lock' = w
      /\ manager' = FALSE /\ Goto(w, "recheck")
      /\ worklist' = worklist /\ scheduled' = scheduled /\ pending' = pending
      /\ curr_work' = curr_work /\ nr_running' = nr_running /\ nr_workers' = nr_workers
      /\ idle_worker' = idle_worker /\ idle_timer' = idle_timer /\ die' = die
      /\ release' = release
  BY DEF manage_workers_done, works
<1>3. Moves(w) /\ wkpc'[w] = "recheck" /\ \A v \in Workers : v # w => wkpc'[v] = wkpc[v]
  BY <1>1, <1>2 DEF Goto, Moves, Same, Places
<1>4. Takes(w)
  BY <1>2, <1>3 DEF Takes, HasLock, Running
<1>5. /\ PlLock' /\ PlCount' /\ PlRunning' /\ PlFull' /\ QueuedOnce' /\ PlSleep' /\ PlLazy'
      /\ \A v \in Workers : LiveWorker(v)' <=> LiveWorker(v)
  <2>1. wkpc[w] # "none" /\ wkpc'[w] \notin {"set_prep", "sleep"}
    BY <1>2, <1>3
  <2> QED BY Zenon, <1>4, <2>1, TakeStep
<1>6. PlTypes'
  BY Zenon, <1>2, <1>3 DEF PlInv, PlTypes, Moves
<1>7. wkpc[w] \in Managing /\ wkpc'[w] \notin Managing
  BY <1>2, <1>3 DEF Managing
<1>8. \A v \in Workers : wkpc'[v] \notin Managing
  BY Zenon, <1>3, <1>7 DEF PlInv, PlManager
<1>9. PlManager'
  BY Zenon, <1>2, <1>8 DEF PlManager
<1>10. SameIn({"idle", "woke"}) /\ SameIn({"detach"}) /\ SameIn(Busy)
  BY Zenon, <1>2, <1>3 DEF SameIn, Busy
<1>11. SameIn(Busy \cup {"claim"}) /\ SameIn({"claim"}) /\ SameIn({"clr_prep"})
  BY Zenon, <1>2, <1>3 DEF SameIn, Busy
<1>12. \A v \in Workers : wkpc'[v] = "idle" => wkpc[v] = "idle"
  BY <1>2, <1>3
<1>13. PlIdle' /\ PlWorks' /\ PlLists'
  BY Zenon, <1>2, <1>10, <1>11, <1>12, KeepIdle, KeepWorks, KeepLists DEF PlInv
<1>14. release \notin {"detach", "wait", "done"}
  BY <1>7 DEF PlInv, PlManager
<1>15. PlRelease'
  BY Zenon, <1>2, <1>14 DEF PlInv, PlRelease
<1>16. PlReserve'
  BY Zenon, <1>3 DEF PlReserve
<1> QED BY Zenon, <1>5, <1>6, <1>9, <1>13, <1>15, <1>16 DEF PlInv

(* process_one_work takes the lock again after the work *)
LEMMA DoneStep ==
  ASSUME PoolAssumptions, PlInv, NEW w \in Workers, process_one_work_done(w)
  PROVE  PlInv'
<1>1. wkpc \in [Workers -> Places] /\ curr_work \in [Workers -> PoolWorks \cup {NoWork}]
  BY Zenon DEF PlInv, PlTypes
<1>2. /\ wkpc[w] = "return" /\ pool_lock = NoWorker /\ pool_lock' = w
      /\ curr_work' = [curr_work EXCEPT ![w] = NoWork]
      /\ Goto(w, IF scheduled[w] # <<>> THEN "claim" ELSE "keep")
      /\ worklist' = worklist /\ scheduled' = scheduled /\ pending' = pending
      /\ nr_running' = nr_running /\ nr_workers' = nr_workers /\ manager' = manager
      /\ idle_worker' = idle_worker /\ idle_timer' = idle_timer /\ die' = die
      /\ release' = release
  BY DEF process_one_work_done, workers
<1>3. /\ Moves(w) /\ \A v \in Workers : v # w => wkpc'[v] = wkpc[v]
      /\ wkpc'[w] = IF scheduled[w] # <<>> THEN "claim" ELSE "keep"
  BY Zenon, <1>1, <1>2 DEF Goto, Moves, Same, Places
<1>4. Takes(w)
  BY Zenon, <1>2, <1>3 DEF Takes, HasLock, Running
<1>5. /\ PlLock' /\ PlCount' /\ PlRunning' /\ PlFull' /\ QueuedOnce' /\ PlSleep' /\ PlLazy'
      /\ \A v \in Workers : LiveWorker(v)' <=> LiveWorker(v)
  <2>1. wkpc[w] # "none" /\ wkpc'[w] \notin {"set_prep", "sleep"}
    BY <1>2, <1>3
  <2> QED BY Zenon, <1>4, <2>1, TakeStep
<1>6. /\ curr_work' \in [Workers -> PoolWorks \cup {NoWork}] /\ curr_work'[w] = NoWork
      /\ \A v \in Workers : v # w => curr_work'[v] = curr_work[v]
  BY <1>1, <1>2
<1>7. PlTypes'
  BY Zenon, <1>2, <1>3, <1>6 DEF PlInv, PlTypes, Moves
<1>8. SameIn({"idle", "woke"}) /\ SameIn({"detach"}) /\ SameIn(Managing)
  BY Zenon, <1>2, <1>3 DEF SameIn, Managing
<1>9. SameIn({"recheck", "sleep"}) /\ SameIn({"clr_prep"})
  BY Zenon, <1>2, <1>3 DEF SameIn
<1>10. \A v \in Workers : wkpc'[v] = "idle" => wkpc[v] = "idle"
  BY Zenon, <1>2, <1>3
<1>11. PlIdle' /\ PlManager' /\ PlReserve'
  BY Zenon, <1>2, <1>8, <1>9, <1>10, KeepIdle, KeepManager, KeepReserve DEF PlInv
<1>12. PlWorks'
  <2>1. wkpc'[w] \notin Busy
    BY <1>3 DEF Busy
  <2>2. \A v \in Workers : curr_work'[v] # NoWork <=> wkpc'[v] \in Busy
    BY Zenon, <1>3, <1>6, <2>1 DEF PlInv, PlWorks
  <2>3. NoReentrance'
    BY Zenon, <1>6 DEF PlInv, PlWorks, NoReentrance
  <2> QED BY <2>2, <2>3 DEF PlWorks
<1>13. PlLists'
  <2>1. /\ scheduled[w] # <<>> => wkpc'[w] \in Busy \cup {"claim"}
        /\ wkpc'[w] = "claim" => scheduled[w] # <<>>
        /\ wkpc'[w] # "clr_prep"
    BY <1>3
  <2> QED BY Zenon, <1>2, <1>3, <2>1 DEF PlInv, PlLists
<1>14. PlRelease'
  BY Zenon, <1>2, <1>5, <1>6 DEF PlInv, PlRelease
<1> QED BY Zenon, <1>5, <1>7, <1>11, <1>12, <1>13, <1>14 DEF PlInv

-----------------------------------------------------------------------------
(* A worker told to die gets the lock, and leaves the pool. *)
LEMMA DieStep ==
  ASSUME PoolAssumptions, PlInv, NEW w \in Workers, w \in die,
         woke_up(w) \/ worker_detach_from_pool(w)
  PROVE  PlInv'
<1>1. wkpc \in [Workers -> Places]
  BY Zenon DEF PlInv, PlTypes
<1>2. /\ pool_lock' = pool_lock /\ worklist' = worklist /\ scheduled' = scheduled
      /\ pending' = pending /\ curr_work' = curr_work /\ nr_running' = nr_running
      /\ nr_workers' = nr_workers /\ manager' = manager /\ idle_worker' = idle_worker
      /\ idle_timer' = idle_timer
  <2>1. CASE woke_up(w)
    BY <2>1 DEF woke_up, works
  <2>2. CASE worker_detach_from_pool(w)
    BY <2>2 DEF worker_detach_from_pool, works
  <2> QED BY <2>1, <2>2
<1>3. \/ wkpc[w] = "woke" /\ Goto(w, "detach") /\ die' = die /\ release' = release
      \/ /\ wkpc[w] = "detach" /\ Goto(w, "none") /\ die' = die \ {w}
         /\ release' = release \/ (release = "wait" /\ release' = "done")
  <2>1. CASE woke_up(w)
    BY <2>1 DEF woke_up
  <2>2. CASE worker_detach_from_pool(w)
    BY Zenon, <2>2 DEF worker_detach_from_pool
  <2> QED BY Zenon, <2>1, <2>2
<1>4. /\ Moves(w) /\ \A v \in Workers : v # w => wkpc'[v] = wkpc[v]
      /\ \/ wkpc[w] = "woke" /\ wkpc'[w] = "detach" /\ die' = die
         \/ wkpc[w] = "detach" /\ wkpc'[w] = "none" /\ die' = die \ {w}
  BY Zenon, <1>1, <1>3 DEF Goto, Moves, Same, Places
<1>5. /\ release' \in {"no", "manager", "detach", "wait", "done"}
      /\ release' \in {"no", "manager"} <=> release \in {"no", "manager"}
      /\ release' \in {"detach", "wait", "done"} <=> release \in {"detach", "wait", "done"}
      /\ release = "no" <=> release' = "no"
  BY Zenon, <1>3 DEF PlInv, PlTypes
<1>6. PlTypes'
  <2>1. die' \subseteq Workers
    BY Zenon, <1>4 DEF PlInv, PlTypes
  <2> QED BY Zenon, <1>2, <1>4, <1>5, <2>1 DEF PlInv, PlTypes, Moves
<1>7. SameIn(HasLock) /\ SameIn(Managing) /\ SameIn(Running) /\ SameIn(Busy)
  BY <1>4 DEF SameIn, HasLock, Managing, Running, Busy
<1>8. SameIn(Busy \cup {"claim"}) /\ SameIn({"claim"}) /\ SameIn({"clr_prep"})
  BY <1>4 DEF SameIn, Busy
<1>9. /\ SameIn({"recheck", "sleep"}) /\ SameIn({"set_prep", "sleep"})
      /\ SameIn({"hook", "hook_lock", "asleep"})
  BY <1>4 DEF SameIn
<1>10. \A v \in Workers : LiveWorker(v)' <=> LiveWorker(v)
  BY <1>4 DEF LiveWorker
<1>11. \A v \in Workers : wkpc'[v] = "create" => wkpc[v] = "create"
  BY <1>4
<1>12. PlLock' /\ PlCount' /\ PlRunning' /\ PlFull'
  BY Zenon, <1>2, <1>7, <1>9, <1>10, <1>11, KeepLock, KeepCount, KeepRunning, KeepFull DEF PlInv
<1>13. PlWorks' /\ QueuedOnce' /\ PlLists'
  BY Zenon, <1>2, <1>7, <1>8, KeepWorks, KeepQueued, KeepLists DEF PlInv
<1>14. PlReserve' /\ PlSleep'
  BY Zenon, <1>2, <1>7, <1>9, KeepReserve, KeepSleep DEF PlInv
<1>15. PlManager' /\ PlRelease'
  BY Zenon, <1>2, <1>5, <1>7, <1>10 DEF PlInv, PlManager, PlRelease, SameIn
<1>16. PlIdle'
  <2>1. ASSUME NEW v \in Workers
        PROVE  /\ Occurs(idle_worker, v) <=> v \notin die' /\ wkpc'[v] \in {"idle", "woke"}
               /\ v \in die' => wkpc'[v] \in {"woke", "detach"}
               /\ wkpc'[v] = "detach" => v \in die'
    <3>1. /\ Occurs(idle_worker, v) <=> v \notin die /\ wkpc[v] \in {"idle", "woke"}
          /\ v \in die => wkpc[v] \in {"woke", "detach"}
          /\ wkpc[v] = "detach" => v \in die
      BY Zenon DEF PlInv, PlIdle
    <3> QED BY Zenon, <1>4, <3>1
  <2> QED BY Zenon, <1>2, <2>1 DEF PlInv, PlIdle
<1>17. PlLazy'
  <2> SUFFICES ASSUME pool_lock = NoWorker, worklist # <<>> PROVE \E v \in Workers : Comes(v)'
    BY Zenon, <1>2 DEF PlLazy
  <2>1. PICK v \in Workers : Comes(v)
    BY Zenon DEF PlInv, PlLazy
  <2>2. v # w
    BY Zenon, <2>1 DEF Comes, LiveWorker
  <2>3. Same(v) /\ (v \in die' => v \in die)
    BY Zenon, <1>4, <2>2 DEF Same
  <2> QED BY Zenon, <1>2, <2>1, <2>3, KeepComing
<1> QED
  BY Zenon, <1>6, <1>12, <1>13, <1>14, <1>15, <1>16, <1>17 DEF PlInv

-----------------------------------------------------------------------------
(* A worker that has just got the lock becomes the manager and lets go. *)
LEMMA BecomeManagerStep ==
  ASSUME PoolAssumptions, PlInv, NEW w \in Workers, recheck(w), wkpc'[w] = "create"
  PROVE  PlInv'
<1>1. wkpc \in [Workers -> Places] /\ nr_workers \in Int /\ MaxWorkers \in Nat
  BY DEF PlInv, PlTypes, PoolAssumptions
<1>2. /\ wkpc[w] = "recheck" /\ ~may_start_working /\ ~manager /\ manager' = TRUE
      /\ pool_lock' = NoWorker /\ Goto(w, "create")
      /\ worklist' = worklist /\ scheduled' = scheduled /\ pending' = pending
      /\ curr_work' = curr_work /\ nr_running' = nr_running /\ nr_workers' = nr_workers
      /\ idle_worker' = idle_worker /\ idle_timer' = idle_timer /\ die' = die
      /\ release' = release
  BY <1>1 DEF recheck, works, Goto
<1>3. Moves(w) /\ \A v \in Workers : v # w => wkpc'[v] = wkpc[v]
  BY <1>1, <1>2 DEF Goto, Moves, Same, Places
<1>4. PlTypes'
  BY Zenon, <1>2, <1>3 DEF PlInv, PlTypes, Moves
<1>5. PlLock'
  <2>1. wkpc[w] \in HasLock /\ wkpc'[w] \notin HasLock
    BY <1>2 DEF HasLock
  <2> QED BY Zenon, <1>2, <1>3, <2>1 DEF PlInv, PlLock, PoolAssumptions
<1>6. PlManager'
  <2>1. wkpc'[w] \in Managing
    BY DEF Managing
  <2>2. \A v \in Workers : v # w => wkpc'[v] \notin Managing
    BY Zenon, <1>2, <1>3 DEF PlInv, PlManager
  <2>3. release \in {"no", "manager"}
    <3>1. /\ release \in {"no", "manager", "detach", "wait", "done"}
          /\ release \notin {"detach", "wait", "done"}
      BY Zenon, <1>2 DEF PlInv, PlRelease, PlTypes
    <3> QED BY <3>1
  <2> QED BY Zenon, <1>2, <2>1, <2>2, <2>3 DEF PlManager
<1>7. /\ SameIn({"idle", "woke"}) /\ SameIn({"detach"}) /\ SameIn({"none"})
      /\ SameIn({"hook", "hook_lock", "asleep"}) /\ SameIn({"set_prep", "sleep"})
      /\ SameIn({"claim"}) /\ SameIn({"clr_prep"})
  BY Zenon, <1>2, <1>3 DEF SameIn
<1>8. SameIn(Running) /\ SameIn(Busy) /\ SameIn(Busy \cup {"claim"})
  BY Zenon, <1>2, <1>3 DEF SameIn, Running, Busy
<1>9. \A v \in Workers : wkpc'[v] = "idle" => wkpc[v] = "idle"
  BY <1>2, <1>3
<1>10. \A v \in Workers : LiveWorker(v)' <=> LiveWorker(v)
  BY Zenon, <1>2, <1>7, KeepLive
<1>11. PlIdle' /\ PlCount' /\ PlRunning'
  BY Zenon, <1>2, <1>7, <1>8, <1>9, <1>10, KeepIdle, KeepCount, KeepRunning DEF PlInv
<1>12. PlWorks' /\ QueuedOnce' /\ PlLists' /\ PlSleep'
  BY Zenon, <1>2, <1>7, <1>8, KeepWorks, KeepQueued, KeepLists, KeepSleep DEF PlInv
<1>13. PlFull'
  <2>1. nr_workers < MaxWorkers
    BY <1>1, <1>2 DEF may_start_working
  <2> QED BY <1>1, <1>2, <2>1 DEF PlFull
<1>14. PlReserve'
  BY Zenon, <1>2 DEF PlReserve
<1>15. PlRelease'
  BY Zenon, <1>2, <1>10 DEF PlInv, PlRelease
<1>16. PlLazy'
  <2>1. w \notin die /\ ~ Occurs(idle_worker, w)
    BY Zenon, <1>2 DEF PlInv, PlIdle
  <2>2. Comes(w)'
    <3>1. wkpc'[w] # "none" /\ wkpc'[w] # "idle" /\ wkpc'[w] # "run"
      OBVIOUS
    <3> QED BY Zenon, <1>2, <2>1, <3>1 DEF Comes, LiveWorker
  <2> QED BY Zenon, <2>2 DEF PlLazy
<1> QED
  BY Zenon, <1>4, <1>5, <1>6, <1>11, <1>12, <1>13, <1>14, <1>15, <1>16 DEF PlInv

(* create_worker: one more, the first of the idle workers, and woken up *)
LEMMA CreateStep ==
  ASSUME PoolAssumptions, PlInv, NEW w \in Workers, NEW n \in Workers, create_worker(w, n)
  PROVE  PlInv'
<1>1. /\ wkpc \in [Workers -> Places] /\ nr_workers \in Int /\ MaxWorkers \in Nat
      /\ idle_worker \in Seq(Workers) /\ Distinct(idle_worker) /\ IsFiniteSet(Workers)
  BY Zenon DEF PlInv, PlTypes, PlIdle, PoolAssumptions
<1>2. /\ wkpc[w] = "create" /\ wkpc[n] = "none" /\ nr_workers' = nr_workers + 1
      /\ idle_worker' = <<n>> \o idle_worker
      /\ wkpc' = [wkpc EXCEPT ![w] = "relock", ![n] = "woke"]
      /\ pool_lock' = pool_lock /\ worklist' = worklist /\ scheduled' = scheduled
      /\ pending' = pending /\ curr_work' = curr_work /\ nr_running' = nr_running
      /\ manager' = manager /\ die' = die /\ release' = release
  BY DEF create_worker, worker_enter_idle, works
<1>3. /\ wkpc' \in [Workers -> Places] /\ w # n /\ wkpc'[w] = "relock" /\ wkpc'[n] = "woke"
      /\ \A v \in Workers : v # w /\ v # n => wkpc'[v] = wkpc[v]
  BY Zenon, <1>1, <1>2 DEF Places
<1>4. idle_timer' \in BOOLEAN
  BY Zenon DEF create_worker, worker_enter_idle
<1>5. n \notin die /\ ~ Occurs(idle_worker, n) /\ w \notin die
  BY Zenon, <1>2 DEF PlInv, PlIdle
<1>6. /\ idle_worker' \in Seq(Workers) /\ Distinct(idle_worker') /\ idle_worker' # <<>>
      /\ Head(idle_worker') = n
      /\ \A u \in Workers : Occurs(idle_worker', u) <=> Occurs(idle_worker, u) \/ u = n
  BY Zenon, <1>1, <1>2, <1>5, ListAddHeadFacts
<1>7. PlTypes'
  <2>1. nr_workers' \in Int
    BY <1>1, <1>2
  <2> QED BY Zenon, <1>2, <1>3, <1>4, <1>6, <2>1 DEF PlInv, PlTypes
<1>8. SameIn(HasLock) /\ SameIn(Managing) /\ SameIn(Running) /\ SameIn(Busy)
  BY Zenon, <1>2, <1>3 DEF SameIn, HasLock, Managing, Running, Busy
<1>9. /\ SameIn({"hook", "hook_lock", "asleep"}) /\ SameIn({"set_prep", "sleep"})
      /\ SameIn({"claim"}) /\ SameIn({"clr_prep"}) /\ SameIn(Busy \cup {"claim"})
  BY Zenon, <1>2, <1>3 DEF SameIn, Busy
<1>10. PlLock' /\ PlManager' /\ PlRunning'
  BY Zenon, <1>2, <1>8, <1>9, KeepLock, KeepManager, KeepRunning DEF PlInv
<1>11. PlWorks' /\ QueuedOnce' /\ PlLists' /\ PlSleep'
  BY Zenon, <1>2, <1>8, <1>9, KeepWorks, KeepQueued, KeepLists, KeepSleep DEF PlInv
<1>12. PlIdle'
  <2>1. ASSUME NEW v \in Workers
        PROVE  /\ Occurs(idle_worker', v) <=> v \notin die /\ wkpc'[v] \in {"idle", "woke"}
               /\ v \in die => wkpc'[v] \in {"woke", "detach"}
               /\ wkpc'[v] = "detach" => v \in die
    <3>1. /\ Occurs(idle_worker, v) <=> v \notin die /\ wkpc[v] \in {"idle", "woke"}
          /\ v \in die => wkpc[v] \in {"woke", "detach"}
          /\ wkpc[v] = "detach" => v \in die
      BY Zenon DEF PlInv, PlIdle
    <3> QED BY Zenon, <1>2, <1>3, <1>5, <1>6, <3>1
  <2> QED BY Zenon, <1>2, <1>6, <2>1 DEF PlIdle
<1>13. PlCount'
  <2> DEFINE L == {v \in Workers : LiveWorker(v)}
  <2>1. {v \in Workers : LiveWorker(v)}' = L \cup {n} /\ n \notin L
    BY Zenon, <1>2, <1>3, <1>5 DEF LiveWorker
  <2>2. IsFiniteSet(L)
    <3>1. L \in SUBSET Workers
      OBVIOUS
    <3> QED BY Zenon, <1>1, <3>1, CardSubset
  <2> HIDE DEF L
  <2>3. Cardinality(L \cup {n}) = Cardinality(L) + 1
    BY Zenon, <2>1, <2>2, CardAdd
  <2> QED BY Zenon, <1>2, <2>1, <2>3 DEF PlInv, PlCount, L
<1>14. PlFull'
  <2>1. nr_workers < MaxWorkers
    BY Zenon, <1>2 DEF PlInv, PlFull
  <2>2. \A v \in Workers : wkpc'[v] # "create"
    <3>1. wkpc[w] \in Managing
      BY <1>2 DEF Managing
    <3>2. \A v \in Workers : v # w => wkpc[v] \notin Managing
      BY Zenon, <3>1 DEF PlInv, PlManager
    <3> QED BY <1>3, <3>2 DEF Managing
  <2> QED BY <1>1, <1>2, <2>1, <2>2 DEF PlFull
<1>15. PlReserve'
  BY Zenon, <1>6 DEF PlReserve
<1>16. PlRelease'
  <2>1. release \notin {"detach", "wait", "done"}
    BY Zenon, <1>2 DEF PlInv, PlManager, Managing
  <2> QED BY Zenon, <1>2, <2>1 DEF PlInv, PlRelease
<1>17. PlLazy'
  <2>1. wkpc'[n] # "none" /\ wkpc'[n] # "idle" /\ wkpc'[n] # "run"
    BY <1>3
  <2>2. Comes(n)'
    BY Zenon, <1>2, <1>5, <1>6, <2>1 DEF Comes, LiveWorker
  <2> QED BY Zenon, <2>2 DEF PlLazy
<1> QED
  BY Zenon, <1>7, <1>10, <1>11, <1>12, <1>13, <1>14, <1>15, <1>16, <1>17 DEF PlInv

(* sleep: the worker enters idle and lets go of the lock *)
LEMMA EnterIdleStep ==
  ASSUME PoolAssumptions, PlInv, NEW w \in Workers, enter_idle(w)
  PROVE  PlInv'
<1>1. /\ wkpc \in [Workers -> Places] /\ idle_worker \in Seq(Workers)
      /\ Distinct(idle_worker)
  BY Zenon DEF PlInv, PlTypes, PlIdle
<1>2. /\ wkpc[w] = "sleep" /\ Goto(w, "idle") /\ pool_lock' = NoWorker
      /\ idle_worker' = <<w>> \o idle_worker
      /\ worklist' = worklist /\ scheduled' = scheduled /\ pending' = pending
      /\ curr_work' = curr_work /\ nr_running' = nr_running /\ nr_workers' = nr_workers
      /\ manager' = manager /\ die' = die /\ release' = release
  BY DEF enter_idle, worker_enter_idle, works
<1>3. /\ wkpc' \in [Workers -> Places] /\ wkpc'[w] = "idle"
      /\ \A v \in Workers : v # w => wkpc'[v] = wkpc[v]
  BY Zenon, <1>1, <1>2 DEF Goto, Places
<1>4. idle_timer' \in BOOLEAN
  BY Zenon DEF enter_idle, worker_enter_idle
<1>5. w \notin die /\ ~ Occurs(idle_worker, w)
  BY Zenon, <1>2 DEF PlInv, PlIdle
<1>6. /\ idle_worker' \in Seq(Workers) /\ Distinct(idle_worker') /\ idle_worker' # <<>>
      /\ \A u \in Workers : Occurs(idle_worker', u) <=> Occurs(idle_worker, u) \/ u = w
  BY Zenon, <1>1, <1>2, <1>5, ListAddHeadFacts
<1>7. PlTypes'
  BY Zenon, <1>2, <1>3, <1>4, <1>6 DEF PlInv, PlTypes
<1>8. wkpc[w] \in HasLock /\ wkpc'[w] \notin HasLock
  BY <1>2, <1>3 DEF HasLock
<1>9. \A v \in Workers : v # w => wkpc[v] \notin HasLock
  BY Zenon, <1>8 DEF PlInv, PlLock
<1>10. PlLock'
  BY Zenon, <1>2, <1>3, <1>8, <1>9 DEF PlLock, PoolAssumptions
<1>11. SameIn(Managing) /\ SameIn(Running) /\ SameIn(Busy) /\ SameIn(Busy \cup {"claim"})
  BY Zenon, <1>2, <1>3 DEF SameIn, Managing, Running, Busy
<1>12. /\ SameIn({"hook", "hook_lock", "asleep"}) /\ SameIn({"claim"}) /\ SameIn({"clr_prep"})
       /\ SameIn({"none"})
  BY Zenon, <1>2, <1>3 DEF SameIn
<1>13. \A v \in Workers : LiveWorker(v)' <=> LiveWorker(v)
  BY Zenon, <1>2, <1>12, KeepLive
<1>14. \A v \in Workers : wkpc'[v] = "create" => wkpc[v] = "create"
  BY <1>3
<1>15. PlManager' /\ PlCount' /\ PlRunning' /\ PlFull'
  BY Zenon, <1>2, <1>11, <1>12, <1>13, <1>14, KeepManager, KeepCount, KeepRunning, KeepFull
     DEF PlInv
<1>16. PlWorks' /\ QueuedOnce' /\ PlLists' /\ PlRelease'
  BY Zenon, <1>2, <1>11, <1>12, <1>13, KeepWorks, KeepQueued, KeepLists, KeepRelease DEF PlInv
<1>17. PlIdle'
  <2>1. ASSUME NEW v \in Workers
        PROVE  /\ Occurs(idle_worker', v) <=> v \notin die /\ wkpc'[v] \in {"idle", "woke"}
               /\ v \in die => wkpc'[v] \in {"woke", "detach"}
               /\ wkpc'[v] = "detach" => v \in die
    <3>1. /\ Occurs(idle_worker, v) <=> v \notin die /\ wkpc[v] \in {"idle", "woke"}
          /\ v \in die => wkpc[v] \in {"woke", "detach"}
          /\ wkpc[v] = "detach" => v \in die
      BY Zenon DEF PlInv, PlIdle
    <3> QED BY <1>3, <1>5, <1>6, <3>1
  <2> QED BY Zenon, <1>2, <1>6, <2>1 DEF PlIdle
<1>18. PlReserve'
  BY Zenon, <1>6 DEF PlReserve
<1>19. PlSleep'
  <2>1. \A v \in Workers : wkpc'[v] \notin {"set_prep", "sleep"}
    BY <1>3, <1>9 DEF HasLock
  <2> QED BY Zenon, <2>1 DEF PlSleep
<1>20. PlLazy'
  <2> SUFFICES ASSUME worklist # <<>> PROVE \E v \in Workers : Comes(v)'
    BY Zenon, <1>2 DEF PlLazy
  <2>1. PICK v \in Workers : Bound /\ wkpc[v] \in Busy
    <3>1. wkpc[w] \in {"set_prep", "sleep"}
      BY <1>2
    <3> QED BY Zenon, <3>1 DEF PlInv, PlSleep
  <2>2. v # w /\ wkpc[v] # "none" /\ wkpc[v] # "idle" /\ v \notin die /\ ~ Occurs(idle_worker, v)
    BY Zenon, <1>2, <2>1 DEF PlInv, PlIdle, Busy
  <2>3. Comes(v)'
    BY Zenon, <1>2, <1>3, <1>6, <2>1, <2>2 DEF Comes, LiveWorker
  <2> QED BY <2>3
<1> QED
  BY Zenon, <1>7, <1>10, <1>15, <1>16, <1>17, <1>18, <1>19, <1>20 DEF PlInv

-----------------------------------------------------------------------------
(***************************************************************************)
(* The idle timer destroys the last idle worker; the first, who may be the *)
(* one that comes for the works, is another.                               *)
(***************************************************************************)
LEMMA TimeoutStep ==
  ASSUME PoolAssumptions, PlInv, idle_worker_timeout,
         too_many_workers(idle_worker, nr_workers)
  PROVE  PlInv'
<1> DEFINE u == idle_worker[Len(idle_worker)]
<1>1. /\ wkpc \in [Workers -> Places] /\ nr_workers \in Int /\ MaxWorkers \in Nat
      /\ idle_worker \in Seq(Workers) /\ Distinct(idle_worker) /\ IsFiniteSet(Workers)
  BY Zenon DEF PlInv, PlTypes, PlIdle, PoolAssumptions
<1>2. /\ idle_worker' = SubSeq(idle_worker, 1, Len(idle_worker) - 1)
      /\ nr_workers' = nr_workers - 1 /\ die' = die \cup {u} /\ wkpc' = Wake(wkpc, u)
      /\ pool_lock' = pool_lock /\ worklist' = worklist /\ scheduled' = scheduled
      /\ pending' = pending /\ curr_work' = curr_work /\ nr_running' = nr_running
      /\ manager' = manager /\ release' = release
  BY DEF idle_worker_timeout, works
<1>3. idle_timer' \in BOOLEAN
  BY Zenon DEF idle_worker_timeout, too_many_workers
<1>4. Len(idle_worker) >= 2
  <2>1. Len(idle_worker) + (IF manager THEN 1 ELSE 0) > 2
    BY Zenon DEF too_many_workers
  <2>2. Len(idle_worker) \in Nat
    BY <1>1
  <2> QED BY <2>1, <2>2
<1>5. /\ idle_worker' \in Seq(Workers) /\ Distinct(idle_worker') /\ idle_worker' # <<>>
      /\ Head(idle_worker') = Head(idle_worker) /\ u \in Workers /\ u # Head(idle_worker)
      /\ Occurs(idle_worker, u)
      /\ \A v \in Workers : Occurs(idle_worker', v) <=> Occurs(idle_worker, v) /\ v # u
  BY Zenon, <1>1, <1>2, <1>4, ListDropLastFacts
<1> HIDE DEF u
<1>6. u \notin die /\ wkpc[u] \in {"idle", "woke"}
  BY Zenon, <1>5 DEF PlInv, PlIdle
<1>7. /\ wkpc' \in [Workers -> Places] /\ wkpc'[u] = "woke"
      /\ \A v \in Workers : v # u => wkpc'[v] = wkpc[v]
  BY Zenon, <1>1, <1>2, <1>5, <1>6 DEF Wake, Places
<1>8. PlTypes'
  <2>1. nr_workers' \in Int
    BY <1>1, <1>2
  <2>2. die' \subseteq Workers
    BY Zenon, <1>2, <1>5 DEF PlInv, PlTypes
  <2> QED BY Zenon, <1>2, <1>3, <1>5, <1>7, <2>1, <2>2 DEF PlInv, PlTypes
<1>9. SameIn(HasLock) /\ SameIn(Managing) /\ SameIn(Running) /\ SameIn(Busy)
  BY Zenon, <1>6, <1>7 DEF SameIn, HasLock, Managing, Running, Busy
<1>10. /\ SameIn({"hook", "hook_lock", "asleep"}) /\ SameIn({"set_prep", "sleep"})
       /\ SameIn({"claim"}) /\ SameIn({"clr_prep"}) /\ SameIn(Busy \cup {"claim"})
  BY Zenon, <1>6, <1>7 DEF SameIn, Busy
<1>11. PlLock' /\ PlManager' /\ PlRunning'
  BY Zenon, <1>2, <1>9, <1>10, KeepLock, KeepManager, KeepRunning DEF PlInv
<1>12. PlWorks' /\ QueuedOnce' /\ PlLists' /\ PlSleep'
  BY Zenon, <1>2, <1>9, <1>10, KeepWorks, KeepQueued, KeepLists, KeepSleep DEF PlInv
<1>13. PlIdle'
  <2>1. ASSUME NEW v \in Workers
        PROVE  /\ Occurs(idle_worker', v) <=> v \notin die' /\ wkpc'[v] \in {"idle", "woke"}
               /\ v \in die' => wkpc'[v] \in {"woke", "detach"}
               /\ wkpc'[v] = "detach" => v \in die'
    <3>1. /\ Occurs(idle_worker, v) <=> v \notin die /\ wkpc[v] \in {"idle", "woke"}
          /\ v \in die => wkpc[v] \in {"woke", "detach"}
          /\ wkpc[v] = "detach" => v \in die
      BY Zenon DEF PlInv, PlIdle
    <3> QED BY Zenon, <1>2, <1>5, <1>6, <1>7, <3>1
  <2> QED BY Zenon, <1>5, <2>1 DEF PlIdle
<1>14. PlCount'
  <2> DEFINE L == {v \in Workers : LiveWorker(v)}
  <2>1. {v \in Workers : LiveWorker(v)}' = L \ {u} /\ u \in L
    BY Zenon, <1>2, <1>5, <1>6, <1>7 DEF LiveWorker
  <2>2. IsFiniteSet(L)
    <3>1. L \in SUBSET Workers
      OBVIOUS
    <3> QED BY Zenon, <1>1, <3>1, CardSubset
  <2> HIDE DEF L
  <2>3. Cardinality(L \ {u}) = Cardinality(L) - 1
    BY Zenon, <2>1, <2>2, CardRemove
  <2> QED BY Zenon, <1>2, <2>1, <2>3 DEF PlInv, PlCount, L
<1>15. PlFull'
  <2>1. nr_workers' < nr_workers /\ nr_workers' \in Int
    BY <1>1, <1>2
  <2>2. \A v \in Workers : wkpc'[v] = "create" => wkpc[v] = "create"
    BY <1>7
  <2> QED BY <1>1, <2>1, <2>2 DEF PlInv, PlFull
<1>16. PlReserve'
  BY Zenon, <1>5 DEF PlReserve
<1>17. PlRelease'
  <2>1. \A v \in Workers : LiveWorker(v)' => LiveWorker(v)
    BY Zenon, <1>2, <1>7 DEF LiveWorker
  <2> QED BY Zenon, <1>2, <2>1, KeepRelease DEF PlInv
<1>18. PlLazy'
  <2> SUFFICES ASSUME pool_lock = NoWorker, worklist # <<>> PROVE \E v \in Workers : Comes(v)'
    BY Zenon, <1>2 DEF PlLazy
  <2>1. PICK v \in Workers : Comes(v)
    BY Zenon DEF PlInv, PlLazy
  <2>2. v # u
    BY Zenon, <1>5, <2>1 DEF Comes
  <2>3. v \notin die' /\ wkpc'[v] = wkpc[v] /\ idle_worker # <<>>
    <3>1. v \notin die'
      BY Zenon, <1>2, <2>1, <2>2 DEF Comes, LiveWorker
    <3>2. wkpc'[v] = wkpc[v]
      BY Zenon, <1>7, <2>2
    <3>3. idle_worker # <<>>
      BY <1>4
    <3> QED BY Zenon, <3>1, <3>2, <3>3
  <2>4. Comes(v)'
    BY Zenon, <1>5, <2>1, <2>3 DEF Comes, LiveWorker
  <2> QED BY <2>4
<1> QED
  BY Zenon, <1>8, <1>11, <1>12, <1>13, <1>14, <1>15, <1>16, <1>17, <1>18 DEF PlInv

-----------------------------------------------------------------------------
(***************************************************************************)
(* Steps of other threads that move no worker: queue_work sets the bit,    *)
(* the idle timer finds nobody to destroy, put_unbound_pool begins and     *)
(* waits.                                                                  *)
(***************************************************************************)
Still ==
  /\ pool_lock' = pool_lock /\ worklist' = worklist /\ curr_work' = curr_work
  /\ scheduled' = scheduled /\ nr_running' = nr_running /\ idle_worker' = idle_worker
  /\ nr_workers' = nr_workers /\ manager' = manager /\ die' = die /\ wkpc' = wkpc

LEMMA StillStep ==
  ASSUME PlInv, Still, pending' \subseteq PoolWorks, pending \subseteq pending',
         idle_timer' \in BOOLEAN, release' \in {"no", "manager", "detach", "wait", "done"},
         release' \in {"no", "manager"} <=> release \in {"no", "manager"}, PlRelease'
  PROVE  PlInv'
<1>1. PlTypes'
  BY Zenon DEF PlInv, PlTypes, Still
<1>2. \A S : SameIn(S)
  BY Zenon DEF SameIn, Still
<1>3. \A v \in Workers : wkpc'[v] = wkpc[v]
  BY Zenon DEF Still
<1>4. PlLock' /\ PlIdle' /\ PlRunning' /\ PlWorks'
  BY Zenon, <1>2, <1>3, KeepLock, KeepIdle, KeepRunning, KeepWorks DEF PlInv, Still
<1>5. PlManager'
  BY Zenon DEF PlInv, PlManager, Still
<1>6. PlCount' /\ PlFull'
  <2>1. \A v \in Workers : LiveWorker(v)' <=> LiveWorker(v)
    BY Zenon DEF LiveWorker, Still
  <2> QED BY Zenon, <1>3, <2>1, KeepCount, KeepFull DEF PlInv, Still
<1>7. PlLists' /\ PlReserve' /\ PlSleep'
  BY Zenon, <1>2, KeepLists, KeepReserve, KeepSleep DEF PlInv, Still
<1>8. QueuedOnce'
  <2>1. \A x \in PoolWorks : Queued(x)' => x \in pending'
    BY Zenon DEF PlInv, QueuedOnce, Queued, Still
  <2> QED BY Zenon, <2>1 DEF PlInv, QueuedOnce, Still
<1>9. PlLazy'
  BY Zenon DEF PlInv, PlLazy, Comes, LiveWorker, Still
<1> QED BY Zenon, <1>1, <1>4, <1>5, <1>6, <1>7, <1>8, <1>9 DEF PlInv

LEMMA StillSteps ==
  ASSUME PoolAssumptions, PlInv,
         \/ \E x \in PoolWorks : queue_work(x)
         \/ idle_worker_timeout /\ ~ too_many_workers(idle_worker, nr_workers)
         \/ put_unbound_pool \/ put_unbound_pool_detach
  PROVE  PlInv'
<1>1. /\ pending \subseteq PoolWorks /\ idle_timer \in BOOLEAN
      /\ release \in {"no", "manager", "detach", "wait", "done"}
  BY Zenon DEF PlInv, PlTypes
<1>2. CASE \E x \in PoolWorks : queue_work(x)
  <2>1. /\ Still /\ idle_timer' = idle_timer /\ release' = release /\ release = "no"
        /\ pending' \subseteq PoolWorks /\ pending \subseteq pending'
    BY Zenon, <1>1, <1>2 DEF queue_work, Still, workers
  <2>2. PlRelease'
    BY Zenon, <2>1 DEF PlRelease
  <2> QED BY Zenon, <1>1, <2>1, <2>2, StillStep
<1>3. CASE idle_worker_timeout /\ ~ too_many_workers(idle_worker, nr_workers)
  <2>1. Still /\ idle_timer' = FALSE /\ release' = release /\ pending' = pending
    BY Zenon, <1>3 DEF idle_worker_timeout, Still, works
  <2>2. PlRelease'
    BY Zenon, <2>1 DEF PlInv, PlRelease, LiveWorker, Still
  <2> QED BY Zenon, <1>1, <2>1, <2>2, StillStep
<1>4. CASE put_unbound_pool
  <2>1. /\ Still /\ idle_timer' = idle_timer /\ pending' = pending
        /\ ~Bound /\ release = "no" /\ release' = "manager"
        /\ pending = {} /\ \A w \in Workers : curr_work[w] = NoWork
    BY <1>4 DEF put_unbound_pool, Still, works, workers
  <2>2. PlRelease'
    BY <2>1 DEF PlRelease, Still
  <2>3. release' \in {"no", "manager"} /\ release \in {"no", "manager"}
    BY <2>1
  <2> QED BY Zenon, <1>1, <2>1, <2>2, <2>3, StillStep
<1>5. CASE put_unbound_pool_detach
  <2>1. /\ Still /\ idle_timer' = idle_timer /\ pending' = pending
        /\ release = "detach" /\ (release' = "done" \/ release' = "wait")
    BY <1>5 DEF put_unbound_pool_detach, Still, works, workers
  <2>2. /\ release' \in {"no", "manager", "detach", "wait", "done"}
        /\ release' \notin {"no", "manager"} /\ release \notin {"no", "manager"}
        /\ release # "no" /\ release \in {"detach", "wait", "done"}
    BY <2>1
  <2>3. PlRelease'
    BY Zenon, <2>1, <2>2 DEF PlInv, PlRelease, LiveWorker, Still
  <2> QED BY Zenon, <1>1, <2>1, <2>2, <2>3, StillStep
<1> QED BY Zenon, <1>2, <1>3, <1>4, <1>5

(* Once put_unbound_pool has begun there are no works. *)
LEMMA NoWorksLeft ==
  ASSUME PlInv, release # "no"
  PROVE  /\ worklist = <<>>
         /\ \A w \in Workers : scheduled[w] = <<>> /\ wkpc[w] \notin Busy /\ wkpc[w] # "claim"
<1>1. pending = {} /\ \A w \in Workers : curr_work[w] = NoWork
  BY Zenon DEF PlInv, PlRelease
<1>2. worklist \in Seq(PoolWorks) /\ scheduled \in [Workers -> Seq(PoolWorks)]
  BY Zenon DEF PlInv, PlTypes
<1>3. \A x \in PoolWorks : ~ Occurs(worklist, x) /\ \A w \in Workers : ~ Occurs(scheduled[w], x)
  BY Zenon, <1>1 DEF PlInv, QueuedOnce, Queued
<1>4. ASSUME NEW s \in Seq(PoolWorks), \A x \in PoolWorks : ~ Occurs(s, x)
      PROVE  s = <<>>
  <2> SUFFICES ASSUME s # <<>> PROVE FALSE
    OBVIOUS
  <2>1. 1 \in 1 .. Len(s) /\ s[1] \in PoolWorks
    OBVIOUS
  <2> QED BY Zenon, <1>4, <2>1 DEF Occurs
<1>5. worklist = <<>> /\ \A w \in Workers : scheduled[w] = <<>>
  BY Zenon, <1>2, <1>3, <1>4
<1> QED BY Zenon, <1>1, <1>5 DEF PlInv, PlWorks, PlLists

(* put_unbound_pool destroys the idle workers: those are all that live. *)
LEMMA KillStep ==
  ASSUME PoolAssumptions, PlInv, put_unbound_pool_kill
  PROVE  PlInv'
<1>1. /\ wkpc \in [Workers -> Places] /\ nr_workers \in Int /\ MaxWorkers \in Nat \ {0}
      /\ idle_worker \in Seq(Workers) /\ Distinct(idle_worker) /\ IsFiniteSet(Workers)
      /\ die \subseteq Workers
  BY Zenon DEF PlInv, PlTypes, PlIdle, PoolAssumptions
<1>2. /\ release = "manager" /\ pool_lock = NoWorker /\ ~manager /\ manager' = TRUE
      /\ idle_worker' = <<>> /\ nr_workers' = nr_workers - Len(idle_worker)
      /\ die' = die \cup IdleSet /\ release' = "detach"
      /\ wkpc' = [w \in Workers |-> IF Occurs(idle_worker, w) /\ wkpc[w] = "idle"
                                    THEN "woke" ELSE wkpc[w]]
      /\ pool_lock' = pool_lock /\ worklist' = worklist /\ scheduled' = scheduled
      /\ pending' = pending /\ curr_work' = curr_work /\ nr_running' = nr_running
      /\ idle_timer' = idle_timer
  BY DEF put_unbound_pool_kill, works
<1>3. /\ wkpc' \in [Workers -> Places] /\ \A v \in Workers : Same(v)
      /\ \A v \in Workers : Occurs(idle_worker, v) => wkpc'[v] # "idle"
      /\ \A v \in Workers : wkpc'[v] = "idle" => wkpc[v] = "idle" /\ ~ Occurs(idle_worker, v)
  BY Zenon, <1>1, <1>2 DEF Same, Places
<1>4. /\ worklist = <<>>
      /\ \A w \in Workers : scheduled[w] = <<>> /\ wkpc[w] \notin Busy /\ wkpc[w] # "claim"
  <2>1. release # "no"
    BY <1>2
  <2> QED BY Zenon, <2>1, NoWorksLeft
<1>5. \A w \in Workers : wkpc[w] \notin HasLock /\ wkpc[w] \notin Managing
  BY Zenon, <1>2 DEF PlInv, PlLock, PlManager, PoolAssumptions
<1>6. \A w \in Workers : LiveWorker(w) <=> Occurs(idle_worker, w)
  <2> SUFFICES ASSUME NEW w \in Workers PROVE LiveWorker(w) <=> Occurs(idle_worker, w)
    OBVIOUS
  <2>1. wkpc[w] \in {"none", "idle", "woke", "detach"}
    BY Zenon, <1>1, <1>4, <1>5 DEF Places, Busy, HasLock, Managing
  <2>2. /\ Occurs(idle_worker, w) <=> w \notin die /\ wkpc[w] \in {"idle", "woke"}
        /\ wkpc[w] = "detach" => w \in die
    BY Zenon DEF PlInv, PlIdle
  <2> QED BY <2>1, <2>2 DEF LiveWorker
<1>7. \A w \in Workers : ~ LiveWorker(w)'
  <2> SUFFICES ASSUME NEW w \in Workers, LiveWorker(w)' PROVE FALSE
    OBVIOUS
  <2>1. w \notin die /\ ~ Occurs(idle_worker, w) /\ wkpc'[w] # "none"
    BY <1>2 DEF LiveWorker, IdleSet
  <2>2. wkpc[w] # "none"
    BY <1>3, <2>1 DEF Same
  <2> QED BY Zenon, <1>6, <2>1, <2>2 DEF LiveWorker
<1>8. nr_workers' = 0
  <2>1. {v \in Workers : LiveWorker(v)} = {idle_worker[i] : i \in 1 .. Len(idle_worker)}
    BY <1>1, <1>6 DEF Occurs
  <2>2. Len(idle_worker) \in 0 .. Len(idle_worker) /\ Len(idle_worker) \in Int
    BY <1>1
  <2>3. Cardinality({idle_worker[i] : i \in 1 .. Len(idle_worker)}) = Len(idle_worker)
    <3>1. idle_worker \in Seq(Workers) /\ Distinct(idle_worker)
      BY Zenon, <1>1
    <3> QED BY Zenon, <2>2, <3>1, ListPrefixCardinality
  <2>4. nr_workers = Len(idle_worker)
    BY Zenon, <2>1, <2>3 DEF PlInv, PlCount
  <2> QED BY <1>2, <2>2, <2>4
<1>9. PlTypes'
  <2>1. die' \subseteq Workers
    BY Zenon, <1>1, <1>2 DEF IdleSet
  <2>2. /\ idle_worker' \in Seq(Workers) /\ nr_workers' \in Int
        /\ release' \in {"no", "manager", "detach", "wait", "done"}
    BY <1>2, <1>8
  <2> QED BY Zenon, <1>2, <1>3, <2>1, <2>2 DEF PlInv, PlTypes
<1>10. SameIn(HasLock) /\ SameIn(Managing) /\ SameIn(Running) /\ SameIn(Busy)
  BY <1>3 DEF Same, SameIn, HasLock, Managing, Running, Busy
<1>11. /\ SameIn({"hook", "hook_lock", "asleep"}) /\ SameIn({"set_prep", "sleep"})
       /\ SameIn({"claim"}) /\ SameIn({"clr_prep"}) /\ SameIn(Busy \cup {"claim"})
  BY <1>3 DEF Same, SameIn, Busy
<1>12. PlLock' /\ PlRunning' /\ PlWorks' /\ QueuedOnce' /\ PlLists' /\ PlSleep'
  BY Zenon, <1>2, <1>10, <1>11, KeepLock, KeepRunning, KeepWorks, KeepQueued, KeepLists, KeepSleep
     DEF PlInv
<1>13. PlManager'
  <2>1. release' \notin {"no", "manager"}
    BY <1>2
  <2> QED BY Zenon, <1>5, <1>10, <2>1 DEF PlManager, SameIn
<1>14. PlIdle'
  <2>1. Distinct(idle_worker') /\ \A w \in Workers : ~ Occurs(idle_worker', w)
    BY <1>2 DEF Occurs, Distinct
  <2>2. ASSUME NEW w \in Workers
        PROVE  /\ w \in die' \/ wkpc'[w] \notin {"idle", "woke"}
               /\ w \in die' => wkpc'[w] \in {"woke", "detach"}
               /\ wkpc'[w] = "detach" => w \in die'
    <3>1. /\ Occurs(idle_worker, w) <=> w \notin die /\ wkpc[w] \in {"idle", "woke"}
          /\ w \in die => wkpc[w] \in {"woke", "detach"}
          /\ wkpc[w] = "detach" => w \in die
      BY Zenon DEF PlInv, PlIdle
    <3>2. w \in die' <=> w \in die \/ Occurs(idle_worker, w)
      BY <1>2 DEF IdleSet
    <3> QED BY Zenon, <1>3, <3>1, <3>2 DEF Same
  <2> QED BY Zenon, <2>1, <2>2 DEF PlIdle
<1>15. PlCount'
  <2>1. {w \in Workers : LiveWorker(w)}' = {}
    BY <1>7
  <2> QED BY Zenon, <1>8, <2>1, CardEmpty DEF PlCount
<1>16. PlFull' /\ PlReserve'
  <2>1. 0 <= MaxWorkers /\ 0 < MaxWorkers
    BY <1>1
  <2> QED BY Zenon, <1>2, <1>8, <2>1 DEF PlFull, PlReserve
<1>17. PlLazy'
  BY Zenon, <1>2, <1>4 DEF PlLazy
<1>18. PlRelease'
  <2>1. release # "no"
    BY <1>2
  <2> QED BY Zenon, <1>2, <1>7, <2>1 DEF PlInv, PlRelease
<1> QED
  BY Zenon, <1>9, <1>12, <1>13, <1>14, <1>15, <1>16, <1>17, <1>18 DEF PlInv

-----------------------------------------------------------------------------
(* A worker that is neither idle nor leaving comes for the works, *)
LEMMA WorkingComes ==
  ASSUME NEW w \in Workers, PlIdle', wkpc'[w] \notin {"none", "idle", "woke", "detach"},
         Bound \/ idle_worker' = <<>> \/ wkpc'[w] # "run"
  PROVE  Comes(w)'
<1>1. /\ Occurs(idle_worker, w)' <=> w \notin die' /\ wkpc'[w] \in {"idle", "woke"}
      /\ w \in die' => wkpc'[w] \in {"woke", "detach"}
  BY Zenon DEF PlIdle
<1>2. ~ Occurs(idle_worker, w)' /\ w \notin die' /\ wkpc'[w] # "none" /\ wkpc'[w] # "idle"
  BY <1>1
<1> QED BY Zenon, <1>2 DEF Comes, LiveWorker

(* and so does the first of the idle workers once it is woken up. *)
LEMMA WokenComes ==
  ASSUME NEW w \in Workers, PlIdle', idle_worker' \in Seq(Workers), idle_worker' # <<>>,
         w = Head(idle_worker'), wkpc'[w] # "idle"
  PROVE  Comes(w)'
<1>1. Occurs(idle_worker, w)'
  BY DEF Occurs
<1>2. w \notin die' /\ wkpc'[w] \in {"idle", "woke"}
  BY Zenon, <1>1 DEF PlIdle
<1>3. wkpc'[w] = "woke"
  BY <1>2
<1>4. wkpc'[w] # "none" /\ wkpc'[w] # "run"
  BY <1>3
<1> QED BY Zenon, <1>2, <1>4 DEF Comes, LiveWorker

(* insert_work: somebody is woken up, or is at work already. *)
LEMMA InsertStep ==
  ASSUME PoolAssumptions, PlInv, NEW x \in PoolWorks, pool_insert_work(x)
  PROVE  PlInv'
<1>1. /\ wkpc \in [Workers -> Places] /\ worklist \in Seq(PoolWorks) /\ nr_running \in Int
      /\ idle_worker \in Seq(Workers) /\ nr_workers \in Int
      /\ MaxWorkers \in Nat \ {0} /\ IsFiniteSet(Workers) /\ NoWorker \notin Workers
  BY Zenon DEF PlInv, PlTypes, PoolAssumptions
<1>2. /\ x \in pending /\ ~Queued(x) /\ pool_lock = NoWorker
      /\ worklist' = list_add_tail(worklist, x)
      /\ wkpc' = IF nr_running = 0 THEN wake_up_worker(wkpc) ELSE wkpc
      /\ pool_lock' = pool_lock /\ pending' = pending /\ curr_work' = curr_work
      /\ scheduled' = scheduled /\ nr_running' = nr_running /\ idle_worker' = idle_worker
      /\ nr_workers' = nr_workers /\ manager' = manager /\ idle_timer' = idle_timer
      /\ die' = die /\ release' = release
  BY DEF pool_insert_work, workers
<1>3. /\ wkpc' \in [Workers -> Places] /\ \A v \in Workers : Same(v)
      /\ nr_running = 0 /\ idle_worker # <<>> =>
           Head(idle_worker) \in Workers /\ wkpc'[Head(idle_worker)] # "idle"
  BY Zenon, <1>2, WakeSame DEF PlInv, Same
<1>4. release = "no"
  BY Zenon, <1>2 DEF PlInv, PlRelease
<1>5. \A v \in Workers : wkpc[v] \notin HasLock /\ wkpc'[v] \notin HasLock
  <2>1. \A v \in Workers : wkpc[v] \notin HasLock
    BY Zenon, <1>1, <1>2 DEF PlInv, PlLock
  <2> QED BY Zenon, <1>3, <2>1 DEF Same, HasLock
<1>6. /\ worklist' \in Seq(PoolWorks) /\ Distinct(worklist')
      /\ \A u \in PoolWorks : Occurs(worklist', u) <=> Occurs(worklist, u) \/ u = x
  <2>1. Distinct(worklist) /\ ~ Occurs(worklist, x)
    BY Zenon, <1>2 DEF PlInv, QueuedOnce, Queued
  <2> QED BY Zenon, <1>1, <1>2, <2>1, ListAddTailFacts
<1>7. worklist' # <<>>
  BY <1>6 DEF Occurs
<1>8. PlTypes'
  BY Zenon, <1>2, <1>3, <1>6 DEF PlInv, PlTypes
<1>9. SameIn(HasLock) /\ SameIn(Managing) /\ SameIn(Running) /\ SameIn(Busy)
  BY <1>3 DEF Same, SameIn, HasLock, Managing, Running, Busy
<1>10. /\ SameIn({"hook", "hook_lock", "asleep"}) /\ SameIn({"idle", "woke"})
       /\ SameIn({"detach"}) /\ SameIn({"none"}) /\ SameIn({"recheck", "sleep"})
       /\ SameIn(Busy \cup {"claim"})
       /\ \A v \in Workers : wkpc'[v] = "idle" => wkpc[v] = "idle"
       /\ \A v \in Workers : wkpc'[v] = "create" => wkpc[v] = "create"
  BY Zenon, <1>3 DEF Same, SameIn, Busy
<1>11. \A v \in Workers : LiveWorker(v)' <=> LiveWorker(v)
  BY Zenon, <1>2, <1>10, KeepLive
<1>12. PlLock' /\ PlRunning' /\ PlWorks' /\ PlIdle'
  BY Zenon, <1>2, <1>9, <1>10, KeepLock, KeepRunning, KeepWorks, KeepIdle DEF PlInv
<1>13. PlManager' /\ PlCount' /\ PlFull'
  BY Zenon, <1>2, <1>9, <1>10, <1>11, KeepManager, KeepCount, KeepFull DEF PlInv
<1>14. PlReserve' /\ PlRelease'
  BY Zenon, <1>2, <1>10, <1>11, KeepReserve, KeepRelease DEF PlInv
<1>15. QueuedOnce'
  <2>1. ASSUME NEW u \in PoolWorks
        PROVE  /\ Queued(u)' => u \in pending
               /\ \A w \in Workers : Occurs(scheduled[w], u) => ~Occurs(worklist', u)
    <3>1. /\ Queued(u) => u \in pending
          /\ \A w \in Workers : Occurs(scheduled[w], u) => ~Occurs(worklist, u)
      BY Zenon DEF PlInv, QueuedOnce
    <3>2. \A w \in Workers : Occurs(scheduled[w], u) => u # x
      BY Zenon, <1>2 DEF Queued
    <3> QED BY Zenon, <1>2, <1>6, <3>1, <3>2 DEF Queued
  <2> QED BY Zenon, <1>2, <1>6, <2>1 DEF PlInv, QueuedOnce
<1>16. PlLists'
  BY Zenon, <1>2, <1>7, <1>10 DEF PlInv, PlLists, SameIn
<1>17. PlSleep'
  <2>1. \A v \in Workers : wkpc'[v] \notin {"set_prep", "sleep"}
    BY <1>5 DEF HasLock
  <2> QED BY Zenon, <2>1 DEF PlSleep
<1>18. \E w \in Workers : Comes(w)'
  <2>1. CASE nr_running = 0 /\ idle_worker # <<>>
    BY Zenon, <1>1, <1>2, <1>3, <1>12, <2>1, WokenComes
  <2>2. ASSUME NEW w \in Workers, wkpc[w] \notin {"none", "idle", "woke", "detach"},
               Bound \/ idle_worker = <<>> \/ wkpc[w] # "run"
        PROVE  \E v \in Workers : Comes(v)'
    <3>1. wkpc'[w] = wkpc[w]
      BY Zenon, <1>3, <2>2 DEF Same
    <3> QED BY Zenon, <1>2, <1>12, <2>2, <3>1, WorkingComes
  <2>3. CASE nr_running = 0 /\ idle_worker = <<>>
    <3>1. \A w \in Workers : wkpc[w] \notin {"recheck", "sleep"}
      BY <1>5 DEF HasLock
    <3>2. manager \/ nr_workers >= MaxWorkers
      BY Zenon, <2>3, <3>1 DEF PlInv, PlReserve
    <3>3. CASE manager
      <4>1. release \in {"no", "manager"}
        BY <1>4
      <4>2. PICK w \in Workers : wkpc[w] \in Managing
        BY Zenon, <3>3, <4>1 DEF PlInv, PlManager
      <4>3. wkpc[w] \notin {"none", "idle", "woke", "detach"}
        BY <4>2 DEF Managing
      <4> QED BY Zenon, <2>2, <2>3, <4>3
    <3>4. CASE nr_workers >= MaxWorkers
      <4> DEFINE L == {w \in Workers : LiveWorker(w)}
      <4>1. nr_workers # 0 /\ nr_workers = Cardinality(L)
        BY <1>1, <3>4 DEF PlInv, PlCount
      <4>2. L # {}
        BY Zenon, <4>1, CardEmpty
      <4>3. PICK w \in Workers : LiveWorker(w)
        BY Zenon, <4>2
      <4>4. ~ Occurs(idle_worker, w)
        BY <2>3 DEF Occurs
      <4>5. wkpc[w] \notin {"idle", "woke"} /\ w \notin die /\ wkpc[w] # "none"
        BY Zenon, <4>3, <4>4 DEF PlInv, PlIdle, LiveWorker
      <4>6. wkpc[w] # "detach"
        BY Zenon, <4>5 DEF PlInv, PlIdle
      <4>7. wkpc[w] \notin {"none", "idle", "woke", "detach"}
        BY Zenon, <4>5, <4>6
      <4> QED BY Zenon, <2>2, <2>3, <4>7
    <3> QED BY Zenon, <3>2, <3>3, <3>4
  <2>4. CASE nr_running # 0
    <3> DEFINE R == {w \in Workers : wkpc[w] \in Running}
    <3>1. Bound /\ nr_running = Cardinality(R)
      BY Zenon, <2>4 DEF PlInv, PlRunning, RunningCounted
    <3>2. R # {}
      BY Zenon, <2>4, <3>1, CardEmpty
    <3>3. PICK w \in Workers : wkpc[w] \in Running
      BY Zenon, <3>2
    <3>4. wkpc[w] \notin {"none", "idle", "woke", "detach"}
      BY <3>3 DEF Running
    <3> QED BY Zenon, <2>2, <3>1, <3>4
  <2> QED BY Zenon, <2>1, <2>3, <2>4
<1>19. PlLazy'
  BY Zenon, <1>18 DEF PlLazy
<1> QED
  BY Zenon, <1>8, <1>12, <1>13, <1>14, <1>15, <1>16, <1>17, <1>19 DEF PlInv

-----------------------------------------------------------------------------
(***************************************************************************)
(* process_one_work.  The claimed work is on one list, and Unlist takes it *)
(* off.                                                                    *)
(***************************************************************************)
LEMMA ClaimFacts ==
  ASSUME PlInv, NEW w \in Workers, wkpc[w] = "claim"
  PROVE  /\ Claimed(w) \in PoolWorks /\ Claimed(w) \in pending
         /\ Unlist(w)[1] \in Seq(PoolWorks) /\ Distinct(Unlist(w)[1])
         /\ Unlist(w)[2] \in [Workers -> Seq(PoolWorks)]
         /\ \A v \in Workers : Distinct(Unlist(w)[2][v])
         /\ \A v \in Workers : v # w => Unlist(w)[2][v] = scheduled[v]
         /\ \A u \in PoolWorks :
              /\ Occurs(Unlist(w)[1], u) <=> Occurs(worklist, u) /\ u # Claimed(w)
              /\ \A v \in Workers :
                   Occurs(Unlist(w)[2][v], u) <=> Occurs(scheduled[v], u) /\ u # Claimed(w)
<1>1. /\ worklist \in Seq(PoolWorks) /\ scheduled \in [Workers -> Seq(PoolWorks)]
      /\ scheduled[w] # <<>> \/ worklist # <<>>
  BY Zenon DEF PlInv, PlTypes, PlLists
<1>2. /\ Distinct(worklist) /\ \A v \in Workers : Distinct(scheduled[v])
      /\ \A x \in PoolWorks :
           /\ Queued(x) => x \in pending
           /\ \A u \in Workers : Occurs(scheduled[u], x) =>
                ~Occurs(worklist, x) /\ \A v \in Workers : Occurs(scheduled[v], x) => v = u
  BY Zenon DEF PlInv, QueuedOnce
<1>3. CASE scheduled[w] # <<>>
  <2> DEFINE x == Head(scheduled[w])
             s == Tail(scheduled[w])
             m == [scheduled EXCEPT ![w] = Tail(@)]
  <2>1. Claimed(w) = x /\ Unlist(w)[1] = worklist /\ Unlist(w)[2] = m
    BY <1>3 DEF Claimed, Unlist
  <2>2. scheduled[w] \in Seq(PoolWorks)
    BY <1>1
  <2>3. /\ s \in Seq(PoolWorks) /\ Distinct(s) /\ x \in PoolWorks /\ Occurs(scheduled[w], x)
        /\ \A u \in PoolWorks : Occurs(s, u) <=> Occurs(scheduled[w], u) /\ u # x
    BY Zenon, <1>2, <1>3, <2>2, ListTailFacts
  <2>4. /\ m \in [Workers -> Seq(PoolWorks)] /\ m[w] = s
        /\ \A v \in Workers : v # w => m[v] = scheduled[v]
    BY Zenon, <1>1, <2>3
  <2>5. x \in pending /\ ~Occurs(worklist, x) /\ \A v \in Workers : Occurs(scheduled[v], x) => v = w
    BY Zenon, <1>2, <2>3 DEF Queued
  <2> HIDE DEF x, s, m
  <2>6. \A v \in Workers : Distinct(m[v])
    BY Zenon, <1>2, <2>3, <2>4
  <2>7. ASSUME NEW u \in PoolWorks, NEW v \in Workers
        PROVE  Occurs(m[v], u) <=> Occurs(scheduled[v], u) /\ u # x
    <3>1. CASE v = w
      BY Zenon, <2>3, <2>4, <3>1
    <3>2. CASE v # w
      BY Zenon, <2>4, <2>5, <3>2
    <3> QED BY Zenon, <3>1, <3>2
  <2>8. \A u \in PoolWorks : Occurs(worklist, u) <=> Occurs(worklist, u) /\ u # x
    BY Zenon, <2>5
  <2> QED BY Zenon, <1>1, <1>2, <2>1, <2>3, <2>4, <2>5, <2>6, <2>7, <2>8
<1>4. CASE scheduled[w] = <<>>
  <2> DEFINE x == Head(worklist)
             s == Tail(worklist)
  <2>1. Claimed(w) = x /\ Unlist(w)[1] = s /\ Unlist(w)[2] = scheduled
    BY <1>4 DEF Claimed, Unlist
  <2>3. /\ s \in Seq(PoolWorks) /\ Distinct(s) /\ x \in PoolWorks /\ Occurs(worklist, x)
        /\ \A u \in PoolWorks : Occurs(s, u) <=> Occurs(worklist, u) /\ u # x
    BY Zenon, <1>1, <1>2, <1>4, ListTailFacts
  <2>5. x \in pending /\ \A v \in Workers : ~Occurs(scheduled[v], x)
    BY Zenon, <1>2, <2>3 DEF Queued
  <2> HIDE DEF x, s
  <2>7. \A u \in PoolWorks, v \in Workers :
          Occurs(scheduled[v], u) <=> Occurs(scheduled[v], u) /\ u # x
    BY Zenon, <2>5
  <2> QED BY Zenon, <1>1, <1>2, <2>1, <2>3, <2>5, <2>7
<1> QED BY Zenon, <1>3, <1>4

(* another worker executes the work: it is left to that worker *)
LEMMA CollideStep ==
  ASSUME PoolAssumptions, PlInv, NEW w \in Workers, wkpc[w] = "claim", Collide(w),
         UNCHANGED <<nr_running, workers, release>>
  PROVE  PlInv'
<1> DEFINE x == Claimed(w)
           sl == Unlist(w)[2]
<1>1. /\ wkpc \in [Workers -> Places] /\ NoWork \notin PoolWorks /\ NoWorker \notin Workers
      /\ pool_lock = w
  <2>1. wkpc[w] \in HasLock
    BY DEF HasLock
  <2> QED BY Zenon, <2>1 DEF PlInv, PlTypes, PlLock, PoolAssumptions
<1>2. /\ x \in PoolWorks /\ x \in pending
      /\ Unlist(w)[1] \in Seq(PoolWorks) /\ Distinct(Unlist(w)[1])
      /\ sl \in [Workers -> Seq(PoolWorks)] /\ \A v \in Workers : Distinct(sl[v])
      /\ \A v \in Workers : v # w => sl[v] = scheduled[v]
      /\ \A u \in PoolWorks :
           /\ Occurs(Unlist(w)[1], u) <=> Occurs(worklist, u) /\ u # x
           /\ \A v \in Workers : Occurs(sl[v], u) <=> Occurs(scheduled[v], u) /\ u # x
  BY Zenon, ClaimFacts
<1>3. PICK c \in Workers :
        /\ curr_work[c] = x /\ worklist' = Unlist(w)[1]
        /\ scheduled' = [sl EXCEPT ![c] = list_add_tail(@, x)]
        /\ Goto(w, IF scheduled'[w] # <<>> THEN "claim" ELSE "keep")
        /\ pool_lock' = pool_lock /\ pending' = pending /\ curr_work' = curr_work
  BY Zenon DEF Collide, find_worker_executing_work
<1>4. /\ nr_running' = nr_running /\ idle_worker' = idle_worker /\ nr_workers' = nr_workers
      /\ manager' = manager /\ idle_timer' = idle_timer /\ die' = die /\ release' = release
  BY DEF workers
<1> HIDE DEF x, sl
<1>5. /\ wkpc' \in [Workers -> Places] /\ \A v \in Workers : v # w => wkpc'[v] = wkpc[v]
      /\ wkpc'[w] \in {"claim", "keep"}
      /\ scheduled'[w] # <<>> <=> wkpc'[w] = "claim"
  BY Zenon, <1>1, <1>3 DEF Goto, Places
<1>6. c # w /\ wkpc[c] \in Busy
  <2>1. curr_work[c] # NoWork
    BY Zenon, <1>1, <1>2, <1>3
  <2>2. wkpc[w] \notin Busy
    BY DEF Busy
  <2> QED BY Zenon, <2>1, <2>2 DEF PlInv, PlWorks
<1>7. /\ scheduled' \in [Workers -> Seq(PoolWorks)]
      /\ \A v \in Workers : Distinct(scheduled'[v])
      /\ \A v \in Workers : v # c => scheduled'[v] = sl[v]
      /\ \A u \in PoolWorks, v \in Workers :
           Occurs(scheduled'[v], u) <=> Occurs(sl[v], u) \/ (u = x /\ v = c)
  <2> DEFINE t == list_add_tail(sl[c], x)
  <2>1. /\ sl[c] \in Seq(PoolWorks) /\ Distinct(sl[c]) /\ ~Occurs(sl[c], x)
        /\ x \in PoolWorks
    BY Zenon, <1>2
  <2>2. /\ t \in Seq(PoolWorks) /\ Distinct(t)
        /\ \A u \in PoolWorks : Occurs(t, u) <=> Occurs(sl[c], u) \/ u = x
    BY Zenon, <2>1, ListAddTailFacts
  <2> HIDE DEF t
  <2>3. /\ scheduled' \in [Workers -> Seq(PoolWorks)] /\ scheduled'[c] = t
        /\ \A v \in Workers : v # c => scheduled'[v] = sl[v]
    BY Zenon, <1>2, <1>3, <2>2 DEF t
  <2>4. \A v \in Workers : Distinct(scheduled'[v])
    BY Zenon, <1>2, <2>2, <2>3
  <2>5. ASSUME NEW u \in PoolWorks, NEW v \in Workers
        PROVE  Occurs(scheduled'[v], u) <=> Occurs(sl[v], u) \/ (u = x /\ v = c)
    <3>1. CASE v = c
      BY Zenon, <2>2, <2>3, <3>1
    <3>2. CASE v # c
      BY Zenon, <2>3, <3>2
    <3> QED BY Zenon, <3>1, <3>2
  <2> QED BY Zenon, <2>3, <2>4, <2>5
<1>8. PlTypes'
  BY Zenon, <1>2, <1>3, <1>4, <1>5, <1>7 DEF PlInv, PlTypes
<1>9. SameIn(HasLock) /\ SameIn(Managing) /\ SameIn(Running) /\ SameIn(Busy)
  BY Zenon, <1>5 DEF SameIn, HasLock, Managing, Running, Busy
<1>10. /\ SameIn({"hook", "hook_lock", "asleep"}) /\ SameIn({"idle", "woke"})
       /\ SameIn({"detach"}) /\ SameIn({"none"}) /\ SameIn({"recheck", "sleep"})
       /\ \A v \in Workers : wkpc'[v] = "idle" => wkpc[v] = "idle"
       /\ \A v \in Workers : wkpc'[v] = "create" => wkpc[v] = "create"
  BY Zenon, <1>5 DEF SameIn
<1>11. \A v \in Workers : LiveWorker(v)' <=> LiveWorker(v)
  BY Zenon, <1>4, <1>10, KeepLive
<1>12. PlLock' /\ PlRunning' /\ PlWorks' /\ PlIdle'
  BY Zenon, <1>3, <1>4, <1>9, <1>10, KeepLock, KeepRunning, KeepWorks, KeepIdle DEF PlInv
<1>13. PlManager' /\ PlCount' /\ PlFull'
  BY Zenon, <1>4, <1>9, <1>10, <1>11, KeepManager, KeepCount, KeepFull DEF PlInv
<1>14. PlReserve' /\ PlRelease'
  BY Zenon, <1>3, <1>4, <1>10, <1>11, KeepReserve, KeepRelease DEF PlInv
<1>15. QueuedOnce'
  <2>1. ASSUME NEW u \in PoolWorks
        PROVE  /\ Queued(u)' => u \in pending
               /\ \A v \in Workers : Occurs(scheduled'[v], u) =>
                    /\ ~Occurs(worklist', u)
                    /\ \A z \in Workers : Occurs(scheduled'[z], u) => z = v
    <3>1. /\ Queued(u) => u \in pending
          /\ \A v \in Workers : Occurs(scheduled[v], u) =>
               ~Occurs(worklist, u) /\ \A z \in Workers : Occurs(scheduled[z], u) => z = v
      BY Zenon DEF PlInv, QueuedOnce
    <3>2. /\ Occurs(worklist', u) <=> Occurs(worklist, u) /\ u # x
          /\ \A v \in Workers : Occurs(scheduled'[v], u) <=>
               (Occurs(scheduled[v], u) /\ u # x) \/ (u = x /\ v = c)
      BY Zenon, <1>2, <1>3, <1>7
    <3>3. CASE u = x
      <4>1. /\ ~Occurs(worklist', u) /\ u \in pending
            /\ \A v \in Workers : Occurs(scheduled'[v], u) => v = c
        BY Zenon, <1>2, <3>2, <3>3
      <4> QED BY Zenon, <4>1
    <3>4. CASE u # x
      BY Zenon, <3>1, <3>2, <3>4 DEF Queued
    <3> QED BY Zenon, <3>3, <3>4
  <2> QED BY Zenon, <1>2, <1>3, <1>7, <2>1 DEF QueuedOnce
<1>16. \A v \in Workers : v # w => wkpc'[v] \notin HasLock
  BY Zenon, <1>1, <1>5 DEF PlInv, PlLock
<1>17. PlLists'
  <2>1. ASSUME NEW v \in Workers
        PROVE  /\ scheduled'[v] # <<>> => wkpc'[v] \in Busy \cup {"claim"}
               /\ wkpc'[v] = "claim" => scheduled'[v] # <<>>
               /\ wkpc'[v] # "clr_prep"
    <3>1. CASE v = w
      BY Zenon, <1>5, <3>1
    <3>2. CASE v # w
      <4>1. wkpc'[v] # "claim" /\ wkpc'[v] # "clr_prep" /\ wkpc'[v] = wkpc[v]
        BY Zenon, <1>5, <1>16, <3>2 DEF HasLock
      <4>2. CASE v = c
        BY Zenon, <1>6, <4>1, <4>2
      <4>3. CASE v # c
        BY Zenon, <1>2, <1>7, <3>2, <4>1, <4>3 DEF PlInv, PlLists
      <4> QED BY Zenon, <4>2, <4>3
    <3> QED BY Zenon, <3>1, <3>2
  <2> QED BY Zenon, <2>1 DEF PlLists
<1>18. PlSleep'
  <2>1. \A v \in Workers : wkpc'[v] \notin {"set_prep", "sleep"}
    BY Zenon, <1>5, <1>16 DEF HasLock
  <2> QED BY Zenon, <2>1 DEF PlSleep
<1>19. PlLazy'
  BY Zenon, <1>1, <1>3 DEF PlLazy
<1> QED
  BY Zenon, <1>8, <1>12, <1>13, <1>14, <1>15, <1>17, <1>18, <1>19 DEF PlInv

(* nobody executes the work: this worker does, and lets go of the lock *)
LEMMA RunStep ==
  ASSUME PoolAssumptions, PlInv, NEW w \in Workers, process_one_work(w), ~ Collide(w)
  PROVE  PlInv'
<1> DEFINE x == Claimed(w)
           cond == worklist' # <<>> /\ nr_running = 0
           pcs == IF cond THEN wake_up_worker(wkpc) ELSE wkpc
<1>1. /\ wkpc[w] = "claim" /\ find_worker_executing_work(x) = {}
      /\ worklist' = Unlist(w)[1] /\ scheduled' = Unlist(w)[2]
      /\ curr_work' = [curr_work EXCEPT ![w] = x]
      /\ pending' = pending \ {x} /\ wkpc' = [pcs EXCEPT ![w] = "run"]
      /\ pool_lock' = NoWorker
      /\ nr_running' = nr_running /\ idle_worker' = idle_worker /\ nr_workers' = nr_workers
      /\ manager' = manager /\ idle_timer' = idle_timer /\ die' = die /\ release' = release
  BY DEF process_one_work, workers
<1>2. /\ x \in PoolWorks /\ x \in pending
      /\ worklist' \in Seq(PoolWorks) /\ Distinct(worklist')
      /\ scheduled' \in [Workers -> Seq(PoolWorks)] /\ \A v \in Workers : Distinct(scheduled'[v])
      /\ \A v \in Workers : v # w => scheduled'[v] = scheduled[v]
      /\ \A u \in PoolWorks :
           /\ Occurs(worklist', u) <=> Occurs(worklist, u) /\ u # x
           /\ \A v \in Workers : Occurs(scheduled'[v], u) <=> Occurs(scheduled[v], u) /\ u # x
  BY Zenon, <1>1, ClaimFacts
<1>3. /\ wkpc \in [Workers -> Places] /\ NoWork \notin PoolWorks /\ NoWorker \notin Workers
      /\ curr_work \in [Workers -> PoolWorks \cup {NoWork}] /\ pending \subseteq PoolWorks
      /\ idle_worker \in Seq(Workers) /\ pool_lock = w
  <2>1. wkpc[w] \in HasLock
    BY <1>1 DEF HasLock
  <2> QED BY Zenon, <2>1 DEF PlInv, PlTypes, PlLock, PoolAssumptions
<1>4. /\ pcs \in [Workers -> Places]
      /\ \A v \in Workers : pcs[v] = wkpc[v] \/ (wkpc[v] = "idle" /\ pcs[v] = "woke")
      /\ cond /\ idle_worker # <<>> => /\ Head(idle_worker) \in Workers
                                       /\ pcs[Head(idle_worker)] # "idle"
  BY Zenon, WakeSame DEF PlInv
<1> HIDE DEF x, pcs, cond
<1>5. /\ wkpc' \in [Workers -> Places] /\ wkpc'[w] = "run"
      /\ \A v \in Workers : v # w => wkpc'[v] = pcs[v]
  BY Zenon, <1>1, <1>4 DEF Places
<1>6. \A v \in Workers : v # w => Same(v)
  BY Zenon, <1>4, <1>5 DEF Same
<1>7. /\ curr_work' \in [Workers -> PoolWorks \cup {NoWork}] /\ curr_work'[w] = x
      /\ \A v \in Workers : v # w => curr_work'[v] = curr_work[v]
      /\ pending' \subseteq PoolWorks
  BY Zenon, <1>1, <1>2, <1>3
<1>8. PlTypes'
  BY Zenon, <1>1, <1>2, <1>5, <1>7 DEF PlInv, PlTypes
<1>9. \A v \in Workers : wkpc'[v] \notin HasLock
  <2>1. \A v \in Workers : v # w => wkpc[v] \notin HasLock
    BY Zenon, <1>3 DEF PlInv, PlLock
  <2> QED BY Zenon, <1>5, <1>6, <2>1 DEF Same, HasLock
<1>10. PlLock'
  BY Zenon, <1>1, <1>3, <1>9 DEF PlLock
<1>11. SameIn(Managing) /\ SameIn(Running)
  BY Zenon, <1>1, <1>5, <1>6 DEF Same, SameIn, Managing, Running
<1>12. /\ SameIn({"hook", "hook_lock", "asleep"}) /\ SameIn({"idle", "woke"})
       /\ SameIn({"detach"}) /\ SameIn({"none"}) /\ SameIn({"recheck", "sleep"})
       /\ \A v \in Workers : wkpc'[v] = "idle" => wkpc[v] = "idle"
       /\ \A v \in Workers : wkpc'[v] = "create" => wkpc[v] = "create"
  BY Zenon, <1>1, <1>5, <1>6 DEF Same, SameIn
<1>13. \A v \in Workers : LiveWorker(v)' <=> LiveWorker(v)
  BY Zenon, <1>1, <1>12, KeepLive
<1>14. PlRunning' /\ PlIdle'
  BY Zenon, <1>1, <1>11, <1>12, KeepRunning, KeepIdle DEF PlInv
<1>15. PlManager' /\ PlCount' /\ PlFull' /\ PlReserve'
  BY Zenon, <1>1, <1>11, <1>12, <1>13, KeepManager, KeepCount, KeepFull, KeepReserve DEF PlInv
<1>16. PlWorks'
  <2>1. \A v \in Workers : curr_work[v] # x
    BY <1>1 DEF find_worker_executing_work
  <2>2. \A v \in Workers : v # w => (wkpc'[v] \in Busy <=> wkpc[v] \in Busy)
    BY <1>6 DEF Same, Busy
  <2>3. wkpc'[w] \in Busy /\ curr_work'[w] # NoWork
    BY Zenon, <1>2, <1>3, <1>5, <1>7 DEF Busy
  <2>4. \A v \in Workers : curr_work'[v] # NoWork <=> wkpc'[v] \in Busy
    BY Zenon, <1>7, <2>2, <2>3 DEF PlInv, PlWorks
  <2>5. NoReentrance'
    BY Zenon, <1>7, <2>1 DEF PlInv, PlWorks, NoReentrance
  <2> QED BY Zenon, <2>4, <2>5 DEF PlWorks
<1>17. QueuedOnce'
  <2>1. ASSUME NEW u \in PoolWorks
        PROVE  /\ Queued(u)' => u \in pending'
               /\ \A v \in Workers : Occurs(scheduled'[v], u) =>
                    /\ ~Occurs(worklist', u)
                    /\ \A z \in Workers : Occurs(scheduled'[z], u) => z = v
    <3>1. /\ Queued(u) => u \in pending
          /\ \A v \in Workers : Occurs(scheduled[v], u) =>
               ~Occurs(worklist, u) /\ \A z \in Workers : Occurs(scheduled[z], u) => z = v
      BY Zenon DEF PlInv, QueuedOnce
    <3>2. u \in pending' <=> u \in pending /\ u # x
      BY Zenon, <1>1
    <3>3. /\ Occurs(worklist', u) <=> Occurs(worklist, u) /\ u # x
          /\ \A v \in Workers : Occurs(scheduled'[v], u) <=> Occurs(scheduled[v], u) /\ u # x
      BY Zenon, <1>2
    <3> QED BY Zenon, <3>1, <3>2, <3>3 DEF Queued
  <2> QED BY Zenon, <1>2, <2>1 DEF QueuedOnce
<1>18. PlLists'
  <2>1. ASSUME NEW v \in Workers
        PROVE  /\ scheduled'[v] # <<>> => wkpc'[v] \in Busy \cup {"claim"}
               /\ wkpc'[v] # "claim" /\ wkpc'[v] # "clr_prep"
    <3>1. wkpc'[v] # "claim" /\ wkpc'[v] # "clr_prep"
      BY <1>9 DEF HasLock
    <3>2. CASE v = w
      BY Zenon, <1>5, <3>1, <3>2 DEF Busy
    <3>3. CASE v # w
      <4>1. scheduled'[v] # <<>> => wkpc[v] \in Busy \cup {"claim"}
        BY Zenon, <1>2, <3>3 DEF PlInv, PlLists
      <4>2. wkpc[v] \in Busy \cup {"claim"} => wkpc'[v] = wkpc[v]
        BY Zenon, <1>6, <3>3 DEF Same, Busy
      <4> QED BY Zenon, <3>1, <4>1, <4>2
    <3> QED BY Zenon, <3>2, <3>3
  <2> QED BY Zenon, <2>1 DEF PlLists
<1>19. PlSleep'
  <2>1. \A v \in Workers : wkpc'[v] \notin {"set_prep", "sleep"}
    BY <1>9 DEF HasLock
  <2> QED BY Zenon, <2>1 DEF PlSleep
<1>20. PlLazy'
  <2> SUFFICES ASSUME worklist' # <<>> PROVE \E v \in Workers : Comes(v)'
    BY Zenon DEF PlLazy
  <2>1. wkpc'[w] \notin {"none", "idle", "woke", "detach"}
    BY <1>5
  <2>2. CASE Bound \/ idle_worker = <<>>
    BY Zenon, <1>1, <1>14, <2>1, <2>2, WorkingComes
  <2>3. CASE ~Bound /\ idle_worker # <<>>
    <3>1. cond
      BY Zenon, <2>3 DEF PlInv, PlRunning, RunningCounted, cond
    <3> DEFINE h == Head(idle_worker)
    <3>2. h \in Workers /\ pcs[h] # "idle"
      BY Zenon, <1>4, <2>3, <3>1
    <3>3. wkpc'[h] # "idle"
      <4>1. CASE h = w
        BY Zenon, <2>1, <4>1
      <4>2. CASE h # w
        BY Zenon, <1>5, <3>2, <4>2
      <4> QED BY Zenon, <4>1, <4>2
    <3> QED BY Zenon, <1>1, <1>3, <1>14, <2>3, <3>2, <3>3, WokenComes
  <2> QED BY Zenon, <2>2, <2>3
<1>21. PlRelease'
  <2>1. release = "no"
    BY Zenon, <1>2 DEF PlInv, PlRelease
  <2>2. release' = "no" /\ release' \notin {"detach", "wait", "done"}
    BY Zenon, <1>1, <2>1
  <2> QED BY Zenon, <2>2 DEF PlRelease
<1> QED
  BY Zenon, <1>8, <1>10, <1>14, <1>15, <1>16, <1>17, <1>18, <1>19, <1>20, <1>21 DEF PlInv

-----------------------------------------------------------------------------
(* init_worker_pool and create_worker *)
LEMMA PoolStart ==
  ASSUME PoolAssumptions, PoolInit
  PROVE  PlInv
<1>1. /\ IsFiniteSet(Workers) /\ First \in Workers /\ NoWorker \notin Workers
      /\ NoWork \notin PoolWorks /\ MaxWorkers \in Nat \ {0} /\ Bound \in BOOLEAN
  BY DEF PoolAssumptions
<1>2. /\ pool_lock = NoWorker /\ worklist = <<>> /\ pending = {} /\ nr_running = 0
      /\ idle_worker = <<First>> /\ nr_workers = 1 /\ manager = FALSE /\ idle_timer = FALSE
      /\ curr_work = [w \in Workers |-> NoWork] /\ scheduled = [w \in Workers |-> <<>>]
      /\ die = {} /\ release = "no"
      /\ wkpc = [w \in Workers |-> IF w = First THEN "woke" ELSE "none"]
  BY DEF PoolInit
<1>3. \A w \in Workers : /\ curr_work[w] = NoWork /\ scheduled[w] = <<>>
                         /\ wkpc[w] = IF w = First THEN "woke" ELSE "none"
  BY <1>2
<1>4. PlTypes
  <2>1. wkpc \in [Workers -> Places]
    BY <1>2 DEF Places
  <2>2. curr_work \in [Workers -> PoolWorks \cup {NoWork}] /\ scheduled \in [Workers -> Seq(PoolWorks)]
    BY <1>2
  <2>3. /\ pool_lock \in Workers \cup {NoWorker} /\ worklist \in Seq(PoolWorks)
        /\ pending \subseteq PoolWorks /\ nr_running \in Int /\ nr_workers \in Int
        /\ idle_worker \in Seq(Workers) /\ die \subseteq Workers
        /\ release \in {"no", "manager", "detach", "wait", "done"}
    BY <1>1, <1>2
  <2>4. manager \in BOOLEAN /\ idle_timer \in BOOLEAN
    BY Zenon, <1>2
  <2> QED BY Zenon, <2>1, <2>2, <2>3, <2>4 DEF PlTypes
<1>5. \A w \in Workers : /\ wkpc[w] \notin HasLock /\ wkpc[w] \notin Managing /\ wkpc[w] \notin Busy
                         /\ wkpc[w] \notin Running
  BY <1>3 DEF HasLock, Managing, Busy, Running
<1>6. \A w \in Workers : wkpc[w] \notin {"hook", "hook_lock", "asleep", "create", "claim", "clr_prep",
                                          "set_prep", "sleep", "detach", "idle"}
  BY <1>3
<1>7. PlLock /\ PlManager /\ PlWorks
  BY Zenon, <1>1, <1>2, <1>3, <1>5 DEF PlLock, PlManager, PlWorks, NoReentrance
<1>8. Distinct(idle_worker) /\ \A w \in Workers : Occurs(idle_worker, w) <=> w = First
  BY <1>1, <1>2 DEF Distinct, Occurs
<1>9. PlIdle
  <2>1. \A w \in Workers : wkpc[w] \in {"idle", "woke"} <=> w = First
    BY <1>3
  <2> QED BY Zenon, <1>2, <1>6, <1>8, <2>1 DEF PlIdle
<1>10. PlCount
  <2>1. {w \in Workers : LiveWorker(w)} = {First}
    BY Zenon, <1>1, <1>2, <1>3 DEF LiveWorker
  <2> QED BY Zenon, <1>2, <2>1, CardSingleton DEF PlCount
<1>11. PlRunning
  <2>1. {w \in Workers : wkpc[w] \in Running} = {}
    BY <1>5
  <2>2. RunningCounted
    BY Zenon, <1>2, <2>1, CardEmpty DEF RunningCounted
  <2> QED BY Zenon, <1>6, <2>2 DEF PlRunning
<1>12. PlFull
  <2>1. nr_workers <= MaxWorkers
    BY <1>1, <1>2
  <2> QED BY Zenon, <1>6, <2>1 DEF PlFull
<1>13. QueuedOnce
  <2>1. Distinct(<<>>) /\ \A x : ~ Occurs(<<>>, x)
    BY DEF Distinct, Occurs
  <2> QED BY Zenon, <1>2, <1>3, <2>1 DEF QueuedOnce, Queued
<1>14. PlLists /\ PlSleep /\ PlLazy
  BY Zenon, <1>2, <1>3, <1>6 DEF PlLists, PlSleep, PlLazy
<1>15. PlReserve /\ PlRelease
  <2>1. idle_worker # <<>> /\ release \notin {"detach", "wait", "done"}
    BY <1>2
  <2> QED BY Zenon, <1>2, <2>1 DEF PlReserve, PlRelease
<1> QED
  BY Zenon, <1>4, <1>7, <1>9, <1>10, <1>11, <1>12, <1>13, <1>14, <1>15 DEF PlInv

LEMMA WorkerStep ==
  ASSUME PoolAssumptions, PlInv, NEW w \in Workers, WorkerSteps(w)
  PROVE  PlInv'
<1>1. PlTypes /\ PlRunning
  BY Zenon DEF PlInv
<1>2. CASE woke_up(w)
  BY Zenon, <1>2, WokeStep, DieStep
<1>3. CASE manage_workers_done(w)
  BY Zenon, <1>1, <1>3, ManagerSteps, ManagerStep, ManagedStep
<1>4. CASE process_one_work_done(w)
  BY Zenon, <1>4, DoneStep
<1>5. CASE \E n \in Workers : create_worker(w, n)
  BY Zenon, <1>5, CreateStep
<1>6. CASE recheck(w)
  BY Zenon, <1>1, <1>6, BecomeManagerStep, LockSteps, LockStep
<1>7. CASE clr_prep(w) \/ keep_working_check(w) \/ set_prep(w)
  BY Zenon, <1>1, <1>7, LockSteps, LockStep
<1>8. CASE process_one_work(w)
  <2>1. wkpc[w] = "claim" /\ UNCHANGED <<nr_running, workers, release>>
    BY <1>8 DEF process_one_work
  <2> QED BY Zenon, <1>8, <2>1, CollideStep, RunStep
<1>9. CASE enter_idle(w)
  BY Zenon, <1>9, EnterIdleStep
<1>10. CASE cooldown(w) \/ create_worker_fails(w)
  BY Zenon, <1>1, <1>10, ManagerSteps, ManagerStep
<1>11. CASE worker_detach_from_pool(w)
  <2>1. w \in die
    BY Zenon, <1>11 DEF PlInv, PlIdle, worker_detach_from_pool
  <2> QED BY Zenon, <1>11, <2>1, DieStep
<1>12. CASE \/ func_returns(w) \/ wq_worker_sleeping(w) \/ wq_worker_waking_up(w)
            \/ sleeping_peek(w) \/ sleeping_wake(w)
  BY Zenon, <1>1, <1>12, BusySteps, BusyStep
<1> QED
  BY Zenon, <1>2, <1>3, <1>4, <1>5, <1>6, <1>7, <1>8, <1>9, <1>10, <1>11, <1>12
     DEF WorkerSteps, Acquire, Locked, Unlocked

LEMMA PoolStep ==
  ASSUME PoolAssumptions, PlInv, [PoolNext]_plvars
  PROVE  PlInv'
<1>1. CASE \E x \in PoolWorks : queue_work(x) \/ pool_insert_work(x)
  BY Zenon, <1>1, StillSteps, InsertStep
<1>2. CASE \E w \in Workers : WorkerSteps(w)
  BY Zenon, <1>2, WorkerStep
<1>3. CASE idle_worker_timeout
  BY Zenon, <1>3, StillSteps, TimeoutStep
<1>4. CASE put_unbound_pool \/ PoolRelease
  BY Zenon, <1>4, StillSteps, KillStep DEF PoolRelease
<1>5. CASE UNCHANGED plvars
  <2>1. Still /\ pending' = pending /\ idle_timer' = idle_timer /\ release' = release
    BY <1>5 DEF plvars, works, workers, Still
  <2>2. /\ pending' \subseteq PoolWorks /\ pending \subseteq pending' /\ idle_timer' \in BOOLEAN
        /\ release' \in {"no", "manager", "detach", "wait", "done"}
    BY Zenon, <2>1 DEF PlInv, PlTypes
  <2>3. PlRelease'
    BY Zenon, <2>1 DEF PlInv, PlRelease, LiveWorker, Still
  <2> QED BY Zenon, <2>1, <2>2, <2>3, StillStep
<1> QED BY Zenon, <1>1, <1>2, <1>3, <1>4, <1>5 DEF PoolNext

LEMMA PoolInvariant ==
  ASSUME PoolAssumptions
  PROVE  PoolSpec => []PlInv
<1>1. PoolInit => PlInv
  BY Zenon, PoolStart
<1>2. PlInv /\ [PoolNext]_plvars => PlInv'
  BY Zenon, PoolStep
<1> QED BY <1>1, <1>2, PTL DEF PoolSpec

(* nr_workers and the idle list are exact. *)
LEMMA PoolCounts ==
  ASSUME PoolAssumptions, PlInv
  PROVE  /\ WorkersCounted /\ nr_workers \in 0 .. MaxWorkers /\ nr_running \in 0 .. MaxWorkers
<1> DEFINE L == {w \in Workers : LiveWorker(w)}
           R == {w \in Workers : wkpc[w] \in Running}
<1>1. /\ IsFiniteSet(Workers) /\ MaxWorkers \in Nat /\ idle_worker \in Seq(Workers)
      /\ Distinct(idle_worker) /\ nr_workers = Cardinality(L) /\ nr_workers <= MaxWorkers
      /\ nr_running = IF Bound THEN Cardinality(R) ELSE 0
  <2>1. MaxWorkers \in Nat \ {0}
    BY Zenon DEF PoolAssumptions
  <2> QED BY Zenon, <2>1 DEF PoolAssumptions, PlInv, PlTypes, PlIdle, PlCount, PlFull, PlRunning,
                             RunningCounted
<1>2. \A w \in Workers :
        /\ Occurs(idle_worker, w) <=> w \notin die /\ wkpc[w] \in {"idle", "woke"}
        /\ w \in die => wkpc[w] \in {"woke", "detach"}
  BY Zenon DEF PlInv, PlIdle
<1>3. L \in SUBSET Workers /\ R \in SUBSET L
  BY <1>2 DEF LiveWorker, Running
<1>4. IdleSet = {w \in Workers : LiveWorker(w) /\ wkpc[w] \in {"idle", "woke"}}
  BY <1>2 DEF IdleSet, LiveWorker
<1>5. Len(idle_worker) = Cardinality(IdleSet)
  <2>1. IdleSet = {idle_worker[i] : i \in 1 .. Len(idle_worker)}
    BY <1>1 DEF IdleSet, Occurs
  <2>2. Len(idle_worker) \in 0 .. Len(idle_worker)
    BY <1>1
  <2> QED BY Zenon, <1>1, <2>1, <2>2, ListPrefixCardinality
<1> HIDE DEF L, R
<1>6. IsFiniteSet(L)
  BY Zenon, <1>1, <1>3, CardSubset
<1>7. IsFiniteSet(R) /\ Cardinality(R) <= Cardinality(L)
  BY Zenon, <1>3, <1>6, CardSubset
<1>8. Cardinality(L) \in Nat /\ Cardinality(R) \in Nat
  BY Zenon, <1>6, <1>7, CardType
<1>9. nr_workers \in 0 .. MaxWorkers /\ nr_running \in 0 .. MaxWorkers
  BY <1>1, <1>7, <1>8
<1> QED BY Zenon, <1>1, <1>4, <1>5, <1>9 DEF WorkersCounted, L

(***************************************************************************)
(* worker_cb, process_one_work, manage_workers, the hooks of the scheduler *)
(* and the idle timer keep the promises of a pool, for any number of       *)
(* workers and works and any MAX_WORKERS_PER_POOL.                         *)
(***************************************************************************)
THEOREM PoolIsReady ==
  ASSUME PoolAssumptions
  PROVE  PoolSpec => []PoolStaysReady
<1>1. PlInv => PoolStaysReady
  <2> SUFFICES ASSUME PlInv PROVE PoolStaysReady
    OBVIOUS
  <2>1. WorkersCounted /\ PoolTypeOK
    BY Zenon, PoolCounts DEF PlInv, PlTypes, PoolTypeOK
  <2>2. RunningCounted /\ NoReentrance /\ QueuedOnce
    BY Zenon DEF PlInv, PlRunning, PlWorks
  <2>3. ScheduledHasWorker
    <3>1. Busy \cup {"claim"} \subseteq Running \cup {"hook", "hook_lock", "asleep"}
      BY DEF Busy, Running
    <3> QED BY Zenon, <3>1 DEF PlInv, PlLists, ScheduledHasWorker
  <2>4. ReserveWorker
    <3> SUFFICES ASSUME pool_lock = NoWorker, ~manager
                 PROVE  idle_worker # <<>> \/ nr_workers >= MaxWorkers
      BY Zenon DEF ReserveWorker
    <3>1. \A w \in Workers : wkpc[w] \notin HasLock
      BY Zenon DEF PlInv, PlLock, PoolAssumptions
    <3>2. \A w \in Workers : wkpc[w] \notin {"recheck", "sleep"}
      BY <3>1 DEF HasLock
    <3> QED BY Zenon, <3>2 DEF PlInv, PlReserve
  <2>5. LazyOnlyWhileAsleep
    <3> SUFFICES ASSUME pool_lock = NoWorker, worklist # <<>>
                 PROVE  \E w \in Workers : Coming(w) \/ wkpc[w] = "asleep" \/ wkpc[w] = "run"
      BY Zenon DEF LazyOnlyWhileAsleep
    <3>1. PICK w \in Workers : LiveWorker(w) /\ wkpc[w] # "idle"
      BY Zenon DEF PlInv, PlLazy, Comes
    <3> QED BY Zenon, <3>1 DEF Coming
  <2> QED BY Zenon, <2>1, <2>2, <2>3, <2>4, <2>5 DEF PoolStaysReady
<1> QED BY <1>1, PoolInvariant, PTL

(***************************************************************************)
(* The counts of a pool are exact, an unbound pool has no lazy workers,    *)
(* and put_unbound_pool leaves nobody behind.                              *)
(***************************************************************************)
THEOREM PoolKeepsAccounts ==
  ASSUME PoolAssumptions
  PROVE  PoolSpec => []PoolAccounts
<1>1. PlInv => PoolAccounts
  <2> SUFFICES ASSUME PlInv PROVE PoolAccounts
    OBVIOUS
  <2>1. WorkersCounted
    BY Zenon, PoolCounts
  <2>2. ASSUME ~Bound PROVE NoLazyWorkers
    <3> SUFFICES ASSUME pool_lock = NoWorker, worklist # <<>>, idle_worker # <<>>
                 PROVE  \E w \in Workers : Coming(w)
      BY Zenon DEF NoLazyWorkers
    <3>1. PICK w \in Workers : LiveWorker(w) /\ wkpc[w] # "idle" /\ wkpc[w] # "run"
      BY Zenon, <2>2 DEF PlInv, PlLazy, Comes
    <3>2. wkpc[w] # "asleep"
      BY Zenon, <2>2 DEF PlInv, PlRunning
    <3> QED BY Zenon, <3>1, <3>2 DEF Coming
  <2>3. ReleaseKillsAll
    <3> SUFFICES ASSUME release \in {"detach", "wait", "done"}
                 PROVE  nr_workers = 0 /\ \A w \in Workers : ~ LiveWorker(w)
      BY Zenon DEF ReleaseKillsAll
    <3>1. \A w \in Workers : ~ LiveWorker(w)
      BY Zenon DEF PlInv, PlRelease
    <3>2. {w \in Workers : LiveWorker(w)} = {}
      BY Zenon, <3>1
    <3> QED BY Zenon, <3>1, <3>2, CardEmpty DEF PlInv, PlCount
  <2> QED BY Zenon, <2>1, <2>2, <2>3 DEF PoolAccounts
<1> QED BY <1>1, PoolInvariant, PTL

=============================================================================
