----------------------------- MODULE WorkerPool -----------------------------
(***************************************************************************)
(* One worker pool of src/process/workqueue.c: how its workers are woken,  *)
(* claim works, go to sleep inside a work, are created, grow too many and  *)
(* are destroyed, and how an unbound pool is released.                     *)
(*                                                                         *)
(* pool->lock is a mutex (see Mutex); pool_lock is its owner.  A critical  *)
(* section is one step where it looks at nr_running at most once, and is   *)
(* cut in front of every further look, because nr_running is changed       *)
(* without the lock by workers that fall asleep or wake up in a work.      *)
(* Threads other than the workers have whole critical sections as steps.   *)
(*                                                                         *)
(* A worker in wait_on keeps a wake-up that comes before it sleeps (cond # *)
(* last_cond, see Completion) and forgets it when it joins its wait queue  *)
(* again, so waking an idle worker just makes it runnable.                 *)
(*                                                                         *)
(* Works are unlinked: barriers, max_active and cancelling are not here.   *)
(***************************************************************************)
EXTENDS Integers, Sequences, FiniteSets, ListOps

CONSTANTS
  Workers,      (* the wq_workers there can be                             *)
  PoolWorks,    (* the work_structs                                        *)
  NoWorker,     (* the owner of a free lock                                *)
  NoWork,       (* a NULL curr_work                                        *)
  MaxWorkers,   (* MAX_WORKERS_PER_POOL                                    *)
  Bound,        (* a per-CPU pool (TRUE) or an unbound one                 *)
  First         (* the worker the pool is created with                     *)

VARIABLES
  pool_lock,    (* who holds pool->lock                                    *)
  worklist,     (* pool->worklist                                          *)
  pending,      (* the works whose WQ_WORK_PENDING bit is set              *)
  nr_running,   (* pool->nr_running                                        *)
  idle_worker,  (* pool->idle_worker, nr_idles long                        *)
  nr_workers,   (* pool->nr_workers                                        *)
  manager,      (* POOL_MANAGER_ACTIVE                                     *)
  idle_timer,   (* is pool->idle_timer pending?                            *)
  curr_work,    (* worker->curr_work                                       *)
  scheduled,    (* worker->scheduled                                       *)
  die,          (* the workers flagged WORKER_DIE                          *)
  release,      (* how far put_unbound_pool has come                       *)
  wkpc

works == <<worklist, pending, curr_work, scheduled>>
workers == <<idle_worker, nr_workers, manager, idle_timer, die>>
plvars == <<pool_lock, works, nr_running, workers, release, wkpc>>

Places ==
  {"none", "idle", "woke", "recheck", "create", "cooldown", "relock",
   "clr_prep", "claim", "run", "hook", "hook_lock", "asleep", "return",
   "keep", "set_prep", "sleep", "detach"}

(* Without WORKER_PREP, and not asleep in a work: counted by nr_running. *)
Running == {"claim", "run", "return", "keep", "set_prep"}

Goto(w, p) == wkpc' = [wkpc EXCEPT ![w] = p]

(* wake_up_one_locked on the wait queue of a worker. *)
Wake(pcs, w) == [pcs EXCEPT ![w] = IF @ = "idle" THEN "woke" ELSE @]

(* wake_up_worker: the first idle worker; it stays on the idle list. *)
wake_up_worker(pcs) ==
  IF idle_worker = <<>> THEN pcs ELSE Wake(pcs, Head(idle_worker))

IdleSet == {w \in Workers : Occurs(idle_worker, w)}

need_more_worker == worklist # <<>> /\ nr_running = 0

may_start_working == idle_worker # <<>> \/ nr_workers >= MaxWorkers
need_to_create_worker == need_more_worker /\ ~may_start_working
keep_working == worklist # <<>> /\ nr_running <= 1

(* too_many_workers of a pool with these idle workers and nr workers. *)
too_many_workers(idles, nr) ==
  LET nr_idles == Len(idles) + (IF manager THEN 1 ELSE 0)
  IN  nr_idles > 2 /\ (nr_idles - 2) * 4 >= nr - nr_idles

(* A worker of an unbound pool never counts: WORKER_UNBOUND is part of     *)
(* WORKER_NOT_RUNNING.                                                     *)
add_running(d) == nr_running' = IF Bound THEN nr_running + d ELSE nr_running

(* The pool as init_worker_pool and create_worker leave it. *)
PoolInit ==
  /\ pool_lock = NoWorker
  /\ worklist = <<>> /\ pending = {}
  /\ nr_running = 0
  /\ idle_worker = <<First>> /\ nr_workers = 1
  /\ manager = FALSE /\ idle_timer = FALSE
  /\ curr_work = [w \in Workers |-> NoWork]
  /\ scheduled = [w \in Workers |-> <<>>]
  /\ die = {}
  /\ release = "no"
  /\ wkpc = [w \in Workers |-> IF w = First THEN "woke" ELSE "none"]

-----------------------------------------------------------------------------
(* queue_work_on takes the PENDING bit; the work is not on a list yet. *)
queue_work(x) ==
  /\ release = "no"
  /\ x \notin pending
  /\ pending' = pending \cup {x}
  /\ UNCHANGED <<pool_lock, worklist, curr_work, scheduled, nr_running, workers,
                 release, wkpc>>

Queued(x) ==
  Occurs(worklist, x) \/ \E w \in Workers : Occurs(scheduled[w], x)

(* Mutant: the test of nr_running is the wrong way round. *)
InsertNoWake(x) ==
  /\ x \in pending /\ ~Queued(x)
  /\ pool_lock = NoWorker
  /\ worklist' = list_add_tail(worklist, x)
  /\ wkpc' = IF nr_running # 0 THEN wake_up_worker(wkpc) ELSE wkpc
  /\ UNCHANGED <<pool_lock, pending, curr_work, scheduled, nr_running, workers,
                 release>>

(* __queue_work under the pool lock, and insert_work. *)
pool_insert_work(x) ==
  /\ x \in pending /\ ~Queued(x)
  /\ pool_lock = NoWorker
  /\ worklist' = list_add_tail(worklist, x)
  /\ wkpc' = IF nr_running = 0 THEN wake_up_worker(wkpc) ELSE wkpc
  /\ UNCHANGED <<pool_lock, pending, curr_work, scheduled, nr_running, workers,
                 release>>

-----------------------------------------------------------------------------
(* Mutant: the worker stays on the idle list while it works. *)
WokeStaysIdle(w) ==
  /\ wkpc[w] = "woke"
  /\ pool_lock = NoWorker
  /\ pool_lock' = IF w \in die THEN pool_lock ELSE w
  /\ Goto(w, IF w \in die THEN "detach" ELSE "recheck")
  /\ UNCHANGED <<works, nr_running, workers, release>>

(* worker_cb, woken up: take the lock; die, or leave the idle list. *)
woke_up(w) ==
  /\ wkpc[w] = "woke"
  /\ pool_lock = NoWorker
  /\ \/ /\ w \in die
        /\ Goto(w, "detach")
        /\ UNCHANGED <<pool_lock, idle_worker>>
     \/ /\ w \notin die
        /\ pool_lock' = w
        /\ idle_worker' = list_del(idle_worker, w)
        /\ Goto(w, "recheck")
  /\ UNCHANGED <<works, nr_running, nr_workers, manager, idle_timer, die, release>>

(* Mutant: the last idle worker starts to work and leaves nobody behind. *)
RecheckNoManager(w) ==
  /\ wkpc[w] = "recheck"
  /\ Goto(w, IF need_more_worker THEN "clr_prep" ELSE "sleep")
  /\ UNCHANGED <<pool_lock, works, nr_running, workers, release>>

(* recheck: nothing to do, or become the manager, or start to work. *)
recheck(w) ==
  /\ wkpc[w] = "recheck"
  /\ \/ /\ ~need_more_worker
        /\ Goto(w, "sleep")
        /\ UNCHANGED <<pool_lock, manager>>
     \/ /\ need_more_worker
        /\ ~may_start_working /\ ~manager
        /\ manager' = TRUE
        /\ pool_lock' = NoWorker
        /\ Goto(w, "create")
     \/ /\ need_more_worker
        /\ may_start_working \/ manager
        /\ Goto(w, "clr_prep")
        /\ UNCHANGED <<pool_lock, manager>>
  /\ UNCHANGED <<works, nr_running, idle_worker, nr_workers, idle_timer, die, release>>

(* worker_enter_idle: last in, first out; arms the timer at need. *)
worker_enter_idle(n, nr) ==
  LET idles == <<n>> \o idle_worker
  IN  /\ idle_worker' = idles
      /\ idle_timer' = (idle_timer \/ too_many_workers(idles, nr))

(* maybe_create_worker: create_worker succeeds, n is idle and launched. *)
create_worker(w, n) ==
  /\ wkpc[w] = "create" /\ wkpc[n] = "none"
  /\ pool_lock = NoWorker
  /\ nr_workers' = nr_workers + 1
  /\ worker_enter_idle(n, nr_workers + 1)
  /\ wkpc' = [wkpc EXCEPT ![w] = "relock", ![n] = "woke"]
  /\ UNCHANGED <<pool_lock, works, nr_running, manager, die, release>>

(* No thread: look, without the lock, whether it is still needed. *)
create_worker_fails(w) ==
  /\ wkpc[w] = "create"
  /\ Goto(w, IF need_to_create_worker THEN "cooldown" ELSE "relock")
  /\ UNCHANGED <<pool_lock, works, nr_running, workers, release>>

(* After msleep_unintr: look again and retry, or give up. *)
cooldown(w) ==
  /\ wkpc[w] = "cooldown"
  /\ Goto(w, IF need_to_create_worker THEN "create" ELSE "relock")
  /\ UNCHANGED <<pool_lock, works, nr_running, workers, release>>

(* The end of maybe_create_worker and of manage_workers. *)
manage_workers_done(w) ==
  /\ wkpc[w] = "relock"
  /\ pool_lock = NoWorker
  /\ \/ /\ need_to_create_worker
        /\ Goto(w, "create")
        /\ UNCHANGED <<pool_lock, manager>>
     \/ /\ ~need_to_create_worker
        /\ pool_lock' = w
        /\ manager' = FALSE
        /\ Goto(w, "recheck")
  /\ UNCHANGED <<works, nr_running, idle_worker, nr_workers, idle_timer, die, release>>

(* worker_clr_flags(WORKER_PREP). *)
clr_prep(w) ==
  /\ wkpc[w] = "clr_prep"
  /\ add_running(1)
  /\ Goto(w, "claim")
  /\ UNCHANGED <<pool_lock, works, workers, release>>

-----------------------------------------------------------------------------
(* The work of the next process_one_work: process_scheduled_works comes    *)
(* before the next look at the worklist.                                   *)
Claimed(w) ==
  IF scheduled[w] # <<>> THEN Head(scheduled[w]) ELSE Head(worklist)

(* Mutant: the look for a worker that executes the work is left out. *)
FindNobody(x) == {}

find_worker_executing_work(x) == {v \in Workers : curr_work[v] = x}

(* The lists without the claimed work. *)
Unlist(w) ==
  IF scheduled[w] # <<>>
  THEN <<worklist, [scheduled EXCEPT ![w] = Tail(@)]>>
  ELSE <<Tail(worklist), scheduled>>

(* Mutant: the PENDING bit is cleared before the look for a collision. *)
CollideClears(w) ==
  \E v \in find_worker_executing_work(Claimed(w)) :
    /\ worklist' = Unlist(w)[1]
    /\ scheduled' = [Unlist(w)[2] EXCEPT ![v] = list_add_tail(@, Claimed(w))]
    /\ pending' = pending \ {Claimed(w)}
    /\ Goto(w, IF scheduled'[w] # <<>> THEN "claim" ELSE "keep")
    /\ UNCHANGED <<pool_lock, curr_work>>

(* A work that another worker executes is left to that worker. *)
Collide(w) ==
  \E v \in find_worker_executing_work(Claimed(w)) :
    /\ worklist' = Unlist(w)[1]
    /\ scheduled' = [Unlist(w)[2] EXCEPT ![v] = list_add_tail(@, Claimed(w))]
    /\ Goto(w, IF scheduled'[w] # <<>> THEN "claim" ELSE "keep")
    /\ UNCHANGED <<pool_lock, pending, curr_work>>

(* process_one_work up to the call of the work's function. *)
process_one_work(w) ==
  /\ wkpc[w] = "claim"
  /\ \/ Collide(w)
     \/ /\ find_worker_executing_work(Claimed(w)) = {}
        /\ worklist' = Unlist(w)[1] /\ scheduled' = Unlist(w)[2]
        /\ curr_work' = [curr_work EXCEPT ![w] = Claimed(w)]
        /\ pending' = pending \ {Claimed(w)}
        /\ wkpc' = [(IF worklist' # <<>> /\ nr_running = 0
                    THEN wake_up_worker(wkpc) ELSE wkpc) EXCEPT ![w] = "run"]
        /\ pool_lock' = NoWorker
  /\ UNCHANGED <<nr_running, workers, release>>

(* The work's function returns. *)
func_returns(w) ==
  /\ wkpc[w] = "run"
  /\ Goto(w, "return")
  /\ UNCHANGED <<pool_lock, works, nr_running, workers, release>>

(* Mutant: process_scheduled_works is forgotten. *)
DoneIgnoresScheduled(w) ==
  /\ wkpc[w] = "return"
  /\ pool_lock = NoWorker
  /\ pool_lock' = w
  /\ curr_work' = [curr_work EXCEPT ![w] = NoWork]
  /\ Goto(w, "keep")
  /\ UNCHANGED <<worklist, pending, scheduled, nr_running, workers, release>>

(* The rest of process_one_work, and of process_scheduled_works. *)
process_one_work_done(w) ==
  /\ wkpc[w] = "return"
  /\ pool_lock = NoWorker
  /\ pool_lock' = w
  /\ curr_work' = [curr_work EXCEPT ![w] = NoWork]
  /\ Goto(w, IF scheduled[w] # <<>> THEN "claim" ELSE "keep")
  /\ UNCHANGED <<worklist, pending, scheduled, nr_running, workers, release>>

(* The condition of the loop of worker_cb. *)
keep_working_check(w) ==
  /\ wkpc[w] = "keep"
  /\ Goto(w, IF keep_working THEN "claim" ELSE "set_prep")
  /\ UNCHANGED <<pool_lock, works, nr_running, workers, release>>

(* worker_set_flags(WORKER_PREP). *)
set_prep(w) ==
  /\ wkpc[w] = "set_prep"
  /\ add_running(-1)
  /\ Goto(w, "sleep")
  /\ UNCHANGED <<pool_lock, works, workers, release>>

(* sleep: enter idle, join the wait queue, unlock, wait_on. *)
enter_idle(w) ==
  /\ wkpc[w] = "sleep"
  /\ worker_enter_idle(w, nr_workers)
  /\ pool_lock' = NoWorker
  /\ Goto(w, "idle")
  /\ UNCHANGED <<works, nr_running, nr_workers, manager, die, release>>

(* Mutant: the last worker does not complete detach_completion. *)
DetachNoComplete(w) ==
  /\ wkpc[w] = "detach"
  /\ Goto(w, "none")
  /\ die' = die \ {w}
  /\ UNCHANGED <<pool_lock, works, nr_running, idle_worker, nr_workers, manager,
                 idle_timer, release>>

(* out: worker_detach_from_pool, and the thread ends. *)
worker_detach_from_pool(w) ==
  /\ wkpc[w] = "detach"
  /\ Goto(w, "none")
  /\ die' = die \ {w}
  /\ release' = IF release = "wait" /\ \A v \in Workers : wkpc'[v] = "none"
                THEN "done" ELSE release
  /\ UNCHANGED <<pool_lock, works, nr_running, idle_worker, nr_workers, manager, idle_timer>>

-----------------------------------------------------------------------------
(* __wq_worker_sleeping, called by a work that is about to block.  The     *)
(* worker of an unbound pool returns at once.                              *)
wq_worker_sleeping(w) ==
  /\ Bound
  /\ wkpc[w] = "run"
  /\ add_running(-1)
  /\ Goto(w, IF nr_running' = 0 THEN "hook" ELSE "asleep")
  /\ UNCHANGED <<pool_lock, works, workers, release>>

(* nr_running fell to zero: list_empty_careful, without the lock. *)
sleeping_peek(w) ==
  /\ wkpc[w] = "hook"
  /\ Goto(w, IF worklist # <<>> THEN "hook_lock" ELSE "asleep")
  /\ UNCHANGED <<pool_lock, works, nr_running, workers, release>>

sleeping_wake(w) ==
  /\ wkpc[w] = "hook_lock"
  /\ pool_lock = NoWorker
  /\ wkpc' = [(IF worklist # <<>> THEN wake_up_worker(wkpc) ELSE wkpc)
              EXCEPT ![w] = "asleep"]
  /\ UNCHANGED <<pool_lock, works, nr_running, workers, release>>

(* Mutant: the worker is not counted again. *)
WakingUpUncounted(w) ==
  /\ wkpc[w] = "asleep"
  /\ Goto(w, "run")
  /\ UNCHANGED <<pool_lock, works, nr_running, workers, release>>

(* __wq_worker_waking_up: what it blocked on has come. *)
wq_worker_waking_up(w) ==
  /\ wkpc[w] = "asleep"
  /\ add_running(1)
  /\ Goto(w, "run")
  /\ UNCHANGED <<pool_lock, works, workers, release>>

-----------------------------------------------------------------------------
(* idle_worker_timeout: destroy_worker on the last idle worker if it was   *)
(* idle for long enough.  The loop destroys several by firing again; how   *)
(* long a worker has been idle is not modelled.                            *)
idle_worker_timeout ==
  /\ idle_timer
  /\ pool_lock = NoWorker
  /\ \/ /\ too_many_workers(idle_worker, nr_workers)
        /\ LET w == idle_worker[Len(idle_worker)]
           IN  /\ idle_worker' = SubSeq(idle_worker, 1, Len(idle_worker) - 1)
               /\ nr_workers' = nr_workers - 1
               /\ die' = die \cup {w}
               /\ wkpc' = Wake(wkpc, w)
        /\ idle_timer' = too_many_workers(idle_worker', nr_workers')
     \/ /\ ~too_many_workers(idle_worker, nr_workers)
        /\ idle_timer' = FALSE
        /\ UNCHANGED <<idle_worker, nr_workers, die, wkpc>>
  /\ UNCHANGED <<pool_lock, works, nr_running, manager, release>>

(* put_unbound_pool, called when the last reference of a pool_workqueue is *)
(* gone: every queued work holds one until its worker has taken the lock   *)
(* again.  From here the pool cannot be found any more.                    *)
put_unbound_pool ==
  /\ ~Bound
  /\ release = "no"
  /\ pending = {} /\ \A w \in Workers : curr_work[w] = NoWork
  /\ release' = "manager"
  /\ UNCHANGED <<pool_lock, works, nr_running, workers, wkpc>>

(* Mutant: the manager is not waited for. *)
PutPoolNoWait ==
  /\ release = "manager"
  /\ pool_lock = NoWorker
  /\ manager' = TRUE
  /\ idle_worker' = <<>>
  /\ nr_workers' = nr_workers - Len(idle_worker)
  /\ die' = die \cup IdleSet
  /\ wkpc' = [w \in Workers |-> IF Occurs(idle_worker, w) /\ wkpc[w] = "idle"
                              THEN "woke" ELSE wkpc[w]]
  /\ release' = "detach"
  /\ UNCHANGED <<pool_lock, works, nr_running, idle_timer>>

(* It waits for the manager, keeps others from becoming it and destroys    *)
(* every idle worker.                                                      *)
put_unbound_pool_kill ==
  /\ release = "manager"
  /\ pool_lock = NoWorker
  /\ ~manager
  /\ manager' = TRUE
  /\ idle_worker' = <<>>
  /\ nr_workers' = nr_workers - Len(idle_worker)
  /\ die' = die \cup IdleSet
  /\ wkpc' = [w \in Workers |-> IF Occurs(idle_worker, w) /\ wkpc[w] = "idle"
                              THEN "woke" ELSE wkpc[w]]
  /\ release' = "detach"
  /\ UNCHANGED <<pool_lock, works, nr_running, idle_timer>>

(* Under attach_mutex: wait for the last worker, if there is one. *)
put_unbound_pool_detach ==
  /\ release = "detach"
  /\ release' = IF \A w \in Workers : wkpc[w] = "none" THEN "done" ELSE "wait"
  /\ UNCHANGED <<pool_lock, works, nr_running, workers, wkpc>>

-----------------------------------------------------------------------------
Acquire(w) ==
  \/ woke_up(w) \/ manage_workers_done(w) \/ process_one_work_done(w)
  \/ sleeping_wake(w) \/ \E n \in Workers : create_worker(w, n)

Locked(w) ==
  \/ recheck(w) \/ clr_prep(w) \/ process_one_work(w)
  \/ keep_working_check(w) \/ set_prep(w) \/ enter_idle(w)

Unlocked(w) == cooldown(w) \/ sleeping_peek(w) \/ worker_detach_from_pool(w)

WorkerSteps(w) ==
  \/ Acquire(w) \/ Locked(w) \/ Unlocked(w)
  \/ create_worker_fails(w) \/ func_returns(w)
  \/ wq_worker_sleeping(w) \/ wq_worker_waking_up(w)

PoolRelease == put_unbound_pool_kill \/ put_unbound_pool_detach

PoolNext ==
  \/ \E x \in PoolWorks : queue_work(x) \/ pool_insert_work(x)
  \/ \E w \in Workers : WorkerSteps(w)
  \/ idle_worker_timeout
  \/ put_unbound_pool \/ PoolRelease

PoolSpec == PoolInit /\ [][PoolNext]_plvars

-----------------------------------------------------------------------------
LiveWorker(w) == wkpc[w] # "none" /\ w \notin die

(* Type correctness.  nr_workers never exceeds MAX_WORKERS_PER_POOL:       *)
(* manage_workers tests it, lets go of the lock and creates a worker.      *)
PoolTypeOK ==
  /\ pool_lock \in Workers \cup {NoWorker}
  /\ worklist \in Seq(PoolWorks) /\ pending \subseteq PoolWorks
  /\ nr_running \in 0..MaxWorkers
  /\ idle_worker \in Seq(Workers) /\ nr_workers \in 0..MaxWorkers
  /\ manager \in BOOLEAN /\ idle_timer \in BOOLEAN
  /\ curr_work \in [Workers -> PoolWorks \cup {NoWork}]
  /\ scheduled \in [Workers -> Seq(PoolWorks)]
  /\ die \subseteq Workers
  /\ release \in {"no", "manager", "detach", "wait", "done"}
  /\ wkpc \in [Workers -> Places]

(* nr_running is the number of workers that are running works and are not  *)
(* asleep in one; an unbound pool leaves it at zero.                       *)
RunningCounted ==
  nr_running = IF Bound THEN Cardinality({w \in Workers : wkpc[w] \in Running}) ELSE 0

(* nr_workers counts the workers that were not told to die, and the idle   *)
(* list holds, once each, those that wait or have not got the lock yet.    *)
WorkersCounted ==
  /\ nr_workers = Cardinality({w \in Workers : LiveWorker(w)})
  /\ Len(idle_worker) = Cardinality(IdleSet)
  /\ IdleSet = {w \in Workers : LiveWorker(w) /\ wkpc[w] \in {"idle", "woke"}}

(* process_one_work: a work is never executed by two workers at a time,    *)
(* even if it is queued again while it runs.                               *)
NoReentrance ==
  \A v, w \in Workers : curr_work[v] = curr_work[w] => v = w \/ curr_work[v] = NoWork

(* A work on a list has its PENDING bit and is on no other list: neither   *)
(* requeueing it while it runs nor a collision duplicates it.              *)
QueuedOnce ==
  /\ Distinct(worklist) /\ \A w \in Workers : Distinct(scheduled[w])
  /\ \A x \in PoolWorks :
       /\ Queued(x) => x \in pending
       /\ \A w \in Workers : Occurs(scheduled[w], x) =>
            ~Occurs(worklist, x) /\ \A v \in Workers : Occurs(scheduled[v], x) => v = w

(* A work left to the worker that executes it (collision->scheduled) is    *)
(* found by that worker: nothing stays on the list of a worker that is not *)
(* busy.                                                                   *)
ScheduledHasWorker ==
  \A w \in Workers : scheduled[w] # <<>> => wkpc[w] \in Running \cup
                       {"hook", "hook_lock", "asleep"}

(* Whenever the lock is free there is an idle worker in reserve, or a      *)
(* manager is making one, or the pool is full: the last idle worker does   *)
(* not start to work before it has created another.                        *)
ReserveWorker ==
  pool_lock = NoWorker /\ ~manager /\ release # "done" =>
    idle_worker # <<>> \/ nr_workers >= MaxWorkers

(* A worker that will look at the worklist before it waits.  One that runs *)
(* a work of an unbound pool may block there and does not count.           *)
Coming(w) ==
  /\ LiveWorker(w)
  /\ wkpc[w] \notin {"idle", "asleep"}
  /\ Bound \/ wkpc[w] # "run"

(* The comment in insert_work: no "workers lying around lazily while there *)
(* are works to be processed".  If works wait and the lock is free, some   *)
(* worker is on its way to them, unless no worker is idle.                 *)
NoLazyWorkers ==
  pool_lock = NoWorker /\ worklist # <<>> /\ idle_worker # <<>> =>
    \E w \in Workers : Coming(w)

(* Workers are lazy only while a worker is asleep in its work: it looks at *)
(* the worklist when it has finished.                                      *)
LazyOnlyWhileAsleep ==
  pool_lock = NoWorker /\ worklist # <<>> =>
    \E w \in Workers : Coming(w) \/ wkpc[w] = "asleep" \/ wkpc[w] = "run"

(* put_unbound_pool finds every worker idle: once it has destroyed the     *)
(* idle ones nobody is left (its WQ_WARN on nr_workers and nr_idles).      *)
ReleaseKillsAll ==
  release \in {"detach", "wait", "done"} =>
    nr_workers = 0 /\ \A w \in Workers : ~LiveWorker(w)

(***************************************************************************)
(* A pool keeps its promises under pool->lock: it never has more than      *)
(* MAX_WORKERS_PER_POOL workers; nr_running is the workers that run and    *)
(* are not asleep; no work runs twice at a time or is on two lists,        *)
(* requeued or in collision; a work left to the worker that runs it is     *)
(* found by that worker; a worker is kept in reserve or being made unless  *)
(* the pool is full; and works wait only while a worker that will look at  *)
(* the list is coming or asleep in its work.                               *)
(***************************************************************************)
PoolStaysReady ==
  /\ PoolTypeOK /\ RunningCounted /\ WorkersCounted
  /\ NoReentrance /\ QueuedOnce /\ ScheduledHasWorker
  /\ ReserveWorker /\ LazyOnlyWhileAsleep

(***************************************************************************)
(* nr_workers and the idle list agree with what the workers do, no worker  *)
(* of an unbound pool lies idle while works wait and nobody is coming for  *)
(* them, and once put_unbound_pool has destroyed the idle workers nobody   *)
(* is left.                                                                *)
(***************************************************************************)
PoolAccounts == WorkersCounted /\ (~Bound => NoLazyWorkers) /\ ReleaseKillsAll

(* Every work on the worklist is taken from it, whoever gets the lock, if  *)
(* no work function blocks for ever.  (A work left to the worker that      *)
(* executes it also needs that very worker to get the lock.)               *)
ListedIsTaken == \A x \in PoolWorks : Occurs(worklist, x) ~> ~Occurs(worklist, x)

(* put_unbound_pool returns: every worker detaches. *)
ReleaseEnds == release = "manager" ~> release = "done"

=============================================================================
