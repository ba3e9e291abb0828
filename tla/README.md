# A TLA+ model of skp

skp is a C library that rebuilds the building blocks of the Linux kernel in
user land: locks, wait queues, completions, concurrency-managed workqueues, an
event loop with timers and RCU, memory allocators, containers, and a small
server on top of them.  This directory models it in TLA+, checks the models
with TLC on small instances, and proves the properties of the locks, the wait
queues, threads, worker pools, the ordered flush, the server and its
transports, deferred calls and the ring with TLAPS for every instance.  `PROJECT.json` lists the components, the
runs, the mutants that show that every property can fail, the source lines each
definition stands for, the hazards and the theorems.

    tlc -workers 2 -config MCSync.cfg MCSync        # a run: config and module
    tlapm WaitProofs.tla                            # the proofs of a module

## The system and its modules

| Part of the code | Modules | What is hard there |
|---|---|---|
| `utils/spinlock` | SpinLock, AbstractRwLock; LockProofs | byte stores and cmpxchg on one word |
| `utils/mutex` | Mutex, RecursiveMutex, ListOps, AbstractRwLock; WaitProofs, LockProofs, ListLemmas | fast paths change count without wait_lock; wake-ups touch another stack; owner read without the mutex |
| `utils/rwsem`, `utils/rwlock` | RwSem, QRwLock, AbstractRwLock; SyncProofs | readers are let in while asleep; readers count themselves into the word the writer waits on |
| `utils/seqlock.h`, `utils/uref.h` | SeqLock, Uref; LockProofs, SyncProofs | torn reads; the last put against a lookup |
| `process/completion`, `process/wait` | Completion, WaitBit; SyncProofs, WaitProofs | timeouts race wake-ups; exclusive wake-ups that hit the wrong sleeper |
| `process/workqueue` | WorkerPool (pools), WorkItems (works), WqFlush (flush_workqueue); PoolProofs, WorkProofs | nr_running changes without the pool lock; cancel races claim, timer, barrier and other cancellers; counters and lists looked at apart |
| `process/event`, `process/reactor/epoll.h` | EventCores (objects on slots), EventLoop (time and notification), EventRcu (call_rcu_sched); WaitProofs, CallbackProofs | callbacks re-arm, delete and move what other threads delete; lost notifications; grace periods |
| `process/thread` | Threads; WaitProofs | wakers, stopper and the thread itself share a descriptor |
| `server/server`, `server/xprt` | Server, Xprt; WorkProofs, CallbackProofs | stop during accept; close from three sides; a listener that pauses itself |
| `mm/slab`, `mm/pgalloc`, `mm/mmzone` | SlabTls, SlabShared, ObjPool, Buddy | remote frees, shrinking, pinned pages, lock-free stack, merging blocks of several nodes |
| `adt/rbtree`, `radix_tree`, `idr`, `dict`, `ring`, `list.h`, `hlist_table.h`, `vector` | RbTree, RadixTree, Idr, Dict, Ring, LinkedLists, Sorts; RingProofs | rebalancing; wrapping indices; incremental rehash; failing allocations; lock-free bits |
| `algorithm/*_sort`, `utils/bitmap` | Sorts, Bitmap | partial words; state kept from one list element to the next |
| `utils/pbuff` | Pbuff | shared data areas |

The components stand on each other: mutex, rwsem, rwlock and wait queues on
spinlocks and futexes; completions on wait queues; worker pools on mutexes and
on the per-worker wait queue; futex_wait calls back into the pool
(`wq_worker_sleeping`, `wq_worker_waking_up`), so every lock a work blocks on
changes nr_running; works use timers for delays, timers run in the slots of the
event loop, RCU callbacks too; identifiers are kept in radix trees, event
objects and hash tables use identifiers; slab caches get their pages from the
buddy allocator; transports are event objects on a server.  A module takes a
component it stands on by its promise: RecursiveMutex uses AbstractRwLock
(without readers it is the promise of a mutex and of a spinlock), a critical section under one lock is one step, WorkItems takes the timer and the
grace period as a step that happens at some time after they were armed.

## How state and steps correspond to the code

A variable has the name of its field where TLA+ allows it.  Where threads
interleave, `pc` (or a record per thread) says where each is: a place between
two shared accesses.  A step is one atomic access where the access is made
without a lock, and a whole critical section where everything in it is under
one lock.  A sequential operation of a container is one step.  Some points per
module:

- **SpinLock** keeps the word as the sum of locked (1) and pending (256); the
  unlock clears the low byte only.  A spin loop is a guard.
- **Mutex** keeps a waiter's `flags` and the futex: `futex_wait` sleeps only
  while the flags are still 0, EINTR goes round its loop.  **RwSem** keeps one
  bit of a waiter's flags, whether it was signalled.
- **QRwLock** has one step per access to cnts; **SeqLock** reads and writes two
  words apart, with a number that wraps; **Uref** has the unlocked decrement of
  atomic_dec_and_lock and the lookup under the lock.
- **Completion** keeps cond and last_cond as one bit, woken; only a waiter that
  really slept is taken off the list by the wake-up and counts as exclusive.
  **WaitBit** is lock_page and unlock_page on the hashed queue that several
  bits share.
- **WorkerPool** cuts a critical section in front of every second look at
  nr_running.  Works are single there; **WorkItems** has two pools with their
  pool_workqueues, works of the three kinds, and callers in queue_work,
  queue_delayed_work, mod_delayed_work, queue_rcu_work, cancel_work,
  cancel_work_sync, flush_work, flush_delayed_work and flush_rcu_work.  The data
  word of a work is its flags and the pool or pool_workqueue it names.  get_pwq
  and put_pwq outside the pool's lock are a load and a store.
- **ListOps** has what list.h does to a list seen as a sequence; removing an
  entry (`list_keep`) is a recursive function, so that proofs can use it.
- **WqFlush** has one lock, that of wait_flusher, and lets workers count and
  look at the list without it.  `before` is a history variable.
- **EventCores** has, per slot, what is registered, what the reactor collected
  and which callback runs; an object carries the index of its slot, PENDING and
  its identifier.  Clients add, modify, delete (synchronously or not) and move
  objects; callbacks may delete or modify their own.  Each behaviour has one
  cast: which objects and which clients take part.
- **EventLoop** advances the clock only while the event thread sleeps, so what
  is late is late because of the code.  **EventRcu** puts a head on the queues
  of the slots one after the other and counts the passes.
- **Threads** has the descriptor's flags, the two completions, the thread, its
  wakers and one stopper or killer.
- **Server** has a listener, passive and active transports, the thread in
  server_loop, a stopper and the owner in destroy_server.  **Xprt** is one
  transport between its event callback, another thread's shutdown and destroy,
  and the RCU callback that frees it.
- **RbTree** holds the pointers and colours of rbtree.c's nodes and follows the
  cases of insertion and removal; **RadixTree** the nodes, counts and tags,
  with a cache of preloaded nodes that may run out; **Idr** the bitmap of a
  page bit by bit; **Dict** both tables, the index of the rehash and the place
  each node remembers; **Ring** both heads and tails (the object at position p
  of the queue is p + 1, and MaxItems bounds the claims); **LinkedLists** every
  next, prev and pprev.  Each carries a history variable with the map,
  set, sequence or queue it should be.
- **SlabTls** and **SlabShared** hold slabs as sets of free objects on pages
  with their frozen bit, partial lists and references; **ObjPool** head, count
  and version; **Buddy** the free lists by order, the thread caches and the
  blocks a node maps.  The sizes, alignments and merging of caches, in
  SlabShared too, are computed with wrapping words.
- **Pbuff** holds offsets into data areas of bytes and the text each owner
  believes to have.
- **Sorts** and **Bitmap** are operators; their state is only the input, built
  step by step (for bitmap_parselist, the ranges of the list).

## Runs

The components of an MC module do not interact: a behaviour is about the one
its variable `which` names, and a run checks all those in `Components`.  Setting
`Components` to one of them checks that one alone.  A component with a theorem
is EXTENDed, so that the run and the theorem name the same definition; it has
its own variables, which rest in an initial state while the behaviour is about
another.  The others are INSTANCEd over the shared variables v1, v2, ....

| Run | Instance | Shows |
|---|---|---|
| spinlock | 3 threads, 2 fast tries | refines AbstractRwLock without readers; the pending thread is served |
| mutex | 4 threads | refines AbstractRwLock without readers; no wake-up is lost; somebody gets in |
| sync | RwSem 4 threads, the others 3 (of a sequence lock two write and one reads) | both reader/writer locks refine AbstractRwLock and let waiters in; the rwsem's activity and list tell the truth and its BUG_ON cannot fire; recursion (depth 3) is counted; a sequence reader sees one write; nothing is resurrected; no sleeper of a completion or a page bit is forgotten |
| life | a thread with 2 wakers and a stopper; a server with 2 passive and 1 active connection, limit 3; an unbound pool of 3 workers and 2 works | a successful wake-up means the function runs; references, lists and counters agree up to the end; stopping, destroying and releasing end; every listed work is taken |
| process | a per-CPU pool (3 workers, 3 works), an ordered flush (2 flushers), works of each kind on 2 pools (3 workers, 2 callers), the poller, 3 RCU heads, a transport | what a synchronous call promises when it returns; the bookkeeping behind it; callback order |
| structures | trees of 8 nodes, indexes of 5 bits, 2 users of 8 identifiers, 5 dict nodes, ring of 2 with counters that wrap, 3 list entries, words of 3 bits, lists of 6 keys, event objects on 2 slots | every container is what it should be after every sequence of operations; the algorithms meet their definitions; a deleted event object is quiet |
| memory | 2 threads, 3 slab pages of 2 objects, 4 blocks of 4 pages on 2 nodes, 3 pool objects, 2 buffers | every object, page and byte is in one place; caches fit what they are asked for |
| completion_many | 2 waiters | violation: a waiter that lost its completion sleeps off the list |
| flush_lost | 1 flusher, ordered | violation: sleeps for ever after the last completion |
| slab_reused | shared cache | violation: an assertion meets a page that was reused |
| emit_lost | poller and notifier | violation: a notification is drained uncounted and all later ones are lost |
| listener_paused | server | violation: a listener paused with nobody left to resume it |

Bounds.  Locks have three roles, an owner, a thread being served and one that
interferes, so three threads show every hand-over and the fourth a queue
behind them.  MaxContends (32 in the code) only counts retries; 2 gives
both ways out of the loop.  A pool needs a running, a sleeping and an idle
worker at its limit; three works give one that runs, one that is queued again
and one that waits.  WorkItems has max_active 1, so that a second work is held
back, and MaxCalls 3 or 4 calls, enough for a queueing, a cancellation and a
flush that overlap a second queueing.  Sequence numbers, ring counters and
radix indexes have few bits and start just before the wrap; MaxInserts stays
below SeqRange, so the numbers do not go round during one flush.  An rbtree
needs seven nodes for every case of the removal; the radix tree has three
levels with indexes at both ends of each; the dict grows twice.  Buddy blocks
have orders up to 2, so that a block is split and merged twice.  SlabShared
needs a third page for a discarded slab to come back in another role.  MaxAdds,
MaxAccepts, MaxWrites, MaxDepth, MaxDone, MaxClock and MaxVersion bound how
often a caller goes round; each is large enough for two rounds that overlap.
Symmetry is used over threads, works and pages, in runs without liveness only.

Deadlock is checked everywhere but in life, where everything is supposed to
end, and in violation runs that look for something else.

Fairness.  Threads that spin or run are weakly fair, and holders let go: the
operating system schedules runnable threads.  No lock is assumed to be fair to
one thread: in WorkerPool it is weakly fair that *somebody* gets the pool lock,
which is what Mutex guarantees.  Work functions return (strongly fair, since
blocking interrupts them), what they wait for comes, and creating a thread
succeeds once in a while.  In Server the event thread and the releasing
threads run, and somebody does call server_stop.  Flushers and completing works
get their spinlock (strongly fair); the violation of FlushReturns holds under
all of that.  Fairness is stated per component, of the steps of behaviours that
are about it.

## Findings

The five violation runs show where the code differs from what its comments,
documents and assertions say; `PROJECT.json` quotes them.  More properties of
the kind are defined and fail when put into a cfg; they are not runs:

| Property | Fails because |
|---|---|
| WorkerPool!NoLazyWorkers, Bound = TRUE | a worker leaves its loop because two run and is the last one when it goes; workqueue.c:1731 speaks of "workers lying around lazily" |
| WqFlush!WaitsForTheWorks, Ordered = FALSE | flush_workqueue counts completions, not which works completed |
| WorkItems!PwqRefsExact | a canceller and a worker change the reference count of a pool_workqueue with plain loads and stores |
| EventLoop!SleepsNoLonger | notify_poller_locked (event.c:686) wakes the poller only while a callback runs; a sleeping poller is late by up to EV_POLL_INTERVAL |
| Xprt!ReleasedClean | the warnings at xprt.c:236-240 are met when a transport is destroyed before it connected |
| Dict!IterationCanStart | an iteration that starts with the active table emptied by the rehash meets the BUG_ON at dict.c:697 |
| RadixTree!ReleaseEmptiesTree | an insertion that ran out of memory leaves nodes behind, BUG_ON at radix_tree.c:896 |
| Bitmap!LastWordIsSeen | find_last_bit and the right shift leave out a partly used last word |
| Pbuff!WritesFindRoom | pb_prepare_write compares the headroom, pbuff.h:295, and pb_put meets its BUG_ON |

## Proofs

A theorem has the form `ASSUME <constants> PROVE Spec => []P` where P is what a
run checks of the same component, so that the run shows P on one instance and
the theorem on all.  Only what is said about the constants is assumed.  Every
inductive invariant was first checked by TLC.

| Theorem | Assumed | Property of a run |
|---|---|---|
| LockProofs: SpinTypeOK, SpinMutualExclusion, SpinWordTellsOwner, SpinNoLockStealing, SpinImplementsLock | nothing | ImplementsLock |
| LockProofs: RecursiveMutexCounts | MaxDepth is a number | RecursionIsCounted |
| LockProofs: SeqLockReadIsConsistent | an even SeqModulus, fewer than half as many writes | ReadIsConsistent |
| WaitProofs: MutexTypeOK, MutexMutualExclusion, MutexCountTellsOwner, MutexWakeTargetQueued, MutexNoLostWakeup, MutexImplementsLock | NoThread is no thread | NoLostWakeup, ImplementsLock |
| WaitProofs: WaitBitSleeperHasWaker | nothing | SleeperHasWaker |
| WaitProofs: ThreadWakeupMeansRun | nothing | WakeupMeansRun |
| WaitProofs: EventLoopLatenessBounded | interval and expiries are numbers | LatenessBounded |
| SyncProofs: RwSemTypeOK, RwSemQueueHolds, RwSemImplementsRwLock | finitely many threads | RwSemQueue, ImplementsRwLock |
| SyncProofs: QRwLockImplementsRwLock | finitely many threads | ImplementsQRwLock |
| SyncProofs: UrefNeverResurrected | finitely many users | NeverResurrected |
| SyncProofs: CompletionSleepersHaveTaker | finitely many waiters | SleepersHaveTaker |
| CallbackProofs: RcuCalledInTurn | the slots are numbered from 0 | CalledInTurn |
| CallbackProofs: XprtTransportLife | nothing | TransportLife |
| WorkProofs: OrderedFlushWaits | an ordered workqueue, fewer works than sequence numbers | FlushWaits |
| WorkProofs: ServerKeepsAccounts | finitely many transports, a limit of at least one | ServerAccounts |
| PoolProofs: PoolIsReady, PoolKeepsAccounts | finitely many workers, a limit of at least one, NoWorker and NoWork are none | PoolStaysReady, PoolAccounts |
| RingProofs: RingQueue | Capacity below Size, Size divides Modulus, fewer objects than Modulus | RingIsQueue |

The arguments, and what the properties lack to be inductive:

- **SpinLock.**  Nothing in MutualExclusion stops a pending thread from entering
  beside an owner.  With WordTellsOwner the word determines whether there is an
  owner and a pending thread; "take" is reached only with the locked byte clear
  and the pending byte set, which nobody else can change.
- **Mutex.**  The invariant adds who holds wait_lock at which place, that the
  list holds exactly the waiters of the slow path, once each, and that a
  negative count is kept as long as somebody is queued.
- **RwSem.**  RwSemQueue and the types are inductive together: a release lets
  in the readers at the head of the list, as many as it adds to activity only
  because nobody is on the list twice or already inside.
- **QRwLock.**  The count of readers includes those who still wait for the
  writer to leave; the invariant splits the word by place.  A step of the lock
  then is a step of AbstractRwLock or none.
- **RecursiveMutex.**  The owner field is that of the thread inside or of
  nobody, except in front of the stores that set and clear it; so a thread that
  reads its own identifier is inside and one that reads another is not.
- **Uref.**  The table lock is held exactly between lock and unlock, and the
  count is zero only from the last put on.
- **SeqLock.**  The invariant counts the increments since the start.  Below
  SeqModulus increments two equal sequence values mean equal counts, and at an
  even count nobody writes.
- **Completion.**  A taker takes one completion and goes; as long as anybody is
  parked there are at least as many takers as completions.  **WaitBit.**  Who
  dozes without a wake-up on a free bit has a waker for that bit, and is on the
  queue, so that the next wake-up finds it or someone in front of it that waits
  for the same bit.
- **Threads.**  A waker between test-and-set and clear of WAKING is alone
  there, and thread__free waits for the bit.
- **Server.**  Lists and counters change in four places.  That nobody is inside
  when the server is freed rests on the transport that the listener's callback
  and a stop_xprts each keep alive.
- **Xprt.**  The reference of the server's list has one bearer: the attached
  flag, or the one thread that cleared it and has yet to take the transport off
  the list (XprtListed).  With it the references follow from the places of the
  event callback, the user and stop_xprts.  The closed callback is called by
  who set the closed flag, and only one destroyer can be between the two
  (XprtCalls).
- **WorkerPool.**  Both properties follow from one invariant (PlInv), for
  per-CPU and for unbound pools.  The owner of pool->lock is known by its place
  (PlLock); the idle list holds exactly the workers that wait or were woken and
  have not been told to die (PlIdle); there is one manager, and the pool is not
  full while it creates (PlManager, PlFull).  The heart is PlLazy: while the
  lock is free and works wait, some worker comes for them.  That is not
  inductive as long as the idle timer might destroy that very worker: so it must
  be the first of the idle list, which the timer never takes, or not idle at
  all.  A worker that goes to sleep past works needs another that is busy
  (PlSleep), which nr_running tells it because the count is exact although it is
  changed without the lock.
- **EventLoop.**  The lateness of a timer is bounded by the length of a sleep,
  whatever becomes of notifications.  **EventRcu.**  A slot's private and shared
  queues are one line; who was on every line first leaves each of them first.
- **WqFlush.**  A flusher's insert_seq marks a prefix of the works in flight,
  because an ordered workqueue completes works in their order; its remove_seq is
  a number of completions that was reached.  The numbers are counts modulo the
  range, from a starting number that the invariant quantifies over.
- **Ring.**  Positions count objects without wrapping; counters are positions
  modulo 2^32, slots are counters modulo the size.  The claims in progress of a
  side tile the stretch from its tail to its head, so exactly one thread may
  move the tail; a head that was read and still stands leaves the room that was
  found; the slots between the tails hold their objects.

`ListLemmas` has the facts about sequences without duplicates and about the
cardinality of finite sets, and NatMin: a nonempty set of numbers has a least
one.  A minimal counterexample takes the
place of an induction, which is how ListKeepStep characterises the recursive
function list_keep.

SeqModulus, SeqRange and Modulus are 2^32, 2^16 and 2^32 in the code.  The three
bounds under them say what the code takes for granted, that nobody sleeps
through a whole round of a counter; they bound a behaviour and not only one
call, so the theorems cover one round of the counter, from any start they name.

Only model-checked are: all liveness, and with it every ENABLED, which the
prover cannot do; RbTree, RadixTree, Dict, Sorts, Buddy, ObjPool and SlabShared,
which use RECURSIVE operators; and, for want of a proof so far, WorkItems
(SyncMeansDone, WorksAccounted), EventCores (DeletedIsQuiet), Idr (IdsAreExact),
LinkedLists (LinksAgree), Bitmap, SlabTls and Pbuff.

## Plan

Theorems to add: LinkedLists (LinksAgree), Idr (IdsAreExact), SlabTls
(SlabObjectsAccounted), EventCores (DeletedIsQuiet).  Models to add: creating, draining and destroying a
workqueue, the cache of stacks, moving a transport, destroying a slab cache.

## Not modelled

Debug checks and logging; the pthread emulation of futex on other systems and
kqueue; weak memory (every atomic access is sequentially consistent); wrappers
of system calls (daemon, signals, files, sockets); pure functions without state
(hashes, strings, single-word bit tricks); the Windows port; TLS and moving
transports; creation, attributes, draining and destruction of workqueues;
compound and block pages; destruction of slab caches; start-up and shutdown of
the event system; slist; the list of functions run when a thread exits.
