------------------------------ MODULE WorkItems ------------------------------
(***************************************************************************)
(* The life of works in src/process/workqueue.c: how they are queued,      *)
(* held back by max_active, cancelled, flushed with barriers and driven by *)
(* timers and RCU, on a workqueue that has one pool_workqueue for every    *)
(* worker pool.  How workers wake up is the subject of WorkerPool; here a  *)
(* worker at the top of its loop just takes the first work of its pool.    *)
(*                                                                         *)
(* work->flags holds bits and, above them, either the pool_workqueue the   *)
(* work is queued on or the id of the pool that ran it last.  It is read   *)
(* without any lock to find the pool whose lock is then taken, so the read *)
(* and the critical section are two steps; a critical section is one step. *)
(* The barrier of a flusher lives on the stack of flush_work and is named  *)
(* like the thread.                                                        *)
(***************************************************************************)
EXTENDS Integers, Sequences, FiniteSets, SequencesExt

CONSTANTS
  WqPools,      (* the pools: positive numbers, their ids                  *)
  PoolOf,       (* the pool of every worker                                *)
  WorkKind,     (* "work", "delayed" or "rcu", for every work              *)
  Callers,      (* the threads that call the interface                     *)
  Ticker,       (* the event thread: runs timer and RCU callbacks          *)
  Nothing,      (* NULL                                                    *)
  MaxActive,    (* wq->saved_max_active                                    *)
  MaxCalls      (* bound: the calls made in a behaviour                    *)

VARIABLES
  data,           (* work->flags: pwq or pool (0: none) and the bits       *)
  pool_list,      (* pool->worklist                                        *)
  delayed_works,  (* pwq->delayed_works                                    *)
  nr_active,      (* pwq->nr_active                                        *)
  refcnt,         (* pwq->refcnt                                           *)
  busy,           (* worker->curr_work and whether it was a barrier        *)
  sched,          (* worker->scheduled                                     *)
  timer,          (* the works whose timer or rcu_head is queued           *)
  call,           (* where every thread is: pc, op, work, pool, ...        *)
  completed,      (* the flushers whose barrier has completed              *)
  cancel_waitq,   (* the cancellers on cancel_waitq                        *)
  owed,           (* history: what a flusher waits for                     *)
  calls           (* calls made so far, for the bound                      *)

lists == <<pool_list, delayed_works, sched>>
wivars == <<data, lists, nr_active, refcnt, busy, timer, call, completed,
            cancel_waitq, owed, calls>>

WorkSet == DOMAIN WorkKind
WqWorkers == DOMAIN PoolOf
Agents == Callers \cup {Ticker}

Bits(x) == data[x].bits
PoolId(d) == IF d.pwq # 0 THEN d.pwq ELSE d.pool
NoData == [pwq |-> 0, pool |-> 0, bits |-> {}]
RanOn(p, bits) == [pwq |-> 0, pool |-> p, bits |-> bits]
QueuedOn(p, bits) ==
  [pwq |-> p, pool |-> 0, bits |-> bits \cup {"pending"}]

AtRest == [pc |-> "out", op |-> "none", work |-> Nothing, pool |-> 0,
           seen |-> 0]
StepTo(a, pc) == call' = [call EXCEPT ![a].pc = pc]

IsBarrier(x) == x \in Callers
executing(p, x) == {k \in WqWorkers : PoolOf[k] = p /\ busy[k] = x}

WorkItemsInit ==
  /\ data = [x \in WorkSet \cup Callers |-> NoData]
  /\ pool_list = [p \in WqPools |-> <<>>]
  /\ delayed_works = [p \in WqPools |-> <<>>]
  /\ nr_active = [p \in WqPools |-> 0]
  /\ refcnt = [p \in WqPools |-> 1]
  /\ busy = [k \in WqWorkers |-> Nothing]
  /\ sched = [k \in WqWorkers |-> <<>>]
  /\ timer = {}
  /\ call = [a \in Agents |-> AtRest]
  /\ completed = {} /\ cancel_waitq = <<>>
  /\ owed = [c \in Callers |-> Nothing]
  /\ calls = 0

-----------------------------------------------------------------------------
(* move_linked_works cuts this piece out of the list: x and what is linked *)
(* behind it, up to the first work that is not linked.                     *)
LinkedRun(list, x) ==
  LET i == CHOOSE j \in DOMAIN list : list[j] = x
      j == CHOOSE e \in i..Len(list) :
             /\ e = Len(list) \/ "linked" \notin Bits(list[e])
             /\ \A m \in i..(e - 1) : "linked" \in Bits(list[m])
  IN  SubSeq(list, i, j)

Cut(list, run) == SelectSeq(list, LAMBDA y : ~Contains(run, y))
Undelayed(d) == [d EXCEPT !.bits = @ \ {"delayed"}]

(* pwq_activate_delayed_work(x) on the lists and the data of pool p. *)
Activated(s, p, x) ==
  LET run == LinkedRun(s.delayed[p], x)
  IN  [s EXCEPT !.delayed[p] = Cut(@, run), !.list[p] = @ \o run,
                !.data[x] = Undelayed(@), !.active[p] = @ + 1]

(* Mutant: a completed barrier counts as a completed work. *)
DecBarriersToo(s, p, barrier) ==
  LET t == [s EXCEPT !.active[p] = @ - 1]
      u == IF t.delayed[p] # <<>> /\ t.active[p] < MaxActive
             THEN Activated(t, p, Head(t.delayed[p])) ELSE t
  IN  [u EXCEPT !.ref[p] = @ - 1]

(* pwq_dec_nr_in_flight. *)
pwq_dec_nr_in_flight(s, p, barrier) ==
  LET t == IF barrier THEN s ELSE [s EXCEPT !.active[p] = @ - 1]
      u == IF t.delayed[p] # <<>> /\ t.active[p] < MaxActive
             THEN Activated(t, p, Head(t.delayed[p])) ELSE t
  IN  [u EXCEPT !.ref[p] = @ - 1]

Pwqs == [data |-> data, list |-> pool_list, delayed |-> delayed_works,
         active |-> nr_active, ref |-> refcnt]

SetPwqs(s) ==
  /\ data' = s.data /\ pool_list' = s.list /\ delayed_works' = s.delayed
  /\ nr_active' = s.active /\ refcnt' = s.ref

(* __queue_work's critical section on pool p, with insert_work. *)
QueueOn(x, p) ==
  LET full == nr_active[p] >= MaxActive
      bits == IF full THEN {"delayed"} ELSE {}
  IN  /\ data' = [data EXCEPT ![x] = QueuedOn(p, bits)]
      /\ refcnt' = [refcnt EXCEPT ![p] = @ + 1]
      /\ IF full
           THEN /\ delayed_works' = [delayed_works EXCEPT ![p] = Append(@, x)]
                /\ UNCHANGED <<pool_list, nr_active>>
           ELSE /\ pool_list' = [pool_list EXCEPT ![p] = Append(@, x)]
                /\ nr_active' = [nr_active EXCEPT ![p] = @ + 1]
                /\ UNCHANGED delayed_works
      /\ UNCHANGED sched

-----------------------------------------------------------------------------
(* The PENDING bit of x is ours: queue it now, or after the delay or the   *)
(* grace period.  p is the pool select_pwq chooses.                        *)
Launch(a, x, p, now) ==
  IF WorkKind[x] = "work" \/ now
    THEN /\ call' = [call EXCEPT ![a] =
              [AtRest EXCEPT !.pc = "queue", !.op = "queue", !.work = x,
                             !.pool = p]]
         /\ UNCHANGED timer
    ELSE /\ timer' = timer \cup {x}
         /\ call' = [call EXCEPT ![a] = AtRest]

(* queue_work_on, queue_delayed_work_on (now: without a delay) and         *)
(* queue_rcu_work.                                                         *)
queue_work_on(c, x, p, now) ==
  /\ call[c].pc = "out" /\ calls < MaxCalls
  /\ now => WorkKind[x] = "delayed"
  /\ calls' = calls + 1
  /\ "pending" \notin Bits(x)
  /\ data' = [data EXCEPT ![x].bits = @ \cup {"pending"}]
  /\ Launch(c, x, p, now)
  /\ UNCHANGED <<lists, nr_active, refcnt, busy, completed, cancel_waitq,
                 owed>>

(* The timer or the grace period of x ends: delayed_work_timer_cb or       *)
(* rcu_work_rcufn.                                                         *)
TimerFires(x, p) ==
  /\ call[Ticker].pc = "out"
  /\ x \in timer
  /\ timer' = timer \ {x}
  /\ call' = [call EXCEPT ![Ticker] =
                [AtRest EXCEPT !.pc = "queue", !.op = "queue", !.work = x,
                               !.pool = p]]
  /\ UNCHANGED <<data, lists, nr_active, refcnt, busy, completed,
                 cancel_waitq, owed, calls>>

Queued(a) ==
  call' = [call EXCEPT ![a] =
             IF @.op = "flush" THEN [@ EXCEPT !.pc = "flush"] ELSE AtRest]

(* Mutant: a work is queued where it was asked for, running or not. *)
QueueAnywhere(a) ==
  /\ call[a].pc = "queue"
  /\ QueueOn(call[a].work, call[a].pool)
  /\ Queued(a)
  /\ UNCHANGED <<busy, timer, completed, cancel_waitq, owed, calls>>

(* __queue_work with the lock of the pool that ran the work last (or of    *)
(* the chosen one): a work that is still running there stays there.        *)
QueueLast(a) ==
  LET x == call[a].work
      last == PoolId(data[x])
      p == call[a].pool
  IN  /\ call[a].pc = "queue"
      /\ IF last \in {0, p} \/ executing(last, x) # {}
           THEN /\ QueueOn(x, IF last = 0 THEN p ELSE last)
                /\ Queued(a)
           ELSE /\ StepTo(a, "requeue")
                /\ UNCHANGED <<data, lists, nr_active, refcnt>>
      /\ UNCHANGED <<busy, timer, completed, cancel_waitq, owed, calls>>

(* ... the last pool is unlocked and the chosen one locked instead. *)
QueueChosen(a) ==
  /\ call[a].pc = "requeue"
  /\ QueueOn(call[a].work, call[a].pool)
  /\ Queued(a)
  /\ UNCHANGED <<busy, timer, completed, cancel_waitq, owed, calls>>

-----------------------------------------------------------------------------
(* process_one_work does not start a work that another worker of the pool  *)
(* is still executing ...                                                  *)
may_start(k, x) == executing(PoolOf[k], x) = {}

(* ... but hands it to that worker with what is linked behind it.          *)
HandOver(k, x, run) ==
  LET j == CHOOSE w \in executing(PoolOf[k], x) : TRUE
  IN  sched' = [sched EXCEPT ![k] = Cut(@, run), ![j] = @ \o run]

(* process_one_work up to the call of the function: the work loses its     *)
(* PENDING bit and can be queued again.                                    *)
StartWork(k, x) ==
  /\ busy' = [busy EXCEPT ![k] = x]
  /\ data' = [data EXCEPT ![x] = RanOn(PoolOf[k], {})]
  /\ owed' = [c \in Callers |->
                IF owed[c] = x THEN k ELSE owed[c]]

(* worker_cb: the first work of the pool, alone or with its barriers. *)
TakeWork(k) ==
  LET p == PoolOf[k]
      x == Head(pool_list[p])
      run == LinkedRun(pool_list[p], x)
  IN  /\ busy[k] = Nothing /\ sched[k] = <<>> /\ pool_list[p] # <<>>
      /\ pool_list' = [pool_list EXCEPT ![p] = Cut(@, run)]
      /\ \/ /\ "linked" \in Bits(x)
            /\ sched' = [sched EXCEPT ![k] = run]
            /\ UNCHANGED <<data, busy, owed>>
         \/ /\ "linked" \notin Bits(x) /\ may_start(k, x)
            /\ StartWork(k, x)
            /\ UNCHANGED sched
         \/ /\ "linked" \notin Bits(x) /\ ~may_start(k, x)
            /\ HandOver(k, x, run)
            /\ UNCHANGED <<data, busy, owed>>
      /\ UNCHANGED <<delayed_works, nr_active, refcnt, timer, call,
                     completed, cancel_waitq, calls>>

(* process_scheduled_works. *)
TakeScheduled(k) ==
  LET x == Head(sched[k])
  IN  /\ busy[k] = Nothing /\ sched[k] # <<>>
      /\ \/ /\ may_start(k, x)
            /\ StartWork(k, x)
            /\ sched' = [sched EXCEPT ![k] = Tail(@)]
         \/ /\ ~may_start(k, x)
            /\ HandOver(k, x, LinkedRun(sched[k], x))
            /\ UNCHANGED <<data, busy, owed>>
      /\ UNCHANGED <<pool_list, delayed_works, nr_active, refcnt, timer, call,
                     completed, cancel_waitq, calls>>

(* The function returns (that of a barrier completes the flush) and        *)
(* process_one_work accounts for it.                                       *)
FinishWork(k) ==
  LET x == busy[k]
  IN  /\ x # Nothing
      /\ completed' = IF IsBarrier(x) THEN completed \cup {x} ELSE completed
      /\ busy' = [busy EXCEPT ![k] = Nothing]
      /\ owed' = [c \in Callers |-> IF owed[c] = k THEN Nothing ELSE owed[c]]
      /\ SetPwqs(pwq_dec_nr_in_flight(Pwqs, PoolOf[k], IsBarrier(x)))
      /\ UNCHANGED <<sched, timer, call, cancel_waitq, calls>>

-----------------------------------------------------------------------------
(* cancel_work, cancel_work_sync and mod_delayed_work_on begin with        *)
(* try_to_grab_pending.                                                    *)
CancelBegin(c, x, op) ==
  /\ call[c].pc = "out" /\ calls < MaxCalls
  /\ calls' = calls + 1
  /\ op = "mod" => WorkKind[x] = "delayed"
  /\ call' = [call EXCEPT ![c] =
                [AtRest EXCEPT !.pc = "grab", !.op = op, !.work = x]]
  /\ UNCHANGED <<data, lists, nr_active, refcnt, busy, timer, completed,
                 cancel_waitq, owed>>

(* The timer of a delayed work is deleted: PENDING was never given up. *)
GrabTimer(c) ==
  LET x == call[c].work
  IN  /\ call[c].pc = "grab"
      /\ IF WorkKind[x] = "delayed" /\ x \in timer
           THEN timer' = timer \ {x} /\ StepTo(c, "grabbed")
           ELSE UNCHANGED timer /\ StepTo(c, "bit")
      /\ UNCHANGED <<data, lists, nr_active, refcnt, busy, completed,
                     cancel_waitq, owed, calls>>

(* test_and_set_bit(PENDING), and the look at the flags if it was set.  A  *)
(* look that finds no pool fails at once.                                  *)
GrabBit(c) ==
  LET x == call[c].work
  IN  /\ call[c].pc = "bit"
      /\ IF "pending" \in Bits(x)
           THEN StepTo(c, "look") /\ UNCHANGED data
           ELSE /\ data' = [data EXCEPT ![x].bits = @ \cup {"pending"}]
                /\ StepTo(c, "grabbed")
      /\ UNCHANGED <<lists, nr_active, refcnt, busy, timer, completed,
                     cancel_waitq, owed, calls>>

GrabLook(c) ==
  LET p == PoolId(data[call[c].work])
  IN  /\ call[c].pc = "look"
      /\ call' = [call EXCEPT ![c].pc = IF p = 0 THEN "fail" ELSE "lock",
                              ![c].pool = p]
      /\ UNCHANGED <<data, lists, nr_active, refcnt, busy, timer, completed,
                     cancel_waitq, owed, calls>>

(* The work leaves whatever list it is on. *)
Unlisted(s, x) ==
  [s EXCEPT !.list = [p \in WqPools |-> Cut(@[p], <<x>>)],
            !.delayed = [p \in WqPools |-> Cut(@[p], <<x>>)]]

(* A queued work is taken back; barriers behind a delayed one are moved to *)
(* the pool by the activation and stay there.                              *)
Stolen(p, x) ==
  LET s == IF "delayed" \in Bits(x) THEN Activated(Pwqs, p, x) ELSE Pwqs
      t == pwq_dec_nr_in_flight(Unlisted(s, x), p, FALSE)
  IN  [t EXCEPT !.data[x] = RanOn(p, {"pending"})]

(* The critical section of try_to_grab_pending.  When the work has been    *)
(* queued on another pool since the look, get_pwq and put_pwq count        *)
(* without the lock that protects the count.                               *)
GrabLocked(c) ==
  LET x == call[c].work
      p == call[c].pool
  IN  /\ call[c].pc = "lock"
      /\ \/ /\ data[x].pwq = p
            /\ SetPwqs(Stolen(p, x))
            /\ sched' = [k \in WqWorkers |-> Cut(sched[k], <<x>>)]
            /\ owed' = [f \in Callers |->
                          IF owed[f] = x THEN Nothing ELSE owed[f]]
            /\ StepTo(c, "grabbed")
         \/ /\ data[x].pwq = 0
            /\ StepTo(c, "fail")
            /\ UNCHANGED <<data, lists, nr_active, refcnt, owed>>
         \/ /\ data[x].pwq \notin {0, p}
            /\ call' = [call EXCEPT ![c].pc = "get",
                                    ![c].pool = data[x].pwq,
                                    ![c].seen = refcnt[data[x].pwq]]
            /\ UNCHANGED <<data, lists, nr_active, refcnt, owed>>
      /\ UNCHANGED <<busy, timer, completed, cancel_waitq, calls>>

(* refcnt++ and --refcnt of the unprotected count: each is a load and a    *)
(* store with anything in between.                                         *)
GetStores(c) ==
  /\ call[c].pc = "get"
  /\ refcnt' = [refcnt EXCEPT ![call[c].pool] = call[c].seen + 1]
  /\ StepTo(c, "got")
  /\ UNCHANGED <<data, lists, nr_active, busy, timer, completed,
                 cancel_waitq, owed, calls>>

PutLoads(c) ==
  /\ call[c].pc = "got"
  /\ call' = [call EXCEPT ![c].pc = "put", ![c].seen = refcnt[call[c].pool]]
  /\ UNCHANGED <<data, lists, nr_active, refcnt, busy, timer, completed,
                 cancel_waitq, owed, calls>>

PutStores(c) ==
  /\ call[c].pc = "put"
  /\ refcnt' = [refcnt EXCEPT ![call[c].pool] = call[c].seen - 1]
  /\ StepTo(c, IF call[c].op = "flush" THEN "gone" ELSE "fail")
  /\ UNCHANGED <<data, lists, nr_active, busy, timer, completed,
                 cancel_waitq, owed, calls>>

(* No luck: somebody who cancels synchronously has it (-ENOENT), or try    *)
(* again (-EAGAIN).                                                        *)
GrabFails(c) ==
  LET x == call[c].work
      canceling == data[x].pwq = 0 /\ "canceling" \in Bits(x)
  IN  /\ call[c].pc = "fail"
      /\ call' = [call EXCEPT ![c] =
           CASE ~canceling -> [@ EXCEPT !.pc = "grab"]
             [] canceling /\ @.op = "cancel_sync" -> [@ EXCEPT !.pc = "join"]
             [] OTHER -> AtRest]
      /\ UNCHANGED <<data, lists, nr_active, refcnt, busy, timer, completed,
                     cancel_waitq, owed, calls>>

(* __cancel_work_sync waits for the other canceller: it joins the queue,   *)
(* looks again, and sleeps until it is woken.                              *)
CancelJoin(c) ==
  /\ call[c].pc = "join"
  /\ cancel_waitq' = Append(cancel_waitq, c)
  /\ call' = [call EXCEPT ![c].pc = "recheck", ![c].seen = 0]
  /\ UNCHANGED <<data, lists, nr_active, refcnt, busy, timer, completed, owed,
                 calls>>

CancelRecheck(c) ==
  LET x == call[c].work
  IN  /\ call[c].pc = "recheck"
      /\ IF data[x].pwq = 0 /\ "canceling" \in Bits(x)
           THEN StepTo(c, "doze") /\ UNCHANGED cancel_waitq
           ELSE /\ StepTo(c, "grab")
                /\ cancel_waitq' = Cut(cancel_waitq, <<c>>)
      /\ UNCHANGED <<data, lists, nr_active, refcnt, busy, timer, completed,
                     owed, calls>>

(* futex_wait does not sleep when it has been woken since it joined.       *)
CancelSleeps(c) ==
  /\ call[c].pc = "doze" /\ call[c].seen = 0
  /\ StepTo(c, "asleep")
  /\ UNCHANGED <<data, lists, nr_active, refcnt, busy, timer, completed,
                 cancel_waitq, owed, calls>>

CancelWoken(c) ==
  /\ call[c].pc \in {"doze", "asleep"} /\ call[c].seen = 1
  /\ StepTo(c, "grab")
  /\ cancel_waitq' = Cut(cancel_waitq, <<c>>)
  /\ UNCHANGED <<data, lists, nr_active, refcnt, busy, timer, completed,
                 owed, calls>>

(* PENDING is ours: __cancel_work gives it back, mod_delayed_work_on       *)
(* starts the work anew, __cancel_work_sync keeps it (mark_work_canceling) *)
(* and flushes.                                                            *)
Grabbed(c, p, now) ==
  LET x == call[c].work
      id == PoolId(data[x])
  IN  /\ call[c].pc = "grabbed"
      /\ \/ /\ call[c].op = "cancel"
            /\ data' = [data EXCEPT ![x] = RanOn(id, {})]
            /\ call' = [call EXCEPT ![c] = AtRest]
            /\ UNCHANGED timer
         \/ /\ call[c].op = "mod"
            /\ Launch(c, x, p, now)
            /\ UNCHANGED data
         \/ /\ call[c].op = "cancel_sync"
            /\ data' = [data EXCEPT ![x] =
                          RanOn(id, {"pending", "canceling"})]
            /\ StepTo(c, "flush")
            /\ UNCHANGED timer
      /\ UNCHANGED <<lists, nr_active, refcnt, busy, completed, cancel_waitq,
                     owed, calls>>

-----------------------------------------------------------------------------
(* flush_work, flush_delayed_work and flush_rcu_work. *)
FlushBegin(c, x) ==
  /\ call[c].pc = "out" /\ calls < MaxCalls
  /\ calls' = calls + 1
  /\ call' = [call EXCEPT ![c] =
       [AtRest EXCEPT !.op = "flush", !.work = x,
         !.pc = CASE WorkKind[x] = "delayed" -> "delete"
                  [] WorkKind[x] = "rcu" /\ "pending" \in Bits(x) -> "barrier"
                  [] OTHER -> "flush"]]
  /\ UNCHANGED <<data, lists, nr_active, refcnt, busy, timer, completed,
                 cancel_waitq, owed>>

(* uev_timer_delete_sync takes the timer out and waits for its callback;   *)
(* seen tells whether the timer was queued.                                *)
FlushDeletes(c) ==
  LET x == call[c].work
  IN  /\ call[c].pc = "delete"
      /\ timer' = timer \ {x}
      /\ call' = [call EXCEPT ![c].pc = "sync",
                              ![c].seen = IF x \in timer THEN 1 ELSE @]
      /\ UNCHANGED <<data, lists, nr_active, refcnt, busy, completed,
                     cancel_waitq, owed, calls>>

FlushDeleted(c, p) ==
  LET x == call[c].work
  IN  /\ call[c].pc = "sync" /\ call[Ticker].work # x
      /\ call' = [call EXCEPT ![c].pc =
                    CASE x \in timer -> "delete"
                      [] x \notin timer /\ call[c].seen = 1 -> "queue"
                      [] OTHER -> "flush",
                    ![c].pool = p]
      /\ UNCHANGED <<data, lists, nr_active, refcnt, busy, timer, completed,
                     cancel_waitq, owed, calls>>

(* rcu_barrier of flush_rcu_work: the callback has queued the work. *)
FlushRcu(c) ==
  /\ call[c].pc = "barrier"
  /\ call[c].work \notin timer /\ call[Ticker].work # call[c].work
  /\ StepTo(c, "flush")
  /\ UNCHANGED <<data, lists, nr_active, refcnt, busy, timer, completed,
                 cancel_waitq, owed, calls>>

(* start_flush_work finds the pool ... *)
FlushLook(c) ==
  LET p == PoolId(data[call[c].work])
  IN  /\ call[c].pc = "flush"
      /\ call' = [call EXCEPT ![c].pc = IF p = 0 THEN "gone" ELSE "flock",
                              ![c].pool = p]
      /\ UNCHANGED <<data, lists, nr_active, refcnt, busy, timer, completed,
                     cancel_waitq, owed, calls>>

Behind(list, x, b) ==
  IF Contains(list, x)
    THEN LET i == CHOOSE j \in DOMAIN list : list[j] = x
         IN  InsertAt(list, i + 1, b)
    ELSE list

(* Mutant: the barrier behind a queued work does not link to it. *)
BarrierUnlinked(c, x, p) ==
  /\ pool_list' = [q \in WqPools |-> Behind(pool_list[q], x, c)]
  /\ delayed_works' = [q \in WqPools |-> Behind(delayed_works[q], x, c)]
  /\ sched' = [k \in WqWorkers |-> Behind(sched[k], x, c)]
  /\ data' = [data EXCEPT ![c] = QueuedOn(p, {})]
  /\ owed' = [owed EXCEPT ![c] = x]

(* insert_wq_barrier behind a queued work ... *)
BarrierBehind(c, x, p) ==
  /\ pool_list' = [q \in WqPools |-> Behind(pool_list[q], x, c)]
  /\ delayed_works' = [q \in WqPools |-> Behind(delayed_works[q], x, c)]
  /\ sched' = [k \in WqWorkers |-> Behind(sched[k], x, c)]
  /\ data' = [data EXCEPT ![c] = QueuedOn(p, Bits(x) \cap {"linked"}),
                          ![x].bits = @ \cup {"linked"}]
  /\ owed' = [owed EXCEPT ![c] = x]

(* ... or in front of what the worker that runs it does next.              *)
BarrierNext(c, k, p) ==
  /\ sched' = [sched EXCEPT ![k] = <<c>> \o @]
  /\ data' = [data EXCEPT ![c] = QueuedOn(p, {})]
  /\ owed' = [owed EXCEPT ![c] = k]
  /\ UNCHANGED <<pool_list, delayed_works>>

(* ... and its critical section. *)
FlushLocked(c) ==
  LET x == call[c].work
      p == call[c].pool
      inserted == /\ refcnt' = [refcnt EXCEPT ![p] = @ + 1]
                  /\ completed' = completed \ {c}
                  /\ StepTo(c, "wait")
      nothing == UNCHANGED <<data, lists, refcnt, completed, owed>>
  IN  /\ call[c].pc = "flock"
      /\ \/ data[x].pwq = p /\ BarrierBehind(c, x, p) /\ inserted
         \/ /\ data[x].pwq = 0
            /\ \E k \in executing(p, x) : BarrierNext(c, k, p) /\ inserted
         \/ /\ data[x].pwq = 0 /\ executing(p, x) = {}
            /\ nothing /\ StepTo(c, "gone")
         \/ /\ data[x].pwq \notin {0, p}
            /\ nothing
            /\ call' = [call EXCEPT ![c].pc = "get",
                                    ![c].pool = data[x].pwq,
                                    ![c].seen = refcnt[data[x].pwq]]
      /\ UNCHANGED <<nr_active, busy, timer, cancel_waitq, calls>>

(* wait_for_completion of the barrier. *)
FlushWaits(c) ==
  /\ call[c].pc = "wait" /\ c \in completed
  /\ StepTo(c, "gone")
  /\ UNCHANGED <<data, lists, nr_active, refcnt, busy, timer, completed,
                 cancel_waitq, owed, calls>>

(* The flush is over; a synchronous canceller forgets where the work ran   *)
(* (clear_work_data) ...                                                   *)
FlushEnds(c) ==
  /\ call[c].pc = "gone"
  /\ IF call[c].op = "cancel_sync"
       THEN /\ data' = [data EXCEPT ![call[c].work] = NoData]
            /\ StepTo(c, "wake")
       ELSE call' = [call EXCEPT ![c] = AtRest] /\ UNCHANGED data
  /\ UNCHANGED <<lists, nr_active, refcnt, busy, timer, completed,
                 cancel_waitq, owed, calls>>

(* ... and wakes cancellers that wait for the same work, up to the first   *)
(* one that is really asleep: only that one leaves the queue and counts    *)
(* (autoremove_wake_function looks at what futex_wake returns).            *)
CancelWakes(c) ==
  LET same == SelectSeq(cancel_waitq,
                        LAMBDA d : call[d].work = call[c].work)
      asleep == {i \in DOMAIN same : call[same[i]].pc = "asleep"}
      last == IF asleep = {} THEN Len(same)
              ELSE CHOOSE i \in asleep : \A j \in asleep : i <= j
      kicked == {same[i] : i \in 1..last}
  IN  /\ call[c].pc = "wake"
      /\ cancel_waitq' =
           IF asleep = {} THEN cancel_waitq
           ELSE Cut(cancel_waitq, <<same[last]>>)
      /\ call' = [d \in Agents |->
                    CASE d = c -> AtRest
                      [] d \in kicked -> [call[d] EXCEPT !.seen = 1]
                      [] OTHER -> call[d]]
      /\ UNCHANGED <<data, lists, nr_active, refcnt, busy, timer, completed,
                     owed, calls>>

(* Every thread has made its calls and the queues are empty. *)
CallsMade ==
  /\ calls = MaxCalls /\ \A c \in Callers : call[c].pc = "out"
  /\ timer = {} /\ call[Ticker].pc = "out"
  /\ \A k \in WqWorkers : busy[k] = Nothing /\ sched[k] = <<>>
  /\ \A p \in WqPools : pool_list[p] = <<>>
  /\ UNCHANGED wivars

WorkItemsNext ==
  \/ \E c \in Callers, x \in WorkSet, p \in WqPools, now \in BOOLEAN :
       queue_work_on(c, x, p, now)
  \/ \E x \in WorkSet, p \in WqPools : TimerFires(x, p)
  \/ \E a \in Agents : QueueLast(a) \/ QueueChosen(a)
  \/ \E k \in WqWorkers : TakeWork(k) \/ TakeScheduled(k) \/ FinishWork(k)
  \/ \E c \in Callers, x \in WorkSet, op \in {"cancel", "cancel_sync", "mod"} :
       CancelBegin(c, x, op)
  \/ \E c \in Callers :
       \/ GrabTimer(c) \/ GrabBit(c) \/ GrabLook(c) \/ GrabLocked(c)
       \/ GetStores(c) \/ PutLoads(c) \/ PutStores(c) \/ GrabFails(c)
       \/ CancelJoin(c) \/ CancelRecheck(c) \/ CancelSleeps(c) \/ CancelWoken(c)
       \/ FlushDeletes(c) \/ FlushRcu(c) \/ FlushLook(c) \/ FlushLocked(c)
       \/ FlushWaits(c) \/ FlushEnds(c) \/ CancelWakes(c)
  \/ \E c \in Callers, p \in WqPools, now \in BOOLEAN : Grabbed(c, p, now)
  \/ \E c \in Callers, x \in WorkSet : FlushBegin(c, x)
  \/ \E c \in Callers, p \in WqPools : FlushDeleted(c, p)
  \/ CallsMade

-----------------------------------------------------------------------------
Listed(x) ==
  \/ \E p \in WqPools : Contains(pool_list[p] \o delayed_works[p], x)
  \/ \E k \in WqWorkers : Contains(sched[k], x)

(* What flush_work and cancel_work_sync promise when they return: the run  *)
(* that was queued or going on when the barrier went in is over (FlushWaits*)
(* sees the completion), and a cancelled work is neither queued nor armed  *)
(* nor running when its data are cleared.                                  *)
SyncMeansDone ==
  \A c \in Callers :
    /\ call[c].pc = "wait" /\ c \in completed => owed[c] = Nothing
    /\ call[c].pc = "gone" /\ call[c].op = "cancel_sync" =>
         /\ ~Listed(call[c].work) /\ call[c].work \notin timer
         /\ \A k \in WqWorkers : busy[k] # call[c].work

(* The bookkeeping of __queue_work, process_one_work and                   *)
(* try_to_grab_pending: a work is run by one worker at a time; nr_active   *)
(* is exactly the works let through to the workers and never above         *)
(* max_active; works are held back only while it is full; a barrier never  *)
(* leads delayed_works (it would be activated as a work); and a work's     *)
(* PENDING bit has one holder: a list, its timer, or a thread on its way.  *)
WorksAccounted ==
  /\ \A k, j \in WqWorkers :
       busy[k] # Nothing /\ busy[k] = busy[j] => k = j
  /\ \A p \in WqPools :
       /\ nr_active[p] =
            Cardinality({x \in WorkSet : /\ data[x].pwq = p /\ Listed(x)
                                         /\ "delayed" \notin Bits(x)}) +
            Cardinality({k \in WqWorkers : PoolOf[k] = p /\ busy[k] \in WorkSet})
       /\ nr_active[p] <= MaxActive
       /\ delayed_works[p] # <<>> =>
            nr_active[p] = MaxActive /\ Head(delayed_works[p]) \in WorkSet
  /\ \A x \in WorkSet :
       LET holders == {a \in Agents :
                        /\ call[a].work = x
                        /\ \/ call[a].pc \in {"queue", "requeue", "grabbed"}
                           \/ /\ call[a].op = "cancel_sync"
                              /\ call[a].pc \in {"flush", "flock", "wait",
                                                 "gone"}
                           \/ /\ call[a].op = "flush" /\ call[a].seen = 1
                              /\ call[a].pc = "sync"}
       IN  Cardinality(holders) + (IF x \in timer THEN 1 ELSE 0)
             + (IF Listed(x) THEN 1 ELSE 0)
             = (IF "pending" \in Bits(x) THEN 1 ELSE 0)

(* get_pwq and put_pwq say WQ_BUG_ON(!pool_is_locked(pwq->pool)): only     *)
(* then does the count of a pool_workqueue stay one for the workqueue and  *)
(* one for every work and barrier on its way through the pool.             *)
PwqRefsExact ==
  \A p \in WqPools :
    (\A c \in Callers : call[c].pc \notin {"get", "got", "put"}) =>
      refcnt[p] =
        1 + Cardinality({x \in WorkSet \cup Callers :
                           Listed(x) /\ data[x].pwq = p})
          + Cardinality({k \in WqWorkers : PoolOf[k] = p /\ busy[k] # Nothing})
=============================================================================
