------------------------------- MODULE WqFlush -------------------------------
(***************************************************************************)
(* flush_workqueue of src/process/workqueue.c: a workqueue counts the      *)
(* works it has got and the works it is done with in two 16-bit numbers;   *)
(* a flusher notes the first number and sleeps until the second reaches    *)
(* it.                                                                     *)
(*                                                                         *)
(* The workers of different pools complete works concurrently: the number  *)
(* is changed and the list of flushers is looked at without the lock of    *)
(* wait_flusher.  The works of an ordered workqueue share one pool and     *)
(* complete one by one, in the order in which they were queued.            *)
(***************************************************************************)
EXTENDS Integers, Sequences, ListOps

CONSTANTS
  Works,        (* the works that may be queued                            *)
  Flushers,     (* the threads that call flush_workqueue                   *)
  NoThread,     (* the owner of the free lock of wait_flusher              *)
  SeqRange,     (* 2^16 in the code                                        *)
  Ordered,      (* __WQ_ORDER with max_active = 1?                         *)
  MaxInserts    (* bound: how many works are queued                        *)

VARIABLES
  inserts,      (* works queued so far, for the bound                      *)
  insert_seq,   (* wq->insert_seq                                          *)
  remove_seq,   (* wq->remove_seq                                          *)
  wait_flusher, (* wq->wait_flusher.task_list                              *)
  lock,         (* the owner of wq->wait_flusher.lock                      *)
  fwait,        (* a flusher's insert_seq and remove_seq                   *)
  flight,       (* the works queued and not completed, oldest first        *)
  done,         (* what the worker of a work does: "no" completion, the    *)
                (* "peek" at the list or the "wake" up                     *)
  key,          (* the key of that wake up                                 *)
  before,       (* history: the works in flight at the call of the flusher *)
                (* that are still in flight                                *)
  pc

flushers == <<wait_flusher, lock, fwait, pc>>
vars == <<inserts, insert_seq, remove_seq, flushers, flight, done, key, before>>

Inc(n) == (n + 1) % SeqRange

(* A workqueue on which any number of works were completed before, so that *)
(* the numbers may be about to go round.                                   *)
Init ==
  /\ inserts = 0
  /\ insert_seq \in {0, SeqRange - 1} /\ remove_seq = insert_seq
  /\ wait_flusher = <<>>
  /\ lock = NoThread
  /\ fwait = [f \in Flushers |-> [insert_seq |-> 0, remove_seq |-> 0]]
  /\ flight = <<>>
  /\ done = [x \in Works |-> "no"]
  /\ key = [x \in Works |-> 0]
  /\ before = [f \in Flushers |-> {}]
  /\ pc = [f \in Flushers |-> "out"]

-----------------------------------------------------------------------------
(* The lock of the one pool of an ordered workqueue is held until the end  *)
(* of pwq_dec_nr_in_flight.                                                *)
PoolFree == Ordered => \A x \in Works : done[x] = "no"

(* insert_work: pwq_inc_nr_in_flight. *)
insert_work(x) ==
  /\ PoolFree
  /\ done[x] = "no" /\ ~Occurs(flight, x)
  /\ inserts < MaxInserts /\ inserts' = inserts + 1
  /\ insert_seq' = Inc(insert_seq)
  /\ flight' = list_add_tail(flight, x)
  /\ UNCHANGED <<remove_seq, flushers, done, key, before>>

(* pwq_dec_nr_in_flight after the function of the work has returned: count *)
(* the work.                                                               *)
pwq_dec_nr_in_flight(x) ==
  /\ PoolFree
  /\ Occurs(flight, x) /\ (Ordered => Head(flight) = x)
  /\ flight' = list_del(flight, x)
  /\ remove_seq' = Inc(remove_seq)
  /\ key' = [key EXCEPT ![x] = remove_seq']
  /\ done' = [done EXCEPT ![x] = "peek"]
  /\ before' = [f \in Flushers |-> before[f] \ {x}]
  /\ UNCHANGED <<inserts, insert_seq, flushers>>

(* waitqueue_active, without the lock. *)
waitqueue_active(x) ==
  /\ done[x] = "peek"
  /\ done' = [done EXCEPT ![x] = IF wait_flusher # <<>> THEN "wake" ELSE "no"]
  /\ key' = [key EXCEPT ![x] = IF wait_flusher # <<>> THEN @ ELSE 0]
  /\ UNCHANGED <<inserts, insert_seq, remove_seq, flushers, flight, before>>

(* wfl_wakefn: does the flusher wait for this number? *)
wfl_wakefn(f, k) == fwait[f].insert_seq = k

(* __wake_up_all: only a flusher that really slept is taken off the list;  *)
(* "wait" is a flusher that has not reached its futex yet.                 *)
wake_up_all(x) ==
  /\ done[x] = "wake"
  /\ lock = NoThread
  /\ LET hit == {f \in Flushers : Occurs(wait_flusher, f) /\ wfl_wakefn(f, key[x])}
     IN  /\ fwait' = [f \in Flushers |-> IF f \in hit
                        THEN [fwait[f] EXCEPT !.remove_seq = key[x]] ELSE fwait[f]]
         /\ wait_flusher' =
              list_keep(wait_flusher, {f \in Flushers : f \notin hit \/ pc[f] # "sleep"})
         /\ pc' = [f \in Flushers |->
                     IF f \in hit /\ pc[f] \in {"wait", "sleep"} THEN "relock" ELSE pc[f]]
  /\ done' = [done EXCEPT ![x] = "no"]
  /\ key' = [key EXCEPT ![x] = 0]
  /\ UNCHANGED <<inserts, insert_seq, remove_seq, lock, flight, before>>

-----------------------------------------------------------------------------
(* flush_workqueue: lock, and read insert_seq. *)
flush_workqueue(f) ==
  /\ pc[f] = "out"
  /\ lock = NoThread
  /\ lock' = f
  /\ fwait' = [fwait EXCEPT ![f].insert_seq = insert_seq]
  /\ before' = [before EXCEPT ![f] = {x \in Works : Occurs(flight, x)}]
  /\ pc' = [pc EXCEPT ![f] = "read"]
  /\ UNCHANGED <<inserts, insert_seq, remove_seq, wait_flusher, flight, done, key>>

(* Mutant: the flusher does not compare. *)
ReadStale(f) ==
  /\ pc[f] = "read"
  /\ fwait' = [fwait EXCEPT ![f].remove_seq = fwait[f].insert_seq]
  /\ pc' = [pc EXCEPT ![f] = "add"]
  /\ UNCHANGED <<inserts, insert_seq, remove_seq, wait_flusher, lock, flight, done, key,
                 before>>

(* Read remove_seq; works complete meanwhile. *)
flush_read(f) ==
  /\ pc[f] = "read"
  /\ fwait' = [fwait EXCEPT ![f].remove_seq = remove_seq]
  /\ pc' = [pc EXCEPT ![f] = "add"]
  /\ UNCHANGED <<inserts, insert_seq, remove_seq, wait_flusher, lock, flight, done, key,
                 before>>

(* add_wait_queue_locked. *)
flush_add(f) ==
  /\ pc[f] = "add"
  /\ wait_flusher' = <<f>> \o wait_flusher
  /\ pc' = [pc EXCEPT ![f] = "check"]
  /\ UNCHANGED <<inserts, insert_seq, remove_seq, lock, fwait, flight, done, key, before>>

(* Mutant: the entry on the flusher's stack is left on the list. *)
CheckNoRemove(f) ==
  /\ pc[f] = "check"
  /\ pc' = [pc EXCEPT ![f] =
       IF fwait[f].insert_seq = fwait[f].remove_seq THEN "returned" ELSE "wait"]
  /\ lock' = NoThread
  /\ UNCHANGED <<inserts, insert_seq, remove_seq, wait_flusher, fwait, flight, done, key,
                 before>>

(* The loop of flush_workqueue: wait, or leave the list and return. *)
flush_check(f) ==
  /\ pc[f] = "check"
  /\ \/ /\ fwait[f].insert_seq # fwait[f].remove_seq
        /\ pc' = [pc EXCEPT ![f] = "wait"]
        /\ UNCHANGED wait_flusher
     \/ /\ fwait[f].insert_seq = fwait[f].remove_seq
        /\ pc' = [pc EXCEPT ![f] = "returned"]
        /\ wait_flusher' = list_keep(wait_flusher, Flushers \ {f})
  /\ lock' = NoThread
  /\ UNCHANGED <<inserts, insert_seq, remove_seq, fwait, flight, done, key, before>>

(* wait_on: fall asleep (a wake-up before that is kept, see Completion). *)
wait_on(f) ==
  /\ pc[f] = "wait"
  /\ pc' = [pc EXCEPT ![f] = "sleep"]
  /\ UNCHANGED <<inserts, insert_seq, remove_seq, wait_flusher, lock, fwait, flight, done,
                 key, before>>

(* Woken up: lock again. *)
flush_relock(f) ==
  /\ pc[f] = "relock"
  /\ lock = NoThread
  /\ lock' = f
  /\ pc' = [pc EXCEPT ![f] = "check"]
  /\ UNCHANGED <<inserts, insert_seq, remove_seq, wait_flusher, fwait, flight, done, key,
                 before>>

(* The caller goes on; it may flush again. *)
flush_returns(f) ==
  /\ pc[f] = "returned"
  /\ pc' = [pc EXCEPT ![f] = "out"]
  /\ fwait' = [fwait EXCEPT ![f] = [insert_seq |-> 0, remove_seq |-> 0]]
  /\ before' = [before EXCEPT ![f] = {}]
  /\ UNCHANGED <<inserts, insert_seq, remove_seq, wait_flusher, lock, flight, done, key>>

-----------------------------------------------------------------------------
Worker(x) == pwq_dec_nr_in_flight(x) \/ waitqueue_active(x) \/ wake_up_all(x)

Flusher(f) ==
  flush_read(f) \/ flush_add(f) \/ flush_check(f) \/ wait_on(f) \/ flush_relock(f)

Next ==
  \/ \E x \in Works : insert_work(x) \/ Worker(x)
  \/ \E f \in Flushers : flush_workqueue(f) \/ Flusher(f) \/ flush_returns(f)

Spec == Init /\ [][Next]_vars

(* Works complete, workers and flushers keep running. *)
FairSpec ==
  /\ Spec
  /\ \A x \in Works : SF_vars(Worker(x))
  /\ \A f \in Flushers : SF_vars(Flusher(f)) /\ WF_vars(flush_returns(f))

-----------------------------------------------------------------------------
(* Type correctness; the numbers stay within their 16 bits. *)
TypeOK ==
  /\ inserts \in 0..MaxInserts
  /\ insert_seq \in 0..SeqRange - 1 /\ remove_seq \in 0..SeqRange - 1
  /\ wait_flusher \in Seq(Flushers) /\ Distinct(wait_flusher)
  /\ lock \in Flushers \cup {NoThread}
  /\ fwait \in [Flushers -> [insert_seq : 0..SeqRange - 1, remove_seq : 0..SeqRange - 1]]
  /\ flight \in Seq(Works) /\ Distinct(flight)
  /\ done \in [Works -> {"no", "peek", "wake"}]
  /\ key \in [Works -> 0..SeqRange - 1]
  /\ before \in [Flushers -> SUBSET Works]
  /\ pc \in [Flushers -> {"out", "read", "add", "check", "wait", "sleep",
                          "relock", "returned"}]

(* workqueue.h: flush_workqueue waits until the works queued at the call   *)
(* are completed, and does not look at those queued later.                 *)
WaitsForTheWorks == \A f \in Flushers : pc[f] = "returned" => before[f] = {}

(* The list of flushers holds no entry of a flusher that has returned: the *)
(* entries live on the flushers' stacks.                                   *)
EntryIsAlive ==
  \A f \in Flushers : Occurs(wait_flusher, f) =>
    pc[f] \in {"check", "wait", "sleep", "relock"}

(* A flush waits for the works and leaves no entry behind. *)
FlushWaits == WaitsForTheWorks /\ EntryIsAlive

(* workqueue.h, as above: a flusher returns once those works are done. *)
FlushReturns == \A f \in Flushers : pc[f] = "read" ~> pc[f] = "returned"

=============================================================================
