----------------------------- MODULE MCProcess ------------------------------
(***************************************************************************)
(* The workqueue, the event loop and a transport on small instances.  A    *)
(* behaviour is about the one named by which.  The flush, the event loop,  *)
(* RCU, the pool and the transport have their own variables and rest when  *)
(* they are not the one; the variables v1 .. v13 serve the other parts and *)
(* the ones a part does not need stay 0.                                   *)
(***************************************************************************)
EXTENDS EventLoop, EventRcu, WqFlush, WorkerPool, Xprt, TLC

CONSTANTS
  Components,
  Threads, Nobody            \* threads, interchangeable

VARIABLES which, v1, v2, v3, v4, v5, v6, v7, v8, v9, v10, v11, v12, v13

vs == <<v1, v2, v3, v4, v5, v6, v7, v8, v9, v10, v11, v12, v13>>
mcvars == <<which, lpvars, rcvars, vars, plvars, xvars, vs>>

Symmetry == Permutations(Threads) \cup Permutations(Works)

(* two workers in one pool and a third in another; works of every kind *)
MCPoolOf == [w \in Workers |-> IF w = First THEN 2 ELSE 1]
MCWorkKind == [work |-> [x1 |-> "work"], delayed_work |-> [x1 |-> "delayed", x2 |-> "work"],
               rcu_work |-> [x1 |-> "rcu"]]
Wi(kind) == INSTANCE WorkItems WITH WqPools <- {1, 2}, PoolOf <- MCPoolOf,
        WorkKind <- MCWorkKind[kind], Callers <- Threads, Ticker <- "tick", Nothing <- Nobody,
        MaxActive <- 1, MaxCalls <- IF kind = "delayed_work" THEN 3 ELSE 4,
        data <- v1, pool_list <- v2, delayed_works <- v3, nr_active <- v4, refcnt <- v5,
        busy <- v6, sched <- v7, timer <- v8, call <- v9, completed <- v10,
        cancel_waitq <- v11, owed <- v12, calls <- v13

-----------------------------------------------------------------------------
WorkKinds == DOMAIN MCWorkKind

Zero1 == /\ v1 = 0 /\ v2 = 0 /\ v3 = 0 /\ v4 = 0 /\ v5 = 0 /\ v6 = 0 /\ v7 = 0
         /\ v8 = 0 /\ v9 = 0 /\ v10 = 0 /\ v11 = 0 /\ v12 = 0 /\ v13 = 0

MCInit ==
  /\ which \in Components
  /\ LoopInit /\ RcuInit /\ Init /\ (which # "flush" => insert_seq = 0)
  /\ PoolInit /\ XprtInit /\ (which # "xprt" => "connecting" \in xflags)
  /\ \/ which \in {"flush", "event_loop", "rcu", "pool", "xprt"} /\ Zero1
     \/ \E kind \in WorkKinds : which = kind /\ Wi(kind)!WorkItemsInit

MCNext ==
  /\ UNCHANGED which
  /\ \/ which = "flush"      /\ Next /\ UNCHANGED <<lpvars, rcvars, plvars, xvars, vs>>
     \/ which = "flush"      /\ UNCHANGED mcvars   \* a flusher whose wake-up was lost
     \/ which = "event_loop" /\ LoopNext /\ UNCHANGED <<rcvars, vars, plvars, xvars, vs>>
     \/ which = "rcu"        /\ RcuNext /\ UNCHANGED <<lpvars, vars, plvars, xvars, vs>>
     \/ which = "pool"       /\ PoolNext /\ UNCHANGED <<lpvars, rcvars, vars, xvars, vs>>
     \/ which = "xprt"       /\ XprtNext /\ UNCHANGED <<lpvars, rcvars, vars, plvars, vs>>
     \/ /\ UNCHANGED <<lpvars, rcvars, vars, plvars, xvars>>
        /\ \E kind \in WorkKinds : which = kind /\ Wi(kind)!WorkItemsNext

MCSpec == MCInit /\ [][MCNext]_mcvars
-----------------------------------------------------------------------------
(* LatenessBounded and EmittedIsSeen are properties of EventLoop,          *)
(* CalledInTurn of EventRcu, FlushWaits of WqFlush, PoolStaysReady of      *)
(* WorkerPool and TransportLife of Xprt.                                   *)

(***************************************************************************)
(* What flush_work and cancel_work_sync promise when they return: the run  *)
(* that was queued or going on is over, and a cancelled work is neither    *)
(* queued nor armed nor running.                                           *)
(***************************************************************************)
SyncMeansDone == \A kind \in WorkKinds : which = kind => Wi(kind)!SyncMeansDone

(***************************************************************************)
(* The bookkeeping of __queue_work, process_one_work and                   *)
(* try_to_grab_pending agrees: one worker runs a work, nr_active is the    *)
(* works let through and at most max_active, works are held back only      *)
(* while it is full, and a PENDING bit has exactly one holder.             *)
(***************************************************************************)
WorksAccounted == \A kind \in WorkKinds : which = kind => Wi(kind)!WorksAccounted
=============================================================================
