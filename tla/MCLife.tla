------------------------------- MODULE MCLife -------------------------------
(***************************************************************************)
(* How things end: a thread that is woken up and stopped, a server that is *)
(* stopped and destroyed, an unbound worker pool that is put back.  A      *)
(* behaviour is about the one named by which; the other two stay as they   *)
(* start.                                                                  *)
(***************************************************************************)
EXTENDS Threads, Server, WorkerPool

CONSTANT Components

VARIABLE which

vars == <<which, thvars, svrvars, plvars>>

Init == which \in Components /\ ThreadInit /\ ServerInit /\ PoolInit

Next ==
  /\ UNCHANGED which
  /\ \/ which = "thread" /\ ThreadNext /\ UNCHANGED <<svrvars, plvars>>
     \/ which = "server" /\ ServerNext /\ UNCHANGED <<thvars, plvars>>
     \/ which = "pool" /\ PoolNext /\ UNCHANGED <<thvars, svrvars>>

(* of a thread: it runs, and whoever called uthread_wakeup or uthread_stop  *)
(* goes on                                                                 *)
ThreadFairness ==
  /\ WF_thvars(which = "thread" /\ ThreadSteps)
  /\ WF_thvars(which = "thread" /\ StopperSteps)
  /\ \A w \in Wakers : WF_thvars(which = "thread" /\ WakerSteps(w))

(* of a server that is run: threads that are running go on, and somebody   *)
(* calls server_stop                                                       *)
ServerFairness ==
  /\ WF_svrvars(which = "server" /\ AcceptSteps)
  /\ WF_svrvars(which = "server" /\ OpenAttach)
  /\ WF_svrvars(which = "server" /\ StopSteps)
  /\ WF_svrvars(which = "server" /\ MainSteps)
  /\ WF_svrvars(which = "server" /\ \E x \in Xprts : ReleaseSteps(x))

(* of a pool: every thread keeps running; somebody gets the pool lock, but *)
(* not always the same worker (Mutex!SomebodyGetsIn); functions of works   *)
(* return and what they wait for comes; a thread can be created once in a  *)
(* while                                                                   *)
PoolFairness ==
  /\ WF_plvars(which = "pool" /\ \E w \in Workers : Acquire(w))
  /\ WF_plvars(which = "pool" /\ \E w \in Workers : Locked(w))
  /\ \A w \in Workers :
       /\ WF_plvars(which = "pool" /\ Unlocked(w))
       /\ WF_plvars(which = "pool" /\ wq_worker_waking_up(w))
       /\ SF_plvars(which = "pool" /\ func_returns(w))
       /\ SF_plvars(which = "pool" /\ \E n \in Workers : create_worker(w, n))
  /\ WF_plvars(which = "pool" /\ PoolRelease)

(* Only one of the three moves, so the fairness of the others must not ask *)
(* for a step: theirs is of steps of their own kind of behaviour.          *)
Spec == /\ Init /\ [][Next]_vars
        /\ ThreadFairness /\ PoolFairness /\ ServerFairness
-----------------------------------------------------------------------------
(* WakeupMeansRun and StopEnds are properties of Threads, ServerAccounts   *)
(* and PausedListenerResumes of Server, PoolAccounts of WorkerPool.        *)

(* A server that somebody stops is destroyed: server_loop returns, and     *)
(* destroy_server's wait for the users of the server ends.                 *)
DestroyEnds == which = "server" ~> loop = "done"

(***************************************************************************)
(* The pool makes progress: every work on the worklist is taken from it,   *)
(* whoever gets the lock, if no work function blocks for ever (worker_fn,  *)
(* process_one_work), and put_unbound_pool returns once it has begun,      *)
(* because every worker detaches.                                          *)
(***************************************************************************)
PoolProgresses == ListedIsTaken /\ ReleaseEnds
=============================================================================
