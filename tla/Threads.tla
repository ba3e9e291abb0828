------------------------------ MODULE Threads -------------------------------
(***************************************************************************)
(* The life of one thread of src/process/thread.c: created asleep, woken   *)
(* up, stopped, killed or detached.  Its flag word and its two completions *)
(* are shared by the thread itself (thread__helper), threads that wake it  *)
(* up (uthread_wakeup) and the one that stops or kills it.                 *)
(***************************************************************************)
EXTENDS Integers, FiniteSets

CONSTANTS Wakers

VARIABLES tflags,            \* of {"WAKING", "RUNNING", "STOPPING", "STOPPED", "DETACHED"}
          started, stopped,  \* the counts of the completions
          tpc, wpc, spc,     \* the thread, its wakers, its stopper
          cancelled,         \* pthread_cancel was called
          ran, freed         \* its function ran; its descriptor was freed

thvars == <<tflags, started, stopped, tpc, wpc, spc, cancelled, ran, freed>>

ThreadInit ==
  /\ tflags = {} /\ started = 0 /\ stopped = 0
  /\ tpc = "asleep" /\ spc = "idle" /\ wpc = [w \in Wakers |-> "idle"]
  /\ cancelled = FALSE /\ ran = FALSE /\ freed = FALSE
-----------------------------------------------------------------------------
(* thread__helper *)
Started ==
  /\ tpc = "asleep" /\ started > 0
  /\ started' = started - 1
  /\ tpc' = "check"
  /\ UNCHANGED <<tflags, stopped, wpc, spc, cancelled, ran, freed>>

RunFn ==
  \/ /\ tpc = "check"
     /\ tpc' = IF tflags \cap {"STOPPING", "STOPPED"} = {} THEN "run" ELSE "stop"
     /\ UNCHANGED <<tflags, ran>>
  \/ /\ tpc = "run"
     /\ tflags' = tflags \cup {"RUNNING"} /\ ran' = TRUE
     /\ tpc' = "fn"
  \/ /\ tpc = "fn"                          \* the function returns
     /\ tpc' = "stop" /\ UNCHANGED <<tflags, ran>>
RunFnStep == RunFn /\ UNCHANGED <<started, stopped, wpc, spc, cancelled, freed>>

(* uthread_detach, by the function, when nobody is to stop the thread *)
DetachSelf ==
  /\ tpc = "fn" /\ spc = "idle" /\ "DETACHED" \notin tflags
  /\ tflags' = tflags \cup {"DETACHED"}
  /\ UNCHANGED <<started, stopped, tpc, wpc, spc, cancelled, ran, freed>>

SetStopped ==
  /\ tpc = "stop"
  /\ tflags' = tflags \cup {"STOPPED"}
  /\ tpc' = IF "STOPPED" \in tflags THEN "interrupted" ELSE "complete"
  /\ UNCHANGED <<started, stopped, wpc, spc, cancelled, ran, freed>>

CompleteStopped ==
  /\ tpc \in {"complete", "interrupted"}
  /\ stopped' = stopped + 1
  /\ tpc' = IF "DETACHED" \in tflags THEN "free" ELSE IF tpc = "interrupted" THEN "park" ELSE "exited"
  /\ UNCHANGED <<tflags, started, wpc, spc, cancelled, ran, freed>>

(* a thread that was killed waits for its cancellation; a detached one frees itself *)
Cancelled ==
  /\ tpc \in {"park", "fn"} /\ cancelled
  /\ tpc' = "exited"
  /\ UNCHANGED <<tflags, started, stopped, wpc, spc, cancelled, ran, freed>>

thread__free == "WAKING" \notin tflags /\ freed' = TRUE

FreeSelf ==
  /\ tpc = "free" /\ thread__free
  /\ tpc' = "exited"
  /\ UNCHANGED <<tflags, started, stopped, wpc, spc, cancelled, ran>>
-----------------------------------------------------------------------------
(* uthread_wakeup, by a thread that knows the other still exists *)
WakeBegin(w) ==
  /\ wpc[w] = "idle" /\ spc = "idle" /\ ~freed /\ tpc # "free"
  /\ wpc' = [wpc EXCEPT ![w] = IF "WAKING" \in tflags THEN "done" ELSE "test"]
  /\ tflags' = tflags \cup {"WAKING"}
  /\ UNCHANGED <<started, stopped, tpc, spc, cancelled, ran, freed>>

WakeTest(w) ==
  /\ wpc[w] = "test"
  /\ wpc' = [wpc EXCEPT ![w] = IF "RUNNING" \in tflags THEN "busy" ELSE "wait"]
  /\ started' = IF "RUNNING" \in tflags THEN started ELSE started + 1
  /\ UNCHANGED <<tflags, stopped, tpc, spc, cancelled, ran, freed>>

(* uthread_wakeup does not wait for the thread. *)
WakeReturnsAtOnce(w) ==
  /\ wpc[w] = "wait"
  /\ wpc' = [wpc EXCEPT ![w] = "woken"]
  /\ UNCHANGED <<tflags, started, stopped, tpc, spc, cancelled, ran, freed>>

WakeWait(w) ==
  /\ wpc[w] = "wait" /\ tflags \cap {"RUNNING", "STOPPING"} # {}
  /\ wpc' = [wpc EXCEPT ![w] = "woken"]
  /\ UNCHANGED <<tflags, started, stopped, tpc, spc, cancelled, ran, freed>>

WakeEnd(w) ==
  /\ wpc[w] \in {"busy", "woken"}
  /\ tflags' = tflags \ {"WAKING"}
  /\ wpc' = [wpc EXCEPT ![w] = IF wpc[w] = "busy" THEN "done" ELSE "success"]
  /\ UNCHANGED <<started, stopped, tpc, spc, cancelled, ran, freed>>
-----------------------------------------------------------------------------
(* uthread_stop and uthread_kill of a thread that is not detached *)
StopThread ==
  /\ spc = "idle" /\ "DETACHED" \notin tflags
  /\ tflags' = tflags \cup {"STOPPING"}
  /\ spc' \in {"stop", "kill"}
  /\ UNCHANGED <<started, stopped, tpc, wpc, cancelled, ran, freed>>

(* uthread_stop of a thread that was never woken does not wake it. *)
StopLeavesAsleep ==
  /\ spc \in {"stop", "kill"}
  /\ spc' = IF spc = "stop" THEN "wait" ELSE "claim"
  /\ UNCHANGED <<tflags, started, stopped, tpc, wpc, cancelled, ran, freed>>

StopWakes ==
  /\ spc \in {"stop", "kill"}
  /\ started' = IF "RUNNING" \in tflags THEN started ELSE started + 1
  /\ spc' = IF spc = "stop" THEN "wait" ELSE "claim"
  /\ UNCHANGED <<tflags, stopped, tpc, wpc, cancelled, ran, freed>>

KillClaims ==
  /\ spc = "claim"
  /\ tflags' = tflags \cup {"STOPPED"}
  /\ spc' = IF "STOPPED" \in tflags THEN "wait" ELSE "join"
  /\ cancelled' = ("STOPPED" \notin tflags)
  /\ UNCHANGED <<started, stopped, tpc, wpc, ran, freed>>

(* __thread_wait_join *)
StopWaits ==
  /\ spc = "wait" /\ stopped > 0
  /\ stopped' = stopped - 1
  /\ spc' = "join"
  /\ UNCHANGED <<tflags, started, tpc, wpc, cancelled, ran, freed>>

StopJoins ==
  /\ spc = "join" /\ tpc = "exited" /\ thread__free
  /\ spc' = "done"
  /\ UNCHANGED <<tflags, started, stopped, tpc, wpc, cancelled, ran>>

ThreadEnds == freed /\ UNCHANGED thvars
-----------------------------------------------------------------------------
ThreadSteps == Started \/ RunFnStep \/ SetStopped \/ CompleteStopped \/ Cancelled \/ FreeSelf
WakerSteps(w) == WakeTest(w) \/ WakeWait(w) \/ WakeEnd(w)
StopperSteps == StopWakes \/ KillClaims \/ StopWaits \/ StopJoins

ThreadNext == ThreadSteps \/ DetachSelf \/ (\E w \in Wakers : WakeBegin(w) \/ WakerSteps(w))
              \/ StopThread \/ StopperSteps \/ ThreadEnds

ThreadSpec == ThreadInit /\ [][ThreadNext]_thvars


(***************************************************************************)
(* A wake-up that returns success did run the thread's function, unless    *)
(* somebody stops the thread ("必须等待此标记 ..."), and nobody uses the    *)
(* descriptor after it was freed: not a waker, not the thread itself.      *)
(***************************************************************************)
WakeupMeansRun ==
  /\ \A w \in Wakers : wpc[w] \in {"woken", "success"} => ran \/ "STOPPING" \in tflags
  /\ freed => /\ tpc = "exited"
              /\ \A w \in Wakers : wpc[w] \notin {"test", "busy", "wait", "woken"}

(***************************************************************************)
(* Stopping or killing a thread ends, whatever state it was in and whoever *)
(* wakes it up meanwhile, and leaves it freed.                             *)
(***************************************************************************)
StopEnds == spc \in {"stop", "kill"} ~> freed
=============================================================================
