----------------------------- MODULE Completion -----------------------------
(***************************************************************************)
(* Completions (src/process/completion.c, include/skp/process/completion.h)*)
(* on the wait queues of src/process/wait.c: a counter of completions that *)
(* callers take one by one, and the list of the callers that wait.         *)
(*                                                                         *)
(* The counter and the list are only touched under wait_queue.lock, so a   *)
(* critical section is one step.  A waiter's cond and last_cond are kept   *)
(* as one bit, woken == cond # last_cond.  wake_up changes the bit and     *)
(* wakes the waiter if it sleeps; only then autoremove_wake_function takes *)
(* it off the list and the wake-up counts as an exclusive one.             *)
(***************************************************************************)
EXTENDS Integers, Sequences, ListOps

CONSTANTS
  Waiters,      (* the threads that wait                                   *)
  Timeouts,     (* may a wait time out (a timeout of 0 or more)?           *)
  All,          (* the amount complete_all adds, UINT_MAX >> 1 in the code *)
  MaxDone       (* bound: completions not yet taken                        *)

VARIABLES
  done,         (* x->done                                                 *)
  task_list,    (* x->wait_queue.task_list                                 *)
  woken,        (* wait.cond # wait.last_cond                              *)
  cpc

cplvars == <<done, task_list, woken, cpc>>

CplPlaces == {"idle", "wait", "sleep", "awake", "timedout", "relock"}

CplGoto(t, p) == cpc' = [cpc EXCEPT ![t] = p]

(* list_del_init: an entry that is not on the list stays off it. *)
Remove(t) ==
  task_list' = IF Occurs(task_list, t) THEN list_del(task_list, t) ELSE task_list

CplInit ==
  /\ done = 0
  /\ task_list = <<>>
  /\ woken = [t \in Waiters |-> FALSE]
  /\ cpc = [t \in Waiters |-> "idle"]

-----------------------------------------------------------------------------
(* wait_for_completion_timeout: take a completion, or join the list. *)
wait_for_completion(t) ==
  /\ cpc[t] = "idle"
  /\ \/ /\ done # 0
        /\ done' = done - 1
        /\ UNCHANGED <<task_list, woken, cpc>>
     \/ /\ done = 0
        /\ task_list' = list_add_tail(task_list, t)
        /\ woken' = [woken EXCEPT ![t] = FALSE]
        /\ CplGoto(t, "wait")
        /\ UNCHANGED done

(* wait_on_timeout: sleep, unless there was a wake-up since the last time. *)
wait_on(t) ==
  /\ cpc[t] = "wait"
  /\ CplGoto(t, IF woken[t] THEN "awake" ELSE "sleep")
  /\ UNCHANGED <<done, task_list, woken>>

(* EINTR: futex_wait compares the word again. *)
futex_wait_interrupted(t) ==
  /\ cpc[t] = "sleep"
  /\ CplGoto(t, "wait")
  /\ UNCHANGED <<done, task_list, woken>>

(* futex_wait times out: the waiter is still on the list. *)
wait_on_timedout(t) ==
  /\ Timeouts
  /\ cpc[t] = "sleep"
  /\ CplGoto(t, "timedout")
  /\ UNCHANGED <<done, task_list, woken>>

(* WRITE_ONCE(wait->last_cond, wait->cond). *)
wait_on_consume(t) ==
  /\ cpc[t] = "awake"
  /\ woken' = [woken EXCEPT ![t] = FALSE]
  /\ CplGoto(t, "relock")
  /\ UNCHANGED <<done, task_list>>

(* Mutant: the entry of a call that timed out is left on the list. *)
TimedoutNoRemove(t) ==
  /\ cpc[t] = "timedout"
  /\ CplGoto(t, "idle")
  /\ UNCHANGED <<done, task_list, woken>>

(* rc < 1: leave the list and return without a completion. *)
wait_timedout(t) ==
  /\ cpc[t] = "timedout"
  /\ Remove(t)
  /\ CplGoto(t, "idle")
  /\ UNCHANGED <<done, woken>>

(* while (!done): take a completion and leave the list, or wait again -    *)
(* without joining the list again.                                         *)
wait_relock(t) ==
  /\ cpc[t] = "relock"
  /\ \/ /\ done # 0
        /\ Remove(t)
        /\ done' = done - 1
        /\ CplGoto(t, "idle")
     \/ /\ done = 0
        /\ CplGoto(t, "wait")
        /\ UNCHANGED <<done, task_list>>
  /\ UNCHANGED woken

-----------------------------------------------------------------------------
(* ___wake_up_common reaches the first n entries: every one of them has    *)
(* its cond changed; those asleep are woken and taken off the list.        *)
WakeFirst(n) ==
  LET reached == {task_list[i] : i \in 1 .. n}
      asleep(t) == cpc[t] = "sleep"
  IN  /\ woken' = [t \in Waiters |-> woken[t] \/ t \in reached]
      /\ cpc' = [t \in Waiters |-> IF t \in reached /\ asleep(t) THEN "awake" ELSE cpc[t]]
      /\ task_list' = list_keep(task_list, {t \in Waiters : ~ (t \in reached /\ asleep(t))})

(* Mutant: the walk ends at the first entry, asleep or not. *)
ReachedFirstEntry ==
  {n \in 0 .. Len(task_list) : n = IF task_list = <<>> THEN 0 ELSE 1}

(* How far complete() walks: to the first sleeper, which is the one        *)
(* exclusive waiter it may wake, or to the end.                            *)
ReachedByOne ==
  {n \in 0 .. Len(task_list) :
     /\ \A i \in 1 .. n - 1 : cpc[task_list[i]] # "sleep"
     /\ n < Len(task_list) => n > 0 /\ cpc[task_list[n]] = "sleep"}

complete ==
  /\ done + 1 <= MaxDone
  /\ done' = done + 1
  /\ \E n \in ReachedByOne : WakeFirst(n)

complete_all ==
  /\ done + All <= MaxDone
  /\ done' = done + All
  /\ WakeFirst(Len(task_list))

CplContinue(t) ==
  \/ wait_on(t)
  \/ wait_on_consume(t)
  \/ wait_timedout(t)
  \/ wait_relock(t)

CplNext ==
  \/ \E t \in Waiters :
       \/ wait_for_completion(t)
       \/ futex_wait_interrupted(t)
       \/ wait_on_timedout(t)
       \/ CplContinue(t)
  \/ complete
  \/ complete_all

CplSpec == CplInit /\ [][CplNext]_cplvars

(* A waiter that is not asleep keeps running. *)
CplFairSpec == CplSpec /\ \A t \in Waiters : WF_cplvars(CplContinue(t))

-----------------------------------------------------------------------------
InWait == {"wait", "sleep", "awake", "relock"}

(* Type correctness: no more completions are taken than were made. *)
CplTypeOK ==
  /\ done \in 0 .. MaxDone
  /\ task_list \in Seq(Waiters)
  /\ woken \in [Waiters -> BOOLEAN]
  /\ cpc \in [Waiters -> CplPlaces]

(* The list never holds the stack entry of a call that has returned, and   *)
(* holds none twice: every way out of wait_for_completion_timeout and      *)
(* every wake-up by autoremove_wake_function leaves it consistent.         *)
ListedAreInside ==
  /\ Distinct(task_list)
  /\ \A t \in Waiters : cpc[t] = "idle" => ~ Occurs(task_list, t)

(* While completions are available a sleeper on the list implies that some *)
(* other caller is awake and about to take one.                            *)
SleeperMeansTaker ==
  \A t \in Waiters :
    done > 0 /\ cpc[t] = "sleep" /\ Occurs(task_list, t)
      => \E u \in Waiters : cpc[u] \in {"wait", "awake", "relock"}

(* No sleeper is forgotten and none is woken on a stack that is gone, also *)
(* when a timeout races complete: both of the above.                       *)
SleepersHaveTaker == ListedAreInside /\ SleeperMeansTaker

(* "as long as the resource is available - the number is above 0 -         *)
(* decrement it and return, otherwise wait until it is"                    *)
(* (doc/skp_summary.md:326): a caller that waits while completions are     *)
(* available returns, unless others have taken them.                       *)
CompletionIsTaken ==
  \A t \in Waiters : (cpc[t] \in InWait /\ done > 0) ~> (cpc[t] = "idle" \/ done = 0)
=============================================================================
