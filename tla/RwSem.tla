------------------------------- MODULE RwSem -------------------------------
(***************************************************************************)
(* The reader/writer semaphore of src/utils/rwsem.c.  Every access to      *)
(* activity, to the list and to a waiter's flags is made under wait_lock,  *)
(* except the futex's own look at the flags; so a critical section of the  *)
(* code is one step, and going to sleep is another.                        *)
(*                                                                         *)
(* A waiting reader is granted the lock by the thread that releases it     *)
(* (activity is counted up and the waiter taken off the list for it); a    *)
(* waiting writer stays first in the list, is only told to look again, and *)
(* may find that somebody was faster.                                      *)
(***************************************************************************)
EXTENDS Integers, Sequences, FiniteSets, ListOps

CONSTANT Threads

VARIABLES
  activity,     (* sem->activity                                           *)
  wait_list,    (* sem->wait_list                                          *)
  signalled,    (* waiter.flags & RWSEM_WAITING_MASK # 0, for each thread  *)
  pc            (* r_* inside down_read, w_* inside down_write             *)

vars == <<activity, wait_list, signalled, pc>>

ReadWait  == {"r_futex", "r_sleep", "r_relock"}
WriteWait == {"w_futex", "w_sleep", "w_relock"}
Places    == {"idle", "reading", "writing"} \cup ReadWait \cup WriteWait

Goto(t, p) == pc' = [pc EXCEPT ![t] = p]

IsReader(t) == pc[t] \in ReadWait     (* flags & RWSEM_WAITING_FOR_READ *)

Init ==
  /\ activity = 0
  /\ wait_list = <<>>
  /\ signalled = [t \in Threads |-> FALSE]
  /\ pc = [t \in Threads |-> "idle"]

-----------------------------------------------------------------------------
(* The condition under which down_read is granted at once. *)
ReadGranted(t) == activity > 0 \/ (activity = 0 /\ wait_list = <<>>)

down_read(t) ==
  /\ pc[t] = "idle"
  /\ \/ /\ ReadGranted(t)
        /\ activity' = activity + 1
        /\ Goto(t, "reading")
        /\ UNCHANGED <<wait_list, signalled>>
     \/ /\ ~ ReadGranted(t)
        /\ signalled' = [signalled EXCEPT ![t] = FALSE]
        /\ wait_list' = list_add_tail(wait_list, t)
        /\ Goto(t, "r_futex")
        /\ UNCHANGED activity

(* A failed trylock changes nothing. *)
down_read_trylock(t) ==
  /\ pc[t] = "idle"
  /\ activity >= 0 /\ wait_list = <<>>
  /\ activity' = activity + 1
  /\ Goto(t, "reading")
  /\ UNCHANGED <<wait_list, signalled>>

(* futex_wait on the waiter's flags: asleep while they have not changed. *)
futex_wait(t) ==
  /\ \/ pc[t] = "r_futex" /\ Goto(t, IF signalled[t] THEN "r_relock" ELSE "r_sleep")
     \/ pc[t] = "w_futex" /\ Goto(t, IF signalled[t] THEN "w_relock" ELSE "w_sleep")
  /\ UNCHANGED <<activity, wait_list, signalled>>

(* EINTR: futex_wait goes round its loop. *)
futex_wait_eintr(t) ==
  /\ \/ pc[t] = "r_sleep" /\ Goto(t, "r_futex")
     \/ pc[t] = "w_sleep" /\ Goto(t, "w_futex")
  /\ UNCHANGED <<activity, wait_list, signalled>>

(* down_read, awake: a granted reader is done, any other waits again. *)
down_read_awake(t) ==
  /\ pc[t] = "r_relock"
  /\ Goto(t, IF signalled[t] THEN "reading" ELSE "r_futex")
  /\ UNCHANGED <<activity, wait_list, signalled>>

(* down_write queues itself first, and takes a free semaphore at once even *)
(* if others were queued before it.                                        *)
down_write(t) ==
  /\ pc[t] = "idle"
  /\ \/ /\ activity = 0
        /\ activity' = -1
        /\ Goto(t, "writing")
        /\ UNCHANGED <<wait_list, signalled>>
     \/ /\ activity # 0
        /\ signalled' = [signalled EXCEPT ![t] = FALSE]
        /\ wait_list' = list_add_tail(wait_list, t)
        /\ Goto(t, "w_futex")
        /\ UNCHANGED activity

(* Mutant: the writer takes the semaphore because it was told to look. *)
WriteAwakeBlind(t) ==
  /\ pc[t] = "w_relock"
  /\ signalled' = [signalled EXCEPT ![t] = FALSE]
  /\ activity' = -1
  /\ wait_list' = list_del(wait_list, t)
  /\ Goto(t, "writing")

(* Mutant: the writer that gets in leaves its waiter on the list. *)
WriteAwakeListed(t) ==
  /\ pc[t] = "w_relock"
  /\ signalled' = [signalled EXCEPT ![t] = FALSE]
  /\ activity' = IF activity = 0 THEN -1 ELSE activity
  /\ Goto(t, IF activity = 0 THEN "writing" ELSE "w_futex")
  /\ UNCHANGED wait_list

(* down_write, awake: the flags are reset and activity is looked at again. *)
down_write_awake(t) ==
  /\ pc[t] = "w_relock"
  /\ signalled' = [signalled EXCEPT ![t] = FALSE]
  /\ \/ /\ activity = 0
        /\ activity' = -1
        /\ wait_list' = list_del(wait_list, t)
        /\ Goto(t, "writing")
     \/ /\ activity # 0
        /\ Goto(t, "w_futex")
        /\ UNCHANGED <<activity, wait_list>>

down_write_trylock(t) ==
  /\ pc[t] = "idle"
  /\ activity = 0
  /\ activity' = -1
  /\ Goto(t, "writing")
  /\ UNCHANGED <<wait_list, signalled>>

-----------------------------------------------------------------------------
(* xadd32(&waiter->flags, 1) and futex_wake for every thread of W, while   *)
(* the caller t moves to place p.                                          *)
Wake(t, W, p) ==
  /\ signalled' = [u \in Threads |-> signalled[u] \/ u \in W]
  /\ pc' = [u \in Threads |->
              CASE u = t -> p
                [] u \in W /\ pc[u] = "r_sleep" -> "r_relock"
                [] u \in W /\ pc[u] = "w_sleep" -> "w_relock"
                [] OTHER -> pc[u]]

(* The readers at the front of the list: as many as come before the first  *)
(* writer.                                                                 *)
FrontReaders ==
  CHOOSE n \in 0 .. Len(wait_list) :
    /\ \A i \in 1 .. n : IsReader(wait_list[i])
    /\ n < Len(wait_list) => ~ IsReader(wait_list[n + 1])

Granted == {wait_list[i] : i \in 1 .. FrontReaders}

(* Mutant: the readers that are granted the lock are not counted. *)
DoWakeNotCounted(t, wakewrite, a, p) ==
  \/ /\ FrontReaders = 0
     /\ Wake(t, IF wakewrite /\ wait_list # <<>> THEN {wait_list[1]} ELSE {}, p)
     /\ activity' = a
     /\ UNCHANGED wait_list
  \/ /\ FrontReaders > 0
     /\ Wake(t, Granted, p)
     /\ wait_list' = SubSeq(wait_list, FrontReaders + 1, Len(wait_list))
     /\ activity' = a + 1

(* __rwsem_do_wake, with the activity a that the caller has just set: tell *)
(* a writer at the front to look if wakewrite, or grant the lock to all    *)
(* readers at the front.  An empty list makes it a no-op, as the callers   *)
(* test.                                                                   *)
rwsem_do_wake(t, wakewrite, a, p) ==
  \/ /\ FrontReaders = 0
     /\ Wake(t, IF wakewrite /\ wait_list # <<>> THEN {wait_list[1]} ELSE {}, p)
     /\ activity' = a
     /\ UNCHANGED wait_list
  \/ /\ FrontReaders > 0
     /\ Wake(t, Granted, p)
     /\ wait_list' = SubSeq(wait_list, FrontReaders + 1, Len(wait_list))
     /\ activity' = a + FrontReaders

(* Mutant: the last reader forgets the writer it kept waiting. *)
UpReadNoWake(t) ==
  /\ pc[t] = "reading"
  /\ activity' = activity - 1
  /\ Goto(t, "idle")
  /\ UNCHANGED <<wait_list, signalled>>

(* up_read: the last reader wakes the writer at the front. *)
up_read(t) ==
  /\ pc[t] = "reading"
  /\ activity' = activity - 1
  /\ Wake(t, IF activity - 1 = 0 /\ wait_list # <<>> THEN {wait_list[1]} ELSE {},
          "idle")
  /\ UNCHANGED wait_list

up_write(t) ==
  /\ pc[t] = "writing"
  /\ rwsem_do_wake(t, TRUE, 0, "idle")

(* Mutant: the writer becomes a reader and wakes nobody. *)
DowngradeNoWake(t) ==
  /\ pc[t] = "writing"
  /\ activity' = 1
  /\ Goto(t, "reading")
  /\ UNCHANGED <<wait_list, signalled>>

downgrade_write(t) ==
  /\ pc[t] = "writing"
  /\ rwsem_do_wake(t, FALSE, 1, "reading")

-----------------------------------------------------------------------------
(* The steps of a thread that is inside a call or holds the semaphore. *)
Continue(t) ==
  \/ futex_wait(t)
  \/ down_read_awake(t)
  \/ down_write_awake(t)
  \/ up_read(t)
  \/ up_write(t)

Step(t) ==
  \/ down_read(t)
  \/ down_read_trylock(t)
  \/ down_write(t)
  \/ down_write_trylock(t)
  \/ downgrade_write(t)
  \/ futex_wait_eintr(t)
  \/ Continue(t)

Next == \E t \in Threads : Step(t)

Spec == Init /\ [][Next]_vars

(* Running threads keep running, and holders let go. *)
FairSpec == Spec /\ \A t \in Threads : WF_vars(Continue(t))

-----------------------------------------------------------------------------
(* A reader holds the semaphore from the moment it is counted in activity, *)
(* which for a queued reader is before it wakes up.                        *)
Readers == {t \in Threads : pc[t] = "reading" \/ (IsReader(t) /\ signalled[t])}
Writers == {t \in Threads : pc[t] = "writing"}

(* Type correctness; activity is never below -1: no more locks are given   *)
(* back than were taken.                                                   *)
TypeOK ==
  /\ activity \in Int /\ activity >= -1
  /\ wait_list \in Seq(Threads)
  /\ signalled \in [Threads -> BOOLEAN]
  /\ pc \in [Threads -> Places]

(* rwsem.h:25: activity is -1 with one active writer, otherwise the number *)
(* of active readers; a writer is alone.                                   *)
ActivityCounts ==
  /\ Writers # {} => Readers = {} /\ (\E t \in Threads : Writers = {t})
  /\ activity = IF Writers # {} THEN -1 ELSE Cardinality(Readers)

(* "If the list is not empty, a writer must be waiting" (rwsem.c:239): the *)
(* BUG_ON of __rwsem_wake_one_writer never fires.                          *)
FrontIsWriter ==
  activity >= 0 /\ wait_list # <<>> => ~ IsReader(wait_list[1])

(* On the list are exactly the threads that still wait to be let in: all   *)
(* writers inside down_write and the readers nobody has granted yet, so no *)
(* releasing thread touches the stack of a thread that has returned.       *)
ListedAreWaiting ==
  /\ Distinct(wait_list)
  /\ \A t \in Threads :
       Occurs(wait_list, t) <=> \/ pc[t] \in WriteWait
                                \/ IsReader(t) /\ ~ signalled[t]

(* All three: activity, the head of the list and the list tell the truth.  *)
RwSemQueue == ActivityCounts /\ FrontIsWriter /\ ListedAreWaiting

(* The semaphore implements a reader/writer lock. *)
RwLock == INSTANCE AbstractRwLock WITH readers <- Readers, writers <- Writers
ImplementsRwLock == RwLock!RwSpec

(* Whenever somebody waits, somebody gets in later. *)
SomebodyGetsIn ==
  (\E t \in Threads : pc[t] \in ReadWait \cup WriteWait)
    ~> (\E t \in Threads : pc[t] \in {"reading", "writing"})

=============================================================================
