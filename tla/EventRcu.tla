------------------------------ MODULE EventRcu ------------------------------
(***************************************************************************)
(* Deferred calls of src/process/event.c: call_rcu_sched puts a head on    *)
(* the queue of every slot, one slot at a time; each event thread takes    *)
(* the heads that are due off its queue, and the last of them calls the    *)
(* function.  Reaching its time is left open: a thread may stop at any     *)
(* head of its queue.  rcu_barrier is a head its caller waits for.         *)
(***************************************************************************)
EXTENDS Integers, Sequences, FiniteSets, ListOps

CONSTANTS RcuSlots,    \* 0 .. NR_CPUS - 1
          Heads        \* rcu_heads, each used by one call

VARIABLES rcu,         \* rcu[h] = [pc, refcnt, next]: next is the slot it is added to
          rcu_queue,   \* rcu_queue[s]
          spliced,     \* spliced[s]: the private queue of process_rcus
          passing,     \* passing[s]: inside process_rcus
          called,      \* the functions called, in order
          earlier       \* earlier[h]: heads whose call had returned when h's began

rcvars == <<rcu, rcu_queue, spliced, passing, called, earlier>>

RcuInit ==
  /\ rcu = [h \in Heads |-> [pc |-> "unused", refcnt |-> 0, next |-> 0]]
  /\ rcu_queue = [s \in RcuSlots |-> <<>>] /\ spliced = [s \in RcuSlots |-> <<>>]
  /\ passing = [s \in RcuSlots |-> FALSE]
  /\ called = <<>> /\ earlier = [h \in Heads |-> {}]

CallRcu(h) ==
  /\ rcu[h].pc = "unused"
  /\ rcu' = [rcu EXCEPT ![h] = [pc |-> "adding", refcnt |-> Cardinality(RcuSlots), next |-> 0]]
  /\ earlier' = [earlier EXCEPT ![h] = {g \in Heads : rcu[g].pc = "sched"}]
  /\ UNCHANGED <<rcu_queue, spliced, passing, called>>

(* under the lock of one slot *)
AddToSlot(h) ==
  /\ rcu[h].pc = "adding"
  /\ rcu_queue' = [rcu_queue EXCEPT ![rcu[h].next] = list_add_tail(@, h)]
  /\ rcu' = [rcu EXCEPT ![h].next = @ + 1,
                        ![h].pc = IF rcu[h].next + 1 \in RcuSlots THEN "adding" ELSE "sched"]
  /\ UNCHANGED <<spliced, passing, called, earlier>>

(* process_rcus: the whole queue is taken, and worked on without the lock *)
ProcessRcus(s) ==
  /\ ~passing[s] /\ rcu_queue[s] # <<>>
  /\ spliced' = [spliced EXCEPT ![s] = rcu_queue[s]]
  /\ rcu_queue' = [rcu_queue EXCEPT ![s] = <<>>]
  /\ passing' = [passing EXCEPT ![s] = TRUE]
  /\ UNCHANGED <<rcu, called, earlier>>

RcuTimedout(s) ==
  /\ passing[s] /\ spliced[s] # <<>>
  /\ LET h == Head(spliced[s]) IN
       /\ rcu' = [rcu EXCEPT ![h].refcnt = @ - 1]
       /\ called' = IF rcu[h].refcnt = 1 THEN Append(called, h) ELSE called
  /\ spliced' = [spliced EXCEPT ![s] = Tail(@)]
  /\ UNCHANGED <<rcu_queue, passing, earlier>>

(* What is not due yet goes behind what came meanwhile. *)
EndRcusBehind(s) ==
  /\ passing[s]
  /\ rcu_queue' = [rcu_queue EXCEPT ![s] = @ \o spliced[s]]
  /\ spliced' = [spliced EXCEPT ![s] = <<>>]
  /\ passing' = [passing EXCEPT ![s] = FALSE]
  /\ UNCHANGED <<rcu, called, earlier>>

(* what is not due yet goes back to the front *)
EndRcus(s) ==
  /\ passing[s]
  /\ rcu_queue' = [rcu_queue EXCEPT ![s] = spliced[s] \o @]
  /\ spliced' = [spliced EXCEPT ![s] = <<>>]
  /\ passing' = [passing EXCEPT ![s] = FALSE]
  /\ UNCHANGED <<rcu, called, earlier>>

AllCalled == (\A h \in Heads : Occurs(called, h)) /\ UNCHANGED rcvars

RcuNext == (\E h \in Heads : CallRcu(h) \/ AddToSlot(h))
           \/ (\E s \in RcuSlots : ProcessRcus(s) \/ RcuTimedout(s) \/ EndRcus(s))
           \/ AllCalled

RcuSpec == RcuInit /\ [][RcuNext]_rcvars
-----------------------------------------------------------------------------
(***************************************************************************)
(* A function is called once, when no slot's queue holds its head any      *)
(* more, and after those of every head that was scheduled before its own   *)
(* call began: so rcu_barrier waits for all of them.                       *)
(***************************************************************************)
CalledInTurn ==
  /\ Distinct(called)
  /\ \A i \in DOMAIN called :
       /\ earlier[called[i]] \subseteq {called[j] : j \in 1 .. i - 1}
       /\ \A s \in RcuSlots : ~ Occurs(rcu_queue[s] \o spliced[s], called[i])
=============================================================================
