------------------------------- MODULE WaitBit -------------------------------
(***************************************************************************)
(* Waiting for a bit (wait.c: wait_on_bit, wait_on_bit_lock, wake_up_bit), *)
(* the way lock_page, wait_on_page_bit and unlock_page use it.  Bits share *)
(* a wait queue of bit_wait_table when they hash alike, as here.           *)
(*                                                                         *)
(* A waiter counts wake ups in wait->cond; wait_on sleeps only if it got   *)
(* none since it joined the queue or slept last.  A wake up that meets no  *)
(* sleeper is counted, but the waiter stays on the queue and the wake up   *)
(* goes on to the next one (futex_wake returned 0).                        *)
(***************************************************************************)
EXTENDS Integers, Sequences, ListOps

CONSTANTS BitWaiters, PageBits

VARIABLES
  set_bits,     (* the bits that are set                                   *)
  bit_queue,    (* the waiters on the queue                                *)
  bw            (* a thread: pc, its bit, exclusive?, woken (cond counts)  *)

bwvars == <<set_bits, bit_queue, bw>>

BwOut == [pc |-> "out", bit |-> 0, excl |-> FALSE, woken |-> FALSE]
BwTo(t, pc) == bw' = [bw EXCEPT ![t].pc = pc]

WaitBitInit ==
  set_bits = {} /\ bit_queue = <<>> /\ bw = [t \in BitWaiters |-> BwOut]

(* lock_page: test_and_set_bit, or the slow path. *)
lock_page(t, b) ==
  /\ bw[t].pc = "out"
  /\ bw' = [bw EXCEPT ![t] =
       [BwOut EXCEPT !.pc = IF b \in set_bits THEN "join" ELSE "locked",
                     !.bit = b, !.excl = TRUE]]
  /\ set_bits' = set_bits \cup {b}
  /\ UNCHANGED bit_queue

(* wait_on_bit: return, or the slow path. *)
wait_on_page_bit(t, b) ==
  /\ bw[t].pc = "out" /\ b \in set_bits
  /\ bw' = [bw EXCEPT ![t] = [BwOut EXCEPT !.pc = "join", !.bit = b]]
  /\ UNCHANGED <<set_bits, bit_queue>>

(* __wait_on_bit_common, round by round: join the queue if not on it, *)
(* which forgets the wake ups counted so far ...                      *)
BitJoin(t) ==
  /\ bw[t].pc = "join"
  /\ IF Occurs(bit_queue, t)
       THEN UNCHANGED bit_queue /\ BwTo(t, "test")
       ELSE /\ bit_queue' = IF bw[t].excl THEN Append(bit_queue, t)
                            ELSE <<t>> \o bit_queue
            /\ bw' = [bw EXCEPT ![t].pc = "test", ![t].woken = FALSE]
  /\ UNCHANGED set_bits

(* Mutant: the bit is not looked at again once on the queue.               *)
SleepsUntested(t) ==
  /\ bw[t].pc = "test"
  /\ BwTo(t, "doze")
  /\ UNCHANGED <<set_bits, bit_queue>>

(* ... look at the bit, and sleep if it is set (sync_page is wait_on) ...  *)
BitTest(t) ==
  /\ bw[t].pc = "test"
  /\ BwTo(t, IF bw[t].bit \in set_bits THEN "doze" ELSE "take")
  /\ UNCHANGED <<set_bits, bit_queue>>

BitSleep(t) ==
  /\ bw[t].pc = "doze" /\ ~bw[t].woken
  /\ BwTo(t, "asleep")
  /\ UNCHANGED <<set_bits, bit_queue>>

BitWoken(t) ==
  /\ bw[t].pc \in {"doze", "asleep"} /\ bw[t].woken
  /\ bw' = [bw EXCEPT ![t].pc = "take", ![t].woken = FALSE]
  /\ UNCHANGED <<set_bits, bit_queue>>

(* ... and take the bit, or see it clear; otherwise another round.         *)
BitTake(t) ==
  /\ bw[t].pc = "take"
  /\ BwTo(t, IF bw[t].bit \in set_bits THEN "join" ELSE "finish")
  /\ set_bits' = IF bw[t].excl THEN set_bits \cup {bw[t].bit} ELSE set_bits
  /\ UNCHANGED bit_queue

(* finish_wait. *)
BitFinish(t) ==
  /\ bw[t].pc = "finish"
  /\ bit_queue' = list_keep(bit_queue, BitWaiters \ {t})
  /\ bw' = [bw EXCEPT ![t] = IF bw[t].excl THEN [@ EXCEPT !.pc = "locked"]
                             ELSE BwOut]
  /\ UNCHANGED set_bits

(* unlock_page clears the bit and wakes up if somebody is on the queue. *)
UnlockPage(t) ==
  /\ bw[t].pc = "locked"
  /\ set_bits' = set_bits \ {bw[t].bit}
  /\ BwTo(t, "peek")
  /\ UNCHANGED bit_queue

UnlockPeek(t) ==
  /\ bw[t].pc = "peek"
  /\ bw' = [bw EXCEPT ![t] =
              IF bit_queue = <<>> THEN BwOut ELSE [@ EXCEPT !.pc = "wake"]]
  /\ UNCHANGED <<set_bits, bit_queue>>

(* wake_bit_function: the right bit, and it is still clear. *)
matches(w, b) == bw[w].bit = b /\ b \notin set_bits

(* ___wake_up_common with nr_exclusive = 1. *)
UnlockWake(t) ==
  LET hit == list_keep(bit_queue, {w \in BitWaiters : matches(w, bw[t].bit)})
      ends == {i \in DOMAIN hit : bw[hit[i]].pc = "asleep" /\ bw[hit[i]].excl}
      last == IF ends = {} THEN Len(hit)
              ELSE CHOOSE i \in ends : \A j \in ends : i <= j
      called == {hit[i] : i \in 1..last}
  IN  /\ bw[t].pc = "wake"
      /\ bit_queue' = list_keep(bit_queue,
           {w \in BitWaiters : ~(w \in called /\ bw[w].pc = "asleep")})
      /\ bw' = [w \in BitWaiters |->
                  IF w = t THEN BwOut ELSE [bw[w] EXCEPT !.woken = @ \/ w \in called]]
      /\ UNCHANGED set_bits

BitStep(t) ==
  \/ BitJoin(t) \/ BitTest(t) \/ BitSleep(t) \/ BitWoken(t) \/ BitTake(t)
  \/ BitFinish(t) \/ UnlockPage(t) \/ UnlockPeek(t) \/ UnlockWake(t)

WaitBitNext ==
  \E t \in BitWaiters :
    BitStep(t) \/ \E b \in PageBits : lock_page(t, b) \/ wait_on_page_bit(t, b)

WaitBitSpec == WaitBitInit /\ [][WaitBitNext]_bwvars

-----------------------------------------------------------------------------
(* A page has one locker; and no sleeper is forgotten: while somebody      *)
(* sleeps on a bit without having been woken, the bit is set (its owner    *)
(* will wake), or an unlocker is on its way to the queue, or another       *)
(* waiter for the bit is up and will take the bit, and so wake later.      *)
SleeperHasWaker ==
  \A t \in BitWaiters :
    /\ bw[t].pc = "locked" =>
         /\ bw[t].bit \in set_bits
         /\ \A u \in BitWaiters \ {t} :
              ~(bw[u].pc = "locked" /\ bw[u].bit = bw[t].bit)
    /\ bw[t].pc = "asleep" /\ ~bw[t].woken /\ bw[t].bit \notin set_bits =>
         \E u \in BitWaiters :
           /\ bw[u].bit = bw[t].bit
           /\ \/ bw[u].pc \in {"peek", "wake"}
              \/ /\ bw[u].excl
                 /\ \/ bw[u].pc \in {"join", "test", "take"}
                    \/ bw[u].pc \in {"doze", "asleep"} /\ bw[u].woken
=============================================================================
