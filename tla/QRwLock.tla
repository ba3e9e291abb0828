------------------------------- MODULE QRwLock -------------------------------
(***************************************************************************)
(* The queued reader/writer spin lock of src/utils/rwlock.c and rwlock.h.  *)
(* One word counts the readers above a bit that says a writer waits and a  *)
(* byte that says a writer is in; who does not get in at once takes the    *)
(* spin lock wait_lock (see SpinLock) and spins as its owner.              *)
(***************************************************************************)
EXTENDS Integers, FiniteSets

CONSTANTS Spinners, NoSpinner

VARIABLES
  cnts,         (* [locked, waiting, readers]                              *)
  wait_lock,    (* the owner of wait_lock                                  *)
  rwpc

rwvars == <<cnts, wait_lock, rwpc>>

Free == [locked |-> FALSE, waiting |-> FALSE, readers |-> 0]
WMask(c) == c.locked \/ c.waiting
Move(t, from, to) == rwpc[t] = from /\ rwpc' = [rwpc EXCEPT ![t] = to]
Bias(d) == cnts' = [cnts EXCEPT !.readers = @ + d]

QRwInit ==
  /\ cnts = Free
  /\ wait_lock = NoSpinner
  /\ rwpc = [t \in Spinners |-> "out"]

(* queued_read_lock: count first, then see whether a writer objects. *)
read_lock(t) ==
  /\ Move(t, "out", IF WMask(cnts) THEN "r_back" ELSE "reading")
  /\ Bias(1)
  /\ UNCHANGED wait_lock

(* queued_read_lock_slowpath. *)
ReadBackOff(t) ==
  Move(t, "r_back", "r_queue") /\ Bias(-1) /\ UNCHANGED wait_lock

ReadQueue(t) ==
  /\ Move(t, "r_queue", "r_count")
  /\ wait_lock = NoSpinner /\ wait_lock' = t
  /\ UNCHANGED cnts

ReadCount(t) ==
  Move(t, "r_count", "r_spin") /\ Bias(1) /\ UNCHANGED wait_lock

(* Mutant: a reader at the head of the queue takes any state of the lock. *)
ReadSpinBlind(t) ==
  /\ Move(t, "r_spin", "reading")
  /\ wait_lock' = NoSpinner
  /\ UNCHANGED cnts

ReadSpin(t) ==
  /\ Move(t, "r_spin", "reading")
  /\ ~cnts.locked
  /\ wait_lock' = NoSpinner
  /\ UNCHANGED cnts

(* queued_read_trylock: a look, then as read_lock, but it gives up. *)
ReadTryLook(t) ==
  /\ Move(t, "out", "r_try") /\ ~WMask(cnts)
  /\ UNCHANGED <<cnts, wait_lock>>

ReadTryCount(t) ==
  /\ Move(t, "r_try", IF WMask(cnts) THEN "r_giveup" ELSE "reading")
  /\ Bias(1)
  /\ UNCHANGED wait_lock

ReadGiveUp(t) ==
  Move(t, "r_giveup", "out") /\ Bias(-1) /\ UNCHANGED wait_lock

read_unlock(t) ==
  Move(t, "reading", "out") /\ Bias(-1) /\ UNCHANGED wait_lock

(* queued_write_lock: at once, or into the queue.  queued_write_trylock    *)
(* is the first case.                                                      *)
write_lock(t) ==
  \/ /\ Move(t, "out", "writing") /\ cnts = Free
     /\ cnts' = [cnts EXCEPT !.locked = TRUE]
     /\ UNCHANGED wait_lock
  \/ /\ Move(t, "out", "w_queue") /\ cnts # Free
     /\ UNCHANGED <<cnts, wait_lock>>

(* queued_write_lock_slowpath. *)
WriteQueue(t) ==
  /\ Move(t, "w_queue", "w_direct")
  /\ wait_lock = NoSpinner /\ wait_lock' = t
  /\ UNCHANGED cnts

WriteDirect(t) ==
  \/ /\ Move(t, "w_direct", "writing") /\ cnts = Free
     /\ cnts' = [cnts EXCEPT !.locked = TRUE]
     /\ wait_lock' = NoSpinner
  \/ /\ Move(t, "w_direct", "w_flag") /\ cnts # Free
     /\ UNCHANGED <<cnts, wait_lock>>

(* Mutant: the waiting bit is not set, so readers keep coming. *)
WriteNoFlag(t) ==
  Move(t, "w_flag", "w_spin") /\ UNCHANGED <<cnts, wait_lock>>

WriteFlag(t) ==
  /\ Move(t, "w_flag", "w_spin")
  /\ cnts' = [cnts EXCEPT !.waiting = TRUE]
  /\ UNCHANGED wait_lock

(* The word was only the waiting bit at the load; it is exchanged if it    *)
(* still is.                                                               *)
WriteSpin(t) ==
  /\ Move(t, "w_spin", "w_swap")
  /\ ~cnts.locked /\ cnts.readers = 0
  /\ UNCHANGED <<cnts, wait_lock>>

WriteSwap(t) ==
  \/ /\ Move(t, "w_swap", "writing")
     /\ ~cnts.locked /\ cnts.readers = 0
     /\ cnts' = [Free EXCEPT !.locked = TRUE]
     /\ wait_lock' = NoSpinner
  \/ /\ Move(t, "w_swap", "w_spin")
     /\ cnts.locked \/ cnts.readers # 0
     /\ UNCHANGED <<cnts, wait_lock>>

(* queued_write_unlock clears the byte only. *)
write_unlock(t) ==
  /\ Move(t, "writing", "out")
  /\ cnts' = [cnts EXCEPT !.locked = FALSE]
  /\ UNCHANGED wait_lock

(* What a thread inside the code must do; when to come is its own choice.  *)
RwStep(t) ==
  \/ ReadBackOff(t) \/ ReadQueue(t) \/ ReadCount(t) \/ ReadSpin(t)
  \/ ReadTryCount(t) \/ ReadGiveUp(t) \/ read_unlock(t)
  \/ WriteQueue(t) \/ WriteDirect(t) \/ WriteFlag(t) \/ WriteSpin(t)
  \/ WriteSwap(t) \/ write_unlock(t)

QRwNext ==
  \E t \in Spinners :
    RwStep(t) \/ read_lock(t) \/ ReadTryLook(t) \/ write_lock(t)

QRwSpec == QRwInit /\ [][QRwNext]_rwvars

-----------------------------------------------------------------------------
(* The queued lock implements the reader/writer lock: a writer is alone,   *)
(* whatever cnts goes through while readers count themselves in and out.   *)
QRw == INSTANCE AbstractRwLock WITH
         Threads <- Spinners,
         readers <- {t \in Spinners : rwpc[t] = "reading"},
         writers <- {t \in Spinners : rwpc[t] = "writing"}
ImplementsQRwLock == QRw!RwSpec

(* queued_write_lock_slowpath "set the waiting flag to notify readers":    *)
(* the writer at the head of the queue gets in, although readers never     *)
(* stop coming.                                                            *)
WaitingWriterGetsIn ==
  \A t \in Spinners : rwpc[t] = "w_flag" ~> rwpc[t] = "writing"
=============================================================================
