------------------------------- MODULE MCSync -------------------------------
(***************************************************************************)
(* The synchronisation primitives other than the spinlock and the mutex,   *)
(* each on a small instance.  A behaviour is about the one named by which; *)
(* the others stay as they start.  The properties are those of the         *)
(* modules that are put together here.                                     *)
(***************************************************************************)
EXTENDS RwSem, QRwLock, RecursiveMutex, Completion, SeqLock, Uref, WaitBit

CONSTANT Components

VARIABLE which

Creator == CHOOSE u \in RefUsers : TRUE

(* The variables of all but the one that moves *)
Rest(c) ==
  /\ c # "rwsem" => UNCHANGED vars
  /\ c # "rwlock" => UNCHANGED rwvars
  /\ c # "recursive" => UNCHANGED rmvars
  /\ c # "completion" => UNCHANGED cplvars
  /\ c # "seqlock" => UNCHANGED sqvars
  /\ c # "uref" => UNCHANGED urvars
  /\ c # "wait_bit" => UNCHANGED bwvars

mcvars == <<which, vars, rwvars, rmvars, cplvars, sqvars, urvars, bwvars>>

MCInit ==
  /\ which \in Components
  /\ Init /\ QRwInit /\ RecInit /\ CplInit /\ UrefInit /\ WaitBitInit
  /\ SeqInit /\ (which # "seqlock" => sequence = 0)
  /\ which # "uref" => upc = [u \in RefUsers |-> IF u = Creator THEN "holds" ELSE "out"]

MCNext ==
  /\ UNCHANGED which
  /\ Rest(which)
  /\ \/ which = "rwsem"      /\ Next
     \/ which = "rwlock"     /\ QRwNext
     \/ which = "recursive"  /\ RecNext
     \/ which = "completion" /\ CplNext
     \/ which = "seqlock"    /\ SeqNext
     \/ which = "uref"       /\ UrefNext
     \/ which = "wait_bit"   /\ WaitBitNext

(* Threads that are inside a call go on, and holders let go. *)
MCSpec == /\ MCInit /\ [][MCNext]_mcvars
          /\ \A t \in Threads : WF_vars(which = "rwsem" /\ Continue(t))
          /\ \A t \in Spinners : WF_rwvars(which = "rwlock" /\ RwStep(t))
=============================================================================
