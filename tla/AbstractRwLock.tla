--------------------------- MODULE AbstractRwLock ---------------------------
(***************************************************************************)
(* What every reader/writer lock of the library promises: any number of    *)
(* readers, or one writer and nobody else.  A release may hand the lock to *)
(* several waiting readers in the same step.  RwSem and QRwLock are shown  *)
(* to implement it.  With readers = {} it is what an exclusive lock        *)
(* promises: at most one thread holds it, a thread gets it only while      *)
(* nobody does, and only the holder gives it back.  SpinLock and Mutex are *)
(* shown to implement that; RecursiveMutex is built on it.                 *)
(***************************************************************************)

CONSTANT Threads

VARIABLES
  readers,      (* the threads that hold the lock for reading              *)
  writers       (* the threads that hold it for writing, {} or a singleton *)

RwInit == readers = {} /\ writers = {}

AcquireRead(t) ==
  /\ writers = {}
  /\ readers' = readers \cup {t}
  /\ UNCHANGED writers

AcquireWrite(t) ==
  /\ readers = {} /\ writers = {}
  /\ writers' = {t}
  /\ UNCHANGED readers

ReleaseRead(t) ==
  /\ t \in readers
  /\ readers' = readers \ {t}
  /\ UNCHANGED writers

(* The writer leaves and the readers in G, if any, come in. *)
ReleaseWrite(t, G) ==
  /\ writers = {t}
  /\ writers' = {}
  /\ readers' = G

RwNext ==
  \E t \in Threads :
    \/ AcquireRead(t)
    \/ AcquireWrite(t)
    \/ ReleaseRead(t)
    \/ \E G \in SUBSET Threads : ReleaseWrite(t, G)

RwSpec == RwInit /\ [][RwNext]_<<readers, writers>>
=============================================================================
