-------------------------------- MODULE Ring --------------------------------
(***************************************************************************)
(* The ring buffer of src/adt/ring.c: producers and consumers claim a      *)
(* range by moving a head, copy, and publish by moving the tail in the     *)
(* order of the claims.  Head and tail are counters that wrap modulo 2^32  *)
(* (here Modulus); a slot is the counter modulo the size.  The memory is   *)
(* that of x86 (the code has compiler barriers only): stores are seen in   *)
(* order.                                                                  *)
(***************************************************************************)
EXTENDS Integers, FiniteSetsExt

CONSTANTS
  Producers, Consumers,
  Modulus,       \* 2^32
  Starts,        \* counter values to start from
  RingCount, ExactSize,  \* the arguments of ringb_init
  Batches,       \* sizes of a bulk or burst call
  MaxItems       \* bound: objects enqueued in a behaviour

VARIABLES
  prod, cons,    \* head, tail, single
  ring,          \* the slots
  ringpc,        \* what each thread is doing; pos is a reference: where its claim starts
  claimed,       \* reference: how many objects were claimed room for
  taken          \* reference: positions dequeued so far, and whether each was right

rgvars == <<prod, cons, ring, ringpc, claimed, taken>>

roundup_pow_of_two(n) == Min({p \in {2 ^ i : i \in 0 .. 10} : p >= n})
(* ringb_init: "capacity" keeps full and empty apart *)
Size == IF ExactSize THEN roundup_pow_of_two(RingCount + 1) ELSE RingCount
Capacity == IF ExactSize THEN RingCount ELSE Size - 1

Empty == "empty"
Resting == [pc |-> "rest", max |-> 0, n |-> 0, fixed |-> FALSE, old |-> 0, pos |-> 0]
Minus(a, b) == (a - b) % Modulus
Slot(i) == i % Size

(* Any quiet ring: start objects have gone through it before. *)
RingInit ==
  /\ \E start \in Starts, sp, sc \in BOOLEAN :
       /\ prod = [head |-> start, tail |-> start, single |-> sp]
       /\ cons = [head |-> start, tail |-> start, single |-> sc]
  /\ ring = [i \in 0 .. Size - 1 |-> Empty]
  /\ ringpc = [t \in Producers \cup Consumers |-> Resting]
  /\ claimed = 0 /\ taken = [n |-> 0, good |-> TRUE]

RingGoto(t, rec) == ringpc' = [ringpc EXCEPT ![t] = rec]

(* A call; with RINGB_F_SP_ENQ or RINGB_F_SC_DEQ the caller is alone on its side. *)
Call(t, n, fixed) ==
  LET side == IF t \in Producers THEN Producers ELSE Consumers
      single == IF t \in Producers THEN prod.single ELSE cons.single
  IN  /\ ringpc[t].pc = "rest"
      /\ n = 1 => fixed    \* for one object the two behaviours agree
      /\ single => \A o \in side : ringpc[o].pc = "rest"
      /\ t \in Producers => claimed < MaxItems
      /\ RingGoto(t, [Resting EXCEPT !.pc = "head", !.max = n, !.fixed = fixed])
      /\ UNCHANGED <<prod, cons, ring, claimed, taken>>

(* *old_head = READ_ONCE(head) *)
ReadHead(t) ==
  /\ ringpc[t].pc = "head"
  /\ RingGoto(t, [ringpc[t] EXCEPT !.pc = "room", !.old = IF t \in Producers THEN prod.head ELSE cons.head])
  /\ UNCHANGED <<prod, cons, ring, claimed, taken>>

(* How many objects a call may move: free_entries or entries, computed from *)
(* the head read before and the other side's tail read now.                 *)
Room(t) == IF t \in Producers THEN Minus(Capacity, Minus(ringpc[t].old, cons.tail))
           ELSE Minus(prod.tail, ringpc[t].old)

ReadTail(t) ==
  LET c == ringpc[t]
      room == Room(t)
      n == IF c.max <= room THEN c.max ELSE IF c.fixed THEN 0 ELSE room
  IN  /\ c.pc = "room"
      /\ RingGoto(t, IF n = 0 THEN Resting ELSE [c EXCEPT !.pc = "move", !.n = n])
      /\ UNCHANGED <<prod, cons, ring, claimed, taken>>

MoveProdHead(t) ==
  LET c == ringpc[t]
  IN  /\ c.pc = "move" /\ t \in Producers
      /\ IF prod.single \/ prod.head = c.old
           THEN /\ claimed + c.n <= MaxItems
                /\ prod' = [prod EXCEPT !.head = (c.old + c.n) % Modulus]
                /\ claimed' = claimed + c.n
                /\ RingGoto(t, [c EXCEPT !.pc = "copy", !.pos = claimed])
           ELSE /\ RingGoto(t, [c EXCEPT !.pc = "head"])
                /\ UNCHANGED <<prod, claimed>>
      /\ UNCHANGED <<cons, ring, taken>>

MoveConsHead(t) ==
  LET c == ringpc[t]
  IN  /\ c.pc = "move" /\ t \in Consumers
      /\ IF cons.single \/ cons.head = c.old
           THEN /\ cons' = [cons EXCEPT !.head = (c.old + c.n) % Modulus]
                /\ taken' = [taken EXCEPT !.n = @ + c.n]
                /\ RingGoto(t, [c EXCEPT !.pc = "copy", !.pos = taken.n])
           ELSE /\ RingGoto(t, [c EXCEPT !.pc = "head"])
                /\ UNCHANGED <<cons, taken>>
      /\ UNCHANGED <<prod, ring, claimed>>

(* The object of position p is p + 1.  The two loops of the copy: up to the *)
(* end of the ring, then from its start.                                    *)
EnqueuePtrs(t) ==
  LET c == ringpc[t]
      idx == Slot(c.old)
      first == IF idx + c.n < Size THEN c.n ELSE Size - idx
  IN  /\ c.pc = "copy" /\ t \in Producers
      /\ ring' = [i \in 0 .. Size - 1 |->
           IF i \in idx .. idx + first - 1 THEN c.pos + (i - idx) + 1
           ELSE IF i \in 0 .. c.n - first - 1 THEN c.pos + first + i + 1 ELSE ring[i]]
      /\ RingGoto(t, [c EXCEPT !.pc = "tail"])
      /\ UNCHANGED <<prod, cons, claimed, taken>>

DequeuePtrs(t) ==
  LET c == ringpc[t]
      idx == Slot(c.old)
      first == IF idx + c.n < Size THEN c.n ELSE Size - idx
      got == [i \in 1 .. c.n |-> IF i <= first THEN ring[idx + i - 1] ELSE ring[i - first - 1]]
  IN  /\ c.pc = "copy" /\ t \in Consumers
      /\ taken' = [taken EXCEPT !.good = @ /\ got = [i \in 1 .. c.n |-> c.pos + i]]
      /\ RingGoto(t, [c EXCEPT !.pc = "tail"])
      /\ UNCHANGED <<prod, cons, ring, claimed>>

(* The tail is published without waiting for the earlier claims. *)
UpdateTailAtOnce(t) ==
  LET c == ringpc[t]
      new == (c.old + c.n) % Modulus
  IN  /\ c.pc = "tail"
      /\ IF t \in Producers THEN prod' = [prod EXCEPT !.tail = new] /\ UNCHANGED cons
                           ELSE cons' = [cons EXCEPT !.tail = new] /\ UNCHANGED prod
      /\ RingGoto(t, Resting)
      /\ UNCHANGED <<ring, claimed, taken>>

(* __ringb_update_tail: wait for the earlier claims, unless alone *)
UpdateTail(t) ==
  LET c == ringpc[t]
      new == (c.old + c.n) % Modulus
  IN  /\ c.pc = "tail"
      /\ IF t \in Producers
           THEN /\ prod.single \/ prod.tail = c.old
                /\ prod' = [prod EXCEPT !.tail = new] /\ UNCHANGED cons
           ELSE /\ cons.single \/ cons.tail = c.old
                /\ cons' = [cons EXCEPT !.tail = new] /\ UNCHANGED prod
      /\ RingGoto(t, Resting)
      /\ UNCHANGED <<ring, claimed, taken>>

RingNext ==
  \E t \in Producers \cup Consumers :
    \/ \E n \in Batches, fixed \in BOOLEAN : Call(t, n, fixed)
    \/ ReadHead(t) \/ ReadTail(t) \/ MoveProdHead(t) \/ MoveConsHead(t)
    \/ EnqueuePtrs(t) \/ DequeuePtrs(t) \/ UpdateTail(t)

RingSpec == RingInit /\ [][RingNext]_rgvars

ringb_count == LET count == Minus(prod.tail, cons.tail) % Size
               IN  IF count > Capacity THEN Capacity ELSE count
-----------------------------------------------------------------------------
(***************************************************************************)
(* The ring is a queue of at most Capacity objects: the object a consumer  *)
(* copies out at a position is the one a producer put at that position, so *)
(* none is lost, repeated, overwritten or read before it is published, and *)
(* ringb_count is exact whenever no call is in progress.                   *)
(***************************************************************************)
RingIsQueue ==
  /\ taken.good
  /\ taken.n <= claimed /\ claimed - taken.n <= Capacity
  /\ (\A t \in Producers \cup Consumers : ringpc[t].pc = "rest") =>
       /\ prod.head = prod.tail /\ cons.head = cons.tail
       /\ ringb_count = claimed - taken.n
=============================================================================
