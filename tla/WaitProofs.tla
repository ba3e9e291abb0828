----------------------------- MODULE WaitProofs -----------------------------
(***************************************************************************)
(* Proofs about those who sleep until they are woken up: waiters for a bit *)
(* (src/process/wait.c), the mutex, threads that are told to start, and an *)
(* event loop that polls until its next timer.  What has to be shown is    *)
(* that nobody who sleeps is left without one who wakes them, in time.     *)
(***************************************************************************)
EXTENDS WaitBit, Mutex, Threads, EventLoop, ListLemmas


-----------------------------------------------------------------------------
(***************************************************************************)
(* WaitBit.  The invariant adds to SleeperHasWaker who owns a bit (also    *)
(* between taking it and leaving the queue), that a waiter without a       *)
(* wake-up is on the queue, and the waker of one that is about to sleep.   *)
(***************************************************************************)
BwPlaces == {"out", "join", "test", "doze", "asleep", "take", "finish", "locked", "peek", "wake"}

BwRecord == [pc : BwPlaces, bit : PageBits \cup {0}, excl : BOOLEAN, woken : BOOLEAN]

BwTypeOK == bit_queue \in Seq(BitWaiters) /\ bw \in [BitWaiters -> BwRecord]

(* A thread whose record is x owns its bit; will clear the bit b, wake the *)
(* queue up for it or take it; sleeps or is about to, without a wake-up.   *)
OwnsBit(x) == x.pc = "locked" \/ (x.pc = "finish" /\ x.excl)
Waker(x, b) ==
  /\ x.bit = b
  /\ \/ x.pc \in {"peek", "wake"}
     \/ /\ x.excl
        /\ \/ x.pc \in {"join", "test", "take"}
           \/ x.pc \in {"doze", "asleep"} /\ x.woken
Dozer(x) == x.pc \in {"doze", "asleep"} /\ ~ x.woken

BitOwned ==
  \A t \in BitWaiters : OwnsBit(bw[t]) =>
    /\ bw[t].bit \in set_bits
    /\ \A u \in BitWaiters : OwnsBit(bw[u]) /\ bw[u].bit = bw[t].bit => u = t

UnwokenQueued ==
  \A t \in BitWaiters :
    bw[t].pc \in {"test", "doze", "asleep"} /\ ~ bw[t].woken => Occurs(bit_queue, t)

DozerHasWaker ==
  \A t \in BitWaiters :
    Dozer(bw[t]) /\ bw[t].bit \notin set_bits =>
      \E u \in BitWaiters : Waker(bw[u], bw[t].bit)

BitInv == BwTypeOK /\ BitOwned /\ UnwokenQueued /\ DozerHasWaker

(* What a step of t alone, whose record becomes r, must keep for the       *)
(* others to be safe.                                                      *)
QueueKept(t, r) ==
  /\ bit_queue' \in Seq(BitWaiters)
  /\ \A u \in BitWaiters \ {t} : Occurs(bit_queue, u) => Occurs(bit_queue', u)
  /\ r.pc \in {"test", "doze", "asleep"} /\ ~ r.woken => Occurs(bit_queue', t)

OwnersKept(t, r) ==
  /\ \A u \in BitWaiters \ {t} : OwnsBit(bw[u]) => bw[u].bit \in set_bits'
  /\ OwnsBit(r) =>
       /\ r.bit \in set_bits'
       /\ \A u \in BitWaiters \ {t} : OwnsBit(bw[u]) => bw[u].bit # r.bit

DozersKept(t, r) ==
  /\ \A u \in BitWaiters \ {t} :
       Dozer(bw[u]) /\ bw[u].bit \notin set_bits' =>
         \/ \E v \in BitWaiters \ {t} : Waker(bw[v], bw[u].bit)
         \/ Waker(r, bw[u].bit)
  /\ Dozer(r) /\ r.bit \notin set_bits' =>
       \E v \in BitWaiters \ {t} : Waker(bw[v], r.bit)

LEMMA BitStepOf ==
  ASSUME BitInv, NEW t \in BitWaiters, NEW r \in BwRecord, bw' = [bw EXCEPT ![t] = r],
         QueueKept(t, r), OwnersKept(t, r), DozersKept(t, r)
  PROVE  BitInv'
<1>1. bw'[t] = r /\ \A u \in BitWaiters \ {t} : bw'[u] = bw[u]
  BY DEF BitInv, BwTypeOK
<1>2. BwTypeOK'
  BY DEF BitInv, BwTypeOK, QueueKept
<1>3. BitOwned'
  BY <1>1 DEF BitInv, BitOwned, OwnersKept
<1>4. UnwokenQueued'
  BY Zenon, <1>1 DEF BitInv, UnwokenQueued, QueueKept
<1>5. DozerHasWaker'
  BY Zenon, <1>1 DEF DozerHasWaker, DozersKept
<1> QED
  BY Zenon, <1>2, <1>3, <1>4, <1>5 DEF BitInv

LEMMA BitQueueSteps ==
  ASSUME BitInv, NEW t \in BitWaiters,
         BitTest(t) \/ BitSleep(t) \/ BitWoken(t) \/ BitTake(t) \/ UnlockPage(t)
  PROVE  BitInv'
<1>1. bw[t] \in BwRecord /\ bit_queue \in Seq(BitWaiters) /\ bit_queue' = bit_queue
  BY Zenon DEF BitInv, BwTypeOK, BitTest, BitSleep, BitWoken, BitTake, UnlockPage
<1>2. CASE BitTest(t)
  <2> DEFINE r == [bw[t] EXCEPT !.pc = IF bw[t].bit \in set_bits THEN "doze" ELSE "take"]
  <2>1. bw' = [bw EXCEPT ![t] = r]
    BY <1>2 DEF BitTest, BwTo, BitInv, BwTypeOK
  <2>2. /\ r \in BwRecord /\ r.bit = bw[t].bit /\ r.excl = bw[t].excl
        /\ r.pc = (IF bw[t].bit \in set_bits THEN "doze" ELSE "take") /\ r.woken = bw[t].woken
    BY Zenon, <1>1 DEF BwRecord, BwPlaces
  <2> HIDE DEF r
  <2>3. QueueKept(t, r)
    BY Zenon, <1>2, <1>1, <2>2 DEF BitTest, BitInv, UnwokenQueued, QueueKept
  <2>4. OwnersKept(t, r)
    BY Zenon, <1>2, <1>1, <2>2 DEF BitTest, BitInv, BitOwned, OwnersKept, OwnsBit
  <2>5. DozersKept(t, r)
    BY ZenonT(30), <1>2, <1>1, <2>2 DEF BitTest, BitInv, DozerHasWaker, DozersKept, Dozer, Waker
  <2> QED
    BY Zenon, <2>1, <2>2, <2>3, <2>4, <2>5, BitStepOf
<1>3. CASE BitSleep(t)
  <2> DEFINE r == [bw[t] EXCEPT !.pc = "asleep"]
  <2>1. bw' = [bw EXCEPT ![t] = r]
    BY <1>3 DEF BitSleep, BwTo, BitInv, BwTypeOK
  <2>2. /\ r \in BwRecord /\ r.bit = bw[t].bit /\ r.excl = bw[t].excl
        /\ r.pc = "asleep" /\ r.woken = bw[t].woken
    BY <1>1 DEF BwRecord, BwPlaces
  <2> HIDE DEF r
  <2>3. QueueKept(t, r)
    BY Zenon, <1>3, <1>1, <2>2 DEF BitSleep, BitInv, UnwokenQueued, QueueKept
  <2>4. OwnersKept(t, r)
    BY Zenon, <1>3, <1>1, <2>2 DEF BitSleep, BitInv, BitOwned, OwnersKept, OwnsBit
  <2>5. DozersKept(t, r)
    BY Zenon, <1>3, <1>1, <2>2 DEF BitSleep, BitInv, DozerHasWaker, DozersKept, Dozer, Waker
  <2> QED
    BY Zenon, <2>1, <2>2, <2>3, <2>4, <2>5, BitStepOf
<1>4. CASE BitWoken(t)
  <2> DEFINE r == [bw[t] EXCEPT !.pc = "take", !.woken = FALSE]
  <2>1. bw' = [bw EXCEPT ![t] = r]
    BY Zenon, <1>4 DEF BitWoken, BitInv, BwTypeOK
  <2>2. /\ r \in BwRecord /\ r.bit = bw[t].bit /\ r.excl = bw[t].excl
        /\ r.pc = "take" /\ r.woken = FALSE
    BY Zenon, <1>1 DEF BwRecord, BwPlaces
  <2> HIDE DEF r
  <2>3. QueueKept(t, r)
    BY Zenon, <1>4, <1>1, <2>2 DEF BitWoken, BitInv, UnwokenQueued, QueueKept
  <2>4. OwnersKept(t, r)
    BY Zenon, <1>4, <1>1, <2>2 DEF BitWoken, BitInv, BitOwned, OwnersKept, OwnsBit
  <2>5. DozersKept(t, r)
    BY ZenonT(30), <1>4, <1>1, <2>2 DEF BitWoken, BitInv, DozerHasWaker, DozersKept, Dozer, Waker
  <2> QED
    BY Zenon, <2>1, <2>2, <2>3, <2>4, <2>5, BitStepOf
<1>5. CASE BitTake(t)
  <2> DEFINE r == [bw[t] EXCEPT !.pc = IF bw[t].bit \in set_bits THEN "join" ELSE "finish"]
  <2>1. bw' = [bw EXCEPT ![t] = r]
    BY Zenon, <1>5 DEF BitTake, BwTo, BitInv, BwTypeOK
  <2>2. /\ r \in BwRecord /\ r.bit = bw[t].bit /\ r.excl = bw[t].excl
        /\ r.pc = (IF bw[t].bit \in set_bits THEN "join" ELSE "finish") /\ r.woken = bw[t].woken
    BY Zenon, <1>1 DEF BwRecord, BwPlaces
  <2> HIDE DEF r
  <2>3. QueueKept(t, r)
    BY Zenon, <1>5, <1>1, <2>2 DEF BitTake, BitInv, UnwokenQueued, QueueKept
  <2>4. OwnersKept(t, r)
    BY Zenon, <1>5, <1>1, <2>2 DEF BitTake, BitInv, BitOwned, OwnersKept, OwnsBit
  <2>5. DozersKept(t, r)
    BY ZenonT(30), <1>5, <1>1, <2>2 DEF BitTake, BitInv, DozerHasWaker, DozersKept, Dozer, Waker
  <2> QED
    BY Zenon, <2>1, <2>2, <2>3, <2>4, <2>5, BitStepOf
<1>6. CASE UnlockPage(t)
  <2> DEFINE r == [bw[t] EXCEPT !.pc = "peek"]
  <2>1. bw' = [bw EXCEPT ![t] = r]
    BY <1>6 DEF UnlockPage, BwTo, BitInv, BwTypeOK
  <2>2. /\ r \in BwRecord /\ r.bit = bw[t].bit /\ r.excl = bw[t].excl
        /\ r.pc = "peek" /\ r.woken = bw[t].woken
    BY <1>1 DEF BwRecord, BwPlaces
  <2> HIDE DEF r
  <2>3. QueueKept(t, r)
    BY Zenon, <1>6, <1>1, <2>2 DEF UnlockPage, BitInv, UnwokenQueued, QueueKept
  <2>4. OwnersKept(t, r)
    BY Zenon, <1>6, <1>1, <2>2 DEF UnlockPage, BitInv, BitOwned, OwnersKept, OwnsBit
  <2>5. DozersKept(t, r)
    BY Zenon, <1>6, <1>1, <2>2 DEF UnlockPage, BitInv, DozerHasWaker, DozersKept, Dozer, Waker
  <2> QED
    BY Zenon, <2>1, <2>2, <2>3, <2>4, <2>5, BitStepOf
<1> QED
  BY Zenon, <1>2, <1>3, <1>4, <1>5, <1>6

LEMMA BitEntrySteps ==
  ASSUME BitInv, NEW t \in BitWaiters, NEW b \in PageBits,
         lock_page(t, b) \/ wait_on_page_bit(t, b)
  PROVE  BitInv'
<1>1. bw[t] \in BwRecord /\ bit_queue \in Seq(BitWaiters) /\ bit_queue' = bit_queue
  BY DEF BitInv, BwTypeOK, lock_page, wait_on_page_bit
<1> DEFINE r == bw'[t]
<1>2. bw' = [bw EXCEPT ![t] = r]
  BY DEF lock_page, wait_on_page_bit, BitInv, BwTypeOK
<1>3. /\ r \in BwRecord /\ r.bit = b /\ r.woken = FALSE /\ bw[t].pc = "out"
      /\ \/ r.pc = "join" /\ b \in set_bits /\ set_bits' = set_bits
         \/ r.pc = "locked" /\ b \notin set_bits /\ set_bits' = set_bits \cup {b}
  <2>1. CASE lock_page(t, b)
    <3>1. r = [pc |-> IF b \in set_bits THEN "join" ELSE "locked",
               bit |-> b, excl |-> TRUE, woken |-> FALSE]
      BY Zenon, <2>1 DEF lock_page, BwOut, BitInv, BwTypeOK
    <3> HIDE DEF r
    <3> QED
      BY Zenon, <2>1, <3>1 DEF lock_page, BwRecord, BwPlaces
  <2>2. CASE wait_on_page_bit(t, b)
    <3>1. r = [pc |-> "join", bit |-> b, excl |-> FALSE, woken |-> FALSE]
      BY Zenon, <2>2 DEF wait_on_page_bit, BwOut, BitInv, BwTypeOK
    <3> HIDE DEF r
    <3> QED
      BY Zenon, <2>2, <3>1 DEF wait_on_page_bit, BwRecord, BwPlaces
  <2> QED
    BY Zenon, <2>1, <2>2
<1> HIDE DEF r
<1>4. QueueKept(t, r)
  BY Zenon, <1>1, <1>3 DEF QueueKept
<1>5. OwnersKept(t, r)
  BY Zenon, <1>3 DEF BitInv, BitOwned, OwnersKept, OwnsBit
<1>6. DozersKept(t, r)
  BY Zenon, <1>3 DEF BitInv, DozerHasWaker, DozersKept, Dozer, Waker
<1> QED
  BY Zenon, <1>2, <1>3, <1>4, <1>5, <1>6, BitStepOf

LEMMA BitJoinStep ==
  ASSUME BitInv, NEW t \in BitWaiters, BitJoin(t)
  PROVE  BitInv'
<1>1. bw[t] \in BwRecord /\ bit_queue \in Seq(BitWaiters) /\ bw[t].pc = "join"
  BY DEF BitInv, BwTypeOK, BitJoin
<1> DEFINE r == bw'[t]
<1>2. bw' = [bw EXCEPT ![t] = r]
  BY DEF BitJoin, BwTo, BitInv, BwTypeOK
<1>3. /\ r \in BwRecord /\ r.bit = bw[t].bit /\ r.excl = bw[t].excl /\ r.pc = "test"
      /\ set_bits' = set_bits
  <2>1. \/ r = [bw[t] EXCEPT !.pc = "test"]
        \/ r = [bw[t] EXCEPT !.pc = "test", !.woken = FALSE]
    BY Zenon DEF BitJoin, BwTo, BitInv, BwTypeOK
  <2> HIDE DEF r
  <2> QED
    BY Zenon, <1>1, <2>1 DEF BitJoin, BwRecord, BwPlaces
<1> HIDE DEF r
<1>4. /\ bit_queue' \in Seq(BitWaiters) /\ Occurs(bit_queue', t)
      /\ \A u \in BitWaiters \ {t} : Occurs(bit_queue, u) => Occurs(bit_queue', u)
  <2>1. CASE Occurs(bit_queue, t)
    BY Zenon, <1>1, <2>1 DEF BitJoin
  <2>2. CASE ~ Occurs(bit_queue, t) /\ bw[t].excl
    <3> DEFINE q == Append(bit_queue, t)
    <3>1. bit_queue' = q
      BY Zenon, <2>2 DEF BitJoin
    <3>2. /\ q \in Seq(BitWaiters) /\ Len(q) = Len(bit_queue) + 1 /\ q[Len(bit_queue) + 1] = t
          /\ \A i \in 1 .. Len(bit_queue) : q[i] = bit_queue[i]
          /\ Len(bit_queue) \in Nat
      BY <1>1
    <3> HIDE DEF q
    <3> QED
      BY <3>1, <3>2 DEF Occurs
  <2>3. CASE ~ Occurs(bit_queue, t) /\ ~ bw[t].excl
    <3> DEFINE q == <<t>> \o bit_queue
    <3>1. bit_queue' = q
      BY Zenon, <2>3 DEF BitJoin
    <3>2. /\ q \in Seq(BitWaiters) /\ Len(q) = Len(bit_queue) + 1 /\ q[1] = t
          /\ \A i \in 1 .. Len(bit_queue) : q[i + 1] = bit_queue[i]
          /\ Len(bit_queue) \in Nat
      BY <1>1
    <3> HIDE DEF q
    <3>3. \A i \in 1 .. Len(bit_queue) : i + 1 \in 1 .. Len(q)
      BY <3>2
    <3> QED
      BY <3>1, <3>2, <3>3 DEF Occurs
  <2> QED
    BY Zenon, <1>1, <2>1, <2>2, <2>3 DEF BwRecord
<1>5. QueueKept(t, r)
  BY <1>4 DEF QueueKept
<1>6. OwnersKept(t, r)
  BY Zenon, <1>3 DEF BitInv, BitOwned, OwnersKept, OwnsBit
<1>7. DozersKept(t, r)
  BY ZenonT(30), <1>1, <1>3 DEF BitInv, DozerHasWaker, DozersKept, Dozer, Waker
<1> QED
  BY Zenon, <1>2, <1>3, <1>5, <1>6, <1>7, BitStepOf

LEMMA BitFinishStep ==
  ASSUME BitInv, NEW t \in BitWaiters, BitFinish(t)
  PROVE  BitInv'
<1>1. bw[t] \in BwRecord /\ bit_queue \in Seq(BitWaiters) /\ bw[t].pc = "finish"
  BY DEF BitInv, BwTypeOK, BitFinish
<1> DEFINE r == IF bw[t].excl THEN [bw[t] EXCEPT !.pc = "locked"] ELSE BwOut
<1>2. bw' = [bw EXCEPT ![t] = r]
  BY DEF BitFinish, BitInv, BwTypeOK
<1>3. /\ r \in BwRecord /\ set_bits' = set_bits
      /\ \/ r.pc = "locked" /\ r.bit = bw[t].bit /\ bw[t].excl
         \/ r.pc = "out"
  <2>1. BwOut \in BwRecord /\ BwOut.pc = "out"
    BY DEF BwOut, BwRecord, BwPlaces
  <2>2. LET x == [bw[t] EXCEPT !.pc = "locked"]
        IN  x \in BwRecord /\ x.pc = "locked" /\ x.bit = bw[t].bit
    BY <1>1 DEF BwRecord, BwPlaces
  <2> QED
    BY Zenon, <2>1, <2>2 DEF BitFinish
<1> HIDE DEF r
<1>4. QueueKept(t, r)
  BY <1>1, <1>3, ListKeepFacts DEF QueueKept, BitFinish
<1>5. OwnersKept(t, r)
  BY Zenon, <1>1, <1>3 DEF BitInv, BitOwned, OwnersKept, OwnsBit
<1>6. DozersKept(t, r)
  BY Zenon, <1>1, <1>3 DEF BitInv, DozerHasWaker, DozersKept, Dozer, Waker
<1> QED
  BY Zenon, <1>2, <1>3, <1>4, <1>5, <1>6, BitStepOf

LEMMA UnlockPeekStep ==
  ASSUME BitInv, NEW t \in BitWaiters, UnlockPeek(t)
  PROVE  BitInv'
<1>1. /\ bw[t] \in BwRecord /\ bit_queue \in Seq(BitWaiters) /\ bw[t].pc = "peek"
      /\ bit_queue' = bit_queue /\ set_bits' = set_bits
  BY DEF BitInv, BwTypeOK, UnlockPeek
<1> DEFINE r == IF bit_queue = <<>> THEN BwOut ELSE [bw[t] EXCEPT !.pc = "wake"]
<1>2. bw' = [bw EXCEPT ![t] = r]
  BY DEF UnlockPeek, BitInv, BwTypeOK
<1>3. /\ r \in BwRecord
      /\ \/ r.pc = "wake" /\ r.bit = bw[t].bit
         \/ r.pc = "out" /\ bit_queue = <<>>
  <2>1. BwOut \in BwRecord /\ BwOut.pc = "out"
    BY DEF BwOut, BwRecord, BwPlaces
  <2>2. LET x == [bw[t] EXCEPT !.pc = "wake"]
        IN  x \in BwRecord /\ x.pc = "wake" /\ x.bit = bw[t].bit
    BY <1>1 DEF BwRecord, BwPlaces
  <2> QED
    BY Zenon, <2>1, <2>2
<1> HIDE DEF r
<1>4. QueueKept(t, r)
  BY Zenon, <1>1, <1>3 DEF QueueKept
<1>5. OwnersKept(t, r)
  BY Zenon, <1>1, <1>3 DEF BitInv, BitOwned, OwnersKept, OwnsBit
<1>6. bit_queue = <<>> => \A u \in BitWaiters : ~ Dozer(bw[u])
  BY DEF BitInv, UnwokenQueued, Dozer, Occurs
<1>7. DozersKept(t, r)
  BY ZenonT(30), <1>1, <1>3, <1>6 DEF BitInv, DozerHasWaker, DozersKept, Dozer, Waker
<1> QED
  BY Zenon, <1>2, <1>3, <1>4, <1>5, <1>7, BitStepOf

(* ___wake_up_common with one exclusive wake-up: who waits for the bit and *)
(* is not called comes after an exclusive sleeper that is.                 *)
LEMMA UnlockWakeStep ==
  ASSUME BitInv, NEW t \in BitWaiters, UnlockWake(t)
  PROVE  BitInv'
<1> DEFINE M == {w \in BitWaiters : matches(w, bw[t].bit)}
           hit == list_keep(bit_queue, M)
           ends == {i \in DOMAIN hit : bw[hit[i]].pc = "asleep" /\ bw[hit[i]].excl}
           last == IF ends = {} THEN Len(hit)
                   ELSE CHOOSE i \in ends : \A j \in ends : i <= j
           called == {hit[i] : i \in 1 .. last}
           K == {w \in BitWaiters : ~ (w \in called /\ bw[w].pc = "asleep")}
<1>1. /\ bw[t].pc = "wake" /\ set_bits' = set_bits
      /\ bit_queue' = list_keep(bit_queue, K)
      /\ bw' = [w \in BitWaiters |->
                  IF w = t THEN BwOut ELSE [bw[w] EXCEPT !.woken = @ \/ w \in called]]
  BY Zenon DEF UnlockWake
<1>2. bit_queue \in Seq(BitWaiters) /\ \A w \in BitWaiters : bw[w] \in BwRecord
  BY DEF BitInv, BwTypeOK
<1> HIDE DEF M, K
<1>3. /\ hit \in Seq(BitWaiters)
      /\ \A u \in BitWaiters : Occurs(hit, u) <=> Occurs(bit_queue, u) /\ u \in M
      /\ bit_queue' \in Seq(BitWaiters)
      /\ \A u \in BitWaiters : Occurs(bit_queue', u) <=> Occurs(bit_queue, u) /\ u \in K
  BY Zenon, <1>1, <1>2, ListKeepFacts
<1> HIDE DEF hit
<1>4. ends # {} => last \in ends
  <2>1. ends \subseteq Nat
    BY <1>3
  <2> HIDE DEF ends
  <2>2. ends # {} => \E i \in ends : \A j \in ends : i <= j
    BY Zenon, <2>1, NatMin
  <2> QED
    BY <2>2
<1>5. /\ ends = {} => last = Len(hit)
      /\ ends # {} => /\ last \in 1 .. Len(hit)
                      /\ bw[hit[last]].pc = "asleep" /\ bw[hit[last]].excl
  <2>1. DOMAIN hit = 1 .. Len(hit)
    BY <1>3
  <2>2. \A i \in ends : i \in DOMAIN hit /\ bw[hit[i]].pc = "asleep" /\ bw[hit[i]].excl
    OBVIOUS
  <2>3. ends = {} => last = Len(hit)
    BY Zenon
  <2> HIDE DEF ends, last
  <2> QED
    BY Zenon, <1>4, <2>1, <2>2, <2>3
<1> HIDE DEF ends, last
<1>6. \A u \in BitWaiters : Occurs(bit_queue, u) /\ u \in M =>
        \/ u \in called
        \/ \E v \in called : v \in BitWaiters /\ v \in M /\ bw[v].pc = "asleep" /\ bw[v].excl
  <2> SUFFICES ASSUME NEW u \in BitWaiters, Occurs(hit, u), u \notin called
               PROVE  \E v \in called : /\ v \in BitWaiters /\ v \in M
                                        /\ bw[v].pc = "asleep" /\ bw[v].excl
    BY Zenon, <1>3
  <2>1. ends # {}
    BY Zenon, <1>5 DEF Occurs
  <2>2. last \in 1 .. Len(hit) /\ last \in 1 .. last
    BY <1>3, <1>5, <2>1
  <2>3. hit[last] \in BitWaiters /\ Occurs(hit, hit[last])
    BY <1>3, <2>2 DEF Occurs
  <2>4. hit[last] \in called /\ hit[last] \in M
    BY Zenon, <1>3, <2>2, <2>3
  <2> QED
    BY Zenon, <1>5, <2>1, <2>3, <2>4
<1> HIDE DEF called
<1>7. /\ bw'[t] = BwOut
      /\ \A w \in BitWaiters \ {t} : bw'[w] = [bw[w] EXCEPT !.woken = @ \/ w \in called]
  BY <1>1
<1>8. BwOut \in BwRecord /\ BwOut.pc = "out"
  BY DEF BwOut, BwRecord, BwPlaces
<1>9. \A w \in BitWaiters \ {t} :
        /\ bw'[w] \in BwRecord
        /\ bw'[w].pc = bw[w].pc /\ bw'[w].bit = bw[w].bit /\ bw'[w].excl = bw[w].excl
        /\ bw'[w].woken <=> bw[w].woken \/ w \in called
  <2> SUFFICES ASSUME NEW w \in BitWaiters \ {t}
               PROVE  /\ bw'[w] \in BwRecord
                      /\ bw'[w].pc = bw[w].pc /\ bw'[w].bit = bw[w].bit
                      /\ bw'[w].excl = bw[w].excl
                      /\ bw'[w].woken <=> bw[w].woken \/ w \in called
    BY Zenon
  <2>1. bw[w] \in BwRecord
    BY <1>2
  <2> DEFINE a == bw[w].woken \/ w \in called
  <2>2. a \in BOOLEAN /\ bw'[w] = [bw[w] EXCEPT !.woken = a]
    BY <1>7
  <2> HIDE DEF a
  <2>3. /\ bw'[w] \in BwRecord /\ bw'[w].woken = a
        /\ bw'[w].pc = bw[w].pc /\ bw'[w].bit = bw[w].bit /\ bw'[w].excl = bw[w].excl
    BY Zenon, <2>1, <2>2 DEF BwRecord
  <2> QED
    BY Zenon, <2>3 DEF a
<1>10. BwTypeOK'
  <2>1. \A w \in BitWaiters : bw'[w] \in BwRecord
    BY Zenon, <1>7, <1>8, <1>9
  <2>2. bw' \in [BitWaiters -> BwRecord]
    BY Zenon, <1>1, <2>1
  <2> QED
    BY Zenon, <1>3, <2>2 DEF BwTypeOK
<1>11. BitOwned'
  <2>1. ~ OwnsBit(bw'[t])
    BY Zenon, <1>7, <1>8 DEF OwnsBit
  <2>2. \A w \in BitWaiters \ {t} : OwnsBit(bw'[w]) <=> OwnsBit(bw[w])
    BY Zenon, <1>9 DEF OwnsBit
  <2>3. ASSUME NEW u \in BitWaiters, OwnsBit(bw'[u])
        PROVE  /\ bw'[u].bit \in set_bits'
               /\ \A w \in BitWaiters : OwnsBit(bw'[w]) /\ bw'[w].bit = bw'[u].bit => w = u
    <3>1. u # t /\ OwnsBit(bw[u]) /\ bw'[u].bit = bw[u].bit
      BY Zenon, <1>9, <2>1, <2>2, <2>3
    <3>2. /\ bw[u].bit \in set_bits
          /\ \A w \in BitWaiters : OwnsBit(bw[w]) /\ bw[w].bit = bw[u].bit => w = u
      BY Zenon, <3>1 DEF BitInv, BitOwned
    <3> QED
      BY <1>1, <1>9, <2>1, <2>2, <3>1, <3>2
  <2> QED
    BY Zenon, <2>3 DEF BitOwned
<1>12. UnwokenQueued'
  <2> SUFFICES ASSUME NEW u \in BitWaiters \ {t},
                      bw'[u].pc \in {"test", "doze", "asleep"}, ~ bw'[u].woken
               PROVE  Occurs(bit_queue', u)
    BY Zenon, <1>7, <1>8 DEF UnwokenQueued
  <2>1. Occurs(bit_queue, u) /\ u \notin called
    BY Zenon, <1>9 DEF BitInv, UnwokenQueued
  <2> QED
    BY Zenon, <1>3, <2>1 DEF K
<1>13. DozerHasWaker'
  <2> SUFFICES ASSUME NEW u \in BitWaiters \ {t}, Dozer(bw'[u]), bw'[u].bit \notin set_bits'
               PROVE  \E v \in BitWaiters : Waker(bw'[v], bw'[u].bit)
    BY Zenon, <1>7, <1>8 DEF DozerHasWaker, Dozer
  <2>1. Dozer(bw[u]) /\ bw[u].bit \notin set_bits /\ u \notin called /\ bw'[u].bit = bw[u].bit
    BY <1>1, <1>9 DEF Dozer
  <2>2. PICK v \in BitWaiters : Waker(bw[v], bw[u].bit)
    BY Zenon, <2>1 DEF BitInv, DozerHasWaker
  <2>3. CASE v # t
    BY Zenon, <1>9, <2>1, <2>2, <2>3 DEF Waker
  <2>4. CASE v = t
    <3>1. bw[u].bit = bw[t].bit
      BY Zenon, <2>2, <2>4 DEF Waker
    <3>2. Occurs(bit_queue, u) /\ u \in M
      BY Zenon, <2>1, <3>1 DEF M, matches, BitInv, UnwokenQueued, Dozer
    <3>3. PICK w \in called : w \in BitWaiters /\ w \in M /\ bw[w].pc = "asleep" /\ bw[w].excl
      BY Zenon, <1>6, <2>1, <3>2
    <3>4. w # t /\ bw[w].bit = bw[u].bit
      BY Zenon, <1>1, <3>1, <3>3 DEF M, matches
    <3>5. Waker(bw'[w], bw'[u].bit)
      BY Zenon, <1>9, <2>1, <3>3, <3>4 DEF Waker
    <3> QED
      BY Zenon, <3>3, <3>5
  <2> QED
    BY Zenon, <2>3, <2>4
<1> QED
  BY Zenon, <1>10, <1>11, <1>12, <1>13 DEF BitInv

(* lock_page, unlock_page and wait_on_page_bit: a page has one locker, and *)
(* a thread asleep on a bit that is clear has a waker coming, for any set  *)
(* of threads and bits that share the queue.                               *)
THEOREM WaitBitSleeperHasWaker == WaitBitSpec => []SleeperHasWaker
<1>1. WaitBitInit => BitInv
  <2>1. BwOut \in BwRecord /\ BwOut.pc = "out"
    BY DEF BwOut, BwRecord, BwPlaces
  <2>2. ASSUME WaitBitInit
        PROVE  BwTypeOK /\ \A w \in BitWaiters : bw[w] = BwOut
    BY <2>1, <2>2 DEF WaitBitInit, BwTypeOK
  <2> QED
    BY Zenon, <2>1, <2>2 DEF BitInv, BitOwned, UnwokenQueued, DozerHasWaker, OwnsBit, Dozer
<1>2. BitInv /\ [WaitBitNext]_bwvars => BitInv'
  <2> SUFFICES ASSUME BitInv, [WaitBitNext]_bwvars PROVE BitInv'
    OBVIOUS
  <2>1. CASE UNCHANGED bwvars
    BY Zenon, <2>1 DEF bwvars, BitInv, BwTypeOK, BitOwned, UnwokenQueued, DozerHasWaker
  <2>2. CASE WaitBitNext
    BY Zenon, <2>2, BitQueueSteps, BitEntrySteps, BitJoinStep, BitFinishStep, UnlockPeekStep,
       UnlockWakeStep
       DEF WaitBitNext, BitStep
  <2> QED
    BY <2>1, <2>2
<1>3. BitInv => SleeperHasWaker
  BY Zenon DEF BitInv, BitOwned, DozerHasWaker, OwnsBit, Dozer, Waker, SleeperHasWaker
<1> QED
  BY <1>1, <1>2, <1>3, PTL DEF WaitBitSpec

-----------------------------------------------------------------------------
(***************************************************************************)
(* Mutex, for any set of threads.                                          *)
(*                                                                         *)
(* Ownership needs only count: OwnerInv says that count is 1 exactly when  *)
(* nobody owns the mutex, and that is inductive together with the types.   *)
(* The wake-ups need the rest: who may hold wait_lock (LockInv), that the  *)
(* list holds exactly the threads of the slow path, once each (ListInv),   *)
(* what an unlocking thread has signalled (SignalInv), and NoLostWakeup    *)
(* itself.                                                                 *)
(***************************************************************************)
OwnerInv == MutualExclusion /\ CountTellsOwner

(* wait_lock is held exactly at the places of the code that hold it. *)
LockInv ==
  \A t \in Threads :
    wait_lock = t <=> pc[t] \in {"xchg", "won", "signal", "wake"}

ListInv ==
  /\ Distinct(wait_list)
  /\ \A t \in Threads : Queued(t) <=> pc[t] \in Waiting

(* The signalled waiter is the first of the list and has its word set; the *)
(* winner of the slow path has left a negative count.                      *)
SignalInv ==
  /\ \A t \in Threads : pc[t] = "wake" => /\ wait_list # <<>>
                                          /\ target[t] = wait_list[1]
                                          /\ flags[target[t]] = 1
  /\ \A t \in Threads : pc[t] = "won" => count < 0

MutexInv ==
  TypeOK /\ OwnerInv /\ LockInv /\ ListInv /\ SignalInv /\ NoLostWakeup

-----------------------------------------------------------------------------
LEMMA InitInv == Init => MutexInv
BY NoThreadAssumption
   DEF Init, MutexInv, TypeOK, OwnerInv, MutualExclusion, CountTellsOwner,
       Holders, LockInv, ListInv, Distinct, Queued, Occurs, Waiting, SignalInv,
       NoLostWakeup, Unsignalled, Places

(* count and the places of the threads agree on who owns the mutex. *)
LEMMA OwnerStep ==
  ASSUME MutexInv, NEW t \in Threads, Step(t)
  PROVE  OwnerInv'
<1> USE DEF MutexInv, TypeOK, OwnerInv, MutualExclusion, CountTellsOwner, Holders,
            SignalInv, LockInv, Goto
<1>1. CASE mutex_lock(t)
  BY <1>1 DEF mutex_lock
<1>2. CASE mutex_trylock(t)
  BY <1>2 DEF mutex_trylock
<1>3. CASE lock_slowpath_enqueue(t)
  BY ZenonT(30), <1>3 DEF lock_slowpath_enqueue
<1>4. CASE lock_slowpath_xchg(t)
  BY <1>4 DEF lock_slowpath_xchg
<1>5. CASE futex_wait(t)
  BY <1>5 DEF futex_wait
<1>6. CASE futex_wait_eintr(t)
  BY <1>6 DEF futex_wait_eintr
<1>7. CASE lock_slowpath_relock(t)
  BY ZenonT(30), <1>7 DEF lock_slowpath_relock
<1>8. CASE lock_slowpath_done(t)
  BY <1>8 DEF lock_slowpath_done
<1>9. CASE mutex_unlock(t)
  BY <1>9 DEF mutex_unlock
<1>10. CASE unlock_slowpath_set(t)
  BY <1>10 DEF unlock_slowpath_set
<1>11. CASE unlock_slowpath_signal(t)
  BY <1>11 DEF unlock_slowpath_signal
<1>12. CASE unlock_slowpath_wake(t)
  BY ZenonT(30), <1>12 DEF unlock_slowpath_wake
<1> QED
  BY Zenon, <1>1, <1>2, <1>3, <1>4, <1>5, <1>6, <1>7, <1>8, <1>9, <1>10, <1>11,
     <1>12 DEF Step, Continue

(* The list and wait_lock after a step. *)
LEMMA ListStep ==
  ASSUME MutexInv, NEW t \in Threads, Step(t)
  PROVE  TypeOK' /\ LockInv' /\ ListInv'
<1> USE NoThreadAssumption
    DEF MutexInv, TypeOK, LockInv, Goto, Places
<1>0. ASSUME UNCHANGED wait_list, pc' \in [Threads -> Places],
             \A u \in Threads : pc'[u] \in Waiting <=> pc[u] \in Waiting
      PROVE  ListInv'
  BY Zenon, <1>0 DEF ListInv, Queued, Distinct
<1> USE DEF Waiting
<1>1. CASE mutex_lock(t)
  BY <1>0, <1>1 DEF mutex_lock
<1>2. CASE mutex_trylock(t)
  BY <1>0, <1>2 DEF mutex_trylock
<1>3. CASE lock_slowpath_enqueue(t)
  <2>1. Distinct(wait_list) /\ ~ Occurs(wait_list, t)
    BY Zenon, <1>3 DEF lock_slowpath_enqueue, ListInv, Queued
  <2>2. wait_list' = list_add_tail(wait_list, t)
    BY Zenon, <1>3 DEF lock_slowpath_enqueue
  <2>3. /\ wait_list' \in Seq(Threads)
        /\ Distinct(wait_list')
        /\ \A u \in Threads : Occurs(wait_list', u) <=> Occurs(wait_list, u) \/ u = t
    BY Zenon, <2>1, <2>2, ListAddTailFacts
  <2>4. TypeOK' /\ LockInv'
    BY Zenon, <1>3, <2>3 DEF lock_slowpath_enqueue
  <2>5. \A u \in Threads : pc'[u] \in Waiting <=> pc[u] \in Waiting \/ u = t
    BY Zenon, <1>3 DEF lock_slowpath_enqueue
  <2> QED
    BY Zenon, <2>3, <2>4, <2>5 DEF ListInv, Queued, Distinct
<1>4. CASE lock_slowpath_xchg(t)
  BY <1>0, <1>4 DEF lock_slowpath_xchg
<1>5. CASE futex_wait(t)
  BY Zenon, <1>0, <1>5 DEF futex_wait
<1>6. CASE futex_wait_eintr(t)
  BY Zenon, <1>0, <1>6 DEF futex_wait_eintr
<1>7. CASE lock_slowpath_relock(t)
  BY Zenon, <1>0, <1>7 DEF lock_slowpath_relock
<1>8. CASE lock_slowpath_done(t)
  <2>1. Distinct(wait_list) /\ Occurs(wait_list, t)
    BY Zenon, <1>8 DEF lock_slowpath_done, ListInv, Queued
  <2>2. wait_list' = list_del(wait_list, t)
    BY Zenon, <1>8 DEF lock_slowpath_done
  <2>3. /\ wait_list' \in Seq(Threads)
        /\ Distinct(wait_list')
        /\ \A u \in Threads : Occurs(wait_list', u) <=> Occurs(wait_list, u) /\ u # t
    BY Zenon, <2>1, <2>2, ListDelFacts
  <2>4. TypeOK' /\ LockInv'
    BY <1>8, <2>3 DEF lock_slowpath_done
  <2>5. \A u \in Threads : pc'[u] \in Waiting <=> pc[u] \in Waiting /\ u # t
    BY Zenon, <1>8 DEF lock_slowpath_done
  <2> QED
    BY ZenonT(30), <2>3, <2>4, <2>5 DEF ListInv, Queued, Distinct
<1>9. CASE mutex_unlock(t)
  <2>1. count # 1
    BY Zenon, <1>9 DEF mutex_unlock, OwnerInv, CountTellsOwner, Holders
  <2> QED
    BY <1>0, <1>9, <2>1 DEF mutex_unlock
<1>10. CASE unlock_slowpath_set(t)
  BY <1>0, <1>10 DEF unlock_slowpath_set
<1>11. CASE unlock_slowpath_signal(t)
  BY <1>0, <1>11 DEF unlock_slowpath_signal
<1>12. CASE unlock_slowpath_wake(t)
  BY Zenon, <1>0, <1>12 DEF unlock_slowpath_wake
<1> QED
  BY ZenonT(30), <1>1, <1>2, <1>3, <1>4, <1>5, <1>6, <1>7, <1>8, <1>9, <1>10, <1>11,
     <1>12 DEF Step, Continue

(* What an unlocking thread has signalled stays so until it lets go of     *)
(* wait_lock: every change of the list or of a queued word needs the lock. *)
LEMMA SignalStep ==
  ASSUME MutexInv, NEW t \in Threads, Step(t)
  PROVE  SignalInv'
<1> USE NoThreadAssumption
    DEF MutexInv, TypeOK, LockInv, SignalInv, OwnerInv, CountTellsOwner,
        MutualExclusion, Holders, Goto, Places
<1>1. CASE mutex_lock(t)
  BY <1>1 DEF mutex_lock
<1>2. CASE mutex_trylock(t)
  BY Zenon, <1>2 DEF mutex_trylock
<1>3. CASE lock_slowpath_enqueue(t)
  BY Zenon, <1>3 DEF lock_slowpath_enqueue
<1>4. CASE lock_slowpath_xchg(t)
  BY <1>4 DEF lock_slowpath_xchg
<1>5. CASE futex_wait(t)
  BY Zenon, <1>5 DEF futex_wait
<1>6. CASE futex_wait_eintr(t)
  BY Zenon, <1>6 DEF futex_wait_eintr
<1>7. CASE lock_slowpath_relock(t)
  BY ZenonT(30), <1>7 DEF lock_slowpath_relock
<1>8. CASE lock_slowpath_done(t)
  BY <1>8 DEF lock_slowpath_done
<1>9. CASE mutex_unlock(t)
  BY <1>9 DEF mutex_unlock
<1>10. CASE unlock_slowpath_set(t)
  BY ZenonT(30), <1>10 DEF unlock_slowpath_set
<1>11. CASE unlock_slowpath_signal(t)
  BY <1>11 DEF unlock_slowpath_signal
<1>12. CASE unlock_slowpath_wake(t)
  BY Zenon, <1>12 DEF unlock_slowpath_wake
<1> QED
  BY Zenon, <1>1, <1>2, <1>3, <1>4, <1>5, <1>6, <1>7, <1>8, <1>9, <1>10, <1>11,
     <1>12 DEF Step, Continue

(* The wake-up argument, action by action. *)
LEMMA WakeupStep ==
  ASSUME MutexInv, NEW t \in Threads, Step(t)
  PROVE  NoLostWakeup'
<1> USE NoThreadAssumption
    DEF MutexInv, TypeOK, LockInv, ListInv, SignalInv, OwnerInv, CountTellsOwner,
        MutualExclusion, Holders, Goto, Places, Waiting, NoLostWakeup,
        Unsignalled, Queued
<1>1. CASE mutex_lock(t)
  BY <1>1 DEF mutex_lock
<1>2. CASE mutex_trylock(t)
  BY <1>2 DEF mutex_trylock
<1>3. CASE lock_slowpath_enqueue(t)
  <2>1. Queued(t)' /\ pc'[t] = "xchg"
    BY <1>3, ListStep DEF lock_slowpath_enqueue
  <2>2. ~ Unsignalled(t)'
    BY Zenon, <2>1
  <2>3. \A u \in Threads : pc'[u] = "sleep" => pc[u] = "sleep" /\ flags'[u] = flags[u]
    BY <1>3 DEF lock_slowpath_enqueue
  <2>4. \A u \in Threads : pc[u] = "wake" => pc'[u] = "wake" /\ target'[u] = target[u]
    BY <1>3 DEF lock_slowpath_enqueue
  <2> QED
    BY <2>1, <2>2, <2>3, <2>4
<1>4. CASE lock_slowpath_xchg(t)
  BY <1>4 DEF lock_slowpath_xchg
<1>5. CASE futex_wait(t)
  BY <1>5 DEF futex_wait
<1>6. CASE futex_wait_eintr(t)
  BY <1>6 DEF futex_wait_eintr
<1>7. CASE lock_slowpath_relock(t)
  BY <1>7 DEF lock_slowpath_relock
<1>8. CASE lock_slowpath_done(t)
  BY <1>8 DEF lock_slowpath_done
<1>9. CASE mutex_unlock(t)
  BY <1>9 DEF mutex_unlock
<1>10. CASE unlock_slowpath_set(t)
  BY <1>10 DEF unlock_slowpath_set
<1>11. CASE unlock_slowpath_signal(t)
  <2>1. CASE wait_list = <<>>
    BY <1>11, <2>1 DEF unlock_slowpath_signal
  <2>2. CASE wait_list # <<>>
    <3>0. PICK h \in Threads : h = Head(wait_list)
      BY <2>2
    <3>1. Queued(h)'
      <4>1. wait_list' = wait_list /\ 1 \in 1 .. Len(wait_list) /\ wait_list[1] = h
        BY <1>11, <2>2, <3>0 DEF unlock_slowpath_signal
      <4> QED
        BY Zenon, <4>1 DEF Occurs
    <3>2. flags' = [flags EXCEPT ![h] = 1] /\ target'[t] = h /\ pc'[t] = "wake"
      BY <1>11, <2>2, <3>0 DEF unlock_slowpath_signal
    <3>3. ~ Unsignalled(h)'
      BY <3>1, <3>2
    <3>4. \A u \in Threads \ {h} :
            pc'[u] = "sleep" => pc[u] = "sleep" /\ flags'[u] = flags[u]
      BY <1>11, <3>2 DEF unlock_slowpath_signal
    <3>5. \A u \in Threads : pc[u] # "wake"
      BY <1>11 DEF unlock_slowpath_signal
    <3> QED
      BY <3>1, <3>2, <3>3, <3>4, <3>5
  <2> QED
    BY Zenon, <2>1, <2>2
<1>12. CASE unlock_slowpath_wake(t)
  BY <1>12 DEF unlock_slowpath_wake
<1> QED
  BY Zenon, <1>1, <1>2, <1>3, <1>4, <1>5, <1>6, <1>7, <1>8, <1>9, <1>10, <1>11,
     <1>12 DEF Step, Continue

LEMMA MutexInvStep == MutexInv /\ [Next]_vars => MutexInv'
<1>1. ASSUME MutexInv, UNCHANGED vars
      PROVE  MutexInv'
  BY <1>1
     DEF MutexInv, TypeOK, OwnerInv, MutualExclusion, CountTellsOwner, Holders,
         LockInv, ListInv, Distinct, Queued, Occurs, Waiting, SignalInv,
         NoLostWakeup, Unsignalled, vars
<1>2. ASSUME MutexInv, NEW t \in Threads, Step(t)
      PROVE  MutexInv'
  BY Zenon, <1>2, OwnerStep, ListStep, SignalStep, WakeupStep DEF MutexInv
<1> QED
  BY Zenon, <1>1, <1>2 DEF Next

LEMMA MutexInvHolds == Spec => []MutexInv
BY InitInv, MutexInvStep, PTL DEF Spec

(* Every variable of the mutex and of its callers keeps its type. *)
THEOREM MutexTypeOK == Spec => []TypeOK
<1>1. MutexInv => TypeOK
  BY DEF MutexInv
<1> QED
  BY <1>1, MutexInvHolds, PTL

(* At most one thread owns the mutex, for any number of threads. *)
THEOREM MutexMutualExclusion == Spec => []MutualExclusion
<1>1. MutexInv => MutualExclusion
  BY DEF MutexInv, OwnerInv
<1> QED
  BY <1>1, MutexInvHolds, PTL

(* count is 1 exactly when nobody owns the mutex. *)
THEOREM MutexCountTellsOwner == Spec => []CountTellsOwner
<1>1. MutexInv => CountTellsOwner
  BY DEF MutexInv, OwnerInv
<1> QED
  BY <1>1, MutexInvHolds, PTL

(* futex_wake is only called on the waiter of a thread that is still in    *)
(* the slow path of mutex_lock.                                            *)
THEOREM MutexWakeTargetQueued == Spec => []WakeTargetQueued
<1>1. MutexInv => WakeTargetQueued
  <2> SUFFICES ASSUME MutexInv
               PROVE  WakeTargetQueued
    OBVIOUS
  <2>1. ASSUME NEW t \in Threads, pc[t] = "wake"
        PROVE  Queued(target[t])
    <3>1. wait_list # <<>> /\ wait_list \in Seq(Threads) /\ target[t] = wait_list[1]
      BY Zenon, <2>1 DEF MutexInv, SignalInv, TypeOK
    <3>2. 1 \in 1 .. Len(wait_list)
      BY <3>1
    <3> QED
      BY Zenon, <3>1, <3>2 DEF Queued, Occurs
  <2> QED
    BY Zenon, <2>1 DEF MutexInv, ListInv, WakeTargetQueued
<1> QED
  BY <1>1, MutexInvHolds, PTL

(* The waiters never all sleep unsignalled while nobody is going to signal *)
(* one of them.                                                            *)
THEOREM MutexNoLostWakeup == Spec => []NoLostWakeup
<1>1. MutexInv => NoLostWakeup
  BY DEF MutexInv
<1> QED
  BY <1>1, MutexInvHolds, PTL

(* A step lets one thread into a free mutex, lets the owner out, or leaves *)
(* the owner alone.                                                        *)
LEMMA OwnerChange ==
  ASSUME MutexInv, NEW t \in Threads, Step(t)
  PROVE  Lock!AcquireWrite(t) \/ Lock!ReleaseWrite(t, {}) \/ Holders' = Holders
<1> USE DEF MutexInv, TypeOK, OwnerInv, MutualExclusion, CountTellsOwner, Goto
<1>0. ASSUME t \notin Holders, Holders = {},
             pc'[t] \in {"won", "cs"}, \A u \in Threads \ {t} : pc'[u] = pc[u]
      PROVE  Lock!AcquireWrite(t)
  BY ZenonT(30), <1>0 DEF Lock!AcquireWrite, Holders
<1>00. ASSUME t \in Holders, pc'[t] \notin {"won", "cs", "slow_unlock"},
              \A u \in Threads \ {t} : pc'[u] = pc[u]
       PROVE  Lock!ReleaseWrite(t, {})
  BY <1>00 DEF Lock!ReleaseWrite, Holders
<1>1. CASE mutex_lock(t)
  BY <1>0, <1>1 DEF mutex_lock, Holders
<1>2. CASE mutex_trylock(t)
  BY Zenon, <1>0, <1>2 DEF mutex_trylock, Holders
<1>3. CASE lock_slowpath_enqueue(t)
  BY Zenon, <1>3 DEF lock_slowpath_enqueue, Holders
<1>4. CASE lock_slowpath_xchg(t)
  BY Zenon, <1>0, <1>4 DEF lock_slowpath_xchg, Holders
<1>5. CASE futex_wait(t)
  BY Zenon, <1>5 DEF futex_wait, Holders
<1>6. CASE futex_wait_eintr(t)
  BY Zenon, <1>6 DEF futex_wait_eintr, Holders
<1>7. CASE lock_slowpath_relock(t)
  BY Zenon, <1>7 DEF lock_slowpath_relock, Holders
<1>8. CASE lock_slowpath_done(t)
  BY ZenonT(30), <1>8 DEF lock_slowpath_done, Holders
<1>9. CASE mutex_unlock(t)
  BY Zenon, <1>00, <1>9 DEF mutex_unlock, Holders
<1>10. CASE unlock_slowpath_set(t)
  BY Zenon, <1>00, <1>10 DEF unlock_slowpath_set, Holders
<1>11. CASE unlock_slowpath_signal(t)
  BY Zenon, <1>11 DEF unlock_slowpath_signal, Holders
<1>12. CASE unlock_slowpath_wake(t)
  BY Zenon, <1>12 DEF unlock_slowpath_wake, Holders
<1> QED
  BY ZenonT(30), <1>1, <1>2, <1>3, <1>4, <1>5, <1>6, <1>7, <1>8, <1>9, <1>10, <1>11,
     <1>12 DEF Step, Continue

(* The mutex implements AbstractRwLock without readers: an exclusive lock. *)
THEOREM MutexImplementsLock == Spec => ImplementsLock
<1>1. Init => Lock!RwInit
  BY DEF Init, Lock!RwInit, Holders
<1>2. MutexInv /\ [Next]_vars => [Lock!RwNext]_<<{}, Holders>>
  <2>1. ASSUME UNCHANGED vars
        PROVE  Holders' = Holders
    BY <2>1 DEF vars, Holders
  <2> QED
    BY Zenon, <2>1, OwnerChange DEF Next, Lock!RwNext
<1> QED
  BY <1>1, <1>2, MutexInvHolds, PTL DEF Spec, ImplementsLock, Lock!RwSpec

-----------------------------------------------------------------------------
(***************************************************************************)
(* Threads.  A waker between its test-and-set of WAKING and its clear is   *)
(* the only one there, and thread__free waits for the bit: that is why the *)
(* descriptor is not freed under it.                                       *)
(***************************************************************************)
Waking == {"test", "busy", "wait", "woken"}

ThreadInv ==
  /\ wpc \in [Wakers -> {"idle", "done", "success"} \cup Waking]
  /\ \A w \in Wakers : wpc[w] \in Waking => "WAKING" \in tflags
  /\ \A v, w \in Wakers : wpc[v] \in Waking /\ wpc[w] \in Waking => v = w
  /\ "RUNNING" \in tflags => ran
  /\ \A w \in Wakers : wpc[w] \in {"woken", "success"} => ran \/ "STOPPING" \in tflags
  /\ freed => tpc = "exited" /\ \A w \in Wakers : wpc[w] \notin Waking

LEMMA ThreadStepInv ==
  ASSUME ThreadInv, [ThreadNext]_thvars
  PROVE  ThreadInv'
<1> USE DEF ThreadInv, Waking
<1>1. CASE UNCHANGED thvars \/ ThreadEnds
  BY <1>1 DEF thvars, ThreadEnds
<1>2. CASE Started \/ RunFnStep \/ SetStopped \/ CompleteStopped \/ Cancelled
  BY <1>2 DEF Started, RunFnStep, RunFn, SetStopped, CompleteStopped, Cancelled
<1>3. CASE FreeSelf
  BY Zenon, <1>3 DEF FreeSelf, thread__free
<1>4. CASE DetachSelf \/ StopThread
  BY <1>4 DEF DetachSelf, StopThread
<1>5. CASE StopWakes \/ KillClaims \/ StopWaits
  BY <1>5 DEF StopWakes, KillClaims, StopWaits
<1>6. CASE StopJoins
  BY Zenon, <1>6 DEF StopJoins, thread__free
<1>7. ASSUME NEW w \in Wakers, WakeBegin(w)
      PROVE  ThreadInv'
  BY ZenonT(30), <1>7 DEF WakeBegin
<1>8. ASSUME NEW w \in Wakers, WakeTest(w) \/ WakeWait(w)
      PROVE  ThreadInv'
  BY <1>8 DEF WakeTest, WakeWait
<1>9. ASSUME NEW w \in Wakers, WakeEnd(w)
      PROVE  ThreadInv'
  BY ZenonT(30), <1>9 DEF WakeEnd
<1> QED
  BY Zenon, <1>1, <1>2, <1>3, <1>4, <1>5, <1>6, <1>7, <1>8, <1>9
     DEF ThreadNext, ThreadSteps, WakerSteps, StopperSteps

(* uthread_wakeup, uthread_stop and uthread_kill: success means that the   *)
(* function ran or the thread is stopped, and nobody is left with the      *)
(* descriptor when it is freed, for any set of wakers.                     *)
THEOREM ThreadWakeupMeansRun == ThreadSpec => []WakeupMeansRun
<1>1. ThreadInit => ThreadInv
  BY DEF ThreadInit, ThreadInv, Waking
<1>2. ThreadInv /\ [ThreadNext]_thvars => ThreadInv'
  BY ThreadStepInv
<1>3. ThreadInv => WakeupMeansRun
  BY DEF ThreadInv, Waking, WakeupMeansRun
<1> QED
  BY <1>1, <1>2, <1>3, PTL DEF ThreadSpec

-----------------------------------------------------------------------------
(***************************************************************************)
(* EventLoop.  The bound on lateness is the bound on a sleep: the poller   *)
(* never sleeps longer than PollInterval, and it goes to sleep only when   *)
(* no timer is due by the clock it read, which has not moved since.  How   *)
(* notifications travel does not enter.                                    *)
(***************************************************************************)
LoopInv ==
  /\ clock \in Nat /\ wake \in Nat /\ now \in Nat
  /\ due \in [LoopTimers -> Nat \cup {-1}]
  /\ clock <= wake /\ wake <= clock + PollInterval
  /\ loop_pc # "sleep" => now = clock
  /\ \A t \in Queue : wake <= due[t] + PollInterval

(* The first expiry of the heap, whatever the heap holds. *)
LEMMA EarliestFacts ==
  ASSUME due \in [LoopTimers -> Nat \cup {-1}], Queue # {}
  PROVE  /\ Earliest(due, Queue) \in Nat
         /\ \E t \in Queue : Earliest(due, Queue) = due[t]
         /\ \A t \in Queue : Earliest(due, Queue) <= due[t]
<1> DEFINE D == {due[t] : t \in Queue}
<1>1. D \subseteq Nat /\ D # {}
  BY DEF Queue
<1>2. \E x \in D : \A y \in D : x <= y
  <2> HIDE DEF D
  <2> QED
    BY Zenon, <1>1, NatMin
<1>3. \E x \in D : \A t \in Queue : x <= due[t]
  BY <1>2
<1>4. Earliest(due, Queue) \in D /\ \A t \in Queue : Earliest(due, Queue) <= due[t]
  BY Zenon, <1>3 DEF Earliest
<1> QED
  BY Zenon, <1>1, <1>4

LEMMA LoopStepInv ==
  ASSUME PollInterval \in Nat, Expires \subseteq Nat, LoopInv, [LoopNext]_lpvars
  PROVE  LoopInv'
<1>1. CASE UNCHANGED lpvars \/ LoopEnds
  BY Zenon, <1>1 DEF lpvars, LoopEnds, LoopInv, Queue
<1>2. CASE Tick
  BY <1>2 DEF Tick, Awake, LoopInv, Queue
<1>3. CASE WakeUp \/ NotifierStart \/ NotifierDrain
  BY Zenon, <1>3 DEF WakeUp, NotifierStart, NotifierDrain, LoopInv, Queue
<1>4. CASE TimerExpires
  BY Zenon, <1>4 DEF TimerExpires, LoopInv, Queue
<1>5. ASSUME NEW t \in LoopTimers, NEW e \in Expires, due' = [due EXCEPT ![t] = clock + e],
             UNCHANGED <<clock, wake, now, loop_pc>>
      PROVE  LoopInv'
  <2>1. clock + e \in Nat
    BY DEF LoopInv
  <2>2. due' \in [LoopTimers -> Nat \cup {-1}]
    BY Zenon, <1>5, <2>1 DEF LoopInv
  <2>3. \A u \in Queue' : u = t \/ (u \in Queue /\ due'[u] = due[u])
    BY Zenon, <1>5 DEF LoopInv, Queue
  <2>4. due'[t] = clock + e
    BY Zenon, <1>5 DEF LoopInv
  <2>5. wake <= due'[t] + PollInterval
    BY <2>4 DEF LoopInv
  <2> QED
    BY Zenon, <1>5, <2>2, <2>3, <2>5 DEF LoopInv
<1>6. CASE CallbackArms
  <2>1. CASE UNCHANGED due
    BY Zenon, <1>6, <2>1 DEF CallbackArms, LoopInv, Queue
  <2>2. ASSUME NEW t \in LoopTimers, NEW e \in Expires, due' = [due EXCEPT ![t] = clock + e]
        PROVE  LoopInv'
    BY Zenon, <1>5, <1>6, <2>2 DEF CallbackArms
  <2> QED
    BY Zenon, <1>6, <2>1, <2>2 DEF CallbackArms
<1>7. CASE Sleep
  <2>1. /\ now = clock /\ \A t \in Queue : due[t] > clock
        /\ UNCHANGED <<clock, due, now>>
    BY Zenon, <1>7 DEF Sleep, LoopInv
  <2>2. wake' \in Nat /\ clock <= wake' /\ wake' <= clock + PollInterval
    <3>1. CASE \E t \in Queue : due[t] - now < PollInterval
      <4>1. wake' = clock + (Earliest(due, Queue) - now)
        BY Zenon, <1>7, <3>1 DEF Sleep
      <4>2. /\ Earliest(due, Queue) \in Nat
            /\ \E t \in Queue : Earliest(due, Queue) = due[t]
            /\ \A t \in Queue : Earliest(due, Queue) <= due[t]
        BY Zenon, <3>1, EarliestFacts DEF LoopInv
      <4>3. Earliest(due, Queue) > clock
        BY Zenon, <2>1, <4>2
      <4>4. PICK t \in Queue : due[t] - now < PollInterval
        BY <3>1
      <4>5. due[t] \in Nat
        BY DEF LoopInv, Queue
      <4> QED
        BY <2>1, <4>1, <4>2, <4>3, <4>4, <4>5 DEF LoopInv
    <3>2. CASE ~ \E t \in Queue : due[t] - now < PollInterval
      BY <1>7, <3>2 DEF Sleep, LoopInv
    <3> QED
      BY Zenon, <3>1, <3>2
  <2>3. ASSUME NEW t \in Queue
        PROVE  wake' <= due[t] + PollInterval
    <3>1. due[t] \in Nat /\ due[t] > clock
      BY Zenon, <2>1 DEF LoopInv, Queue
    <3> QED
      BY <2>2, <3>1 DEF LoopInv
  <2> QED
    BY Zenon, <1>7, <2>1, <2>2, <2>3 DEF Sleep, LoopInv, Queue
<1>8. ASSUME NEW c \in LoopClients, NEW t \in LoopTimers, TimerDelete(c, t)
      PROVE  LoopInv'
  BY Zenon, <1>8 DEF TimerDelete, LoopInv, Queue
<1>9. ASSUME NEW c \in LoopClients, NEW t \in LoopTimers, NEW e \in Expires, TimerModify(c, t, e)
      PROVE  LoopInv'
  BY Zenon, <1>5, <1>9 DEF TimerModify
<1>10. ASSUME NEW c \in LoopClients, EmitInc(c) \/ EmitWrite(c)
       PROVE  LoopInv'
  BY Zenon, <1>10 DEF EmitInc, EmitWrite, LoopInv, Queue
<1> QED
  BY Zenon, <1>1, <1>2, <1>3, <1>4, <1>6, <1>7, <1>8, <1>9, <1>10 DEF LoopNext

(* process_timers and calc_timeout: a timer is never later than            *)
(* EV_POLL_INTERVAL, for any timers, expiries and clients that arm them.   *)
THEOREM EventLoopLatenessBounded ==
  ASSUME PollInterval \in Nat, Expires \subseteq Nat
  PROVE  LoopSpec => []LatenessBounded
<1>1. LoopInit => LoopInv
  BY DEF LoopInit, LoopInv, Queue
<1>2. LoopInv /\ [LoopNext]_lpvars => LoopInv'
  BY LoopStepInv
<1>3. LoopInv => LatenessBounded
  BY DEF LoopInv, LatenessBounded, Queue
<1> QED
  BY <1>1, <1>2, <1>3, PTL DEF LoopSpec

=============================================================================
