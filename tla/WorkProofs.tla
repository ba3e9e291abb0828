----------------------------- MODULE WorkProofs -----------------------------
(***************************************************************************)
(* Proofs about accounts of what is in flight: the works that a flush of   *)
(* an ordered workqueue waits for, and the transports of a server, which   *)
(* lives as long as its count of references.                               *)
(***************************************************************************)
EXTENDS WqFlush, Server, ListLemmas

-----------------------------------------------------------------------------
(***************************************************************************)
(* flush_workqueue on an ordered workqueue.  The sequence numbers are      *)
(* counts taken modulo their range from the number s at the start.  A      *)
(* flusher's insert_seq is a mark: before holds the works of flight that   *)
(* were queued up to the mark, and these are the first ones because works  *)
(* complete in their order; its remove_seq is a number of completed works  *)
(* that was reached.                                                       *)
(***************************************************************************)
FlushAssumptions ==
  /\ SeqRange \in Nat \ {0}
  /\ MaxInserts \in Nat /\ MaxInserts < SeqRange
  /\ Ordered = TRUE

SeqAt(s, k) == IF s + k < SeqRange THEN s + k ELSE s + k - SeqRange
Prefix(w, n) == {w[i] : i \in 1 .. n}
Mark(c, s, b, w, total) ==
  \E m \in 0 .. total : c.insert_seq = SeqAt(s, m) /\ b = Prefix(w, m - (total - Len(w)))
Reached(v, s, count) == \E q \in 0 .. count : v = SeqAt(s, q)

FlTypeOK ==
  /\ inserts \in 0 .. MaxInserts
  /\ wait_flusher \in Seq(Flushers)
  /\ flight \in Seq(Works) /\ Distinct(flight)
  /\ fwait \in [Flushers -> [insert_seq : Int, remove_seq : Int]]
  /\ done \in [Works -> {"no", "peek", "wake"}]
  /\ key \in [Works -> Int]
  /\ before \in [Flushers -> SUBSET Works]
  /\ pc \in [Flushers -> {"out", "read", "add", "check", "wait", "sleep", "relock", "returned"}]

FlCounts(s) ==
  /\ Len(flight) <= inserts
  /\ insert_seq = SeqAt(s, inserts)
  /\ remove_seq = SeqAt(s, inserts - Len(flight))
  /\ \A x \in Works : done[x] # "no" => Reached(key[x], s, inserts - Len(flight))

FlMarks(s) ==
  \A f \in Flushers :
    /\ pc[f] # "out" => Mark(fwait[f], s, before[f], flight, inserts)
    /\ pc[f] \notin {"out", "read"} => Reached(fwait[f].remove_seq, s, inserts - Len(flight))
    /\ pc[f] = "returned" => fwait[f].insert_seq = fwait[f].remove_seq

FlushInv == FlTypeOK /\ EntryIsAlive /\ \E s \in 0 .. SeqRange - 1 : FlCounts(s) /\ FlMarks(s)

(* The numbers of different counts differ, and Inc goes to the next one. *)
LEMMA SeqAtFacts ==
  ASSUME FlushAssumptions, NEW s \in 0 .. SeqRange - 1
  PROVE  /\ \A k \in 0 .. MaxInserts : SeqAt(s, k) \in 0 .. SeqRange - 1
         /\ \A k \in 0 .. MaxInserts - 1 : Inc(SeqAt(s, k)) = SeqAt(s, k + 1)
         /\ \A j, k \in 0 .. MaxInserts : SeqAt(s, j) = SeqAt(s, k) => j = k
<1> USE DEF FlushAssumptions
<1>1. \A n \in 0 .. SeqRange - 1 : Inc(n) = IF n + 1 < SeqRange THEN n + 1 ELSE 0
  <2> SUFFICES ASSUME NEW n \in 0 .. SeqRange - 1
               PROVE  Inc(n) = IF n + 1 < SeqRange THEN n + 1 ELSE 0
    OBVIOUS
  <2>1. CASE n + 1 < SeqRange
    <3>1. (n + 1) % SeqRange = n + 1
      BY <2>1
    <3> QED BY <2>1, <3>1 DEF Inc
  <2>2. CASE ~ (n + 1 < SeqRange)
    <3>1. n + 1 = SeqRange /\ SeqRange % SeqRange = 0
      BY <2>2
    <3> QED BY <2>2, <3>1 DEF Inc
  <2> QED BY <2>1, <2>2
<1>2. \A k \in 0 .. MaxInserts : SeqAt(s, k) \in 0 .. SeqRange - 1
  BY DEF SeqAt
<1>3. \A k \in 0 .. MaxInserts - 1 : Inc(SeqAt(s, k)) = SeqAt(s, k + 1)
  BY <1>1, <1>2 DEF SeqAt
<1>4. \A j, k \in 0 .. MaxInserts : SeqAt(s, j) = SeqAt(s, k) => j = k
  BY DEF SeqAt
<1> QED BY <1>2, <1>3, <1>4

LEMMA ReachedLater ==
  ASSUME NEW v, NEW s, NEW a \in Int, NEW b \in Int, a <= b, Reached(v, s, a)
  PROVE  Reached(v, s, b)
BY DEF Reached

(* A work queued after the call is beyond the mark. *)
LEMMA MarkAppend ==
  ASSUME NEW c, NEW s, NEW b, NEW w \in Seq(Works), NEW x \in Works, NEW total \in Nat,
         Len(w) <= total, Mark(c, s, b, w, total)
  PROVE  Mark(c, s, b, list_add_tail(w, x), total + 1)
<1>1. PICK m \in 0 .. total : c.insert_seq = SeqAt(s, m) /\ b = Prefix(w, m - (total - Len(w)))
  BY DEF Mark
<1>2. PICK v \in Seq(Works) : v = list_add_tail(w, x)
  <2>1. list_add_tail(w, x) \in Seq(Works)
    BY DEF list_add_tail
  <2> QED BY <2>1
<1>3. Len(v) = Len(w) + 1 /\ \A i \in 1 .. Len(w) : v[i] = w[i]
  BY <1>2 DEF list_add_tail
<1>4. PICK n \in Int : n = m - (total - Len(w)) /\ n = m - ((total + 1) - Len(v)) /\ n <= Len(w)
  BY SMTT(30), <1>3
<1>5. Prefix(v, n) = Prefix(w, n)
  <2>1. \A i \in 1 .. n : i \in 1 .. Len(w)
    BY <1>4
  <2> QED BY <2>1, <1>3 DEF Prefix
<1>6. m \in 0 .. total + 1
  OBVIOUS
<1> QED BY <1>1, <1>2, <1>4, <1>5, <1>6 DEF Mark

(* list_del of the first entry moves the others up. *)
LEMMA ListDelHead ==
  ASSUME NEW S, NEW w \in Seq(S), Distinct(w), w # <<>>
  PROVE  /\ Len(list_del(w, Head(w))) = Len(w) - 1
         /\ \A i \in 1 .. Len(w) - 1 : list_del(w, Head(w))[i] = w[i + 1]
<1>1. Head(w) = w[1] /\ 1 \in 1 .. Len(w) /\ w[1] \in S
  OBVIOUS
<1>2. Occurs(w, Head(w))
  BY <1>1 DEF Occurs
<1>3. Len(list_del(w, Head(w))) = Len(w) - 1
  BY <1>1, <1>2, ListDelLen
<1> DEFINE j == CHOOSE k \in 1 .. Len(w) : w[k] = Head(w)
<1>4. j \in 1 .. Len(w) /\ w[j] = Head(w)
  BY <1>1
<1>5. j = 1
  BY <1>1, <1>4 DEF Distinct
<1>6. list_del(w, Head(w)) = [k \in 1 .. Len(w) - 1 |-> IF k < j THEN w[k] ELSE w[k + 1]]
  BY DEF list_del
<1> HIDE DEF j
<1>7. \A i \in 1 .. Len(w) - 1 : list_del(w, Head(w))[i] = w[i + 1]
  BY <1>5, <1>6
<1> QED BY <1>3, <1>7

(* The first work completes: it is the first one up to the mark, if any. *)
LEMMA MarkDel ==
  ASSUME NEW c, NEW s, NEW b, NEW w \in Seq(Works), Distinct(w), w # <<>>, NEW total \in Nat,
         Len(w) <= total, Mark(c, s, b, w, total)
  PROVE  Mark(c, s, b \ {Head(w)}, list_del(w, Head(w)), total)
<1>1. PICK m \in 0 .. total : c.insert_seq = SeqAt(s, m) /\ b = Prefix(w, m - (total - Len(w)))
  BY DEF Mark
<1>2. PICK v : v = list_del(w, Head(w))
  OBVIOUS
<1>3. Len(v) = Len(w) - 1 /\ \A i \in 1 .. Len(w) - 1 : v[i] = w[i + 1]
  BY <1>2, ListDelHead
<1>4. PICK n \in Int : n = m - (total - Len(w)) /\ n - 1 = m - (total - Len(v)) /\ n <= Len(w)
  <2>1. PICK l \in Nat : l = Len(w)
    OBVIOUS
  <2>2. /\ m - (total - l) \in Int /\ m - (total - l) <= l
        /\ (m - (total - l)) - 1 = m - (total - (l - 1))
    OBVIOUS
  <2> QED BY Zenon, <2>1, <2>2, <1>3
<1>5. Head(w) = w[1] /\ Len(w) \in Nat /\ Len(w) > 0
  OBVIOUS
<1>6. Prefix(w, n) \ {w[1]} = Prefix(v, n - 1)
  <2>1. ASSUME NEW u \in Prefix(w, n), u # w[1] PROVE u \in Prefix(v, n - 1)
    <3>1. PICK i \in 1 .. n : u = w[i]
      BY <2>1 DEF Prefix
    <3>2. i # 1
      BY <3>1, <2>1
    <3>3. i - 1 \in 1 .. n - 1 /\ i - 1 \in 1 .. Len(w) - 1 /\ (i - 1) + 1 = i
      BY <3>2, <1>4, <1>5
    <3>4. v[i - 1] = u
      BY <3>1, <3>3, <1>3
    <3> QED BY <3>3, <3>4 DEF Prefix
  <2>2. ASSUME NEW u \in Prefix(v, n - 1) PROVE u \in Prefix(w, n) /\ u # w[1]
    <3>1. PICK i \in 1 .. n - 1 : u = v[i]
      BY <2>2 DEF Prefix
    <3>2. i + 1 \in 1 .. n /\ i \in 1 .. Len(w) - 1 /\ i + 1 \in 1 .. Len(w) /\ i + 1 # 1
      BY <1>4, <1>5
    <3>3. u = w[i + 1]
      BY <3>1, <3>2, <1>3
    <3>4. 1 \in 1 .. Len(w)
      BY <1>5
    <3>5. u # w[1]
      BY <3>2, <3>3, <3>4 DEF Distinct
    <3> QED BY <3>2, <3>3, <3>5 DEF Prefix
  <2> QED BY <2>1, <2>2
<1> QED BY Zenon, <1>1, <1>2, <1>4, <1>5, <1>6 DEF Mark
LEMMA FlushInit == FlushAssumptions /\ Init => FlushInv
<1> SUFFICES ASSUME FlushAssumptions, Init PROVE FlushInv
  OBVIOUS
<1>1. SeqRange \in Nat \ {0} /\ MaxInserts \in Nat
  BY DEF FlushAssumptions
<1>2. FlTypeOK
  <2>1. [insert_seq |-> 0, remove_seq |-> 0] \in [insert_seq : Int, remove_seq : Int]
    OBVIOUS
  <2> QED BY <1>1, <2>1 DEF FlTypeOK, Init, Distinct
<1>3. EntryIsAlive
  BY DEF EntryIsAlive, Init, Occurs
<1>4. insert_seq \in 0 .. SeqRange - 1
  BY <1>1 DEF Init
<1>5. FlCounts(insert_seq)
  <2>1. inserts = 0 /\ Len(flight) = 0 /\ remove_seq = insert_seq
    BY DEF Init
  <2>2. SeqAt(insert_seq, 0) = insert_seq /\ 0 - 0 = 0
    BY <1>1, <1>4 DEF SeqAt
  <2>3. \A x \in Works : done[x] = "no"
    BY DEF Init
  <2> QED BY <2>1, <2>2, <2>3 DEF FlCounts
<1>6. FlMarks(insert_seq)
  BY DEF FlMarks, Init
<1> QED BY <1>2, <1>3, <1>4, <1>5, <1>6 DEF FlushInv

(* Works are queued and counted. *)
LEMMA FlushWorkStep ==
  ASSUME FlushAssumptions, FlushInv, NEW x \in Works, insert_work(x) \/ pwq_dec_nr_in_flight(x)
  PROVE  FlushInv'
<1>1. PICK s \in 0 .. SeqRange - 1 : FlCounts(s) /\ FlMarks(s)
  BY DEF FlushInv
<1>2. FlTypeOK /\ EntryIsAlive
  BY DEF FlushInv
<1>3. /\ wait_flusher' = wait_flusher /\ fwait' = fwait /\ pc' = pc
  BY DEF insert_work, pwq_dec_nr_in_flight, flushers
<1>4. EntryIsAlive'
  BY <1>2, <1>3 DEF EntryIsAlive
<1>5. PICK len \in Nat : len = Len(flight)
  BY <1>2 DEF FlTypeOK
<1>6. /\ inserts \in 0 .. MaxInserts /\ len <= inserts /\ MaxInserts \in Nat
      /\ insert_seq = SeqAt(s, inserts) /\ remove_seq = SeqAt(s, inserts - len)
      /\ flight \in Seq(Works) /\ Distinct(flight)
  BY <1>1, <1>2, <1>5 DEF FlCounts, FlTypeOK, FlushAssumptions
<1>7. CASE insert_work(x)
  <2>1. /\ inserts < MaxInserts /\ inserts' = inserts + 1 /\ insert_seq' = Inc(insert_seq)
        /\ flight' = list_add_tail(flight, x) /\ ~ Occurs(flight, x)
        /\ remove_seq' = remove_seq /\ done' = done /\ key' = key /\ before' = before
    BY <1>7 DEF insert_work
  <2>2. flight' \in Seq(Works) /\ Distinct(flight')
    BY <2>1, <1>6, ListAddTailFacts
  <2>3. Len(flight') = len + 1
    BY <2>1, <1>5, <1>6 DEF list_add_tail
  <2>4. FlTypeOK'
    BY <2>1, <2>2, <1>2, <1>3, <1>6 DEF FlTypeOK
  <2>5. /\ Len(flight') <= inserts'
        /\ inserts' - Len(flight') = inserts - len
    BY <2>1, <2>3, <1>6
  <2>6. insert_seq' = SeqAt(s, inserts')
    <3>1. inserts \in 0 .. MaxInserts - 1
      BY <2>1, <1>6
    <3> QED BY Zenon, <3>1, <2>1, <1>6, SeqAtFacts
  <2>7. FlCounts(s)'
    BY Zenon, <2>1, <2>5, <2>6, <1>1, <1>5, <1>6 DEF FlCounts
  <2>8. ASSUME NEW f \in Flushers, pc[f] # "out"
        PROVE  Mark(fwait[f], s, before[f], flight', inserts')
    <3>1. Mark(fwait[f], s, before[f], flight, inserts)
      BY <2>8, <1>1 DEF FlMarks
    <3> QED BY <3>1, <2>1, <1>5, <1>6, MarkAppend
  <2>9. FlMarks(s)'
    BY Zenon, <2>1, <2>5, <2>8, <1>1, <1>3, <1>5 DEF FlMarks
  <2> QED BY <1>4, <2>4, <2>7, <2>9 DEF FlushInv
<1>8. CASE pwq_dec_nr_in_flight(x)
  <2>1. /\ Occurs(flight, x) /\ Head(flight) = x
        /\ flight' = list_del(flight, x) /\ remove_seq' = Inc(remove_seq)
        /\ key' = [key EXCEPT ![x] = remove_seq'] /\ done' = [done EXCEPT ![x] = "peek"]
        /\ before' = [f \in Flushers |-> before[f] \ {x}]
        /\ inserts' = inserts /\ insert_seq' = insert_seq
    BY ZenonT(30), <1>8 DEF pwq_dec_nr_in_flight, FlushAssumptions
  <2>2. flight' \in Seq(Works) /\ Distinct(flight')
    BY Zenon, <2>1, <1>6, ListDelFacts
  <2>3. Len(flight') = len - 1
    BY Zenon, <2>1, <1>5, <1>6, ListDelLen
  <2>4. flight # <<>> /\ len > 0
    BY <2>1, <1>5 DEF Occurs
  <2>5. PICK r \in 0 .. MaxInserts - 1 : r = inserts - len
    <3>1. inserts - len \in 0 .. MaxInserts - 1
      BY <2>4, <1>6
    <3> QED BY <3>1
  <2>6. /\ Len(flight') <= inserts'
        /\ inserts' - Len(flight') = r + 1
    BY SMTT(30), <2>1, <2>3, <2>5, <1>6
  <2>7. remove_seq' = SeqAt(s, r + 1) /\ remove_seq' \in Int
    <3>1. Inc(SeqAt(s, r)) = SeqAt(s, r + 1)
      BY SeqAtFacts
    <3>2. r + 1 \in 0 .. MaxInserts
      BY <1>6
    <3>3. SeqAt(s, r + 1) \in 0 .. SeqRange - 1
      BY <3>2, SeqAtFacts
    <3>4. SeqAt(s, r + 1) \in Int
      BY <3>3 DEF FlushAssumptions
    <3> QED BY Zenon, <3>1, <3>4, <2>1, <2>5, <1>6
  <2>8. FlTypeOK'
    BY Zenon, <2>1, <2>2, <2>7, <1>2, <1>3 DEF FlTypeOK
  <2>9. ASSUME NEW y \in Works, done'[y] # "no"
        PROVE  Reached(key'[y], s, r + 1)
    <3>1. CASE y = x
      <4>1. key'[y] = remove_seq'
        BY <3>1, <2>1, <1>2 DEF FlTypeOK
      <4>2. r + 1 \in 0 .. r + 1
        OBVIOUS
      <4> QED BY <4>1, <4>2, <2>7 DEF Reached
    <3>2. CASE y # x
      <4>1. key'[y] = key[y] /\ done[y] # "no"
        BY Zenon, <3>2, <2>1, <2>9, <1>2 DEF FlTypeOK
      <4>2. Reached(key[y], s, r)
        BY <4>1, <2>5, <1>1, <1>5 DEF FlCounts
      <4> QED BY <4>1, <4>2, ReachedLater
    <3> QED BY <3>1, <3>2
  <2>10. FlCounts(s)'
    BY Zenon, <2>1, <2>6, <2>7, <2>9, <1>6 DEF FlCounts
  <2>11. ASSUME NEW f \in Flushers
         PROVE  /\ pc[f] # "out" => Mark(fwait[f], s, before'[f], flight', inserts')
                /\ pc[f] \notin {"out", "read"} => Reached(fwait[f].remove_seq, s, r + 1)
    <3>1. pc[f] # "out" => Mark(fwait[f], s, before[f], flight, inserts)
      BY <1>1 DEF FlMarks
    <3>2. before'[f] = before[f] \ {Head(flight)}
      BY Zenon, <2>1
    <3>3. pc[f] # "out" => Mark(fwait[f], s, before[f] \ {Head(flight)}, list_del(flight, Head(flight)), inserts)
      <4>1. inserts \in Nat /\ Len(flight) <= inserts
        BY <1>5, <1>6
      <4> QED BY ZenonT(30), <3>1, <4>1, <2>4, <1>6, MarkDel
    <3>4. pc[f] \notin {"out", "read"} => Reached(fwait[f].remove_seq, s, r)
      BY <2>5, <1>1, <1>5 DEF FlMarks
    <3>5. pc[f] \notin {"out", "read"} => Reached(fwait[f].remove_seq, s, r + 1)
      BY SMTT(30), <3>4, ReachedLater
    <3> QED BY ZenonT(30), <3>2, <3>3, <3>5, <2>1
  <2>12. FlMarks(s)'
    BY Zenon, <2>6, <2>11, <1>1, <1>3 DEF FlMarks
  <2> QED BY <1>4, <2>8, <2>10, <2>12 DEF FlushInv
<1> QED BY <1>7, <1>8
(* A worker looks at the list, and wakes the flushers that wait for its number. *)
LEMMA FlushWakeStep ==
  ASSUME FlushAssumptions, FlushInv, NEW x \in Works, waitqueue_active(x) \/ wake_up_all(x)
  PROVE  FlushInv'
<1>1. PICK s \in 0 .. SeqRange - 1 : FlCounts(s) /\ FlMarks(s)
  BY DEF FlushInv
<1>2. FlTypeOK /\ EntryIsAlive
  BY DEF FlushInv
<1>3. /\ inserts' = inserts /\ insert_seq' = insert_seq /\ remove_seq' = remove_seq
      /\ flight' = flight /\ before' = before
  BY DEF waitqueue_active, wake_up_all
<1>4. /\ done' \in [Works -> {"no", "peek", "wake"}] /\ key' \in [Works -> Int]
      /\ \A y \in Works : done'[y] # "no" => done[y] # "no" /\ key'[y] = key[y]
  <2>1. CASE waitqueue_active(x)
    BY <2>1, <1>2 DEF waitqueue_active, FlTypeOK
  <2>2. CASE wake_up_all(x)
    BY <2>2, <1>2 DEF wake_up_all, FlTypeOK
  <2> QED BY <2>1, <2>2
<1>5. FlCounts(s)'
  BY <1>1, <1>3, <1>4 DEF FlCounts
<1>6. CASE waitqueue_active(x)
  <2>1. wait_flusher' = wait_flusher /\ fwait' = fwait /\ pc' = pc
    BY <1>6 DEF waitqueue_active, flushers
  <2>2. FlTypeOK'
    BY Zenon, <2>1, <1>2, <1>3, <1>4 DEF FlTypeOK
  <2>3. EntryIsAlive'
    BY <2>1, <1>2 DEF EntryIsAlive
  <2>4. FlMarks(s)'
    BY Zenon, <2>1, <1>1, <1>3 DEF FlMarks
  <2> QED BY <2>2, <2>3, <2>4, <1>5 DEF FlushInv
<1>7. CASE wake_up_all(x)
  <2>1. PICK hit \in SUBSET Flushers :
          /\ hit = {f \in Flushers : Occurs(wait_flusher, f) /\ wfl_wakefn(f, key[x])}
          /\ fwait' = [f \in Flushers |-> IF f \in hit
                         THEN [fwait[f] EXCEPT !.remove_seq = key[x]] ELSE fwait[f]]
          /\ wait_flusher' = list_keep(wait_flusher, {f \in Flushers : f \notin hit \/ pc[f] # "sleep"})
          /\ pc' = [f \in Flushers |->
                      IF f \in hit /\ pc[f] \in {"wait", "sleep"} THEN "relock" ELSE pc[f]]
          /\ done[x] = "wake"
    BY Zenon, <1>7 DEF wake_up_all
  <2>2. PICK k \in Int : k = key[x]
    BY <1>2 DEF FlTypeOK
  <2>3. /\ wait_flusher' \in Seq(Flushers)
        /\ \A f \in Flushers : Occurs(wait_flusher', f) => Occurs(wait_flusher, f)
    BY <2>1, <1>2, ListKeepFacts DEF FlTypeOK
  <2>4. ASSUME NEW f \in Flushers
        PROVE  /\ fwait'[f] \in [insert_seq : Int, remove_seq : Int]
               /\ fwait'[f].insert_seq = fwait[f].insert_seq
               /\ fwait'[f].remove_seq = IF f \in hit THEN k ELSE fwait[f].remove_seq
    <3>1. PICK c \in [insert_seq : Int, remove_seq : Int] : c = fwait[f]
      BY <1>2 DEF FlTypeOK
    <3>2. fwait'[f] = IF f \in hit THEN [c EXCEPT !.remove_seq = k] ELSE c
      BY <3>1, <2>1, <2>2
    <3>3. /\ [c EXCEPT !.remove_seq = k] \in [insert_seq : Int, remove_seq : Int]
          /\ [c EXCEPT !.remove_seq = k].insert_seq = c.insert_seq
          /\ [c EXCEPT !.remove_seq = k].remove_seq = k
      OBVIOUS
    <3> QED BY <3>1, <3>2, <3>3
  <2>5. \A f \in Flushers : /\ pc'[f] \in {"out", "read", "add", "check", "wait", "sleep", "relock", "returned"}
                            /\ pc'[f] = pc[f] \/ (pc'[f] = "relock" /\ pc[f] \in {"wait", "sleep"})
    BY <2>1, <1>2 DEF FlTypeOK
  <2>6. FlTypeOK'
    <3>1. fwait' \in [Flushers -> [insert_seq : Int, remove_seq : Int]]
      BY <2>1, <2>4
    <3>2. pc' \in [Flushers -> {"out", "read", "add", "check", "wait", "sleep", "relock", "returned"}]
      BY <2>1, <2>5
    <3> QED BY Zenon, <3>1, <3>2, <2>3, <1>2, <1>3, <1>4 DEF FlTypeOK
  <2>7. EntryIsAlive'
    BY <2>3, <2>5, <1>2 DEF EntryIsAlive
  <2>8. ASSUME NEW f \in Flushers
        PROVE  /\ pc'[f] # "out" => Mark(fwait'[f], s, before[f], flight, inserts)
               /\ pc'[f] \notin {"out", "read"} =>
                    Reached(fwait'[f].remove_seq, s, inserts - Len(flight))
               /\ pc'[f] = "returned" => fwait'[f].insert_seq = fwait'[f].remove_seq
    <3>1. /\ pc[f] # "out" => Mark(fwait[f], s, before[f], flight, inserts)
          /\ pc[f] \notin {"out", "read"} =>
               Reached(fwait[f].remove_seq, s, inserts - Len(flight))
          /\ pc[f] = "returned" => fwait[f].insert_seq = fwait[f].remove_seq
      BY Zenon, <1>1 DEF FlMarks
    <3>2. Reached(k, s, inserts - Len(flight))
      BY Zenon, <2>1, <2>2, <1>1 DEF FlCounts
    <3>3. f \in hit => pc[f] \in {"check", "wait", "sleep", "relock"}
      BY <2>1, <1>2 DEF EntryIsAlive
    <3>4. pc'[f] # "out" => Mark(fwait'[f], s, before[f], flight, inserts)
      BY Zenon, <3>1, <2>4, <2>5 DEF Mark
    <3> QED BY Zenon, <3>1, <3>2, <3>3, <3>4, <2>4, <2>5
  <2>9. FlMarks(s)'
    BY <2>8, <1>3 DEF FlMarks
  <2> QED BY <2>6, <2>7, <2>9, <1>5 DEF FlushInv
<1> QED BY <1>6, <1>7

(* An entry is taken from a list. *)
LEMMA ListKeepOthers ==
  ASSUME NEW S, NEW s \in Seq(S), NEW e
  PROVE  /\ list_keep(s, S \ {e}) \in Seq(S)
         /\ \A u \in S : Occurs(list_keep(s, S \ {e}), u) <=> Occurs(s, u) /\ u # e
BY ListKeepFacts

(* A flusher's own steps. *)
LEMMA FlusherStep ==
  ASSUME FlushAssumptions, FlushInv, NEW f \in Flushers,
         flush_workqueue(f) \/ Flusher(f) \/ flush_returns(f)
  PROVE  FlushInv'
<1>1. PICK s \in 0 .. SeqRange - 1 : FlCounts(s) /\ FlMarks(s)
  BY DEF FlushInv
<1>2. FlTypeOK /\ EntryIsAlive
  BY DEF FlushInv
<1>3. /\ inserts' = inserts /\ insert_seq' = insert_seq /\ remove_seq' = remove_seq
      /\ flight' = flight /\ done' = done /\ key' = key
  BY Zenon DEF flush_workqueue, Flusher, flush_returns, flush_read, flush_add, flush_check, wait_on,
         flush_relock
<1>4. FlCounts(s)'
  BY <1>1, <1>3 DEF FlCounts
<1>5. PICK c \in [insert_seq : Int, remove_seq : Int] : c = fwait[f]
  BY <1>2 DEF FlTypeOK
<1>6. /\ insert_seq = SeqAt(s, inserts) /\ remove_seq = SeqAt(s, inserts - Len(flight))
      /\ inserts \in 0 .. MaxInserts /\ Len(flight) \in Nat /\ Len(flight) <= inserts
      /\ MaxInserts \in Nat
  BY <1>1, <1>2 DEF FlCounts, FlTypeOK, FlushAssumptions
<1>7. insert_seq \in Int /\ remove_seq \in Int
  <2>1. PICK r \in 0 .. MaxInserts : r = inserts - Len(flight)
    <3>1. inserts - Len(flight) \in 0 .. MaxInserts
      BY <1>6
    <3> QED BY <3>1
  <2>2. SeqAt(s, inserts) \in 0 .. SeqRange - 1 /\ SeqAt(s, r) \in 0 .. SeqRange - 1
    BY Zenon, <1>6, SeqAtFacts
  <2> QED BY <2>1, <2>2, <1>6 DEF FlushAssumptions
<1>8. /\ pc[f] # "out" => Mark(c, s, before[f], flight, inserts)
      /\ pc[f] \notin {"out", "read"} => Reached(c.remove_seq, s, inserts - Len(flight))
      /\ Occurs(wait_flusher, f) => pc[f] \in {"check", "wait", "sleep", "relock"}
  BY Zenon, <1>1, <1>2, <1>5 DEF FlMarks, EntryIsAlive
(* It is enough to look at the flusher's own state. *)
<1>9. ASSUME NEW d \in [insert_seq : Int, remove_seq : Int], NEW b \in SUBSET Works,
             NEW p \in {"out", "read", "add", "check", "wait", "sleep", "relock", "returned"},
             fwait' = [fwait EXCEPT ![f] = d], before' = [before EXCEPT ![f] = b],
             pc' = [pc EXCEPT ![f] = p], wait_flusher' \in Seq(Flushers),
             \A g \in Flushers \ {f} : Occurs(wait_flusher', g) => Occurs(wait_flusher, g),
             Occurs(wait_flusher', f) => p \in {"check", "wait", "sleep", "relock"},
             p # "out" => Mark(d, s, b, flight, inserts),
             p \notin {"out", "read"} => Reached(d.remove_seq, s, inserts - Len(flight)),
             p = "returned" => d.insert_seq = d.remove_seq
      PROVE  FlushInv'
  <2>1. FlTypeOK'
    BY Zenon, <1>2, <1>3, <1>9 DEF FlTypeOK
  <2>2. /\ fwait'[f] = d /\ before'[f] = b /\ pc'[f] = p
        /\ \A g \in Flushers \ {f} : fwait'[g] = fwait[g] /\ before'[g] = before[g] /\ pc'[g] = pc[g]
    BY Zenon, <1>2, <1>9 DEF FlTypeOK
  <2>3. EntryIsAlive'
    BY Zenon, <1>2, <1>9, <2>2 DEF EntryIsAlive
  <2>4. ASSUME NEW g \in Flushers
        PROVE  /\ pc'[g] # "out" => Mark(fwait'[g], s, before'[g], flight, inserts)
               /\ pc'[g] \notin {"out", "read"} =>
                    Reached(fwait'[g].remove_seq, s, inserts - Len(flight))
               /\ pc'[g] = "returned" => fwait'[g].insert_seq = fwait'[g].remove_seq
    <3>1. CASE g = f
      BY Zenon, <3>1, <2>2, <1>9
    <3>2. CASE g # f
      BY Zenon, <3>2, <2>2, <1>1 DEF FlMarks
    <3> QED BY Zenon, <3>1, <3>2
  <2>5. FlMarks(s)'
    BY Zenon, <2>4, <1>3 DEF FlMarks
  <2> QED BY <2>1, <2>3, <2>5, <1>4 DEF FlushInv
<1>10. wait_flusher \in Seq(Flushers) /\ before[f] \in SUBSET Works
  BY <1>2 DEF FlTypeOK
<1>11. /\ fwait = [fwait EXCEPT ![f] = c] /\ before = [before EXCEPT ![f] = before[f]]
  BY <1>2, <1>5 DEF FlTypeOK
<1>12. CASE flush_workqueue(f)
  <2>1. /\ [c EXCEPT !.insert_seq = insert_seq] \in [insert_seq : Int, remove_seq : Int]
        /\ [c EXCEPT !.insert_seq = insert_seq].insert_seq = insert_seq
    BY <1>7
  <2>2. PICK d \in [insert_seq : Int, remove_seq : Int] :
          fwait' = [fwait EXCEPT ![f] = d] /\ d.insert_seq = insert_seq
    <3>1. fwait' = [fwait EXCEPT ![f] = [c EXCEPT !.insert_seq = insert_seq]]
      BY <1>5, <1>12 DEF flush_workqueue
    <3> QED BY Zenon, <2>1, <3>1
  <2>3. PICK b \in SUBSET Works : b = {x \in Works : Occurs(flight, x)}
    BY Zenon
  <2>4. /\ pc[f] = "out" /\ before' = [before EXCEPT ![f] = b]
        /\ pc' = [pc EXCEPT ![f] = "read"] /\ wait_flusher' = wait_flusher
    BY <1>12, <2>3 DEF flush_workqueue
  <2>5. b = Prefix(flight, Len(flight))
    BY SMTT(30), <2>3, <1>2 DEF Prefix, Occurs, FlTypeOK
  <2>6. Mark(d, s, b, flight, inserts)
    <3>1. inserts - (inserts - Len(flight)) = Len(flight) /\ inserts \in 0 .. inserts
      BY <1>6
    <3> QED BY Zenon, <3>1, <2>2, <2>5, <1>6 DEF Mark
  <2> QED BY Zenon, <2>2, <2>4, <2>6, <1>8, <1>9, <1>10
<1>13. CASE flush_read(f)
  <2>1. /\ [c EXCEPT !.remove_seq = remove_seq] \in [insert_seq : Int, remove_seq : Int]
        /\ [c EXCEPT !.remove_seq = remove_seq].insert_seq = c.insert_seq
        /\ [c EXCEPT !.remove_seq = remove_seq].remove_seq = remove_seq
    BY <1>7
  <2>2. PICK d \in [insert_seq : Int, remove_seq : Int] :
          /\ fwait' = [fwait EXCEPT ![f] = d]
          /\ d.insert_seq = c.insert_seq /\ d.remove_seq = remove_seq
    <3>1. fwait' = [fwait EXCEPT ![f] = [c EXCEPT !.remove_seq = remove_seq]]
      BY <1>5, <1>13 DEF flush_read
    <3> QED BY Zenon, <2>1, <3>1
  <2>3. /\ pc[f] = "read" /\ before' = before
        /\ pc' = [pc EXCEPT ![f] = "add"] /\ wait_flusher' = wait_flusher
    BY <1>13 DEF flush_read
  <2>4. Mark(d, s, before[f], flight, inserts)
    BY <2>2, <2>3, <1>8 DEF Mark
  <2>5. Reached(d.remove_seq, s, inserts - Len(flight))
    <3>1. PICK r \in Nat : r = inserts - Len(flight)
      <4>1. inserts - Len(flight) \in Nat
        BY <1>6
      <4> QED BY <4>1
    <3>2. r \in 0 .. r
      OBVIOUS
    <3> QED BY Zenon, <3>1, <3>2, <2>2, <1>6 DEF Reached
  <2> QED BY Zenon, <2>2, <2>3, <2>4, <2>5, <1>8, <1>9, <1>10, <1>11
<1>14. CASE flush_add(f)
  <2>1. /\ pc[f] = "add" /\ before' = before /\ fwait' = fwait
        /\ pc' = [pc EXCEPT ![f] = "check"] /\ wait_flusher' = <<f>> \o wait_flusher
    BY <1>14 DEF flush_add
  <2>2. /\ wait_flusher' \in Seq(Flushers)
        /\ \A i \in 1 .. Len(wait_flusher') : i # 1 => wait_flusher'[i] = wait_flusher[i - 1]
        /\ wait_flusher'[1] = f /\ Len(wait_flusher') = Len(wait_flusher) + 1
    BY <2>1, <1>10
  <2>3. \A g \in Flushers \ {f} : Occurs(wait_flusher', g) => Occurs(wait_flusher, g)
    <3> SUFFICES ASSUME NEW g \in Flushers \ {f}, Occurs(wait_flusher', g)
                 PROVE  Occurs(wait_flusher, g)
      OBVIOUS
    <3>1. PICK i \in 1 .. Len(wait_flusher') : wait_flusher'[i] = g
      BY DEF Occurs
    <3>2. i # 1
      BY <3>1, <2>2
    <3>3. i - 1 \in 1 .. Len(wait_flusher) /\ wait_flusher[i - 1] = g
      BY <3>1, <3>2, <2>2, <1>10
    <3> QED BY <3>3 DEF Occurs
  <2> QED BY Zenon, <2>1, <2>2, <2>3, <1>8, <1>9, <1>10, <1>11
<1>15. CASE flush_check(f)
  <2>1. pc[f] = "check" /\ before' = before /\ fwait' = fwait
    BY <1>15 DEF flush_check
  <2>2. CASE pc' = [pc EXCEPT ![f] = "wait"] /\ wait_flusher' = wait_flusher
    BY Zenon, <2>1, <2>2, <1>8, <1>9, <1>10, <1>11
  <2>3. CASE /\ fwait[f].insert_seq = fwait[f].remove_seq /\ pc' = [pc EXCEPT ![f] = "returned"]
             /\ wait_flusher' = list_keep(wait_flusher, Flushers \ {f})
    <3>1. /\ wait_flusher' \in Seq(Flushers)
          /\ \A g \in Flushers : Occurs(wait_flusher', g) <=> Occurs(wait_flusher, g) /\ g # f
      BY Zenon, <2>3, <1>10, ListKeepOthers
    <3>2. ~ Occurs(wait_flusher', f) /\ c.insert_seq = c.remove_seq
      BY Zenon, <3>1, <2>3, <1>5
    <3> QED BY Zenon, <3>1, <3>2, <2>1, <2>3, <1>8, <1>9, <1>10, <1>11
  <2> QED BY ZenonT(30), <1>15, <2>2, <2>3 DEF flush_check
<1>16. CASE wait_on(f)
  <2>1. /\ pc[f] = "wait" /\ before' = before /\ fwait' = fwait
        /\ pc' = [pc EXCEPT ![f] = "sleep"] /\ wait_flusher' = wait_flusher
    BY <1>16 DEF wait_on
  <2> QED BY Zenon, <2>1, <1>8, <1>9, <1>10, <1>11
<1>17. CASE flush_relock(f)
  <2>1. /\ pc[f] = "relock" /\ before' = before /\ fwait' = fwait
        /\ pc' = [pc EXCEPT ![f] = "check"] /\ wait_flusher' = wait_flusher
    BY <1>17 DEF flush_relock
  <2> QED BY Zenon, <2>1, <1>8, <1>9, <1>10, <1>11
<1>18. CASE flush_returns(f)
  <2>1. [insert_seq |-> 0, remove_seq |-> 0] \in [insert_seq : Int, remove_seq : Int]
    OBVIOUS
  <2>2. PICK d \in [insert_seq : Int, remove_seq : Int] : d = [insert_seq |-> 0, remove_seq |-> 0]
    BY Zenon, <2>1
  <2>3. /\ pc[f] = "returned" /\ before' = [before EXCEPT ![f] = {}]
        /\ fwait' = [fwait EXCEPT ![f] = d]
        /\ pc' = [pc EXCEPT ![f] = "out"] /\ wait_flusher' = wait_flusher
    BY <1>18, <2>2 DEF flush_returns
  <2>4. ~ Occurs(wait_flusher, f)
    BY <2>3, <1>8
  <2> QED BY Zenon, <2>3, <2>4, <1>9, <1>10
<1> QED BY Zenon, <1>12, <1>13, <1>14, <1>15, <1>16, <1>17, <1>18 DEF Flusher

(***************************************************************************)
(* FlushWaits for an ordered workqueue, any works and flushers and any     *)
(* start of the sequence numbers, as long as fewer works are queued than   *)
(* the numbers have values: a flush_workqueue that has returned has waited *)
(* for every work queued at its call, and its entry is off the list.       *)
(***************************************************************************)
THEOREM OrderedFlushWaits == ASSUME FlushAssumptions PROVE Spec => []FlushWaits
<1>1. Init => FlushInv
  BY FlushInit
<1>2. FlushInv /\ [Next]_vars => FlushInv'
  <2> SUFFICES ASSUME FlushInv, [Next]_vars PROVE FlushInv'
    OBVIOUS
  <2>1. CASE UNCHANGED vars
    <3>1. PICK s \in 0 .. SeqRange - 1 : FlCounts(s) /\ FlMarks(s)
      BY DEF FlushInv
    <3>2. FlTypeOK' /\ EntryIsAlive'
      BY <2>1 DEF FlushInv, FlTypeOK, EntryIsAlive, vars, flushers
    <3>3. FlCounts(s)' /\ FlMarks(s)'
      BY Zenon, <2>1, <3>1 DEF FlCounts, FlMarks, vars, flushers
    <3> QED BY <3>2, <3>3 DEF FlushInv
  <2>2. ASSUME NEW x \in Works, insert_work(x) \/ Worker(x) PROVE FlushInv'
    BY <2>2, FlushWorkStep, FlushWakeStep DEF Worker
  <2>3. ASSUME NEW f \in Flushers, flush_workqueue(f) \/ Flusher(f) \/ flush_returns(f)
        PROVE  FlushInv'
    BY <2>3, FlusherStep
  <2> QED BY <2>1, <2>2, <2>3 DEF Next
<1>3. FlushInv => FlushWaits
  <2> SUFFICES ASSUME FlushInv PROVE FlushWaits
    OBVIOUS
  <2>1. PICK s \in 0 .. SeqRange - 1 : FlCounts(s) /\ FlMarks(s)
    BY DEF FlushInv
  <2>2. /\ inserts \in 0 .. MaxInserts /\ Len(flight) \in Nat /\ Len(flight) <= inserts
        /\ MaxInserts \in Nat
    BY <2>1 DEF FlushInv, FlTypeOK, FlCounts, FlushAssumptions
  <2>3. ASSUME NEW f \in Flushers, pc[f] = "returned"
        PROVE  before[f] = {}
    <3>1. PICK m \in 0 .. inserts : /\ fwait[f].insert_seq = SeqAt(s, m)
                                    /\ before[f] = Prefix(flight, m - (inserts - Len(flight)))
      BY <2>1, <2>3 DEF FlMarks, Mark
    <3>2. PICK q \in 0 .. inserts - Len(flight) : fwait[f].remove_seq = SeqAt(s, q)
      BY <2>1, <2>3 DEF FlMarks, Reached
    <3>3. fwait[f].insert_seq = fwait[f].remove_seq
      BY <2>1, <2>3 DEF FlMarks
    <3>4. m \in 0 .. MaxInserts /\ q \in 0 .. MaxInserts
      BY <2>2
    <3>5. m = q
      BY Zenon, <3>1, <3>2, <3>3, <3>4, SeqAtFacts
    <3>6. m - (inserts - Len(flight)) <= 0 /\ m - (inserts - Len(flight)) \in Int
      BY <3>5, <2>2
    <3>7. 1 .. m - (inserts - Len(flight)) = {}
      BY <3>6
    <3> QED BY <3>1, <3>7 DEF Prefix
  <2> QED BY <2>3 DEF FlushWaits, WaitsForTheWorks, FlushInv
<1> QED BY <1>1, <1>2, <1>3, PTL DEF Spec

-----------------------------------------------------------------------------
(***************************************************************************)
(* Server.  The accounts are kept by four changes, each under serv->lock   *)
(* or by the last user of a transport.  That destroy_server frees the      *)
(* server only when nobody is inside rests on more: a callback of the      *)
(* listener and a stop_xprts each keep a transport, and with it a          *)
(* reference to the server, alive, and a listener that was released will   *)
(* not be called again.                                                    *)
(***************************************************************************)
ServerAssumptions ==
  /\ IsFiniteSet(Xprts) /\ None \notin Xprts
  /\ Passive \cap Active = {} /\ Listener \notin Passive \cup Active
  /\ MaxXprts \in Nat \ {0}

LiveStates == {"attached", "detached", "released", "resume", "put"}

SvTypeOK ==
  /\ serv \in [stats : {"INITING", "RUNNING", "STOPPING", "STOPPED", "DESTROYED"},
               refs : Nat, nr : Nat, freed : BOOLEAN]
  /\ xst \in [Xprts -> {"none", "gone"} \cup LiveStates]
  /\ lstn \in [cool : BOOLEAN, event : BOOLEAN, closed : BOOLEAN, users : Int]
  /\ accept \in [pc : {"none", "accept", "attach", "cool", "shut", "detach"},
                 client : Passive \cup {None}, nr : Nat]
  /\ opener \in [pc : {"idle", "attach"}, xprt : Active \cup {None}]
  /\ victim \in [{"main", "stop"} -> Xprts \cup {None}]
  /\ xprt_list \in Seq(Xprts)

(* The list, the limit and the references. *)
SvCounts ==
  /\ serv.nr = Len(xprt_list) /\ serv.nr <= MaxXprts
  /\ Distinct(xprt_list)
  /\ \A x \in Xprts : Occurs(xprt_list, x) <=> xst[x] = "attached"
  /\ serv.refs = 1 + Cardinality({x \in Xprts : Live(x)})

(* Who keeps whom. *)
SvKeeps ==
  /\ accept.pc = "attach" => accept.client \in Passive /\ xst[accept.client] = "none"
  /\ opener.pc = "attach" => opener.xprt \in Active /\ xst[opener.xprt] = "none"
  /\ lstn.closed => ~ lstn.event
  /\ xst[Listener] # "none"
  /\ xst[Listener] \notin {"attached", "detached"} => lstn.closed
  /\ accept.pc # "none" => xst[Listener] \in {"attached", "detached"}
  /\ \A t \in {"main", "stop"} : victim[t] # None => xst[victim[t]] \in {"attached", "detached"}
  /\ loop \in {"waitusers", "xprts", "free", "done"} =>
       serv.stats = "DESTROYED" /\ opener.pc = "idle"
  /\ loop \in {"free", "done"} => \A x \in Xprts : ~ Live(x)

SvInv == SvTypeOK /\ SvCounts /\ SvKeeps


LEMMA LiveMeans ==
  ASSUME NEW x \in Xprts
  PROVE  Live(x) <=> xst[x] \in LiveStates
BY DEF Live, LiveStates

(* attach_xprt under the lock: one more on the list, one more reference. *)
LEMMA SvAttachCounts ==
  ASSUME ServerAssumptions, SvTypeOK, SvCounts, NEW x \in Xprts, xst[x] = "none",
         ~ __server_has_fulled, Attach(x)
  PROVE  SvCounts' /\ xprt_list' \in Seq(Xprts)
<1>1. ~ Occurs(xprt_list, x)
  BY DEF SvCounts
<1>2. /\ xprt_list' \in Seq(Xprts) /\ Distinct(xprt_list')
      /\ \A y \in Xprts : Occurs(xprt_list', y) <=> Occurs(xprt_list, y) \/ y = x
  BY <1>1, ListAddTailFacts DEF Attach, SvTypeOK, SvCounts
<1>3. Len(xprt_list') = Len(xprt_list) + 1
  BY DEF Attach, SvTypeOK, list_add_tail
<1>4. serv'.nr = serv.nr + 1 /\ serv'.refs = serv.refs + 1
  BY DEF Attach, SvTypeOK
<1>5. \A y \in Xprts : xst'[y] = IF y = x THEN "attached" ELSE xst[y]
  BY DEF Attach, SvTypeOK
<1>6. Cardinality({y \in Xprts : Live(y)}') = Cardinality({y \in Xprts : Live(y)}) + 1
  <2> DEFINE L == {y \in Xprts : Live(y)}
  <2>1. {y \in Xprts : Live(y)}' = L \cup {x} /\ x \notin L
    BY <1>5 DEF Live
  <2>2. IsFiniteSet(L)
    BY CardSubset DEF ServerAssumptions
  <2> HIDE DEF L
  <2> QED
    BY <2>1, <2>2, CardAdd DEF L
<1>7. serv.nr < MaxXprts /\ serv.nr \in Nat /\ serv.refs \in Nat
  BY DEF SvTypeOK, ServerAssumptions, __server_has_fulled
<1>8. Cardinality({y \in Xprts : Live(y)}) \in Nat
  BY CardSubset, CardType DEF ServerAssumptions
<1>9. serv'.refs = 1 + Cardinality({y \in Xprts : Live(y)}')
  BY <1>4, <1>6, <1>7, <1>8 DEF SvCounts
<1>10. serv'.nr = Len(xprt_list') /\ serv'.nr <= MaxXprts
  BY <1>3, <1>4, <1>7 DEF SvCounts, ServerAssumptions
<1>11. \A y \in Xprts : Occurs(xprt_list', y) <=> xst'[y] = "attached"
  BY <1>2, <1>5 DEF SvCounts
<1> QED
  BY Zenon, <1>2, <1>9, <1>10, <1>11 DEF SvCounts

(* detach_xprt: off the list; the reference stays until the last xprt_put. *)
LEMMA SvDetachCounts ==
  ASSUME ServerAssumptions, SvTypeOK, SvCounts, NEW x \in Xprts, xst[x] = "attached", Detach(x)
  PROVE  SvCounts' /\ xprt_list' \in Seq(Xprts) /\ serv'.nr \in Nat
<1>1. Occurs(xprt_list, x)
  BY DEF SvCounts
<1>2. /\ xprt_list' \in Seq(Xprts) /\ Distinct(xprt_list')
      /\ \A y \in Xprts : Occurs(xprt_list', y) <=> Occurs(xprt_list, y) /\ y # x
  BY <1>1, ListDelFacts DEF Detach, SvTypeOK, SvCounts
<1>3. Len(xprt_list') = Len(xprt_list) - 1
  BY <1>1, ListDelLen DEF Detach, SvTypeOK
<1>4. serv'.nr = serv.nr - 1 /\ serv'.refs = serv.refs
  BY DEF Detach, SvTypeOK
<1>5. \A y \in Xprts : xst'[y] = IF y = x THEN "detached" ELSE xst[y]
  BY DEF Detach, SvTypeOK
<1>6. {y \in Xprts : Live(y)}' = {y \in Xprts : Live(y)}
  BY <1>5 DEF Live
<1>7. serv'.nr = Len(xprt_list') /\ serv'.nr <= MaxXprts /\ serv'.nr \in Nat
  BY <1>2, <1>3, <1>4 DEF SvCounts, SvTypeOK, ServerAssumptions
<1>8. \A y \in Xprts : Occurs(xprt_list', y) <=> xst'[y] = "attached"
  BY <1>2, <1>5 DEF SvCounts
<1> QED
  BY Zenon, <1>2, <1>4, <1>6, <1>7, <1>8 DEF SvCounts

(* server_put by the last user of a transport. *)
LEMMA SvPutCounts ==
  ASSUME ServerAssumptions, SvTypeOK, SvCounts, NEW x \in Xprts, ServerPut(x)
  PROVE  SvCounts' /\ serv'.refs \in Nat
<1>1. serv'.nr = serv.nr /\ serv'.refs = serv.refs - 1 /\ UNCHANGED xprt_list
  BY DEF ServerPut, SvTypeOK
<1>2. \A y \in Xprts : xst'[y] = IF y = x THEN "gone" ELSE xst[y]
  BY DEF ServerPut, SvTypeOK
<1>3. /\ Cardinality({y \in Xprts : Live(y)}') = Cardinality({y \in Xprts : Live(y)}) - 1
      /\ Cardinality({y \in Xprts : Live(y)}') \in Nat
  <2> DEFINE L == {y \in Xprts : Live(y)}
  <2>1. {y \in Xprts : Live(y)}' = L \ {x} /\ x \in L
    BY <1>2 DEF Live, ServerPut
  <2>2. IsFiniteSet(L) /\ IsFiniteSet(L \ {x})
    BY CardSubset DEF ServerAssumptions
  <2> HIDE DEF L
  <2> QED
    BY Zenon, <2>1, <2>2, CardRemove, CardType DEF L
<1>4. Cardinality({y \in Xprts : Live(y)}) \in Nat
  BY CardSubset, CardType DEF ServerAssumptions
<1>5. serv'.refs = 1 + Cardinality({y \in Xprts : Live(y)}') /\ serv'.refs \in Nat
  BY <1>1, <1>3, <1>4 DEF SvCounts
<1>6. \A y \in Xprts : xst'[y] = "attached" <=> xst[y] = "attached"
  BY <1>2 DEF ServerPut
<1>7. \A y \in Xprts : Occurs(xprt_list', y) <=> xst'[y] = "attached"
  BY <1>1, <1>6 DEF SvCounts
<1> QED
  BY <1>1, <1>5, <1>7 DEF SvCounts

(* Anything else leaves list, counts and who is alive. *)
LEMMA SvSameCounts ==
  ASSUME SvCounts, UNCHANGED xprt_list, serv'.nr = serv.nr, serv'.refs = serv.refs,
         \A x \in Xprts : /\ xst'[x] = "attached" <=> xst[x] = "attached"
                          /\ xst'[x] \in LiveStates <=> xst[x] \in LiveStates
  PROVE  SvCounts'
<1>1. {x \in Xprts : Live(x)}' = {x \in Xprts : Live(x)}
  BY DEF Live, LiveStates
<1>2. \A y \in Xprts : Occurs(xprt_list', y) <=> xst'[y] = "attached"
  BY DEF SvCounts
<1> QED
  BY Zenon, <1>1, <1>2 DEF SvCounts


(* A step of the loop or of the stopper that changes nothing else. *)
SvStill ==
  /\ serv' = serv /\ lstn' = lstn /\ accept' = accept /\ opener' = opener
  /\ victim' = victim /\ xprt_list' = xprt_list /\ xst' = xst

LEMMA SvStillStep ==
  ASSUME SvInv, SvStill,
         loop' = loop \/ (loop' = "waitusers" /\ loop \in {"waitusers", "xprts", "free", "done"})
  PROVE  SvInv'
<1>1. SvTypeOK /\ SvCounts /\ SvKeeps
  BY Zenon DEF SvInv
<1>2. SvTypeOK'
  BY <1>1 DEF SvStill, SvTypeOK
<1>3. SvCounts'
  BY Zenon, <1>1, SvSameCounts DEF SvStill
<1>4. SvKeeps'
  <2>1. loop' = loop \/ loop' \notin {"free", "done"}
    OBVIOUS
  <2> QED BY Zenon, <1>1, <2>1 DEF SvKeeps, SvStill, Live
<1> QED BY Zenon, <1>2, <1>3, <1>4 DEF SvInv

(* The steps that leave every transport alone. *)
LEMMA SvQuietStep ==
  ASSUME ServerAssumptions, SvInv, UNCHANGED <<xprt_list, xst>>,
         \/ UNCHANGED svrvars \/ ListenerReadable \/ Accept \/ CoolDown \/ OpenCheck \/ ServerGone
         \/ StopBegin \/ StopXprts \/ StopEnd \/ LoopBegin \/ LoopEnd \/ DestroyBegin
         \/ WaitUsers \/ DestroyXprts \/ FreeServer
  PROVE  SvInv'
<1>1. SvTypeOK /\ SvCounts /\ SvKeeps
  BY DEF SvInv
<1>2. Passive \subseteq Xprts /\ Active \subseteq Xprts /\ Listener \in Xprts
  BY DEF Xprts
<1>3. CASE UNCHANGED svrvars \/ ServerGone
  <2>1. SvStill /\ loop' = loop
    BY <1>3 DEF svrvars, ServerGone, SvStill
  <2> QED
    BY Zenon, <2>1, SvStillStep
<1>4. CASE ListenerReadable \/ CoolDown
  <2>1. /\ accept' \in [pc : {"none", "accept", "attach", "cool", "shut", "detach"},
                         client : Passive \cup {None}, nr : Nat]
        /\ accept'.pc \in {"none", "accept"}
        /\ accept'.pc # "none" => lstn.event
    BY <1>1, <1>4 DEF SvTypeOK, ListenerReadable, CoolDown
  <2>4. /\ lstn' \in [cool : BOOLEAN, event : BOOLEAN, closed : BOOLEAN, users : Int]
        /\ lstn'.closed = lstn.closed
        /\ lstn'.event => lstn.event
    <3>1. CASE UNCHANGED lstn
      BY <1>1, <3>1 DEF SvTypeOK
    <3>2. CASE lstn' = [lstn EXCEPT !.cool = TRUE, !.event = FALSE]
      BY Zenon, <1>1, <3>2 DEF SvTypeOK
    <3> QED
      BY Zenon, <1>4, <3>1, <3>2 DEF ListenerReadable, CoolDown
  <2>5. UNCHANGED <<serv, opener, loop, victim>>
    BY <1>4 DEF ListenerReadable, CoolDown
  <2>6. SvTypeOK'
    BY Zenon, <1>1, <2>1, <2>4, <2>5 DEF SvTypeOK
  <2>2. SvCounts'
    BY Zenon, <1>1, <1>4, SvSameCounts DEF ListenerReadable, CoolDown
  <2>3. SvKeeps'
    BY Zenon, <1>1, <2>1, <2>4, <2>5 DEF SvKeeps, Live
  <2> QED
    BY <2>2, <2>3, <2>6 DEF SvInv
<1>5. CASE Accept
  <2>4. accept' \in [pc : {"none", "accept", "attach", "cool", "shut", "detach"},
                     client : Passive \cup {None}, nr : Nat]
    BY ZenonT(30), <1>1, <1>5 DEF SvTypeOK, Accept
  <2>5. lstn' \in [cool : BOOLEAN, event : BOOLEAN, closed : BOOLEAN, users : Int]
    <3>1. CASE UNCHANGED lstn
      BY <1>1, <3>1 DEF SvTypeOK
    <3>2. CASE lstn' = [lstn EXCEPT !.users = @ + 1]
      BY <1>1, <3>2 DEF SvTypeOK
    <3> QED
      BY Zenon, <1>5, <3>1, <3>2 DEF Accept
  <2>1. SvTypeOK'
    BY ZenonT(30), <1>1, <1>5, <2>4, <2>5 DEF SvTypeOK, Accept
  <2>2. SvCounts'
    BY ZenonT(30), <1>1, <1>5, SvSameCounts DEF Accept
  <2>3. SvKeeps'
    BY ZenonT(30), <1>1, <1>5 DEF SvKeeps, SvTypeOK, Accept, Live
  <2> QED
    BY <2>1, <2>2, <2>3 DEF SvInv
<1>6. CASE OpenCheck
  <2>1. PICK x \in Active : xst[x] = "none" /\ opener' = [pc |-> "attach", xprt |-> x]
    BY Zenon, <1>6 DEF OpenCheck
  <2>2. /\ serv' = serv /\ lstn' = lstn /\ accept' = accept /\ loop' = loop
        /\ victim' = victim /\ xprt_list' = xprt_list /\ xst' = xst
        /\ serv.stats # "DESTROYED"
    BY <1>6 DEF OpenCheck, __server_has_stopped
  <2>3. /\ opener' \in [pc : {"idle", "attach"}, xprt : Active \cup {None}]
        /\ opener'.xprt = x
    BY <2>1
  <2>4. SvTypeOK'
    BY Zenon, <1>1, <2>2, <2>3 DEF SvTypeOK
  <2>5. SvCounts'
    BY Zenon, <1>1, <2>2, SvSameCounts
  <2>6. SvKeeps'
    BY Zenon, <1>1, <2>1, <2>2, <2>3 DEF SvKeeps, Live
  <2> QED
    BY Zenon, <2>4, <2>5, <2>6 DEF SvInv
<1>7. CASE StopBegin
  <2>1. SvStill /\ loop' = loop
    BY <1>7 DEF StopBegin, SvStill
  <2> QED
    BY Zenon, <2>1, SvStillStep
<1>8. ASSUME NEW t \in {"main", "stop"}, TakeFirst(t), UNCHANGED <<serv, lstn, accept, opener, loop>>
      PROVE  SvInv'
  <2>1. Head(xprt_list) \in Xprts /\ Occurs(xprt_list, Head(xprt_list))
    BY <1>1, <1>8 DEF TakeFirst, SvTypeOK, Occurs
  <2>2. xst[Head(xprt_list)] = "attached"
    BY <1>1, <2>1 DEF SvCounts
  <2>3. SvTypeOK'
    <3>1. victim' \in [{"main", "stop"} -> Xprts \cup {None}]
      BY <1>1, <1>8, <2>1 DEF SvTypeOK, TakeFirst
    <3> QED BY <1>1, <1>8, <3>1 DEF SvTypeOK
  <2>4. SvCounts'
    BY <1>1, <1>8, SvSameCounts
  <2>5. \A u \in {"main", "stop"} :
          victim'[u] # None => xst'[victim'[u]] \in {"attached", "detached"}
    BY Zenon, <1>1, <1>8, <2>2 DEF SvKeeps, SvTypeOK, TakeFirst
  <2>6. SvKeeps'
    BY Zenon, <1>1, <1>8, <2>5 DEF SvKeeps, Live
  <2> QED
    BY <2>3, <2>4, <2>6 DEF SvInv
<1>9. CASE StopXprts
  <2>1. CASE TakeFirst("stop")
    BY <1>8, <1>9, <2>1 DEF StopXprts
  <2>2. CASE UNCHANGED victim
    <3>1. SvStill /\ loop' = loop
      BY <1>9, <2>2 DEF StopXprts, SvStill
    <3> QED BY Zenon, <3>1, SvStillStep
  <2> QED
    BY <1>9, <2>1, <2>2 DEF StopXprts
<1>10. CASE DestroyXprts
  <2>1. CASE TakeFirst("main") /\ UNCHANGED loop
    BY Zenon, <1>8, <1>10, <2>1 DEF DestroyXprts
  <2>2. CASE UNCHANGED victim /\ loop' = "waitusers"
    <3>1. SvStill /\ loop \in {"waitusers", "xprts", "free", "done"}
      BY <1>10, <2>2 DEF DestroyXprts, SvStill
    <3> QED BY Zenon, <2>2, <3>1, SvStillStep
  <2> QED
    BY Zenon, <1>10, <2>1, <2>2 DEF DestroyXprts
<1>11. CASE StopEnd \/ LoopBegin \/ LoopEnd \/ DestroyBegin \/ FreeServer
  <2>1. /\ SvTypeOK' /\ serv'.nr = serv.nr /\ serv'.refs = serv.refs
    BY ZenonT(30), <1>1, <1>11 DEF SvTypeOK, StopEnd, LoopBegin, LoopEnd, DestroyBegin, FreeServer
  <2>2. SvCounts'
    BY <1>1, <2>1, SvSameCounts
  <2>3. /\ UNCHANGED <<lstn, accept, opener, victim>>
        /\ loop' \in {"waitusers", "xprts", "free", "done"} =>
             serv'.stats = "DESTROYED" /\ opener.pc = "idle"
    BY Zenon, <1>1, <1>11 DEF SvTypeOK, SvKeeps, StopEnd, LoopBegin, LoopEnd, DestroyBegin, FreeServer
  <2>4. loop' \in {"free", "done"} => loop \in {"free", "done"}
    BY Zenon, <1>11 DEF StopEnd, LoopBegin, LoopEnd, DestroyBegin, FreeServer
  <2>5. SvKeeps'
    BY Zenon, <1>1, <2>3, <2>4 DEF SvKeeps, Live
  <2> QED
    BY <2>1, <2>2, <2>5 DEF SvInv
<1>12. CASE WaitUsers
  <2>1. SvTypeOK' /\ SvCounts'
    <3>1. SvStill
      BY <1>12 DEF WaitUsers, SvStill
    <3>2. SvTypeOK'
      BY <1>1, <3>1 DEF SvStill, SvTypeOK
    <3> QED BY Zenon, <1>1, <3>1, <3>2, SvSameCounts DEF SvStill
  <2>2. serv.refs <= 1 => \A x \in Xprts : ~ Live(x)
    <3> DEFINE L == {x \in Xprts : Live(x)}
    <3>1. IsFiniteSet(L)
      BY CardSubset DEF ServerAssumptions
    <3>2. serv.refs <= 1 => Cardinality(L) = 0
      <4>1. Cardinality(L) \in Nat /\ serv.refs = 1 + Cardinality(L)
        BY Zenon, <1>1, <3>1, CardType DEF SvCounts
      <4> HIDE DEF L
      <4> QED
        BY <4>1
    <3>3. Cardinality(L) = 0 => L = {}
      BY <3>1, CardEmpty
    <3> QED
      BY <3>2, <3>3
  <2>3. loop' = "free" => serv.refs <= 1
    BY <1>1, <1>12 DEF WaitUsers, SvTypeOK
  <2>4. SvKeeps'
    BY Zenon, <1>1, <1>12, <2>2, <2>3 DEF WaitUsers, SvKeeps, Live
  <2> QED
    BY <2>1, <2>4 DEF SvInv
<1> QED
  BY Zenon, <1>3, <1>4, <1>5, <1>6, <1>7, <1>9, <1>10, <1>11, <1>12


(* attach_xprt does not disturb who keeps whom, nor detach_xprt. *)
LEMMA SvAttachKeeps ==
  ASSUME ServerAssumptions, SvInv, NEW x \in Passive \cup Active, xst[x] = "none",
         ~ __server_has_fulled, Attach(x), UNCHANGED <<lstn, loop, victim>>,
         loop \notin {"free", "done"},
         /\ accept' \in [pc : {"none", "accept", "attach", "cool", "shut", "detach"},
                         client : Passive \cup {None}, nr : Nat]
         /\ opener' \in [pc : {"idle", "attach"}, xprt : Active \cup {None}],
         accept'.pc # "none" => accept.pc # "none",
         accept'.pc = "attach" => accept' = accept /\ x # accept.client,
         opener'.pc = "attach" => opener' = opener /\ x # opener.xprt
  PROVE  SvInv'
<1>1. SvTypeOK /\ SvCounts /\ SvKeeps
  BY DEF SvInv
<1>2. x \in Xprts /\ x # Listener
  BY DEF Xprts, ServerAssumptions
<1>3. SvCounts' /\ xprt_list' \in Seq(Xprts)
  BY <1>1, <1>2, SvAttachCounts
<1>4. \A y \in Xprts : xst'[y] = IF y = x THEN "attached" ELSE xst[y]
  BY <1>1 DEF Attach, SvTypeOK
<1>5. xst' \in [Xprts -> {"none", "gone"} \cup LiveStates]
  BY <1>1, <1>2 DEF Attach, SvTypeOK, LiveStates
<1>6. /\ serv' \in [stats : {"INITING", "RUNNING", "STOPPING", "STOPPED", "DESTROYED"},
                    refs : Nat, nr : Nat, freed : BOOLEAN]
      /\ serv'.stats = serv.stats
  <2>1. serv.refs + 1 \in Nat /\ serv.nr + 1 \in Nat
    BY <1>1 DEF SvTypeOK
  <2>2. serv' = [serv EXCEPT !.refs = serv.refs + 1, !.nr = serv.nr + 1]
    BY DEF Attach
  <2> QED
    BY Zenon, <1>1, <2>1, <2>2 DEF SvTypeOK
<1>7. SvTypeOK'
  BY Zenon, <1>1, <1>3, <1>5, <1>6 DEF SvTypeOK
<1>8. Passive \subseteq Xprts /\ Active \subseteq Xprts /\ Listener \in Xprts
  BY DEF Xprts
<1>9. \A t \in {"main", "stop"} :
        victim[t] # None => victim[t] \in Xprts /\ xst'[victim[t]] \in {"attached", "detached"}
  BY <1>1, <1>4 DEF SvTypeOK, SvKeeps
<1>10. SvKeeps'
  <2>1. /\ \A y \in Xprts : y # x => xst'[y] = xst[y]
        /\ xst'[Listener] = xst[Listener]
    BY Zenon, <1>2, <1>4, <1>8
  <2>2. accept'.pc = "attach" => accept'.client \in Passive /\ xst'[accept'.client] = "none"
    BY Zenon, <1>1, <1>8, <2>1 DEF SvKeeps
  <2>3. opener'.pc = "attach" => opener'.xprt \in Active /\ xst'[opener'.xprt] = "none"
    BY Zenon, <1>1, <1>8, <2>1 DEF SvKeeps
  <2>4. opener.pc = "idle" => opener'.pc = "idle"
    BY <1>1 DEF SvTypeOK
  <2>5. lstn' = lstn /\ loop' = loop /\ victim' = victim
    OBVIOUS
  <2> QED BY Zenon, <1>1, <1>6, <1>9, <2>1, <2>2, <2>3, <2>4, <2>5 DEF SvKeeps
<1> QED
  BY <1>3, <1>7, <1>10 DEF SvInv

LEMMA SvDetachKeeps ==
  ASSUME ServerAssumptions, SvInv, NEW x \in Xprts, xst[x] = "attached", Detach(x),
         UNCHANGED <<lstn, opener, loop, victim>>,
         /\ accept' \in [pc : {"none", "accept", "attach", "cool", "shut", "detach"},
                         client : Passive \cup {None}, nr : Nat]
         /\ accept' = accept \/ accept'.pc = "none"
  PROVE  SvInv'
<1>1. SvTypeOK /\ SvCounts /\ SvKeeps
  BY DEF SvInv
<1>2. SvCounts' /\ xprt_list' \in Seq(Xprts) /\ serv'.nr \in Nat
  BY <1>1, SvDetachCounts
<1>3. \A y \in Xprts : xst'[y] = IF y = x THEN "detached" ELSE xst[y]
  BY <1>1 DEF Detach, SvTypeOK
<1>4. xst' \in [Xprts -> {"none", "gone"} \cup LiveStates]
  BY <1>1 DEF Detach, SvTypeOK, LiveStates
<1>5. /\ serv' \in [stats : {"INITING", "RUNNING", "STOPPING", "STOPPED", "DESTROYED"},
                    refs : Nat, nr : Nat, freed : BOOLEAN]
      /\ serv'.stats = serv.stats
  <2>1. serv.nr - 1 \in Nat
    BY <1>1, <1>2 DEF Detach, SvTypeOK
  <2> QED
    BY <1>1, <2>1 DEF Detach, SvTypeOK
<1>6. SvTypeOK'
  BY Zenon, <1>1, <1>2, <1>4, <1>5 DEF SvTypeOK
<1>7. Passive \subseteq Xprts /\ Active \subseteq Xprts /\ Listener \in Xprts
  BY DEF Xprts
<1>8. loop \notin {"free", "done"}
  BY <1>1 DEF SvKeeps, Live
<1>9. \A t \in {"main", "stop"} :
        victim[t] # None => victim[t] \in Xprts /\ xst'[victim[t]] \in {"attached", "detached"}
  BY <1>1, <1>3 DEF SvTypeOK, SvKeeps
<1>10. SvKeeps'
  <2>1. lstn' = lstn /\ opener' = opener /\ loop' = loop /\ victim' = victim
    OBVIOUS
  <2>2. /\ \A y \in Xprts : xst[y] = "none" => xst'[y] = "none"
        /\ xst'[Listener] # "none"
        /\ xst'[Listener] \in {"attached", "detached"} <=> xst[Listener] \in {"attached", "detached"}
    BY <1>1, <1>3, <1>7 DEF SvKeeps
  <2>3. accept'.pc = "attach" => accept'.client \in Passive /\ xst'[accept'.client] = "none"
    BY Zenon, <1>1, <1>7, <2>2 DEF SvKeeps
  <2>4. accept'.pc # "none" => accept.pc # "none"
    OBVIOUS
  <2>5. opener.pc = "attach" => opener.xprt \in Active /\ xst'[opener.xprt] = "none"
    BY Zenon, <1>1, <1>7, <2>2 DEF SvKeeps
  <2> QED BY Zenon, <1>1, <1>5, <1>8, <1>9, <2>1, <2>2, <2>3, <2>4, <2>5 DEF SvKeeps
<1> QED
  BY <1>2, <1>6, <1>10 DEF SvInv

(* The threads that open, accept and destroy. *)
LEMMA SvListStep ==
  ASSUME ServerAssumptions, SvInv,
         \/ AcceptAttach \/ ListenerShut \/ OpenAttach
         \/ \E x \in Xprts : CloseSelf(x)
         \/ \E t \in {"main", "stop"} : DestroyXprt(t)
  PROVE  SvInv'
<1>1. SvTypeOK /\ SvCounts /\ SvKeeps
  BY DEF SvInv
<1>2. Passive \subseteq Xprts /\ Active \subseteq Xprts /\ Listener \in Xprts
  BY DEF Xprts
<1>3. loop \in {"free", "done"} => accept.pc = "none" /\ opener.pc = "idle"
  BY <1>1, <1>2 DEF SvKeeps, Live
<1>4. CASE AcceptAttach
  <2>1. accept.client \in Passive /\ xst[accept.client] = "none"
    BY Zenon, <1>1, <1>4 DEF AcceptAttach, SvKeeps
  <2>2. CASE __server_has_fulled
    <3>1. /\ accept' \in [pc : {"none", "accept", "attach", "cool", "shut", "detach"},
                          client : Passive \cup {None}, nr : Nat]
          /\ accept'.pc = "cool"
      BY ZenonT(30), <1>1, <1>4, <2>2 DEF AcceptAttach, SvTypeOK
    <3>2. /\ lstn' \in [cool : BOOLEAN, event : BOOLEAN, closed : BOOLEAN, users : Int]
          /\ lstn'.closed = lstn.closed /\ lstn'.event = lstn.event
      BY <1>1, <1>4, <2>2 DEF AcceptAttach, SvTypeOK
    <3>3. UNCHANGED <<serv, xprt_list, xst, opener, loop, victim>> /\ accept.pc # "none"
      BY <1>4, <2>2 DEF AcceptAttach
    <3>4. SvTypeOK' /\ SvCounts'
      BY Zenon, <1>1, <3>1, <3>2, <3>3, SvSameCounts DEF SvTypeOK
    <3>5. SvKeeps'
      BY Zenon, <1>1, <3>1, <3>2, <3>3 DEF SvKeeps, Live
    <3> QED
      BY <3>4, <3>5 DEF SvInv
  <2>3. CASE ~ __server_has_fulled
    <3>1. /\ accept' \in [pc : {"none", "accept", "attach", "cool", "shut", "detach"},
                          client : Passive \cup {None}, nr : Nat]
          /\ accept'.pc = "accept"
      BY <1>1, <1>4, <2>3 DEF AcceptAttach, SvTypeOK
    <3>2. /\ Attach(accept.client) /\ UNCHANGED <<lstn, opener, loop, victim>>
          /\ accept.pc # "none"
      BY <1>4, <2>3 DEF AcceptAttach
    <3>3. accept.client # opener.xprt /\ opener \in [pc : {"idle", "attach"}, xprt : Active \cup {None}]
      BY <1>1, <1>2, <2>1 DEF SvTypeOK, ServerAssumptions
    <3> QED
      BY Zenon, <1>3, <2>1, <2>3, <3>1, <3>2, <3>3, SvAttachKeeps
  <2> QED
    BY <2>2, <2>3
<1>5. CASE ListenerShut
  <2>1. CASE accept.pc = "shut"
    <3>1. /\ accept' \in [pc : {"none", "accept", "attach", "cool", "shut", "detach"},
                          client : Passive \cup {None}, nr : Nat]
          /\ accept'.pc = "detach"
      BY Zenon, <1>1, <1>5, <2>1 DEF ListenerShut, SvTypeOK
    <3>2. /\ lstn' \in [cool : BOOLEAN, event : BOOLEAN, closed : BOOLEAN, users : Int]
          /\ lstn'.closed /\ ~ lstn'.event
      BY ZenonT(30), <1>1, <1>5, <2>1 DEF ListenerShut, SvTypeOK
    <3>3. UNCHANGED <<serv, xprt_list, xst, opener, loop, victim>>
      BY <1>5, <2>1 DEF ListenerShut
    <3>4. SvTypeOK' /\ SvCounts'
      BY Zenon, <1>1, <3>1, <3>2, <3>3, SvSameCounts DEF SvTypeOK
    <3>5. SvKeeps'
      BY Zenon, <1>1, <2>1, <3>1, <3>2, <3>3 DEF SvKeeps, Live
    <3> QED
      BY <3>4, <3>5 DEF SvInv
  <2>2. CASE accept.pc = "detach"
    <3>1. /\ accept' \in [pc : {"none", "accept", "attach", "cool", "shut", "detach"},
                          client : Passive \cup {None}, nr : Nat]
          /\ accept'.pc = "none"
      BY Zenon, <1>1, <1>5, <2>2 DEF ListenerShut, SvTypeOK
    <3>2. UNCHANGED <<lstn, opener, loop, victim>>
      BY <1>5, <2>2 DEF ListenerShut
    <3>3. CASE xst[Listener] = "attached"
      BY Zenon, <1>2, <1>5, <2>2, <3>1, <3>2, <3>3, SvDetachKeeps DEF ListenerShut
    <3>4. CASE UNCHANGED <<serv, xprt_list, xst>>
      <4>1. SvTypeOK' /\ SvCounts'
        BY ZenonT(30), <1>1, <3>1, <3>2, <3>4, SvSameCounts DEF SvTypeOK
      <4>2. SvKeeps'
        BY Zenon, <1>1, <3>1, <3>2, <3>4 DEF SvKeeps, Live
      <4> QED
        BY <4>1, <4>2 DEF SvInv
    <3> QED
      BY Zenon, <1>5, <2>2, <3>3, <3>4 DEF ListenerShut
  <2> QED
    BY Zenon, <1>5, <2>1, <2>2 DEF ListenerShut
<1>6. CASE OpenAttach
  <2>1. opener.xprt \in Active /\ xst[opener.xprt] = "none"
    BY Zenon, <1>1, <1>6 DEF OpenAttach, SvKeeps
  <2>2. /\ opener' \in [pc : {"idle", "attach"}, xprt : Active \cup {None}] /\ opener'.pc = "idle"
        /\ UNCHANGED <<lstn, accept, loop, victim>>
    BY <1>6 DEF OpenAttach
  <2>3. CASE UNCHANGED <<serv, xprt_list, xst>>
    <3>1. SvTypeOK' /\ SvCounts'
      BY <1>1, <2>2, <2>3, SvSameCounts DEF SvTypeOK
    <3>2. SvKeeps'
      BY Zenon, <1>1, <2>2, <2>3 DEF SvKeeps, Live
    <3> QED
      BY <3>1, <3>2 DEF SvInv
  <2>4. CASE ~ __server_has_fulled
    <3>1. opener.xprt # accept.client
      BY <1>1, <1>2, <2>1 DEF SvTypeOK, ServerAssumptions
    <3>2. Attach(opener.xprt) /\ loop \notin {"free", "done"}
      BY Zenon, <1>3, <1>6, <2>4 DEF OpenAttach
    <3>3. accept' \in [pc : {"none", "accept", "attach", "cool", "shut", "detach"},
                       client : Passive \cup {None}, nr : Nat]
      BY <1>1, <2>2 DEF SvTypeOK
    <3> QED
      BY Zenon, <2>1, <2>2, <2>4, <3>1, <3>2, <3>3, SvAttachKeeps
  <2> QED
    BY Zenon, <1>6, <2>3, <2>4 DEF OpenAttach
<1>7. ASSUME NEW x \in Xprts, CloseSelf(x)
      PROVE  SvInv'
  BY Zenon, <1>1, <1>7, SvDetachKeeps DEF CloseSelf, SvTypeOK
<1>8. ASSUME NEW t \in {"main", "stop"}, DestroyXprt(t)
      PROVE  SvInv'
  <2>1. victim[t] \in Xprts /\ UNCHANGED <<accept, opener, loop>>
    BY Zenon, <1>1, <1>8 DEF DestroyXprt, SvTypeOK
  <2>2. CASE xst[victim[t]] = "attached"
    BY ZenonT(30), <1>1, <1>8, <2>1, <2>2, SvDetachKeeps DEF DestroyXprt, SvTypeOK
  <2>3. CASE xst[victim[t]] = "detached" /\ UNCHANGED victim
    <3>1. UNCHANGED <<serv, xprt_list, xst>> /\ lstn' = [lstn EXCEPT !.event = FALSE]
      BY Zenon, <1>1, <1>8, <2>1, <2>3 DEF DestroyXprt, SvTypeOK
    <3>2. /\ lstn' \in [cool : BOOLEAN, event : BOOLEAN, closed : BOOLEAN, users : Int]
          /\ lstn'.closed = lstn.closed /\ ~ lstn'.event
      BY Zenon, <1>1, <3>1 DEF SvTypeOK
    <3>3. SvTypeOK' /\ SvCounts'
      BY ZenonT(30), <1>1, <2>1, <2>3, <3>1, <3>2, SvSameCounts DEF SvTypeOK
    <3>4. SvKeeps'
      BY Zenon, <1>1, <2>1, <2>3, <3>1, <3>2 DEF SvKeeps, Live
    <3> QED
      BY <3>3, <3>4 DEF SvInv
  <2>4. CASE /\ xst[victim[t]] = "detached"
             /\ victim[t] = Listener => ~ lstn.event
             /\ lstn' = [lstn EXCEPT !.closed = @ \/ victim[t] = Listener]
             /\ victim' = [victim EXCEPT ![t] = None] /\ UNCHANGED <<serv, xprt_list, xst>>
    <3>1. /\ lstn' \in [cool : BOOLEAN, event : BOOLEAN, closed : BOOLEAN, users : Int]
          /\ lstn'.closed <=> lstn.closed \/ victim[t] = Listener
          /\ lstn'.event = lstn.event
      BY <1>1, <2>4, Zenon DEF SvTypeOK
    <3>2. SvTypeOK' /\ SvCounts'
      BY ZenonT(30), <1>1, <2>1, <2>4, <3>1, SvSameCounts DEF SvTypeOK
    <3>4. \A u \in {"main", "stop"} :
            victim'[u] # None => xst'[victim'[u]] \in {"attached", "detached"}
      BY Zenon, <1>1, <2>4 DEF SvKeeps, SvTypeOK
    <3>5. lstn'.closed => ~ lstn'.event
      BY Zenon, <1>1, <2>4, <3>1 DEF SvKeeps
    <3>3. SvKeeps'
      BY Zenon, <1>1, <2>1, <2>4, <3>1, <3>4, <3>5 DEF SvKeeps, Live
    <3> QED
      BY <3>2, <3>3 DEF SvInv
  <2> QED
    BY Zenon, <1>8, <2>2, <2>3, <2>4 DEF DestroyXprt
<1> QED
  BY Zenon, <1>4, <1>5, <1>6, <1>7, <1>8


(* xprt_dict_free and the server_put at its end. *)
LEMMA SvReleaseStep ==
  ASSUME ServerAssumptions, SvInv, NEW x \in Xprts, ReleaseSteps(x)
  PROVE  SvInv'
<1>1. SvTypeOK /\ SvCounts /\ SvKeeps
  BY DEF SvInv
<1>2. Passive \subseteq Xprts /\ Active \subseteq Xprts /\ Listener \in Xprts
  BY DEF Xprts
<1>3. /\ UNCHANGED <<xprt_list, accept, opener, loop, victim>>
      /\ xst[x] \in {"detached", "resume", "put"}
      /\ xst' \in [Xprts -> {"none", "gone"} \cup LiveStates]
      /\ \A y \in Xprts : y # x => xst'[y] = xst[y]
      /\ xst'[x] \in {"resume", "put", "gone"}
  BY SMTT(30), <1>1 DEF ReleaseSteps, Release, ResumeListener, ServerPut, SvTypeOK, LiveStates
<1>4. \A t \in {"main", "stop"} : victim[t] # x
  <2>1. CASE Release(x)
    BY <2>1 DEF Release
  <2>2. CASE xst[x] # "detached"
    BY Zenon, <1>1, <1>3, <2>2 DEF SvKeeps, ServerAssumptions
  <2> QED
    BY <2>1, <2>2 DEF ReleaseSteps, ResumeListener, ServerPut
<1>5. loop \notin {"free", "done"}
  BY Zenon, <1>1, <1>3 DEF SvKeeps, Live
<1>6. /\ lstn' \in [cool : BOOLEAN, event : BOOLEAN, closed : BOOLEAN, users : Int]
      /\ lstn'.closed = lstn.closed
      /\ lstn'.event => lstn.event \/ ~ lstn.closed
  <2>1. CASE UNCHANGED lstn
    BY <1>1, <2>1 DEF SvTypeOK
  <2>2. CASE lstn' = [lstn EXCEPT !.cool = FALSE, !.event = TRUE] /\ ~ lstn.closed
    BY Zenon, <1>1, <2>2 DEF SvTypeOK
  <2>3. CASE lstn' = [lstn EXCEPT !.users = @ - 1]
    BY <1>1, <2>3 DEF SvTypeOK
  <2> QED
    BY Zenon, <2>1, <2>2, <2>3 DEF ReleaseSteps, Release, ResumeListener, ServerPut
<1>7. x = Listener => lstn.closed /\ accept.pc = "none"
  <2>1. CASE Release(x)
    BY <2>1 DEF Release
  <2>2. CASE xst[x] # "detached"
    BY ZenonT(30), <1>1, <1>3, <2>2 DEF SvKeeps
  <2> QED
    BY <2>1, <2>2 DEF ReleaseSteps, ResumeListener, ServerPut
<1>8. \A t \in {"main", "stop"} :
        victim[t] # None => xst'[victim[t]] \in {"attached", "detached"}
  BY <1>1, <1>3, <1>4 DEF SvKeeps, SvTypeOK
<1>9. CASE ServerPut(x)
  <2>1. SvCounts' /\ serv'.refs \in Nat
    BY <1>1, <1>9, SvPutCounts
  <2>2. /\ serv' \in [stats : {"INITING", "RUNNING", "STOPPING", "STOPPED", "DESTROYED"},
                      refs : Nat, nr : Nat, freed : BOOLEAN]
        /\ serv'.stats = serv.stats
    <3>1. serv' = [serv EXCEPT !.refs = serv.refs - 1]
      BY <1>9 DEF ServerPut
    <3>2. serv.refs - 1 \in Nat
      BY <1>1, <2>1, <3>1 DEF SvTypeOK
    <3> QED
      BY <1>1, <3>1, <3>2 DEF SvTypeOK
  <2>3. SvTypeOK'
    BY Zenon, <1>1, <1>3, <1>6, <2>2 DEF SvTypeOK
  <2>4. SvKeeps'
    BY ZenonT(30), <1>1, <1>2, <1>3, <1>5, <1>6, <1>7, <1>8, <2>2 DEF SvKeeps
  <2> QED
    BY <2>1, <2>3, <2>4 DEF SvInv
<1>10. CASE Release(x) \/ ResumeListener(x)
  <2>1. UNCHANGED serv /\ xst'[x] \in {"resume", "put"}
    BY <1>1, <1>10 DEF Release, ResumeListener, SvTypeOK
  <2>2. SvCounts'
    BY Zenon, <1>1, <1>3, <2>1, SvSameCounts DEF LiveStates
  <2>3. SvTypeOK'
    BY Zenon, <1>1, <1>3, <1>6, <2>1 DEF SvTypeOK
  <2>4. SvKeeps'
    BY Zenon, <1>1, <1>2, <1>3, <1>5, <1>6, <1>7, <1>8, <2>1 DEF SvKeeps
  <2> QED
    BY <2>2, <2>3, <2>4 DEF SvInv
<1> QED
  BY <1>9, <1>10 DEF ReleaseSteps

(* serv->lock, attach_xprt, detach_xprt, xprt_dict_free, stop_xprts and    *)
(* destroy_server: list, limit and references agree, and a server is freed *)
(* when nothing is attached and nobody is inside, for any numbers of       *)
(* transports and any limit.                                               *)
THEOREM ServerKeepsAccounts ==
  ASSUME ServerAssumptions
  PROVE  ServerSpec => []ServerAccounts
<1>1. ASSUME ServerInit
      PROVE  SvInv
  <2>1. Listener \in Xprts
    BY DEF Xprts
  <2>2. xprt_list \in Seq(Xprts) /\ Len(xprt_list) = 1 /\ xprt_list[1] = Listener
    BY SMTT(30), <1>1, <2>1 DEF ServerInit
  <2>3. {x \in Xprts : Live(x)} = {Listener}
    BY Zenon, <1>1, <2>1 DEF ServerInit, Live
  <2>4. Cardinality({Listener}) = 1
    BY CardSingleton
  <2>5. SvTypeOK
    BY SMTT(30), <1>1, <2>2 DEF ServerInit, SvTypeOK, LiveStates
  <2>8. \A x \in Xprts : Occurs(xprt_list, x) <=> xst[x] = "attached"
    BY SMTT(30), <1>1, <2>2 DEF ServerInit, Occurs
  <2>9. Distinct(xprt_list)
    BY <2>2 DEF Distinct
  <2>10. serv.nr = 1 /\ serv.refs = 2 /\ 1 <= MaxXprts
    BY <1>1 DEF ServerInit, ServerAssumptions
  <2>11. serv.refs = 1 + Cardinality({x \in Xprts : Live(x)})
    BY <2>3, <2>4, <2>10
  <2>6. SvCounts
    BY Zenon, <2>2, <2>8, <2>9, <2>10, <2>11 DEF SvCounts
  <2>7. SvKeeps
    BY Zenon, <1>1, <2>1 DEF ServerInit, SvKeeps
  <2> QED
    BY <2>5, <2>6, <2>7 DEF SvInv
<1>2. ASSUME SvInv, [ServerNext]_svrvars
      PROVE  SvInv'
  <2>1. CASE \/ AcceptAttach \/ ListenerShut \/ OpenAttach
             \/ \E x \in Xprts : CloseSelf(x)
             \/ \E t \in {"main", "stop"} : DestroyXprt(t)
    BY <1>2, <2>1, SvListStep
  <2>2. CASE \E x \in Xprts : ReleaseSteps(x)
    BY <1>2, <2>2, SvReleaseStep
  <2>3. CASE \/ UNCHANGED svrvars \/ ListenerReadable \/ Accept \/ CoolDown \/ OpenCheck
             \/ ServerGone \/ StopBegin \/ StopXprts \/ StopEnd \/ LoopBegin \/ LoopEnd
             \/ DestroyBegin \/ WaitUsers \/ DestroyXprts \/ FreeServer
    <3>1. UNCHANGED <<xprt_list, xst>>
      BY Zenon, <2>3 DEF svrvars, ListenerReadable, Accept, CoolDown, OpenCheck, ServerGone, StopBegin,
                  StopXprts, StopEnd, LoopBegin, LoopEnd, DestroyBegin, WaitUsers, DestroyXprts,
                  FreeServer
    <3> QED
      BY Zenon, <1>2, <2>3, <3>1, SvQuietStep
  <2> QED
    BY Zenon, <1>2, <2>1, <2>2, <2>3 DEF ServerNext, AcceptSteps, StopSteps, MainSteps
<1>3. ASSUME SvInv
      PROVE  ServerAccounts
  <2>1. SvTypeOK /\ SvCounts /\ SvKeeps
    BY <1>3 DEF SvInv
  <2>2. ASSUME loop \in {"free", "done"}
        PROVE  xprt_list = <<>> /\ serv.refs = 1 /\ accept.pc = "none" /\ victim["stop"] = None
    <3>1. \A x \in Xprts : ~ Live(x)
      BY <2>1, <2>2 DEF SvKeeps
    <3>2. {x \in Xprts : Live(x)} = {}
      BY <3>1
    <3>8. Cardinality({x \in Xprts : Live(x)}) = 0
      BY <3>2, CardEmpty
    <3>3. serv.refs = 1
      BY <2>1, <3>8 DEF SvCounts
    <3>4. \A x \in Xprts : ~ Occurs(xprt_list, x)
      BY <2>1, <3>1 DEF SvCounts, Live
    <3>5. xprt_list = <<>>
      BY <2>1, <3>4 DEF SvTypeOK, Occurs
    <3>6. accept.pc = "none"
      BY <2>1, <3>1 DEF SvKeeps, Live, Xprts
    <3>7. victim["stop"] = None
      BY <2>1, <3>1 DEF SvKeeps, SvTypeOK, Live
    <3> QED
      BY <3>3, <3>5, <3>6, <3>7
  <2> QED
    BY <2>1, <2>2 DEF SvCounts, ServerAccounts
<1> QED
  BY <1>1, <1>2, <1>3, PTL DEF ServerSpec

=============================================================================
