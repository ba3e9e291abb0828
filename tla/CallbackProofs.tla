--------------------------- MODULE CallbackProofs ---------------------------
(***************************************************************************)
(* Proofs about the order of callbacks: the calls the event loops make     *)
(* when every one of them has passed, and those of a transport.            *)
(***************************************************************************)
EXTENDS EventRcu, Xprt, ListLemmas

-----------------------------------------------------------------------------
(***************************************************************************)
(* EventRcu.  Every slot keeps its heads in the order in which they came,  *)
(* also while it works on them: the private queue of process_rcus followed *)
(* by the shared one is one line.  A head that was on every line before    *)
(* another came is ahead of it on each, leaves each before it, and so has  *)
(* its last slot first.                                                    *)
(***************************************************************************)
RcuAssumptions ==
  \E n \in Nat \ {0} : RcuSlots = 0 .. n - 1

Line(s) == spliced[s] \o rcu_queue[s]

(* slot s has nothing to do with head h any more *)
Passed(h, s) == rcu[h].next > s /\ ~ Occurs(Line(s), h)

RcuTypeOK ==
  /\ rcu \in [Heads -> [pc : {"unused", "adding", "sched"}, refcnt : Nat, next : Nat]]
  /\ rcu_queue \in [RcuSlots -> Seq(Heads)] /\ spliced \in [RcuSlots -> Seq(Heads)]
  /\ passing \in [RcuSlots -> BOOLEAN]
  /\ earlier \in [Heads -> SUBSET Heads]
  /\ called \in Seq(Heads)

RcuPlaces ==
  /\ \A h \in Heads : /\ rcu[h].pc = "unused" => rcu[h].next = 0
                      /\ rcu[h].pc = "adding" => rcu[h].next \in RcuSlots
                      /\ rcu[h].pc = "sched" => \A s \in RcuSlots : rcu[h].next > s
  /\ \A s \in RcuSlots :
       /\ ~ passing[s] => spliced[s] = <<>>
       /\ Distinct(Line(s))
       /\ \A h \in Heads : Occurs(Line(s), h) => rcu[h].next > s

RcuCounts ==
  \A h \in Heads : rcu[h].pc # "unused" =>
    rcu[h].refcnt = Cardinality({s \in RcuSlots : ~ Passed(h, s)})

RcuOrder ==
  \A h \in Heads : \A g \in earlier[h] :
    /\ rcu[g].pc = "sched" /\ rcu[h].pc # "unused" /\ g # h
    /\ \A s \in RcuSlots :
         /\ Passed(h, s) => Passed(g, s)
         /\ \A i, j \in 1 .. Len(Line(s)) : Line(s)[i] = h /\ Line(s)[j] = g => j < i

(* calls c are after those that were earlier *)
InTurn(c, e) == \A i \in 1 .. Len(c) : \A g \in e[c[i]] : \E j \in 1 .. i - 1 : c[j] = g

RcuCalled ==
  /\ Distinct(called)
  /\ \A h \in Heads : Occurs(called, h) <=> rcu[h].pc # "unused" /\ rcu[h].refcnt = 0
  /\ InTurn(called, earlier)

RcuInv == RcuTypeOK /\ RcuPlaces /\ RcuCounts /\ RcuOrder /\ RcuCalled

(* How a line changes: not at all, by one head at its end, or at its front. *)
LEMMA LineKept ==
  ASSUME RcuTypeOK, NEW s \in RcuSlots
  PROVE  /\ Line(s) \in Seq(Heads)
         /\ <<>> \o Line(s) = Line(s)
         /\ rcu_queue[s] \o <<>> = rcu_queue[s]
         /\ \A h \in Heads : spliced[s] \o Append(rcu_queue[s], h) = Append(Line(s), h)
         /\ spliced[s] # <<>> => /\ Line(s) # <<>> /\ Head(Line(s)) = Head(spliced[s])
                                 /\ Tail(spliced[s]) \o rcu_queue[s] = Tail(Line(s))
<1> DEFINE a == spliced[s]
           b == rcu_queue[s]
<1>1. a \in Seq(Heads) /\ b \in Seq(Heads)
  BY DEF RcuTypeOK
<1> HIDE DEF a, b
<1>2. a \o b \in Seq(Heads) /\ <<>> \o (a \o b) = a \o b /\ b \o <<>> = b
  BY <1>1
<1>3. \A h \in Heads : a \o Append(b, h) = Append(a \o b, h)
  BY <1>1
<1>4. a # <<>> => /\ a \o b # <<>> /\ Head(a \o b) = Head(a)
                  /\ Tail(a) \o b = Tail(a \o b)
  BY <1>1
<1> QED
  BY Zenon, <1>2, <1>3, <1>4 DEF Line, a, b

(* One more head at the end of a line. *)
LEMMA LineAdds ==
  ASSUME NEW l \in Seq(Heads), NEW h \in Heads, Distinct(l), ~ Occurs(l, h)
  PROVE  LET m == Append(l, h)
         IN  /\ m \in Seq(Heads) /\ Distinct(m)
             /\ \A g \in Heads : Occurs(m, g) <=> Occurs(l, g) \/ g = h
             /\ Len(m) = Len(l) + 1 /\ m[Len(l) + 1] = h
             /\ \A i \in 1 .. Len(l) : m[i] = l[i]
BY ListAddTailFacts DEF list_add_tail

(* The first head of a line leaves it. *)
LEMMA LineDrops ==
  ASSUME NEW l \in Seq(Heads), Distinct(l), l # <<>>
  PROVE  /\ Head(l) \in Heads /\ Head(l) = l[1] /\ Len(l) \in Nat /\ Len(l) >= 1
         /\ Tail(l) \in Seq(Heads) /\ Distinct(Tail(l))
         /\ \A g \in Heads : Occurs(Tail(l), g) <=> Occurs(l, g) /\ g # Head(l)
         /\ Len(Tail(l)) = Len(l) - 1
         /\ \A i \in 1 .. Len(l) - 1 : Tail(l)[i] = l[i + 1]
<1>1. /\ Head(l) \in Heads /\ Head(l) = l[1] /\ Tail(l) \in Seq(Heads)
      /\ Len(Tail(l)) = Len(l) - 1 /\ Len(l) >= 1
      /\ \A i \in 1 .. Len(l) - 1 : Tail(l)[i] = l[i + 1]
  OBVIOUS
<1> DEFINE t == Tail(l)
<1>2. t \in Seq(Heads) /\ Len(t) = Len(l) - 1 /\ \A i \in 1 .. Len(l) - 1 : t[i] = l[i + 1]
  BY <1>1
<1> HIDE DEF t
<1>3. Distinct(t)
  <2> SUFFICES ASSUME NEW i \in 1 .. Len(t), NEW j \in 1 .. Len(t), t[i] = t[j]
               PROVE  i = j
    BY DEF Distinct
  <2>1. i + 1 \in 1 .. Len(l) /\ j + 1 \in 1 .. Len(l) /\ l[i + 1] = l[j + 1]
    BY <1>1, <1>2
  <2> QED
    BY <1>2, <2>1 DEF Distinct
<1>4. \A g \in Heads : Occurs(t, g) => Occurs(l, g) /\ g # l[1]
  <2> SUFFICES ASSUME NEW i \in 1 .. Len(t)
               PROVE  Occurs(l, t[i]) /\ t[i] # l[1]
    BY DEF Occurs
  <2>1. i + 1 \in 1 .. Len(l) /\ 1 \in 1 .. Len(l) /\ i + 1 # 1 /\ t[i] = l[i + 1]
    BY <1>1, <1>2
  <2> QED
    BY <2>1 DEF Distinct, Occurs
<1>5. \A g \in Heads : Occurs(l, g) /\ g # l[1] => Occurs(t, g)
  <2> SUFFICES ASSUME NEW i \in 1 .. Len(l), l[i] # l[1]
               PROVE  Occurs(t, l[i])
    BY DEF Occurs
  <2>1. i - 1 \in 1 .. Len(t) /\ t[i - 1] = l[i]
    BY <1>1, <1>2
  <2> QED
    BY <2>1 DEF Occurs
<1> QED
  BY <1>1, <1>3, <1>4, <1>5 DEF t

LEMMA RcuSlotFacts ==
  ASSUME RcuAssumptions
  PROVE  /\ RcuSlots \subseteq Nat /\ 0 \in RcuSlots
         /\ IsFiniteSet(RcuSlots) /\ Cardinality(RcuSlots) \in Nat \ {0}
         /\ \A k \in RcuSlots : k + 1 \notin RcuSlots => \A s \in RcuSlots : k + 1 > s
         /\ \A k \in RcuSlots : k + 1 \in Nat
<1>1. PICK n \in Nat \ {0} : RcuSlots = 0 .. n - 1
  BY DEF RcuAssumptions
<1>2. IsFiniteSet(RcuSlots) /\ Cardinality(RcuSlots) = n
  BY <1>1, CardBelow
<1> QED
  BY <1>1, <1>2

(* process_rcus takes the queue and puts back what is left: the line is the *)
(* same line.                                                              *)
LEMMA RcuSplice ==
  ASSUME RcuAssumptions, RcuInv,
         \E s \in RcuSlots : ProcessRcus(s) \/ EndRcus(s)
  PROVE  RcuInv'
<1>1. RcuTypeOK /\ RcuPlaces /\ RcuCounts /\ RcuOrder /\ RcuCalled
  BY DEF RcuInv
<1>2. PICK s \in RcuSlots : ProcessRcus(s) \/ EndRcus(s)
  OBVIOUS
<1>3. UNCHANGED <<rcu, called, earlier>>
  BY Zenon, <1>2 DEF ProcessRcus, EndRcus
<1>4. /\ RcuTypeOK'
      /\ \A u \in RcuSlots : ~ passing'[u] => spliced'[u] = <<>>
      /\ \A u \in RcuSlots : u # s => spliced'[u] = spliced[u] /\ rcu_queue'[u] = rcu_queue[u]
  <2>1. CASE ProcessRcus(s)
    BY Zenon, <1>1, <2>1 DEF ProcessRcus, RcuTypeOK, RcuPlaces
  <2>2. CASE EndRcus(s)
    <3>1. spliced[s] \o rcu_queue[s] \in Seq(Heads)
      BY Zenon, <1>1, LineKept DEF Line
    <3> QED
      BY <1>1, <2>2, <3>1 DEF EndRcus, RcuTypeOK, RcuPlaces
  <2> QED
    BY <1>2, <2>1, <2>2
<1>5. spliced'[s] \o rcu_queue'[s] = Line(s)
  <2>1. CASE ProcessRcus(s)
    <3>1. spliced'[s] = rcu_queue[s] /\ rcu_queue'[s] = <<>> /\ spliced[s] = <<>>
      BY Zenon, <1>1, <2>1 DEF ProcessRcus, RcuTypeOK, RcuPlaces
    <3>2. rcu_queue[s] \o <<>> = rcu_queue[s] /\ <<>> \o rcu_queue[s] = rcu_queue[s]
      BY <1>1 DEF RcuTypeOK
    <3> QED
      BY <3>1, <3>2 DEF Line
  <2>2. CASE EndRcus(s)
    <3>1. spliced'[s] = <<>> /\ rcu_queue'[s] = Line(s)
      BY Zenon, <1>1, <2>2 DEF EndRcus, RcuTypeOK, Line
    <3> QED
      BY Zenon, <1>1, <3>1, LineKept
  <2> QED
    BY Zenon, <1>2, <2>1, <2>2
<1>6. \A u \in RcuSlots : Line(u)' = Line(u)
  BY Zenon, <1>4, <1>5 DEF Line
<1>7. \A h \in Heads, u \in RcuSlots : Passed(h, u)' <=> Passed(h, u)
  BY <1>3, <1>6 DEF Passed
<1>8. RcuPlaces'
  BY Zenon, <1>1, <1>3, <1>4, <1>6 DEF RcuPlaces
<1>9. RcuCounts'
  <2>1. ASSUME NEW h \in Heads
        PROVE  {u \in RcuSlots : ~ Passed(h, u)}' = {u \in RcuSlots : ~ Passed(h, u)}
    BY Zenon, <1>7
  <2> QED
    BY <1>1, <1>3, <2>1 DEF RcuCounts
<1>10. RcuOrder'
  <2>1. \A h \in Heads : \A g \in earlier[h] : g \in Heads
    BY Zenon, <1>1 DEF RcuTypeOK
  <2> QED
    BY ZenonT(30), <1>1, <1>3, <1>6, <1>7, <2>1 DEF RcuOrder
<1>11. RcuCalled'
  BY <1>1, <1>3 DEF RcuCalled
<1> QED
  BY Zenon, <1>4, <1>8, <1>9, <1>10, <1>11 DEF RcuInv

(* call_rcu_sched begins: the head waits for every slot. *)
LEMMA RcuBegins ==
  ASSUME RcuAssumptions, RcuInv, NEW h \in Heads, CallRcu(h)
  PROVE  RcuInv'
<1>1. RcuTypeOK /\ RcuPlaces /\ RcuCounts /\ RcuOrder /\ RcuCalled
  BY DEF RcuInv
<1>2. /\ rcu[h].pc = "unused" /\ UNCHANGED <<rcu_queue, spliced, passing, called>>
      /\ rcu'[h] = [pc |-> "adding", refcnt |-> Cardinality(RcuSlots), next |-> 0]
      /\ \A g \in Heads : g # h => rcu'[g] = rcu[g] /\ earlier'[g] = earlier[g]
      /\ earlier'[h] = {g \in Heads : rcu[g].pc = "sched"}
  BY <1>1 DEF CallRcu, RcuTypeOK
<1>3. RcuTypeOK'
  BY <1>1, RcuSlotFacts DEF CallRcu, RcuTypeOK
<1>4. \A u \in RcuSlots : Line(u)' = Line(u)
  BY <1>2 DEF Line
<1>5. \A u \in RcuSlots : u \in Nat /\ u >= 0
  BY RcuSlotFacts
<1>6. \A u \in RcuSlots : ~ Passed(h, u) /\ ~ Passed(h, u)' /\ ~ Occurs(Line(u), h)
  <2>1. \A u \in RcuSlots : ~ (0 > u)
    BY <1>5
  <2> QED
    BY SMTT(30), <1>1, <1>2, <2>1 DEF Passed, RcuPlaces
<1>7. \A g \in Heads, u \in RcuSlots : Passed(g, u)' <=> Passed(g, u)
  <2>1. \A g \in Heads, u \in RcuSlots : g # h => (Passed(g, u)' <=> Passed(g, u))
    BY Zenon, <1>2, <1>4 DEF Passed
  <2> QED
    BY Zenon, <1>6, <2>1
<1>8. RcuPlaces'
  <2>1. \A g \in Heads : /\ rcu'[g].pc = "unused" => rcu'[g].next = 0
                         /\ rcu'[g].pc = "adding" => rcu'[g].next \in RcuSlots
                         /\ rcu'[g].pc = "sched" => \A u \in RcuSlots : rcu'[g].next > u
    BY <1>1, <1>2, RcuSlotFacts DEF RcuPlaces
  <2>2. \A u \in RcuSlots : \A g \in Heads : Occurs(Line(u), g) => rcu'[g].next > u
    BY Zenon, <1>1, <1>2, <1>6 DEF RcuPlaces
  <2> QED
    BY Zenon, <1>1, <1>2, <1>4, <2>1, <2>2 DEF RcuPlaces
<1>9. RcuCounts'
  <2>1. ASSUME NEW g \in Heads, rcu'[g].pc # "unused"
        PROVE  rcu'[g].refcnt = Cardinality({u \in RcuSlots : ~ Passed(g, u)}')
    <3>1. {u \in RcuSlots : ~ Passed(g, u)}' = {u \in RcuSlots : ~ Passed(g, u)}
      BY <1>7
    <3>2. CASE g = h
      <4>1. {u \in RcuSlots : ~ Passed(h, u)} = RcuSlots
        BY <1>6
      <4>2. {u \in RcuSlots : ~ Passed(g, u)}' = RcuSlots
        BY Zenon, <3>1, <3>2, <4>1
      <4>3. rcu'[h].refcnt = Cardinality(RcuSlots)
        BY <1>2
      <4> QED
        BY <3>2, <4>2, <4>3
    <3>3. CASE g # h
      BY ZenonT(30), <1>1, <1>2, <2>1, <3>1, <3>3 DEF RcuCounts
    <3> QED
      BY <3>2, <3>3
  <2> QED
    BY <2>1 DEF RcuCounts
<1>10. RcuOrder'
  <2> SUFFICES ASSUME NEW k \in Heads, NEW g \in earlier'[k]
               PROVE  /\ rcu'[g].pc = "sched" /\ rcu'[k].pc # "unused" /\ g # k
                      /\ \A u \in RcuSlots :
                           /\ Passed(k, u)' => Passed(g, u)'
                           /\ \A i, j \in 1 .. Len(Line(u)) :
                                Line(u)[i] = k /\ Line(u)[j] = g => j < i
    BY ZenonT(30), <1>4 DEF RcuOrder
  <2>1. CASE k = h
    <3>1. g \in Heads /\ g # h /\ rcu[g].pc = "sched"
      BY <1>2, <2>1
    <3>2. \A u \in RcuSlots : \A i \in 1 .. Len(Line(u)) : Line(u)[i] # k
      BY Zenon, <1>6, <2>1 DEF Occurs
    <3> QED
      BY <1>2, <1>6, <2>1, <3>1, <3>2
  <2>2. CASE k # h
    <3>1. g \in earlier[k] /\ g \in Heads /\ rcu[g].pc = "sched" /\ g # h
      BY ZenonT(30), <1>1, <1>2, <2>2 DEF RcuOrder, RcuTypeOK
    <3> QED
      BY ZenonT(30), <1>1, <1>2, <1>7, <2>2, <3>1 DEF RcuOrder
  <2> QED
    BY Zenon, <2>1, <2>2
<1>11. RcuCalled'
  <2>1. ~ Occurs(called, h)
    BY Zenon, <1>1, <1>2 DEF RcuCalled
  <2>2. \A g \in Heads : Occurs(called, g) <=> rcu'[g].pc # "unused" /\ rcu'[g].refcnt = 0
    BY <1>1, <1>2, <2>1, RcuSlotFacts DEF RcuCalled
  <2>3. \A i \in 1 .. Len(called) : called[i] \in Heads /\ called[i] # h
    BY <1>1, <2>1 DEF Occurs, RcuTypeOK
  <2>4. called' = called /\ \A i \in 1 .. Len(called) : earlier'[called[i]] = earlier[called[i]]
    BY <1>2, <2>3
  <2>5. Distinct(called') /\ \A g \in Heads : Occurs(called', g) <=> Occurs(called, g)
    BY <1>1, <2>4 DEF RcuCalled
  <2>6. InTurn(called', earlier')
    <3>1. InTurn(called, earlier')
      BY Zenon, <1>1, <2>4 DEF RcuCalled, InTurn
    <3> QED
      BY <2>4, <3>1
  <2> QED
    BY Zenon, <2>2, <2>4, <2>5, <2>6 DEF RcuCalled
<1> QED
  BY <1>3, <1>8, <1>9, <1>10, <1>11 DEF RcuInv

(* The head goes to the end of the line of its next slot. *)
LEMMA RcuAdds ==
  ASSUME RcuAssumptions, RcuInv, NEW h \in Heads, AddToSlot(h)
  PROVE  RcuInv'
<1>1. RcuTypeOK /\ RcuPlaces /\ RcuCounts /\ RcuOrder /\ RcuCalled
  BY DEF RcuInv
<1>0. PICK s \in RcuSlots : s = rcu[h].next
  BY <1>1 DEF AddToSlot, RcuPlaces
<1>2. s \in RcuSlots /\ s \in Nat
  BY RcuSlotFacts
<1>3. /\ rcu[h].pc = "adding" /\ UNCHANGED <<spliced, passing, called, earlier>>
      /\ rcu'[h].pc = (IF s + 1 \in RcuSlots THEN "adding" ELSE "sched")
      /\ rcu'[h].next = s + 1 /\ rcu'[h].refcnt = rcu[h].refcnt
      /\ \A g \in Heads : g # h => rcu'[g] = rcu[g]
      /\ rcu_queue'[s] = Append(rcu_queue[s], h)
      /\ \A u \in RcuSlots : u # s => rcu_queue'[u] = rcu_queue[u]
  BY Zenon, <1>0, <1>1, <1>2 DEF AddToSlot, RcuTypeOK, list_add_tail
<1>4. RcuTypeOK'
  <2>1. rcu_queue' \in [RcuSlots -> Seq(Heads)]
    BY <1>0, <1>1, <1>2 DEF AddToSlot, RcuTypeOK, list_add_tail
  <2>2. rcu' \in [Heads -> [pc : {"unused", "adding", "sched"}, refcnt : Nat, next : Nat]]
    <3>1. s + 1 \in Nat
      BY <1>2
    <3>2. ASSUME NEW p \in {"unused", "adding", "sched"},
                 rcu' = [rcu EXCEPT ![h].next = s + 1, ![h].pc = p]
          PROVE  rcu' \in [Heads -> [pc : {"unused", "adding", "sched"}, refcnt : Nat, next : Nat]]
      BY ZenonT(30), <1>1, <3>1, <3>2 DEF RcuTypeOK
    <3> QED
      BY Zenon, <1>0, <3>2 DEF AddToSlot
  <2> QED
    BY Zenon, <1>1, <1>3, <2>1, <2>2 DEF RcuTypeOK
<1>5. ~ Occurs(Line(s), h)
  <2>1. ~ (s > s)
    BY <1>2
  <2> QED
    BY Zenon, <1>0, <1>1, <1>2, <2>1 DEF RcuPlaces
<1>6. Line(s) \in Seq(Heads) /\ Line(s)' = Append(Line(s), h)
  BY Zenon, <1>1, <1>2, <1>3, LineKept DEF Line
<1>7. \A u \in RcuSlots : u # s => Line(u)' = Line(u)
  BY Zenon, <1>3 DEF Line
<1>8. /\ Distinct(Line(s)')
      /\ \A g \in Heads : Occurs(Line(s)', g) <=> Occurs(Line(s), g) \/ g = h
      /\ Len(Line(s)') = Len(Line(s)) + 1 /\ Line(s)'[Len(Line(s)) + 1] = h
      /\ \A i \in 1 .. Len(Line(s)) : Line(s)'[i] = Line(s)[i]
  BY <1>1, <1>2, <1>5, <1>6, LineAdds DEF RcuPlaces
<1>9. \A u \in RcuSlots : u \in Nat /\ u # s => (s + 1 > u <=> s > u)
  BY <1>2, RcuSlotFacts
<1>10. \A g \in Heads, u \in RcuSlots : Passed(g, u)' <=> Passed(g, u)
  <2>1. ASSUME NEW g \in Heads, NEW u \in RcuSlots
        PROVE  Passed(g, u)' <=> Passed(g, u)
    <3>1. CASE u = s /\ g = h
      <4>1. ~ (s > s)
        BY <1>2
      <4>2. ~ Passed(h, s)
        BY <1>0, <4>1 DEF Passed
      <4>3. ~ Passed(h, s)'
        BY Zenon, <1>8 DEF Passed
      <4> QED
        BY <3>1, <4>2, <4>3
    <3>2. CASE u = s /\ g # h
      <4>1. Passed(g, s)' <=> rcu'[g].next > s /\ ~ Occurs(Line(s)', g)
        BY Zenon DEF Passed
      <4> QED
        BY Zenon, <1>3, <1>8, <3>2, <4>1 DEF Passed
    <3>3. CASE u # s /\ g = h
      <4>1. Passed(h, u)' <=> rcu'[h].next > u /\ ~ Occurs(Line(u)', h)
        BY Zenon DEF Passed
      <4>2. rcu'[h].next > u <=> rcu[h].next > u
        BY Zenon, <1>0, <1>3, <1>9, <3>3, RcuSlotFacts
      <4> QED
        BY Zenon, <1>7, <3>3, <4>1, <4>2 DEF Passed
    <3>4. CASE u # s /\ g # h
      BY Zenon, <1>3, <1>7, <3>4 DEF Passed
    <3> QED
      BY <3>1, <3>2, <3>3, <3>4
  <2> QED
    BY <2>1
<1>11. RcuPlaces'
  <2>1. \A g \in Heads : /\ rcu'[g].pc = "unused" => rcu'[g].next = 0
                         /\ rcu'[g].pc = "adding" => rcu'[g].next \in RcuSlots
                         /\ rcu'[g].pc = "sched" => \A u \in RcuSlots : rcu'[g].next > u
    BY ZenonT(30), <1>1, <1>2, <1>3, RcuSlotFacts DEF RcuPlaces
  <2>2. ASSUME NEW u \in RcuSlots, NEW g \in Heads, Occurs(Line(u)', g)
        PROVE  rcu'[g].next > u
    <3>1. CASE u = s /\ g = h
      BY <1>2, <1>3, <3>1
    <3>2. CASE u # s \/ g # h
      <4>1. Occurs(Line(u), g)
        BY Zenon, <1>7, <1>8, <2>2, <3>2
      <4>2. rcu[g].next > u
        BY Zenon, <1>1, <4>1 DEF RcuPlaces
      <4>3. CASE g = h
        BY <1>0, <1>2, <1>3, <4>2, <4>3, RcuSlotFacts
      <4>4. CASE g # h
        BY Zenon, <1>3, <4>2, <4>4
      <4> QED
        BY <4>3, <4>4
    <3> QED
      BY <3>1, <3>2
  <2>3. \A u \in RcuSlots : Distinct(Line(u)')
    BY Zenon, <1>1, <1>7, <1>8 DEF RcuPlaces
  <2>4. \A u \in RcuSlots : ~ passing'[u] => spliced'[u] = <<>>
    BY Zenon, <1>1, <1>3 DEF RcuPlaces
  <2> QED
    BY Zenon, <2>1, <2>2, <2>3, <2>4 DEF RcuPlaces
<1>12. RcuCounts'
  <2>1. ASSUME NEW g \in Heads, rcu'[g].pc # "unused"
        PROVE  rcu'[g].refcnt = Cardinality({u \in RcuSlots : ~ Passed(g, u)}')
    <3>1. {u \in RcuSlots : ~ Passed(g, u)}' = {u \in RcuSlots : ~ Passed(g, u)}
      BY <1>10
    <3>2. rcu[g].pc # "unused" /\ rcu'[g].refcnt = rcu[g].refcnt
      BY Zenon, <1>3, <2>1
    <3> QED
      BY <1>1, <3>1, <3>2 DEF RcuCounts
  <2> QED
    BY <2>1 DEF RcuCounts
<1>13. RcuOrder'
  <2> SUFFICES ASSUME NEW k \in Heads, NEW g \in earlier[k]
               PROVE  /\ rcu'[g].pc = "sched" /\ rcu'[k].pc # "unused" /\ g # k
                      /\ \A u \in RcuSlots :
                           /\ Passed(k, u)' => Passed(g, u)'
                           /\ \A i, j \in 1 .. Len(Line(u)') :
                                Line(u)'[i] = k /\ Line(u)'[j] = g => j < i
    BY Zenon, <1>3 DEF RcuOrder
  <2>1. /\ rcu[g].pc = "sched" /\ rcu[k].pc # "unused" /\ g # k /\ g # h /\ g \in Heads
        /\ \A u \in RcuSlots :
             /\ Passed(k, u) => Passed(g, u)
             /\ \A i, j \in 1 .. Len(Line(u)) : Line(u)[i] = k /\ Line(u)[j] = g => j < i
    BY ZenonT(30), <1>1, <1>3 DEF RcuOrder, RcuTypeOK
  <2>2. rcu'[g].pc = "sched" /\ rcu'[k].pc # "unused" /\ g # k
    BY Zenon, <1>3, <2>1
  <2>3. \A u \in RcuSlots : Passed(k, u)' => Passed(g, u)'
    BY <1>10, <2>1
  <2>4. ASSUME NEW i \in 1 .. Len(Line(s)'), NEW j \in 1 .. Len(Line(s)'),
               Line(s)'[i] = k, Line(s)'[j] = g
        PROVE  j < i
    <3> DEFINE l == Line(s)
               m == Line(s)'
    <3>1. /\ Len(m) = Len(l) + 1 /\ m[Len(l) + 1] = h /\ Len(l) \in Nat
          /\ \A p \in 1 .. Len(l) : m[p] = l[p]
          /\ \A p, q \in 1 .. Len(l) : l[p] = k /\ l[q] = g => q < p
          /\ i \in 1 .. Len(m) /\ j \in 1 .. Len(m) /\ m[i] = k /\ m[j] = g /\ g # h
      BY <1>2, <1>6, <1>8, <2>1, <2>4
    <3> HIDE DEF l, m
    <3> QED
      BY <3>1
  <2>5. ASSUME NEW u \in RcuSlots
        PROVE  \A i, j \in 1 .. Len(Line(u)') : Line(u)'[i] = k /\ Line(u)'[j] = g => j < i
    <3>1. CASE u = s
      BY Zenon, <2>4, <3>1
    <3>2. CASE u # s
      BY Zenon, <1>7, <2>1, <3>2
    <3> QED
      BY <3>1, <3>2
  <2> QED
    BY Zenon, <2>2, <2>3, <2>5
<1>14. RcuCalled'
  <2>1. \A g \in Heads : /\ rcu'[g].pc # "unused" <=> rcu[g].pc # "unused"
                         /\ rcu'[g].refcnt = rcu[g].refcnt
    BY Zenon, <1>3
  <2>2. Distinct(called') /\ \A g \in Heads : Occurs(called', g) <=> Occurs(called, g)
    BY Zenon, <1>1, <1>3 DEF RcuCalled
  <2> QED
    BY Zenon, <1>1, <1>3, <2>1, <2>2 DEF RcuCalled
<1> QED
  BY <1>4, <1>11, <1>12, <1>13, <1>14 DEF RcuInv

(* The first head of a slot's line leaves it; with its last slot it is     *)
(* called.                                                                 *)
LEMMA RcuLeaves ==
  ASSUME RcuAssumptions, RcuInv, NEW s \in RcuSlots, RcuTimedout(s)
  PROVE  RcuInv'
<1>1. RcuTypeOK /\ RcuPlaces /\ RcuCounts /\ RcuOrder /\ RcuCalled
  BY DEF RcuInv
<1>2. PICK h : h = Head(spliced[s])
  OBVIOUS
<1>3. /\ Line(s) \in Seq(Heads) /\ Distinct(Line(s))
      /\ Line(s) # <<>> /\ Head(Line(s)) = h /\ Tail(spliced[s]) \o rcu_queue[s] = Tail(Line(s))
  BY Zenon, <1>1, <1>2, LineKept DEF RcuTimedout, RcuPlaces
<1>4. /\ h \in Heads /\ h = Line(s)[1] /\ Len(Line(s)) \in Nat /\ Len(Line(s)) >= 1
      /\ Tail(Line(s)) \in Seq(Heads) /\ Distinct(Tail(Line(s)))
      /\ \A g \in Heads : Occurs(Tail(Line(s)), g) <=> Occurs(Line(s), g) /\ g # h
      /\ Len(Tail(Line(s))) = Len(Line(s)) - 1
      /\ \A i \in 1 .. Len(Line(s)) - 1 : Tail(Line(s))[i] = Line(s)[i + 1]
  BY Zenon, <1>3, LineDrops
<1>5. Occurs(Line(s), h) /\ rcu[h].next > s /\ rcu[h].pc # "unused"
  <2>1. 1 \in 1 .. Len(Line(s)) /\ Line(s)[1] = h
    <3>1. Len(Line(s)) \in Nat /\ Len(Line(s)) >= 1 /\ Line(s)[1] = h
      BY <1>4
    <3> QED
      BY <3>1
  <2>2. Occurs(Line(s), h)
    BY Zenon, <2>1 DEF Occurs
  <2>3. rcu[h].next > s
    BY Zenon, <1>1, <1>4, <2>2 DEF RcuPlaces
  <2>4. ~ (0 > s)
    BY RcuSlotFacts
  <2> QED
    BY Zenon, <1>1, <1>4, <2>2, <2>3, <2>4 DEF RcuPlaces
<1>6. /\ UNCHANGED <<rcu_queue, passing, earlier>> /\ spliced' = [spliced EXCEPT ![s] = Tail(@)]
      /\ rcu' = [rcu EXCEPT ![h].refcnt = @ - 1]
      /\ called' = IF rcu[h].refcnt = 1 THEN Append(called, h) ELSE called
      /\ passing[s] /\ spliced[s] # <<>>
  BY Zenon, <1>2 DEF RcuTimedout
<1>7. /\ rcu'[h].pc = rcu[h].pc /\ rcu'[h].next = rcu[h].next /\ rcu'[h].refcnt = rcu[h].refcnt - 1
      /\ \A g \in Heads : g # h => rcu'[g] = rcu[g]
  BY <1>1, <1>4, <1>6 DEF RcuTypeOK
<1>8. Line(s)' = Tail(Line(s)) /\ \A u \in RcuSlots : u # s => Line(u)' = Line(u)
  BY Zenon, <1>1, <1>3, <1>6 DEF Line, RcuTypeOK
<1>9. \A g \in Heads : g # h => \A u \in RcuSlots : Passed(g, u)' <=> Passed(g, u)
  <2>1. ASSUME NEW g \in Heads, g # h, NEW u \in RcuSlots
        PROVE  Passed(g, u)' <=> Passed(g, u)
    <3>1. Occurs(Line(u)', g) <=> Occurs(Line(u), g)
      BY Zenon, <1>4, <1>8, <2>1
    <3> QED
      BY <1>7, <2>1, <3>1 DEF Passed
  <2> QED
    BY Zenon, <2>1
<1>10. /\ ~ Passed(h, s) /\ Passed(h, s)'
       /\ \A u \in RcuSlots : u # s => (Passed(h, u)' <=> Passed(h, u))
  <2>1. ~ Passed(h, s)
    BY Zenon, <1>5 DEF Passed
  <2>2. Passed(h, s)'
    BY Zenon, <1>4, <1>5, <1>7, <1>8 DEF Passed
  <2>3. \A u \in RcuSlots : u # s => (Passed(h, u)' <=> Passed(h, u))
    BY Zenon, <1>7, <1>8 DEF Passed
  <2> QED
    BY <2>1, <2>2, <2>3
<1>11. /\ IsFiniteSet({u \in RcuSlots : ~ Passed(h, u)})
       /\ IsFiniteSet({u \in RcuSlots : ~ Passed(h, u)}')
       /\ rcu[h].refcnt = Cardinality({u \in RcuSlots : ~ Passed(h, u)})
       /\ Cardinality({u \in RcuSlots : ~ Passed(h, u)}') = rcu[h].refcnt - 1
       /\ rcu[h].refcnt - 1 \in Nat
  <2> DEFINE P == {u \in RcuSlots : ~ Passed(h, u)}
             Q == {u \in RcuSlots : ~ Passed(h, u)}'
  <2>1. Q = P \ {s} /\ s \in P
    BY <1>10
  <2>2. IsFiniteSet(P) /\ IsFiniteSet(Q)
    BY Zenon, <2>1, CardSubset, RcuSlotFacts
  <2>3. rcu[h].refcnt = Cardinality(P)
    BY Zenon, <1>1, <1>4, <1>5 DEF RcuCounts
  <2>4. Cardinality(Q) = Cardinality(P) - 1 /\ Cardinality(Q) \in Nat
    <3> HIDE DEF P, Q
    <3> QED
      BY <2>1, <2>2, CardRemove, CardType
  <2> HIDE DEF P, Q
  <2>5. Cardinality(Q) = rcu[h].refcnt - 1 /\ rcu[h].refcnt - 1 \in Nat
    BY <2>3, <2>4
  <2> QED
    BY <2>2, <2>3, <2>5 DEF P, Q
<1>12. RcuTypeOK'
  <2>1. spliced' \in [RcuSlots -> Seq(Heads)]
    BY <1>1, <1>6 DEF RcuTypeOK
  <2>2. rcu' \in [Heads -> [pc : {"unused", "adding", "sched"}, refcnt : Nat, next : Nat]]
    <3>1. PICK n \in Nat : rcu' = [rcu EXCEPT ![h].refcnt = n]
      BY Zenon, <1>6, <1>11
    <3> QED
      BY Zenon, <1>1, <3>1 DEF RcuTypeOK
  <2>3. called' \in Seq(Heads)
    BY <1>1, <1>4, <1>6 DEF RcuTypeOK
  <2> QED
    BY ZenonT(30), <1>1, <1>6, <2>1, <2>2, <2>3 DEF RcuTypeOK
<1>13. RcuPlaces'
  <2>1. \A g \in Heads : rcu'[g].pc = rcu[g].pc /\ rcu'[g].next = rcu[g].next
    BY <1>7
  <2>2. \A u \in RcuSlots : /\ Distinct(Line(u)')
                            /\ \A g \in Heads : Occurs(Line(u)', g) => Occurs(Line(u), g)
    BY ZenonT(30), <1>1, <1>4, <1>8 DEF RcuPlaces
  <2>3. \A u \in RcuSlots : ~ passing'[u] => spliced'[u] = <<>>
    BY Zenon, <1>1, <1>6 DEF RcuPlaces, RcuTypeOK
  <2> QED
    BY Zenon, <1>1, <2>1, <2>2, <2>3 DEF RcuPlaces
<1>14. RcuCounts'
  <2>1. ASSUME NEW g \in Heads, rcu'[g].pc # "unused", g # h
        PROVE  rcu'[g].refcnt = Cardinality({u \in RcuSlots : ~ Passed(g, u)}')
    <3>1. {u \in RcuSlots : ~ Passed(g, u)}' = {u \in RcuSlots : ~ Passed(g, u)}
      BY <1>9, <2>1
    <3>2. rcu[g].pc # "unused" /\ rcu'[g].refcnt = rcu[g].refcnt
      BY Zenon, <1>7, <2>1
    <3> QED
      BY <1>1, <3>1, <3>2 DEF RcuCounts
  <2>2. rcu'[h].refcnt = Cardinality({u \in RcuSlots : ~ Passed(h, u)}')
    BY Zenon, <1>7, <1>11
  <2> QED
    BY <2>1, <2>2 DEF RcuCounts
<1>15. ASSUME NEW g \in earlier[h]
       PROVE  /\ g \in Heads /\ g # h /\ rcu[g].pc = "sched"
              /\ Passed(g, s)
              /\ \A u \in RcuSlots : Passed(h, u) => Passed(g, u)
  <2>1. /\ g \in Heads /\ g # h /\ rcu[g].pc = "sched"
        /\ \A u \in RcuSlots : Passed(h, u) => Passed(g, u)
        /\ \A i, j \in 1 .. Len(Line(s)) : Line(s)[i] = h /\ Line(s)[j] = g => j < i
    BY Zenon, <1>1, <1>4 DEF RcuOrder, RcuTypeOK
  <2>2. 1 \in 1 .. Len(Line(s)) /\ Len(Line(s)) \in Nat
    <3>1. Len(Line(s)) \in Nat /\ Len(Line(s)) >= 1
      BY Zenon, <1>4
    <3> QED
      BY <3>1
  <2>3. ~ Occurs(Line(s), g)
    BY <1>4, <2>1, <2>2 DEF Occurs
  <2>4. rcu[g].next > s
    BY Zenon, <1>1, <2>1 DEF RcuPlaces
  <2> QED
    BY Zenon, <2>1, <2>3, <2>4 DEF Passed
<1>16. RcuOrder'
  <2> SUFFICES ASSUME NEW k \in Heads, NEW g \in earlier[k]
               PROVE  /\ rcu'[g].pc = "sched" /\ rcu'[k].pc # "unused" /\ g # k
                      /\ \A u \in RcuSlots :
                           /\ Passed(k, u)' => Passed(g, u)'
                           /\ \A i, j \in 1 .. Len(Line(u)') :
                                Line(u)'[i] = k /\ Line(u)'[j] = g => j < i
    BY <1>6 DEF RcuOrder
  <2>1. /\ rcu[g].pc = "sched" /\ rcu[k].pc # "unused" /\ g # k /\ g \in Heads
        /\ \A u \in RcuSlots :
             /\ Passed(k, u) => Passed(g, u)
             /\ \A i, j \in 1 .. Len(Line(u)) : Line(u)[i] = k /\ Line(u)[j] = g => j < i
    BY Zenon, <1>1 DEF RcuOrder, RcuTypeOK
  <2>2. rcu'[g].pc = "sched" /\ rcu'[k].pc # "unused" /\ g # k
    BY <1>7, <2>1
  <2>3. ASSUME NEW u \in RcuSlots, Passed(k, u)'
        PROVE  Passed(g, u)'
    <3>1. CASE k = h
      BY ZenonT(30), <1>9, <1>10, <1>15, <2>3, <3>1
    <3>2. CASE k # h
      BY Zenon, <1>9, <1>10, <2>1, <2>3, <3>2
    <3> QED
      BY Zenon, <3>1, <3>2
  <2>4. ASSUME NEW i \in 1 .. Len(Line(s)'), NEW j \in 1 .. Len(Line(s)'),
               Line(s)'[i] = k, Line(s)'[j] = g
        PROVE  j < i
    <3> DEFINE l == Line(s)
               m == Line(s)'
    <3>1. /\ Len(m) = Len(l) - 1 /\ Len(l) \in Nat
          /\ \A p \in 1 .. Len(l) - 1 : m[p] = l[p + 1]
          /\ \A p, q \in 1 .. Len(l) : l[p] = k /\ l[q] = g => q < p
          /\ i \in 1 .. Len(m) /\ j \in 1 .. Len(m) /\ m[i] = k /\ m[j] = g
      BY Zenon, <1>3, <1>4, <1>8, <2>1, <2>4
    <3> HIDE DEF l, m
    <3>2. i + 1 \in 1 .. Len(l) /\ j + 1 \in 1 .. Len(l) /\ l[i + 1] = k /\ l[j + 1] = g
      BY <3>1
    <3> QED
      BY SMTT(30), <3>1, <3>2
  <2>5. ASSUME NEW u \in RcuSlots
        PROVE  \A i, j \in 1 .. Len(Line(u)') : Line(u)'[i] = k /\ Line(u)'[j] = g => j < i
    <3>1. CASE u = s
      BY Zenon, <2>4, <3>1
    <3>2. CASE u # s
      BY Zenon, <1>8, <2>1, <3>2
    <3> QED
      BY <3>1, <3>2
  <2> QED
    BY <2>2, <2>3, <2>5
<1>17. RcuCalled'
  <2>1. CASE rcu[h].refcnt # 1
    <3>1. called' = called /\ earlier' = earlier
      BY <1>6, <2>1
    <3>2. \A g \in Heads : /\ rcu'[g].pc = rcu[g].pc
                           /\ rcu'[g].refcnt = 0 <=> rcu[g].refcnt = 0
      <4>1. rcu[h].refcnt \in Nat /\ rcu[h].refcnt - 1 \in Nat
        BY Zenon, <1>1, <1>4, <1>11 DEF RcuTypeOK
      <4>2. rcu'[h].refcnt # 0 /\ rcu[h].refcnt # 0
        BY <1>7, <2>1, <4>1
      <4> QED
        BY Zenon, <1>7, <4>2
    <3>3. Distinct(called') /\ \A g \in Heads : Occurs(called', g) <=> Occurs(called, g)
      BY Zenon, <1>1, <3>1 DEF RcuCalled
    <3> QED
      BY Zenon, <1>1, <3>1, <3>2, <3>3 DEF RcuCalled
  <2>2. CASE rcu[h].refcnt = 1
    <3>1. called' = list_add_tail(called, h) /\ earlier' = earlier /\ called \in Seq(Heads)
      BY Zenon, <1>1, <1>6, <2>2 DEF list_add_tail, RcuTypeOK
    <3>2. ~ Occurs(called, h) /\ Distinct(called)
      BY SMTT(30), <1>1, <1>4, <2>2 DEF RcuCalled
    <3>3. /\ Distinct(called') /\ \A g \in Heads : Occurs(called', g) <=> Occurs(called, g) \/ g = h
      BY SMTT(30), <1>4, <3>1, <3>2, ListAddTailFacts
    <3>4. /\ Len(called') = Len(called) + 1 /\ called'[Len(called) + 1] = h /\ Len(called) \in Nat
          /\ \A i \in 1 .. Len(called) : called'[i] = called[i]
      BY <1>4, <3>1 DEF list_add_tail
    <3>5. \A g \in Heads : Occurs(called', g) <=> rcu'[g].pc # "unused" /\ rcu'[g].refcnt = 0
      BY <1>1, <1>5, <1>7, <2>2, <3>3 DEF RcuCalled
    <3>6. ASSUME NEW g \in earlier[h]
          PROVE  Occurs(called, g)
      <4>1. {u \in RcuSlots : ~ Passed(h, u)}' = {}
        BY <1>11, <2>2, CardEmpty
      <4>2. \A u \in RcuSlots : Passed(g, u)
        BY Zenon, <1>10, <1>15, <4>1
      <4>3. {u \in RcuSlots : ~ Passed(g, u)} = {}
        BY <4>2
      <4>4. rcu[g].refcnt = 0
        <5>1. Cardinality({u \in RcuSlots : ~ Passed(g, u)}) = 0
          BY <4>3, CardEmpty
        <5> QED
          BY Zenon, <1>1, <1>15, <5>1 DEF RcuCounts
      <4> QED
        BY Zenon, <1>1, <1>15, <4>4 DEF RcuCalled
    <3>7. ASSUME NEW i \in 1 .. Len(called'), NEW g \in earlier[called'[i]]
          PROVE  \E j \in 1 .. i - 1 : called'[j] = g
      <4>1. CASE i = Len(called) + 1
        <5>1. PICK j \in 1 .. Len(called) : called[j] = g
          BY Zenon, <3>4, <3>6, <3>7, <4>1 DEF Occurs
        <5> QED
          BY <3>4, <4>1, <5>1
      <4>2. CASE i # Len(called) + 1
        <5>1. i \in 1 .. Len(called) /\ called'[i] = called[i]
          BY <3>4, <4>2
        <5>2. PICK j \in 1 .. i - 1 : called[j] = g
          BY Zenon, <1>1, <3>7, <5>1 DEF RcuCalled, InTurn
        <5> QED
          BY <3>4, <5>1, <5>2
      <4> QED
        BY <4>1, <4>2
    <3>8. InTurn(called', earlier')
      BY <3>1, <3>7 DEF InTurn
    <3> QED
      BY <3>3, <3>5, <3>8 DEF RcuCalled
  <2> QED
    BY Zenon, <2>1, <2>2
<1> QED
  BY Zenon, <1>12, <1>13, <1>14, <1>16, <1>17 DEF RcuInv

(* call_rcu_sched, process_rcus and rcu_barrier: a function is called      *)
(* once, when no slot holds its head, and after every function that was    *)
(* scheduled before its own call began, for any number of CPUs and heads.  *)
THEOREM RcuCalledInTurn ==
  ASSUME RcuAssumptions
  PROVE  RcuSpec => []CalledInTurn
<1>1. ASSUME RcuInit
      PROVE  RcuInv
  <2>1. RcuTypeOK /\ \A s \in RcuSlots : Line(s) = <<>>
    BY <1>1 DEF RcuInit, RcuTypeOK, Line
  <2>2. \A s \in RcuSlots : Distinct(Line(s)) /\ \A h \in Heads : ~ Occurs(Line(s), h)
    BY <2>1 DEF Distinct, Occurs
  <2>3. RcuPlaces /\ RcuCounts /\ RcuOrder
    BY <1>1, <2>2 DEF RcuInit, RcuPlaces, RcuCounts, RcuOrder
  <2>4. RcuCalled
    BY <1>1 DEF RcuInit, RcuCalled, Distinct, Occurs, InTurn
  <2> QED
    BY <2>1, <2>3, <2>4 DEF RcuInv
<1>2. ASSUME RcuInv, [RcuNext]_rcvars
      PROVE  RcuInv'
  <2>1. CASE UNCHANGED rcvars
    <3>1. UNCHANGED <<rcu, rcu_queue, spliced, passing, called, earlier>>
      BY <2>1 DEF rcvars
    <3>2. RcuTypeOK' /\ RcuCalled'
      BY <1>2, <3>1 DEF RcuInv, RcuTypeOK, RcuCalled
    <3>3. \A s \in RcuSlots : Line(s)' = Line(s)
      BY Zenon, <3>1 DEF Line
    <3>4. RcuPlaces' /\ \A h \in Heads, s \in RcuSlots : Passed(h, s)' <=> Passed(h, s)
      BY Zenon, <1>2, <3>1, <3>3 DEF RcuInv, RcuPlaces, Passed
    <3>5. RcuCounts'
      <4>1. ASSUME NEW h \in Heads
            PROVE  {u \in RcuSlots : ~ Passed(h, u)}' = {u \in RcuSlots : ~ Passed(h, u)}
        BY Zenon, <3>4
      <4> QED
        BY <1>2, <3>1, <4>1 DEF RcuInv, RcuCounts
    <3>6. RcuOrder'
      <4>1. \A h \in Heads : \A g \in earlier[h] : g \in Heads
        BY <1>2 DEF RcuInv, RcuTypeOK
      <4> QED
        BY ZenonT(30), <1>2, <3>1, <3>3, <3>4, <4>1 DEF RcuInv, RcuOrder
    <3> QED
      BY <3>2, <3>4, <3>5, <3>6 DEF RcuInv
  <2> QED
    BY Zenon, <1>2, <2>1, RcuSplice, RcuBegins, RcuAdds, RcuLeaves DEF RcuNext, AllCalled
<1>3. ASSUME RcuInv
      PROVE  CalledInTurn
  <2>1. RcuTypeOK /\ RcuPlaces /\ RcuCounts /\ RcuOrder /\ RcuCalled
    BY <1>3 DEF RcuInv
  <2>2. ASSUME NEW i \in DOMAIN called
        PROVE  /\ earlier[called[i]] \subseteq {called[j] : j \in 1 .. i - 1}
               /\ \A s \in RcuSlots : ~ Occurs(rcu_queue[s] \o spliced[s], called[i])
    <3>1. i \in 1 .. Len(called) /\ called[i] \in Heads
      BY <2>1 DEF RcuTypeOK
    <3>2. earlier[called[i]] \subseteq {called[j] : j \in 1 .. i - 1}
      BY <2>1, <3>1 DEF RcuCalled, InTurn
    <3>3. PICK h \in Heads : h = called[i]
      BY <3>1
    <3>4. Occurs(called, h)
      BY <3>1, <3>3 DEF Occurs
    <3>5. rcu[h].pc # "unused" /\ rcu[h].refcnt = 0
      BY Zenon, <2>1, <3>4 DEF RcuCalled
    <3> DEFINE P == {s \in RcuSlots : ~ Passed(h, s)}
    <3>6. Cardinality(P) = 0 /\ IsFiniteSet(P)
      BY Zenon, <2>1, <3>5, CardSubset, RcuSlotFacts DEF RcuCounts
    <3>7. P = {}
      <4> HIDE DEF P
      <4> QED
        BY <3>6, CardEmpty
    <3>8. ASSUME NEW s \in RcuSlots
          PROVE  ~ Occurs(rcu_queue[s] \o spliced[s], h)
      <4> DEFINE a == rcu_queue[s]
                 b == spliced[s]
      <4>1. a \in Seq(Heads) /\ b \in Seq(Heads)
        BY <2>1 DEF RcuTypeOK
      <4>2. ~ Occurs(b \o a, h)
        BY <3>7 DEF Passed, Line
      <4> HIDE DEF a, b
      <4>3. ~ Occurs(a, h) /\ ~ Occurs(b, h)
        <5>1. /\ Len(b \o a) = Len(b) + Len(a) /\ Len(a) \in Nat /\ Len(b) \in Nat
              /\ \A k \in 1 .. Len(b) : (b \o a)[k] = b[k]
              /\ \A k \in 1 .. Len(a) : (b \o a)[Len(b) + k] = a[k]
          BY <4>1
        <5>2. \A k \in 1 .. Len(b) : k \in 1 .. Len(b \o a)
          BY <5>1
        <5>3. \A k \in 1 .. Len(a) : Len(b) + k \in 1 .. Len(b \o a)
          BY <5>1
        <5> QED
          BY <4>2, <5>1, <5>2, <5>3 DEF Occurs
      <4>4. ~ Occurs(a \o b, h)
        <5>1. \A k \in 1 .. Len(a \o b) :
                \/ k \in 1 .. Len(a) /\ (a \o b)[k] = a[k]
                \/ k - Len(a) \in 1 .. Len(b) /\ (a \o b)[k] = b[k - Len(a)]
          BY <4>1
        <5> QED
          BY <4>3, <5>1 DEF Occurs
      <4> QED
        BY <4>4 DEF a, b
    <3> QED
      BY <3>2, <3>3, <3>8
  <2> QED
    BY Zenon, <2>1, <2>2 DEF CalledInTurn, RcuCalled
<1> QED
  BY <1>1, <1>2, <1>3, PTL DEF RcuSpec

-----------------------------------------------------------------------------
(***************************************************************************)
(* A transport.  The flag ATTACHED, or whoever took it away and has not    *)
(* yet unlisted the transport, stands for the list's reference; so the     *)
(* three that may detach it drop that reference once.  CLOSED is set once, *)
(* by the one who then makes the last callback, and no callback is made    *)
(* once it is set.                                                         *)
(***************************************************************************)
XprtFlags ==
  {"connecting", "opened", "closed", "shutrd", "shutwr", "refused", "handshaked", "attached"}
XprtPlaces ==
  {"arm", "idle", "gone", "detach", "unlist", "stopevent", "waitevent", "setclosed", "unshut", "put"}

XprtTypeOK ==
  /\ xflags \in SUBSET XprtFlags /\ xrefs \in Int /\ listed \in BOOLEAN
  /\ xpc \in [Destroyers -> XprtPlaces]
  /\ cblog \in [opened : Nat, closed : Nat, late : BOOLEAN]

(* exactly one stands for the list's reference *)
XprtListed ==
  /\ listed <=> \/ "attached" \in xflags \/ evpc = "unlist"
                \/ xpc["user"] = "unlist" \/ xpc["server"] = "unlist"
  /\ "attached" \in xflags => evpc # "unlist"
  /\ \A d \in Destroyers :
       xpc[d] = "unlist" => "attached" \notin xflags /\ evpc # "unlist"
  /\ ~ (xpc["user"] = "unlist" /\ xpc["server"] = "unlist")

XprtCalls ==
  /\ cblog.opened = 1 <=> "opened" \in xflags
  /\ CallbackOrder
  /\ \A d \in Destroyers : xpc[d] = "unshut" => "closed" \in xflags /\ cblog.closed = 0
  /\ ~ (xpc["user"] = "unshut" /\ xpc["server"] = "unshut")

XprtInv == XprtTypeOK /\ XprtListed /\ RefsCountHolders /\ XprtCalls

(* The references: what a step does to the list and to those who hold it. *)
LEMMA XprtHolders ==
  ASSUME XprtTypeOK, XprtListed, RefsCountHolders, XprtNext
  PROVE  XprtListed' /\ RefsCountHolders'
<1> USE DEF XprtTypeOK, XprtListed, RefsCountHolders, EvGoto, XGoto, Drop, Destroyers
<1>1. CASE EventFires \/ EvGet
  BY <1>1 DEF EventFires, EvGet
<1>2. CASE EvConnecting \/ EvHandshake
  BY <1>2 DEF EvConnecting, EvHandshake
<1>3. CASE EvRefuse
  BY <1>3 DEF EvRefuse, ShutFlags, ShutRdWr
<1>4. CASE EvOpen \/ EvRead \/ EvWrite
  BY <1>4 DEF EvOpen, EvRead, EvWrite, ShutFlags, ShutRdWr, Hows
<1>5. CASE EvClose
  BY <1>5 DEF EvClose, ShutRdWr
<1>6. CASE EvShut \/ EvOut
  BY <1>6 DEF EvShut, EvOut
<1>7. CASE UserArms \/ UserShutdown \/ UserPut \/ StopTakes \/ UserDestroys
  BY <1>7 DEF UserArms, UserShutdown, UserPut, StopTakes, UserDestroys, ShutFlags, ShutRdWr, Hows
<1>8. ASSUME NEW d \in Destroyers, DestroyDetach(d) \/ DestroyStopEvent(d)
      PROVE  XprtListed' /\ RefsCountHolders'
  BY <1>8 DEF DestroyDetach, DestroyStopEvent
<1>9. ASSUME NEW d \in Destroyers, DestroyClose(d) \/ DestroyPut(d)
      PROVE  XprtListed' /\ RefsCountHolders'
  BY <1>9 DEF DestroyClose, DestroyPut, ShutRdWr
<1>10. CASE XprtRests
  BY <1>10 DEF XprtRests, xvars
<1> QED
  BY <1>1, <1>2, <1>3, <1>4, <1>5, <1>6, <1>7, <1>8, <1>9, <1>10 DEF XprtNext

(* Every variable keeps its type. *)
LEMMA XprtTypes == ASSUME XprtTypeOK, XprtNext PROVE XprtTypeOK'
<1> DEFINE Log == [opened : Nat, closed : Nat, late : BOOLEAN]
<1>1. \A f : Called(f) \in Log
  <2> SUFFICES ASSUME NEW f PROVE Called(f) \in Log
    OBVIOUS
  <2>1. cblog.opened \in Nat /\ cblog.closed \in Nat
    BY DEF XprtTypeOK
  <2>2. /\ cblog.opened + (IF f = "opened" THEN 1 ELSE 0) \in Nat
        /\ cblog.closed + (IF f = "closed" THEN 1 ELSE 0) \in Nat
    BY <2>1
  <2>3. (cblog.late \/ cblog.closed > 0) \in BOOLEAN
    BY Zenon
  <2> QED
    BY Zenon, <2>2, <2>3 DEF Called
<1> DEFINE Keeps == /\ xflags' \in SUBSET XprtFlags
                    /\ xrefs' \in Int /\ listed' \in BOOLEAN
                    /\ xpc' \in [Destroyers -> XprtPlaces] /\ cblog' \in Log
<1>2. CASE EventFires \/ EvGet \/ EvConnecting \/ EvHandshake
  <2>1. xflags' \in SUBSET XprtFlags
    BY <1>2 DEF XprtTypeOK, EventFires, EvGet, EvConnecting, EvHandshake, XprtFlags
  <2>2. xrefs' \in Int /\ listed' \in BOOLEAN
    BY <1>2 DEF XprtTypeOK, EventFires, EvGet, EvConnecting, EvHandshake
  <2>3. xpc' \in [Destroyers -> XprtPlaces]
    BY <1>2 DEF XprtTypeOK, EventFires, EvGet, EvConnecting, EvHandshake
  <2>4. cblog' \in Log
    BY Zenon, <1>1, <1>2 DEF XprtTypeOK, EventFires, EvGet, EvConnecting, EvHandshake
  <2> QED
    BY Zenon, <2>1, <2>2, <2>3, <2>4 DEF XprtTypeOK
<1>3. CASE EvRefuse \/ EvOpen
  <2>1. xflags' \in SUBSET XprtFlags
    BY Zenon, <1>3 DEF XprtTypeOK, EvRefuse, EvOpen, ShutFlags, ShutRdWr, XprtFlags
  <2>2. xrefs' \in Int /\ listed' \in BOOLEAN
    BY <1>3 DEF XprtTypeOK, EvRefuse, EvOpen
  <2>3. xpc' \in [Destroyers -> XprtPlaces]
    BY <1>3 DEF XprtTypeOK, EvRefuse, EvOpen
  <2>4. cblog' \in Log
    BY Zenon, <1>1, <1>3 DEF XprtTypeOK, EvRefuse, EvOpen
  <2> QED
    BY Zenon, <2>1, <2>2, <2>3, <2>4 DEF XprtTypeOK
<1>4. CASE EvRead \/ EvWrite
  <2>1. xflags' \in SUBSET XprtFlags
    BY Zenon, <1>4 DEF XprtTypeOK, EvRead, EvWrite, ShutFlags, ShutRdWr, Hows, XprtFlags
  <2>2. xrefs' \in Int /\ listed' \in BOOLEAN
    BY <1>4 DEF XprtTypeOK, EvRead, EvWrite
  <2>3. xpc' \in [Destroyers -> XprtPlaces]
    BY <1>4 DEF XprtTypeOK, EvRead, EvWrite
  <2>4. cblog' \in Log
    BY Zenon, <1>1, <1>4 DEF XprtTypeOK, EvRead, EvWrite
  <2> QED
    BY Zenon, <2>1, <2>2, <2>3, <2>4 DEF XprtTypeOK
<1>5. CASE EvClose \/ EvShut \/ EvOut
  <2>1. xflags' \in SUBSET XprtFlags
    BY Zenon, <1>5 DEF XprtTypeOK, EvClose, EvShut, EvOut, ShutRdWr, XprtFlags
  <2>2. xrefs' \in Int /\ listed' \in BOOLEAN
    <3>1. xrefs' \in Int
      BY <1>5 DEF XprtTypeOK, EvClose, EvShut, EvOut, Drop
    <3>2. listed' \in BOOLEAN
      BY Zenon, <1>5 DEF XprtTypeOK, EvClose, EvShut, EvOut
    <3> QED BY <3>1, <3>2
  <2>3. xpc' \in [Destroyers -> XprtPlaces]
    BY <1>5 DEF XprtTypeOK, EvClose, EvShut, EvOut
  <2>4. cblog' \in Log
    BY Zenon, <1>1, <1>5 DEF XprtTypeOK, EvClose, EvShut, EvOut
  <2> QED
    BY Zenon, <2>1, <2>2, <2>3, <2>4 DEF XprtTypeOK
<1>6. CASE UserArms \/ UserShutdown \/ UserPut \/ StopTakes \/ UserDestroys
  <2>1. xflags' \in SUBSET XprtFlags
    BY Zenon, <1>6 DEF XprtTypeOK, UserArms, UserShutdown, UserPut, StopTakes, UserDestroys, ShutFlags, ShutRdWr, Hows, XprtFlags
  <2>2. xrefs' \in Int /\ listed' \in BOOLEAN
    <3>1. xrefs' \in Int
      BY <1>6 DEF XprtTypeOK, UserArms, UserShutdown, UserPut, StopTakes, UserDestroys, Drop
    <3>2. listed' \in BOOLEAN
      BY Zenon, <1>6 DEF XprtTypeOK, UserArms, UserShutdown, UserPut, StopTakes, UserDestroys
    <3> QED BY <3>1, <3>2
  <2>3. xpc' \in [Destroyers -> XprtPlaces]
    BY <1>6 DEF XprtTypeOK, UserArms, UserShutdown, UserPut, StopTakes, UserDestroys, XGoto, Destroyers, XprtPlaces
  <2>4. cblog' \in Log
    BY Zenon, <1>1, <1>6 DEF XprtTypeOK, UserArms, UserShutdown, UserPut, StopTakes, UserDestroys
  <2> QED
    BY Zenon, <2>1, <2>2, <2>3, <2>4 DEF XprtTypeOK
<1>7. ASSUME NEW d \in Destroyers, DestroyDetach(d) \/ DestroyStopEvent(d)
      PROVE  Keeps
  <2>1. xflags' \in SUBSET XprtFlags
    BY Zenon, <1>7 DEF XprtTypeOK, DestroyDetach, DestroyStopEvent, XprtFlags
  <2>2. xrefs' \in Int /\ listed' \in BOOLEAN
    <3>1. xrefs' \in Int
      BY <1>7 DEF XprtTypeOK, DestroyDetach, DestroyStopEvent, Drop
    <3>2. listed' \in BOOLEAN
      BY Zenon, <1>7 DEF XprtTypeOK, DestroyDetach, DestroyStopEvent
    <3> QED BY <3>1, <3>2
  <2>3. xpc' \in [Destroyers -> XprtPlaces]
    BY <1>7 DEF XprtTypeOK, DestroyDetach, DestroyStopEvent, XGoto, Destroyers, XprtPlaces
  <2>4. cblog' \in Log
    BY Zenon, <1>1, <1>7 DEF XprtTypeOK, DestroyDetach, DestroyStopEvent
  <2> QED
    BY Zenon, <2>1, <2>2, <2>3, <2>4 DEF XprtTypeOK
<1>8. ASSUME NEW d \in Destroyers, DestroyClose(d) \/ DestroyPut(d)
      PROVE  Keeps
  <2>1. xflags' \in SUBSET XprtFlags
    BY Zenon, <1>8 DEF XprtTypeOK, DestroyClose, DestroyPut, ShutRdWr, XprtFlags
  <2>2. xrefs' \in Int /\ listed' \in BOOLEAN
    <3>1. xrefs' \in Int
      BY <1>8 DEF XprtTypeOK, DestroyClose, DestroyPut, Drop
    <3>2. listed' \in BOOLEAN
      BY Zenon, <1>8 DEF XprtTypeOK, DestroyClose, DestroyPut
    <3> QED BY <3>1, <3>2
  <2>3. xpc' \in [Destroyers -> XprtPlaces]
    BY <1>8 DEF XprtTypeOK, DestroyClose, DestroyPut, XGoto, Destroyers, XprtPlaces
  <2>4. cblog' \in Log
    BY Zenon, <1>1, <1>8 DEF XprtTypeOK, DestroyClose, DestroyPut
  <2> QED
    BY Zenon, <2>1, <2>2, <2>3, <2>4 DEF XprtTypeOK
<1>9. CASE XprtRests
  BY <1>9 DEF XprtRests, XprtTypeOK, xvars
<1> QED
  BY Zenon, <1>2, <1>3, <1>4, <1>5, <1>6, <1>7, <1>8, <1>9 DEF XprtNext, XprtTypeOK

(* The callbacks: CLOSED, OPENED and REFUSED are never taken away again. *)
LEMMA XprtCallbacks == ASSUME XprtTypeOK, XprtCalls, XprtNext PROVE XprtCalls'
<1> USE DEF XprtTypeOK, XprtCalls, CallbackOrder, EvGoto, XGoto, Destroyers
<1>1. CASE EventFires \/ EvGet
  BY <1>1 DEF EventFires, EvGet
<1>2. CASE EvConnecting \/ EvHandshake
  BY <1>2 DEF EvConnecting, EvHandshake
<1>3. CASE EvRefuse
  BY <1>3 DEF EvRefuse, ShutFlags, ShutRdWr
<1>4. CASE EvOpen
  BY <1>4 DEF EvOpen, Called, xprt_flags_closed, ShutRdWr
<1>5. CASE EvRead
  BY <1>5 DEF EvRead, Called, ShutFlags, ShutRdWr, Hows
<1>6. CASE EvWrite
  BY <1>6 DEF EvWrite, Called
<1>7. CASE EvClose
  BY <1>7 DEF EvClose, Called, ShutRdWr
<1>8. CASE EvShut \/ EvOut
  BY <1>8 DEF EvShut, EvOut
<1>9. CASE UserArms \/ UserShutdown \/ UserPut \/ StopTakes \/ UserDestroys
  BY <1>9 DEF UserArms, UserShutdown, UserPut, StopTakes, UserDestroys, ShutFlags, ShutRdWr, Hows
<1>10. ASSUME NEW d \in Destroyers, DestroyDetach(d) \/ DestroyStopEvent(d) \/ DestroyPut(d)
       PROVE  XprtCalls'
  BY <1>10 DEF DestroyDetach, DestroyStopEvent, DestroyPut
<1>11. ASSUME NEW d \in Destroyers, DestroyClose(d)
       PROVE  XprtCalls'
  BY <1>11 DEF DestroyClose, Called, ShutRdWr
<1>12. CASE XprtRests
  BY <1>12 DEF XprtRests, xvars
<1> QED
  BY <1>1, <1>2, <1>3, <1>4, <1>5, <1>6, <1>7, <1>8, <1>9, <1>10, <1>11, <1>12 DEF XprtNext

(***************************************************************************)
(* For any results of the handshake: the callbacks of a transport come in  *)
(* the order xprt.h promises, opened once, closed once and last, and its   *)
(* references are those who hold it, whatever the event thread, the user   *)
(* and stop_xprts do to it at the same time.                               *)
(***************************************************************************)
THEOREM XprtTransportLife == XprtSpec => []TransportLife
<1>1. XprtInit => XprtInv
  BY DEF XprtInit, XprtInv, XprtTypeOK, XprtListed, RefsCountHolders, XprtCalls, CallbackOrder,
         Destroyers, XprtFlags, XprtPlaces
<1>2. XprtInv /\ [XprtNext]_xvars => XprtInv'
  <2>1. CASE UNCHANGED xvars
    BY <2>1 DEF xvars, XprtInv, XprtTypeOK, XprtListed, RefsCountHolders, XprtCalls, CallbackOrder
  <2> QED
    BY <2>1, XprtTypes, XprtHolders, XprtCallbacks DEF XprtInv
<1>3. XprtInv => TransportLife
  BY DEF XprtInv, XprtCalls, TransportLife
<1> QED
  BY <1>1, <1>2, <1>3, PTL DEF XprtSpec
=============================================================================
