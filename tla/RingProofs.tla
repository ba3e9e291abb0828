----------------------------- MODULE RingProofs -----------------------------
(***************************************************************************)
(* Proofs about the ring buffer of src/adt/ring.c.  Positions are the      *)
(* numbers 0, 1, 2, ... of the objects in the order of the claims; the     *)
(* counters are positions taken modulo 2^32 and the slots are counters     *)
(* taken modulo the size.  The inductive invariant names the counter's     *)
(* value at position 0 and the positions of the two tails, and says that   *)
(*   - tails and heads are in order and at most Capacity apart,            *)
(*   - the claims in progress of a side tile the stretch from its tail to  *)
(*     its head, so that exactly one thread may move the tail,             *)
(*   - a head that a thread has read is where the head was, and as long as *)
(*     it still is there, what the thread found room for is within room,   *)
(*   - the slots of the published positions hold their objects.            *)
(***************************************************************************)
EXTENDS Ring, TLAPS

(* The counter and the slot of position k, when position 0 has counter start. *)
At(start, k) == IF start + k < Modulus THEN start + k ELSE start + k - Modulus
SlotAt(start, k) == (start + k) % Size

(* What ringb_init gives: room for fewer objects than there are slots, a    *)
(* number of slots that divides the range of the counters; and fewer        *)
(* objects in a behaviour than the counters have values, so that a thread   *)
(* does not sleep between its read of a head and its compare-and-swap while *)
(* the head goes once around.                                               *)
RingAssumptions ==
  /\ Size \in Nat \ {0} /\ Capacity \in Nat /\ Capacity < Size
  /\ \E laps \in Nat \ {0} : Modulus = laps * Size
  /\ MaxItems \in Nat /\ MaxItems < Modulus
  /\ Starts \subseteq 0 .. Modulus - 1
  /\ Batches \subseteq Nat \ {0}
  /\ Producers \cap Consumers = {}

(* A remainder is the only number of its range with the right quotient. *)
LEMMA ModUnique ==
  ASSUME NEW m \in Nat \ {0}, NEW a \in Int, NEW q \in Int, NEW r \in 0 .. m - 1,
         a = q * m + r
  PROVE  a % m = r
OBVIOUS

LEMMA ModSmall ==
  ASSUME NEW m \in Nat \ {0}, NEW r \in 0 .. m - 1
  PROVE  r % m = r
<1>1. r = 0 * m + r /\ 0 \in Int /\ r \in Int
  OBVIOUS
<1> QED BY <1>1, ModUnique

LEMMA ModSplit ==
  ASSUME NEW m \in Nat \ {0}, NEW a \in Int
  PROVE  /\ (a % m) \in 0 .. m - 1
         /\ \E q \in Int : a = q * m + (a % m)
<1>1. (a % m) \in 0 .. m - 1
  OBVIOUS
<1>2. /\ a \div m \in Int
      /\ a = (a \div m) * m + (a % m)
  OBVIOUS
<1> QED BY Zenon, <1>1, <1>2

(* Numbers less than a full range apart have different remainders. *)
LEMMA ModApart ==
  ASSUME NEW m \in Nat \ {0}, NEW a \in Int, NEW d \in 1 .. m - 1
  PROVE  /\ (a + d) % m = (IF (a % m) + d < m THEN (a % m) + d ELSE (a % m) + d - m)
         /\ (a + d) % m # a % m
<1>1. PICK q \in Int : a = q * m + (a % m)
  BY Zenon, ModSplit
<1>2. (a % m) \in 0 .. m - 1
  BY ModSplit
<1>3. PICK r \in 0 .. m - 1 : r = a % m
  BY <1>2
<1>4. CASE r + d < m
  <2>1. a + d = q * m + (r + d)
    BY <1>1, <1>3
  <2>2. PICK e \in 0 .. m - 1 : e = r + d
    BY <1>4
  <2>3. PICK b \in Int : b = a + d
    OBVIOUS
  <2>4. b % m = e
    BY Zenon, <2>1, <2>2, <2>3, ModUnique
  <2> QED BY <2>2, <2>3, <2>4, <1>3, <1>4
<1>5. CASE r + d >= m
  <2>1. a + d = (q + 1) * m + (r + d - m)
    BY <1>1, <1>3
  <2>2. PICK e \in 0 .. m - 1 : e = r + d - m
    BY <1>5
  <2>3. PICK b \in Int : b = a + d
    OBVIOUS
  <2>4. PICK p \in Int : p = q + 1
    OBVIOUS
  <2>5. b % m = e
    BY Zenon, <2>1, <2>2, <2>3, <2>4, ModUnique
  <2> QED BY <2>2, <2>3, <2>5, <1>3, <1>5
<1> QED BY <1>4, <1>5

LEMMA AtFacts ==
  ASSUME RingAssumptions, NEW s \in 0 .. Modulus - 1,
         NEW a \in 0 .. Modulus - 1, NEW b \in 0 .. a
  PROVE  /\ Modulus \in Nat \ {0}
         /\ At(s, a) \in 0 .. Modulus - 1
         /\ At(s, b) \in 0 .. Modulus - 1
         /\ Minus(At(s, a), At(s, b)) = a - b
         /\ (At(s, b) + (a - b)) % Modulus = At(s, a)
         /\ At(s, a) = At(s, b) => a = b
<1>1. Modulus \in Nat \ {0}
  BY DEF RingAssumptions
<1>2. /\ At(s, a) \in 0 .. Modulus - 1
      /\ At(s, b) \in 0 .. Modulus - 1
      /\ At(s, a) = At(s, b) => a = b
  BY <1>1 DEF At
<1>3. PICK x \in 0 .. Modulus - 1, y \in 0 .. Modulus - 1, d \in 0 .. Modulus - 1 :
        x = At(s, a) /\ y = At(s, b) /\ d = a - b
  BY <1>1, <1>2
<1>4. \E q \in Int : x - y = q * Modulus + d
  <2>1. \/ x - y = 0 * Modulus + d
        \/ x - y = (-1) * Modulus + d
    BY <1>1, <1>3 DEF At
  <2> QED BY <2>1
<1>5. (x - y) % Modulus = d
  BY <1>1, <1>4, ModUnique
<1>6. \E q \in Int : y + d = q * Modulus + x
  <2>1. \/ y + d = 0 * Modulus + x
        \/ y + d = 1 * Modulus + x
    BY <1>1, <1>3 DEF At
  <2> QED BY <2>1
<1>7. (y + d) % Modulus = x
  BY <1>1, <1>6, ModUnique
<1> QED BY <1>1, <1>2, <1>3, <1>5, <1>7 DEF Minus

LEMMA ModNat ==
  ASSUME NEW m \in Nat \ {0}
  PROVE  \A a \in Int : (a % m) \in Nat
<1> TAKE a \in Int
<1>1. (a % m) \in 0 .. m - 1
  BY Zenon, ModSplit
<1> QED BY <1>1

LEMMA SlotFacts ==
  ASSUME RingAssumptions, NEW s \in 0 .. Modulus - 1, NEW k \in 0 .. Modulus - 1
  PROVE  /\ SlotAt(s, k) \in 0 .. Size - 1
         /\ Slot(At(s, k)) = SlotAt(s, k)
         /\ \A j \in 0 .. Size - 1 :
              SlotAt(s, k + j) = (IF SlotAt(s, k) + j < Size THEN SlotAt(s, k) + j
                                  ELSE SlotAt(s, k) + j - Size)
         /\ \A j \in 1 .. Size - 1 : SlotAt(s, k + j) # SlotAt(s, k)
<1>1. Size \in Nat \ {0}
  BY DEF RingAssumptions
<1>2. PICK laps \in Nat \ {0} : Modulus = laps * Size
  BY DEF RingAssumptions
<1>3. Modulus \in Nat
  BY DEF RingAssumptions
<1>4. SlotAt(s, k) \in 0 .. Size - 1
  BY <1>1, <1>3, ModSplit DEF SlotAt
<1>5. Slot(At(s, k)) = SlotAt(s, k)
  <2>1. CASE s + k < Modulus
    BY <2>1 DEF Slot, SlotAt, At
  <2>2. CASE ~ (s + k < Modulus)
    <3> PICK sum \in Int : sum = s + k
      BY <1>3
    <3>1. PICK q \in Int : sum = q * Size + (sum % Size)
      BY Zenon, <1>1, ModSplit
    <3>2. q - laps \in Int
      OBVIOUS
    <3>3. s + k - Modulus = (q - laps) * Size + SlotAt(s, k)
      BY <3>1, <1>2, <1>1, <1>4, <1>3 DEF SlotAt
    <3>4. (s + k - Modulus) % Size = SlotAt(s, k)
      BY <3>2, <3>3, <1>1, <1>4, ModUnique
    <3> QED BY <3>4, <2>2 DEF Slot, At
  <2> QED BY <2>1, <2>2
<1>6. ASSUME NEW j \in 1 .. Size - 1
      PROVE  /\ SlotAt(s, k + j) # SlotAt(s, k)
             /\ SlotAt(s, k + j) = (IF SlotAt(s, k) + j < Size THEN SlotAt(s, k) + j
                                    ELSE SlotAt(s, k) + j - Size)
  <2> PICK sum \in Int : sum = s + k
    BY <1>3
  <2>1. s + (k + j) = sum + j
    BY <1>3, <1>1
  <2>2. /\ (sum + j) % Size
             = (IF (sum % Size) + j < Size THEN (sum % Size) + j ELSE (sum % Size) + j - Size)
        /\ (sum + j) % Size # sum % Size
    BY Zenon, <1>1, ModApart
  <2>3. SlotAt(s, k) = sum % Size /\ SlotAt(s, k + j) = (sum + j) % Size
    BY <2>1 DEF SlotAt
  <2> QED BY <2>2, <2>3
<1>7. SlotAt(s, k + 0) = SlotAt(s, k)
  BY <1>3
<1>8. ASSUME NEW j \in 0 .. Size - 1
      PROVE  SlotAt(s, k + j) = (IF SlotAt(s, k) + j < Size THEN SlotAt(s, k) + j
                                 ELSE SlotAt(s, k) + j - Size)
  BY <1>8, <1>6, <1>7, <1>4, <1>1
<1> QED BY <1>4, <1>5, <1>6, <1>8
(* A thread has claimed a range and not given it back yet. *)
Claiming(c) == c.pc \in {"copy", "tail"}

RingPlaces == {"rest", "head", "room", "move", "copy", "tail"}
RgThreads == Producers \cup Consumers
RgRecords == [pc : RingPlaces, max : Nat, n : Nat, fixed : BOOLEAN,
              old : 0 .. Modulus - 1, pos : Nat]
RgTypeOK ==
  /\ prod \in [head : 0 .. Modulus - 1, tail : 0 .. Modulus - 1, single : BOOLEAN]
  /\ cons \in [head : 0 .. Modulus - 1, tail : 0 .. Modulus - 1, single : BOOLEAN]
  /\ ring \in [0 .. Size - 1 -> Nat \cup {Empty}]
  /\ ringpc \in [RgThreads -> RgRecords]
  /\ claimed \in 0 .. MaxItems
  /\ taken \in [n : Nat, good : BOOLEAN]

(* The four counters: pt and ct are the positions of the tails. *)
RgCounters(s, pt, ct) ==
  /\ ct <= taken.n /\ taken.n <= pt /\ pt <= claimed /\ claimed - ct <= Capacity
  /\ prod.head = At(s, claimed) /\ prod.tail = At(s, pt)
  /\ cons.head = At(s, taken.n) /\ cons.tail = At(s, ct)

(* The claims of the threads of a side, p their states, tile lo .. hi - 1. *)
Claims(p, s, side, lo, hi) ==
  /\ \A t \in side : Claiming(p[t]) =>
       /\ p[t].n > 0 /\ lo <= p[t].pos /\ p[t].pos + p[t].n <= hi
       /\ p[t].old = At(s, p[t].pos)
  /\ \A t, u \in side : Claiming(p[t]) /\ Claiming(p[u]) /\ t # u =>
       p[t].pos + p[t].n <= p[u].pos \/ p[u].pos + p[u].n <= p[t].pos
  /\ \A k \in lo .. hi - 1 : \E t \in side :
       Claiming(p[t]) /\ p[t].pos <= k /\ k < p[t].pos + p[t].n

(* A head that a thread has read is where the head was; if the head is still *)
(* there, what the thread found room for is still within room.               *)
ReadAt(c, s, head, limit, single) ==
  \E o \in 0 .. head :
    /\ c.old = At(s, o)
    /\ single => o = head
    /\ c.pc = "move" => c.n > 0 /\ (o = head => c.n <= limit)
RgReaders(s, pt, ct) ==
  /\ \A t \in Producers : ringpc[t].pc \in {"room", "move"} =>
       ReadAt(ringpc[t], s, claimed, Capacity - (claimed - ct), prod.single)
  /\ \A t \in Consumers : ringpc[t].pc \in {"room", "move"} =>
       ReadAt(ringpc[t], s, taken.n, pt - taken.n, cons.single)

Alone(p, side) == \A t, u \in side : p[t].pc # "rest" /\ p[u].pc # "rest" => t = u
RgSingle == /\ prod.single => Alone(ringpc, Producers)
            /\ cons.single => Alone(ringpc, Consumers)

(* The slots of a range hold the objects of its positions. *)
Holds(r, s, lo, hi) == \A k \in lo .. hi - 1 : r[SlotAt(s, k)] = k + 1
RgContents(s, pt, ct) ==
  /\ Holds(ring, s, ct, pt)
  /\ \A t \in Producers : ringpc[t].pc = "tail" =>
       Holds(ring, s, ringpc[t].pos, ringpc[t].pos + ringpc[t].n)
  /\ taken.good

RgState(s, pt, ct) ==
  /\ RgCounters(s, pt, ct)
  /\ Claims(ringpc, s, Producers, pt, claimed)
  /\ Claims(ringpc, s, Consumers, ct, taken.n)
  /\ RgReaders(s, pt, ct)
  /\ RgSingle
  /\ RgContents(s, pt, ct)
RingInv == RgTypeOK /\ \E s \in 0 .. Modulus - 1, pt, ct \in 0 .. MaxItems : RgState(s, pt, ct)
(* Claims depend on the claiming threads only. *)
LEMMA ClaimsKept ==
  ASSUME NEW p, NEW q, NEW s, NEW side, NEW lo, NEW hi, Claims(p, s, side, lo, hi),
         \A t \in side : /\ Claiming(q[t]) <=> Claiming(p[t])
                         /\ Claiming(p[t]) => /\ q[t].n = p[t].n /\ q[t].pos = p[t].pos
                                              /\ q[t].old = p[t].old
  PROVE  Claims(q, s, side, lo, hi)
<1> HIDE DEF Claiming
<1>1. /\ \A t \in side : Claiming(p[t]) =>
           /\ p[t].n > 0 /\ lo <= p[t].pos /\ p[t].pos + p[t].n <= hi
           /\ p[t].old = At(s, p[t].pos)
      /\ \A t, u \in side : Claiming(p[t]) /\ Claiming(p[u]) /\ t # u =>
           p[t].pos + p[t].n <= p[u].pos \/ p[u].pos + p[u].n <= p[t].pos
      /\ \A k \in lo .. hi - 1 : \E t \in side :
           Claiming(p[t]) /\ p[t].pos <= k /\ k < p[t].pos + p[t].n
  BY DEF Claims
<1>2. \A t \in side : Claiming(q[t]) =>
        /\ q[t].n > 0 /\ lo <= q[t].pos /\ q[t].pos + q[t].n <= hi
        /\ q[t].old = At(s, q[t].pos)
  BY <1>1
<1>3. \A t, u \in side : Claiming(q[t]) /\ Claiming(q[u]) /\ t # u =>
        q[t].pos + q[t].n <= q[u].pos \/ q[u].pos + q[u].n <= q[t].pos
  BY <1>1
<1>4. \A k \in lo .. hi - 1 : \E t \in side :
        Claiming(q[t]) /\ q[t].pos <= k /\ k < q[t].pos + q[t].n
  BY <1>1
<1> QED BY Zenon, <1>2, <1>3, <1>4 DEF Claims

(* Moving a head adds a claim at the end of the claimed range. *)
LEMMA ClaimsGrow ==
  ASSUME NEW p, NEW q, NEW s, NEW side, NEW lo \in Nat, NEW hi \in Nat, lo <= hi,
         Claims(p, s, side, lo, hi),
         NEW t \in side, ~ Claiming(p[t]), Claiming(q[t]),
         q[t].pos = hi, q[t].n > 0, q[t].old = At(s, hi),
         \A u \in side : p[u].n \in Nat /\ p[u].pos \in Nat /\ q[u].n \in Nat,
         \A u \in side \ {t} : q[u] = p[u]
  PROVE  Claims(q, s, side, lo, hi + q[t].n)
<1> HIDE DEF Claiming
<1>1. /\ \A u \in side : Claiming(p[u]) =>
           /\ p[u].n > 0 /\ lo <= p[u].pos /\ p[u].pos + p[u].n <= hi
           /\ p[u].old = At(s, p[u].pos)
      /\ \A v, u \in side : Claiming(p[v]) /\ Claiming(p[u]) /\ v # u =>
           p[v].pos + p[v].n <= p[u].pos \/ p[u].pos + p[u].n <= p[v].pos
      /\ \A k \in lo .. hi - 1 : \E u \in side :
           Claiming(p[u]) /\ p[u].pos <= k /\ k < p[u].pos + p[u].n
  BY Zenon DEF Claims
<1>2. ASSUME NEW u \in side, Claiming(q[u])
      PROVE  /\ q[u].n > 0 /\ lo <= q[u].pos /\ q[u].pos + q[u].n <= hi + q[t].n
             /\ q[u].old = At(s, q[u].pos)
  <2>1. CASE u = t
    BY <2>1
  <2>2. CASE u # t
    BY <2>2, <1>1, <1>2
  <2> QED BY <2>1, <2>2
<1>3. ASSUME NEW v \in side, NEW u \in side, Claiming(q[v]), Claiming(q[u]), v # u
      PROVE  q[v].pos + q[v].n <= q[u].pos \/ q[u].pos + q[u].n <= q[v].pos
  <2>1. CASE v = t
    <3>1. q[u] = p[u] /\ p[u].pos + p[u].n <= hi
      BY Zenon, <2>1, <1>1, <1>3
    <3> QED BY <3>1, <2>1
  <2>2. CASE u = t
    <3>1. q[v] = p[v] /\ p[v].pos + p[v].n <= hi
      BY Zenon, <2>2, <1>1, <1>3
    <3> QED BY <3>1, <2>2
  <2>3. CASE v # t /\ u # t
    BY Zenon, <2>3, <1>1, <1>3
  <2> QED BY Zenon, <2>1, <2>2, <2>3
<1>4. ASSUME NEW k \in lo .. (hi + q[t].n) - 1
      PROVE  \E u \in side : Claiming(q[u]) /\ q[u].pos <= k /\ k < q[u].pos + q[u].n
  <2>1. CASE k < hi
    <3>1. k \in lo .. hi - 1
      BY <2>1
    <3>2. PICK u \in side : Claiming(p[u]) /\ p[u].pos <= k /\ k < p[u].pos + p[u].n
      BY Zenon, <3>1, <1>1
    <3>3. u # t
      BY <3>2
    <3> QED BY <3>2, <3>3
  <2>2. CASE k >= hi
    BY <2>2
  <2> QED BY <2>1, <2>2
<1> QED BY Zenon, <1>2, <1>3, <1>4 DEF Claims

(* Moving a tail over the first claim takes it away. *)
LEMMA ClaimsShrink ==
  ASSUME NEW p, NEW q, NEW s, NEW side, NEW lo \in Nat, NEW hi \in Nat,
         Claims(p, s, side, lo, hi),
         NEW t \in side, Claiming(p[t]), ~ Claiming(q[t]), p[t].pos = lo,
         \A u \in side : p[u].n \in Nat /\ p[u].pos \in Nat,
         \A u \in side \ {t} : q[u] = p[u]
  PROVE  Claims(q, s, side, lo + p[t].n, hi)
<1> HIDE DEF Claiming
<1>1. /\ \A u \in side : Claiming(p[u]) =>
           /\ p[u].n > 0 /\ lo <= p[u].pos /\ p[u].pos + p[u].n <= hi
           /\ p[u].old = At(s, p[u].pos)
      /\ \A v, u \in side : Claiming(p[v]) /\ Claiming(p[u]) /\ v # u =>
           p[v].pos + p[v].n <= p[u].pos \/ p[u].pos + p[u].n <= p[v].pos
      /\ \A k \in lo .. hi - 1 : \E u \in side :
           Claiming(p[u]) /\ p[u].pos <= k /\ k < p[u].pos + p[u].n
  BY DEF Claims
<1>2. ASSUME NEW u \in side, Claiming(q[u])
      PROVE  /\ q[u].n > 0 /\ lo + p[t].n <= q[u].pos /\ q[u].pos + q[u].n <= hi
             /\ q[u].old = At(s, q[u].pos)
  <2>1. u # t /\ q[u] = p[u]
    BY <1>2
  <2>2. /\ p[u].n > 0 /\ lo <= p[u].pos
        /\ p[t].pos + p[t].n <= p[u].pos \/ p[u].pos + p[u].n <= p[t].pos
    BY Zenon, <2>1, <1>1, <1>2
  <2>3. lo + p[t].n <= p[u].pos
    BY <2>2
  <2> QED BY Zenon, <2>1, <2>3, <1>1, <1>2
<1>3. ASSUME NEW v \in side, NEW u \in side, Claiming(q[v]), Claiming(q[u]), v # u
      PROVE  q[v].pos + q[v].n <= q[u].pos \/ q[u].pos + q[u].n <= q[v].pos
  BY <1>1, <1>3
<1>4. ASSUME NEW k \in (lo + p[t].n) .. hi - 1
      PROVE  \E u \in side : Claiming(q[u]) /\ q[u].pos <= k /\ k < q[u].pos + q[u].n
  <2>1. k \in lo .. hi - 1
    BY SMT
  <2>2. PICK u \in side : Claiming(p[u]) /\ p[u].pos <= k /\ k < p[u].pos + p[u].n
    BY <2>1, <1>1
  <2>3. u # t
    BY <2>2
  <2> QED BY <2>2, <2>3
<1> QED BY Zenon, <1>2, <1>3, <1>4 DEF Claims

(* The first claim starts where the tail is; a lone thread's is the first. *)
LEMMA FirstClaim ==
  ASSUME NEW p, NEW s, NEW side, NEW lo \in Nat, NEW hi \in Nat,
         Claims(p, s, side, lo, hi), Alone(p, side),
         NEW t \in side, Claiming(p[t]),
         \A u \in side : p[u].n \in Nat /\ p[u].pos \in Nat
  PROVE  p[t].pos = lo
<1>1. /\ p[t].n > 0 /\ lo <= p[t].pos /\ p[t].pos + p[t].n <= hi
      /\ \A k \in lo .. hi - 1 : \E u \in side :
           Claiming(p[u]) /\ p[u].pos <= k /\ k < p[u].pos + p[u].n
  BY DEF Claims
<1>2. lo \in lo .. hi - 1
  BY <1>1
<1>3. PICK u \in side : Claiming(p[u]) /\ p[u].pos <= lo
  BY <1>1, <1>2
<1>4. u = t
  BY <1>3 DEF Alone, Claiming
<1> QED BY <1>1, <1>3, <1>4

(* A claim is a stretch of less than a ring, so its slots are distinct and   *)
(* are those that the two loops of the copy go over; other positions between *)
(* the consumers' tail and the producers' head have other slots.             *)
LEMMA HoldsJoin ==
  ASSUME NEW r, NEW s, NEW a \in Int, NEW b \in Int, NEW c \in Int,
         Holds(r, s, a, b), Holds(r, s, b, c)
  PROVE  Holds(r, s, a, c)
<1>1. ASSUME NEW k \in a .. c - 1 PROVE r[SlotAt(s, k)] = k + 1
  <2>1. k \in a .. b - 1 \/ k \in b .. c - 1
    OBVIOUS
  <2> QED BY Zenon, <2>1 DEF Holds
<1> QED BY Zenon, <1>1 DEF Holds

LEMMA HoldsLess ==
  ASSUME NEW r, NEW s, NEW a \in Int, NEW b \in Int, NEW c \in Int, a <= b,
         Holds(r, s, a, c)
  PROVE  Holds(r, s, b, c)
<1>1. ASSUME NEW k \in b .. c - 1 PROVE r[SlotAt(s, k)] = k + 1
  <2>1. k \in a .. c - 1
    OBVIOUS
  <2> QED BY Zenon, <2>1 DEF Holds
<1> QED BY Zenon, <1>1 DEF Holds

(* A claim of n slots at idx is copied in two runs, the second from slot 0. *)
FirstRun(idx, n) == IF idx + n < Size THEN n ELSE Size - idx
CopyRuns(s, pos, n, idx, first) ==
  /\ idx \in 0 .. Size - 1 /\ first \in Nat /\ first <= n
  /\ \A j \in 0 .. n - 1 : SlotAt(s, pos + j) = (IF j < first THEN idx + j ELSE j - first)
  /\ \A j \in 0 .. n - 1 : j >= first => j - first < idx

LEMMA CopiedSlots ==
  ASSUME RingAssumptions, NEW s \in 0 .. Modulus - 1, NEW pos \in Nat, NEW n \in Nat,
         pos + n < Modulus, n < Size, NEW idx, idx = SlotAt(s, pos),
         NEW first, first = FirstRun(idx, n)
  PROVE  CopyRuns(s, pos, n, idx, first)
<1>1. Size \in Nat \ {0} /\ Modulus \in Nat /\ pos \in 0 .. Modulus - 1
  BY DEF RingAssumptions
<1>2. /\ SlotAt(s, pos) \in 0 .. Size - 1
      /\ \A j \in 0 .. Size - 1 :
           SlotAt(s, pos + j) = (IF SlotAt(s, pos) + j < Size THEN SlotAt(s, pos) + j
                                 ELSE SlotAt(s, pos) + j - Size)
  BY <1>1, SlotFacts
<1> QED BY <1>1, <1>2 DEF FirstRun, CopyRuns

LEMMA OtherSlots ==
  ASSUME RingAssumptions, NEW s \in 0 .. Modulus - 1,
         NEW j \in 0 .. Modulus - 1, NEW k \in 0 .. Modulus - 1, j # k,
         j - k < Size, k - j < Size
  PROVE  SlotAt(s, j) # SlotAt(s, k)
<1>1. Size \in Nat \ {0} /\ Modulus \in Nat
  BY DEF RingAssumptions
<1>2. CASE j < k
  <2> PICK d \in 1 .. Size - 1 : k = j + d
    <3>1. k - j \in 1 .. Size - 1 /\ k = j + (k - j)
      BY <1>1, <1>2
    <3> QED BY <3>1
  <2> QED BY SlotFacts
<1>3. CASE k < j
  <2> PICK d \in 1 .. Size - 1 : j = k + d
    <3>1. j - k \in 1 .. Size - 1 /\ j = k + (j - k)
      BY <1>1, <1>3
    <3> QED BY <3>1
  <2> QED BY SlotFacts
<1> QED BY <1>1, <1>2, <1>3
LEMMA RingInitInv == RingAssumptions /\ RingInit => RingInv
<1> SUFFICES ASSUME RingAssumptions, RingInit PROVE RingInv
  OBVIOUS
<1> USE DEF RgThreads
<1>1. /\ Modulus \in Nat \ {0} /\ Size \in Nat /\ MaxItems \in Nat /\ Capacity \in Nat
      /\ Starts \subseteq 0 .. Modulus - 1
  BY DEF RingAssumptions
<1>2. PICK start \in Starts, sp \in BOOLEAN, sc \in BOOLEAN :
        /\ prod = [head |-> start, tail |-> start, single |-> sp]
        /\ cons = [head |-> start, tail |-> start, single |-> sc]
  BY DEF RingInit
<1>3. /\ ring = [i \in 0 .. Size - 1 |-> Empty]
      /\ ringpc = [t \in RgThreads |-> Resting]
      /\ claimed = 0 /\ taken = [n |-> 0, good |-> TRUE]
  BY DEF RingInit
<1>4. RgTypeOK
  BY <1>1, <1>2, <1>3 DEF RgTypeOK, RgRecords, Resting, RingPlaces
<1>5. \A t \in RgThreads : ringpc[t].pc = "rest"
  BY <1>3 DEF Resting
<1>6. start \in 0 .. Modulus - 1 /\ At(start, 0) = start
  BY <1>1 DEF At
<1>7. RgCounters(start, 0, 0)
  BY <1>1, <1>2, <1>3, <1>6 DEF RgCounters
<1>8. /\ Claims(ringpc, start, Producers, 0, claimed)
      /\ Claims(ringpc, start, Consumers, 0, taken.n)
  BY <1>3, <1>5 DEF Claims, Claiming
<1>9. RgReaders(start, 0, 0) /\ RgSingle
  BY <1>5 DEF RgReaders, RgSingle, Alone
<1>10. RgContents(start, 0, 0)
  BY <1>3, <1>5 DEF RgContents, Holds
<1> QED BY <1>1, <1>4, <1>6, <1>7, <1>8, <1>9, <1>10 DEF RingInv, RgState

(* The states a thread goes through. *)
LEMMA RecordReadFacts ==
  ASSUME NEW c \in RgRecords, NEW old \in 0 .. Modulus - 1
  PROVE  /\ [c EXCEPT !.pc = "room", !.old = old] \in RgRecords
         /\ [c EXCEPT !.pc = "room", !.old = old].pc = "room"
         /\ [c EXCEPT !.pc = "room", !.old = old].old = old
BY Zenon DEF RgRecords, RingPlaces

LEMMA RestingFacts ==
  ASSUME Modulus \in Nat \ {0}, NEW n \in Nat, NEW fixed \in BOOLEAN
  PROVE  /\ Resting \in RgRecords
         /\ Resting.pc = "rest"
         /\ [Resting EXCEPT !.pc = "head", !.max = n, !.fixed = fixed] \in RgRecords
         /\ [Resting EXCEPT !.pc = "head", !.max = n, !.fixed = fixed].pc = "head"
<1>1. Resting \in RgRecords /\ Resting.pc = "rest"
  BY DEF RgRecords, RingPlaces, Resting
<1>2. PICK r \in RgRecords : r = Resting
  BY <1>1
<1>3. /\ [r EXCEPT !.pc = "head", !.max = n, !.fixed = fixed] \in RgRecords
      /\ [r EXCEPT !.pc = "head", !.max = n, !.fixed = fixed].pc = "head"
  BY Zenon DEF RgRecords, RingPlaces
<1> QED BY <1>1, <1>2, <1>3

(* A step of a thread changes its own record only. *)
LEMMA GotoFacts ==
  ASSUME RgTypeOK, NEW t \in RgThreads, NEW rec \in RgRecords, RingGoto(t, rec)
  PROVE  /\ ringpc' \in [RgThreads -> RgRecords]
         /\ ringpc'[t] = rec
         /\ \A u \in RgThreads \ {t} : ringpc'[u] = ringpc[u]
BY DEF RgTypeOK, RingGoto

(* The head or the tail of a side moves. *)
LEMMA SideFacts ==
  ASSUME NEW h \in [head : 0 .. Modulus - 1, tail : 0 .. Modulus - 1, single : BOOLEAN],
         NEW x \in 0 .. Modulus - 1
  PROVE  /\ h.head \in 0 .. Modulus - 1 /\ h.tail \in 0 .. Modulus - 1 /\ h.single \in BOOLEAN
         /\ [h EXCEPT !.head = x] \in [head : 0 .. Modulus - 1, tail : 0 .. Modulus - 1, single : BOOLEAN]
         /\ [h EXCEPT !.head = x].head = x
         /\ [h EXCEPT !.head = x].tail = h.tail
         /\ [h EXCEPT !.head = x].single = h.single
         /\ [h EXCEPT !.tail = x] \in [head : 0 .. Modulus - 1, tail : 0 .. Modulus - 1, single : BOOLEAN]
         /\ [h EXCEPT !.tail = x].head = h.head
         /\ [h EXCEPT !.tail = x].tail = x
         /\ [h EXCEPT !.tail = x].single = h.single
OBVIOUS

LEMMA RgTypeStep ==
  ASSUME RingAssumptions, RgTypeOK, [RingNext]_rgvars
  PROVE  RgTypeOK'
<1>1. /\ Modulus \in Nat \ {0} /\ Size \in Nat \ {0} /\ MaxItems \in Nat /\ Capacity \in Nat
      /\ Batches \subseteq Nat
  BY DEF RingAssumptions
<1>2. \A a \in Int : (a % Modulus) \in 0 .. Modulus - 1 /\ (a % Size) \in 0 .. Size - 1
  BY <1>1, ModSplit
<1>3. CASE UNCHANGED rgvars
  BY <1>3 DEF RgTypeOK, rgvars
<1>4. ASSUME NEW t \in RgThreads,
             \/ \E n \in Batches, fixed \in BOOLEAN : Call(t, n, fixed)
             \/ ReadHead(t) \/ ReadTail(t) \/ MoveProdHead(t) \/ MoveConsHead(t)
             \/ EnqueuePtrs(t) \/ DequeuePtrs(t) \/ UpdateTail(t)
      PROVE  RgTypeOK'
  <2>1. PICK c \in RgRecords : c = ringpc[t]
    BY DEF RgTypeOK
  <2>2. /\ c.max \in Nat /\ c.n \in Nat /\ c.fixed \in BOOLEAN
        /\ c.old \in 0 .. Modulus - 1 /\ c.pos \in Nat
    BY DEF RgRecords
  <2>3. PICK new \in 0 .. Modulus - 1 : new = (c.old + c.n) % Modulus
    <3>1. c.old + c.n \in Int
      BY <2>2
    <3> QED BY <3>1, <1>2
  <2>4. /\ prod.head \in 0 .. Modulus - 1 /\ prod.tail \in 0 .. Modulus - 1
        /\ cons.head \in 0 .. Modulus - 1 /\ cons.tail \in 0 .. Modulus - 1
        /\ claimed \in Nat /\ taken.n \in Nat /\ taken.good \in BOOLEAN
    BY <1>1 DEF RgTypeOK
  <2>5. ASSUME NEW n \in Batches, NEW fixed \in BOOLEAN, Call(t, n, fixed)
        PROVE  RgTypeOK'
    BY ZenonT(30), <1>1, <2>5, RestingFacts, GotoFacts DEF RgTypeOK, Call
  <2>6. CASE ReadHead(t)
    <3>1. PICK old \in 0 .. Modulus - 1 : old = IF t \in Producers THEN prod.head ELSE cons.head
      BY <2>4
    <3>2. RingGoto(t, [c EXCEPT !.pc = "room", !.old = old])
      BY <2>6, <2>1, <3>1 DEF ReadHead
    <3> QED BY Zenon, <2>6, <3>2, RecordReadFacts, GotoFacts DEF RgTypeOK, ReadHead
  <2>7. CASE ReadTail(t)
    <3>1. PICK room \in Nat : room = Room(t)
      <4>1. c.old - cons.tail \in Int /\ prod.tail - c.old \in Int
        BY <1>1, <2>2, <2>4
      <4>2. PICK used \in Int : used = Minus(c.old, cons.tail)
        BY <4>1, <1>2 DEF Minus
      <4>3. Minus(prod.tail, c.old) \in Nat
        BY <4>1, <1>2 DEF Minus
      <4>4. Minus(Capacity, Minus(c.old, cons.tail)) \in Nat
        <5>1. Capacity - used \in Int
          BY <1>1
        <5> QED BY <5>1, <4>2, <1>2 DEF Minus
      <4>5. Room(t) \in Nat
        BY <4>3, <4>4, <2>1 DEF Room
      <4> QED BY <4>5
    <3>2. PICK n \in Nat : RingGoto(t, IF n = 0 THEN Resting ELSE [c EXCEPT !.pc = "move", !.n = n])
      <4>1. PICK n \in Nat : n = IF c.max <= room THEN c.max ELSE IF c.fixed THEN 0 ELSE room
        BY <2>2
      <4> QED BY Zenon, <2>7, <3>1, <4>1, <2>1 DEF ReadTail
    <3>3. /\ Resting \in RgRecords
          /\ [c EXCEPT !.pc = "move", !.n = n] \in RgRecords
      <4>1. Resting \in RgRecords
        BY Zenon, <1>1, 0 \in Nat, RestingFacts
      <4>2. [c EXCEPT !.pc = "move", !.n = n] \in RgRecords
        BY Zenon DEF RgRecords, RingPlaces
      <4> QED BY <4>1, <4>2
    <3>4. ringpc' \in [RgThreads -> RgRecords]
      BY <3>2, <3>3, GotoFacts
    <3> QED BY <2>7, <3>4 DEF RgTypeOK, ReadTail
  <2>8. CASE MoveProdHead(t)
    <3>1. /\ [c EXCEPT !.pc = "copy", !.pos = claimed] \in RgRecords
          /\ [c EXCEPT !.pc = "head"] \in RgRecords
      BY Zenon, <2>4 DEF RgRecords, RingPlaces
    <3>2. ringpc' \in [RgThreads -> RgRecords]
      BY Zenon, <2>8, <3>1, <2>1, GotoFacts DEF MoveProdHead
    <3>3. CASE prod.single \/ prod.head = c.old
      <4>1. /\ prod' = [prod EXCEPT !.head = new]
            /\ claimed' = claimed + c.n /\ claimed + c.n <= MaxItems
            /\ UNCHANGED <<cons, ring, taken>>
        BY Zenon, <2>8, <2>1, <2>3, <3>3 DEF MoveProdHead
      <4>2. claimed' \in 0 .. MaxItems
        BY <4>1, <2>2, <2>4, <1>1
      <4> QED BY Zenon, <4>1, <4>2, <3>2, SideFacts DEF RgTypeOK
    <3>4. CASE ~ (prod.single \/ prod.head = c.old)
      BY <2>8, <2>1, <3>2, <3>4 DEF MoveProdHead, RgTypeOK
    <3> QED BY <3>3, <3>4
  <2>9. CASE MoveConsHead(t)
    <3>1. /\ [c EXCEPT !.pc = "copy", !.pos = taken.n] \in RgRecords
          /\ [c EXCEPT !.pc = "head"] \in RgRecords
      BY Zenon, <2>4 DEF RgRecords, RingPlaces
    <3>2. ringpc' \in [RgThreads -> RgRecords]
      BY Zenon, <2>9, <3>1, <2>1, GotoFacts DEF MoveConsHead
    <3>3. CASE cons.single \/ cons.head = c.old
      <4>1. /\ cons' = [cons EXCEPT !.head = new]
            /\ taken' = [taken EXCEPT !.n = taken.n + c.n]
            /\ UNCHANGED <<prod, ring, claimed>>
        BY Zenon, <2>9, <2>1, <2>3, <3>3 DEF MoveConsHead
      <4>2. taken' \in [n : Nat, good : BOOLEAN]
        <5>1. taken.n + c.n \in Nat
          BY <2>2, <2>4
        <5> QED BY <5>1, <4>1 DEF RgTypeOK
      <4> QED BY Zenon, <4>1, <4>2, <3>2, SideFacts DEF RgTypeOK
    <3>4. CASE ~ (cons.single \/ cons.head = c.old)
      BY <2>9, <2>1, <3>2, <3>4 DEF MoveConsHead, RgTypeOK
    <3> QED BY <3>3, <3>4
  <2>10. CASE EnqueuePtrs(t)
    <3>1. PICK idx \in 0 .. Size - 1 : idx = Slot(c.old)
      <4>1. c.old \in Int
        BY <1>1, <2>2
      <4> QED BY <4>1, <1>2 DEF Slot
    <3>2. PICK first \in Nat : first = IF idx + c.n < Size THEN c.n ELSE Size - idx
      <4>1. /\ c.n \in Nat /\ Size - idx \in Nat
        BY <1>1, <2>2
      <4> QED BY <4>1
    <3>3. ring' = [i \in 0 .. Size - 1 |->
             IF i \in idx .. idx + first - 1 THEN c.pos + (i - idx) + 1
             ELSE IF i \in 0 .. c.n - first - 1 THEN c.pos + first + i + 1 ELSE ring[i]]
      BY Zenon, <2>10, <2>1, <3>1, <3>2 DEF EnqueuePtrs
    <3>4. ASSUME NEW i \in 0 .. Size - 1
          PROVE  ring'[i] \in Nat \cup {Empty}
      <4>1. CASE i \in idx .. idx + first - 1
        <5>1. c.pos + (i - idx) + 1 \in Nat
          BY <4>1, <2>2, <1>1
        <5> QED BY <5>1, <4>1, <3>3
      <4>2. CASE i \notin idx .. idx + first - 1 /\ i \in 0 .. c.n - first - 1
        <5>1. c.pos + first + i + 1 \in Nat
          BY <4>2, <2>2, <1>1
        <5> QED BY <5>1, <4>2, <3>3
      <4>3. CASE i \notin idx .. idx + first - 1 /\ i \notin 0 .. c.n - first - 1
        BY <4>3, <3>3 DEF RgTypeOK
      <4> QED BY <4>1, <4>2, <4>3
    <3>5. ring' \in [0 .. Size - 1 -> Nat \cup {Empty}]
      BY <3>3, <3>4
    <3>6. ringpc' \in [RgThreads -> RgRecords]
      <4>1. [c EXCEPT !.pc = "tail"] \in RgRecords
        BY DEF RgRecords, RingPlaces
      <4> QED BY Zenon, <4>1, <2>10, <2>1, GotoFacts DEF EnqueuePtrs
    <3> QED BY Zenon, <2>10, <3>5, <3>6 DEF RgTypeOK, EnqueuePtrs
  <2>11. CASE DequeuePtrs(t)
    <3>1. PICK b \in BOOLEAN : taken' = [taken EXCEPT !.good = b]
      BY Zenon, <2>11, <2>4 DEF DequeuePtrs
    <3>2. taken' \in [n : Nat, good : BOOLEAN]
      BY <3>1 DEF RgTypeOK
    <3>3. ringpc' \in [RgThreads -> RgRecords]
      <4>1. [c EXCEPT !.pc = "tail"] \in RgRecords
        BY DEF RgRecords, RingPlaces
      <4> QED BY Zenon, <4>1, <2>11, <2>1, GotoFacts DEF DequeuePtrs
    <3> QED BY Zenon, <2>11, <3>2, <3>3 DEF RgTypeOK, DequeuePtrs
  <2>12. CASE UpdateTail(t)
    <3>1. ringpc' \in [RgThreads -> RgRecords]
      BY Zenon, <2>12, <1>1, RestingFacts, GotoFacts DEF UpdateTail
    <3>2. /\ \/ prod' = [prod EXCEPT !.tail = new] /\ UNCHANGED cons
             \/ cons' = [cons EXCEPT !.tail = new] /\ UNCHANGED prod
          /\ UNCHANGED <<ring, claimed, taken>>
      BY Zenon, <2>12, <2>1, <2>3 DEF UpdateTail
    <3> QED BY <3>1, <3>2, SideFacts DEF RgTypeOK
  <2> QED BY Zenon, <1>4, <2>5, <2>6, <2>7, <2>8, <2>9, <2>10, <2>11, <2>12
<1> QED BY <1>3, <1>4 DEF RingNext, RgThreads
(* A thread that neither claims nor gives back leaves the shared state alone. *)
LEMMA LocalStep ==
  ASSUME RingAssumptions, NEW s, NEW pt, NEW ct, RgState(s, pt, ct), NEW t \in RgThreads,
         UNCHANGED <<prod, cons, ring, claimed, taken>>,
         \A u \in RgThreads \ {t} : ringpc'[u] = ringpc[u],
         ~ Claiming(ringpc[t]), ~ Claiming(ringpc'[t]),
         t \in Producers /\ ringpc'[t].pc \in {"room", "move"} =>
           ReadAt(ringpc'[t], s, claimed, Capacity - (claimed - ct), prod.single),
         t \in Consumers /\ ringpc'[t].pc \in {"room", "move"} =>
           ReadAt(ringpc'[t], s, taken.n, pt - taken.n, cons.single),
         \/ ringpc[t].pc # "rest"
         \/ ringpc'[t].pc = "rest"
         \/ /\ t \in Producers /\ prod.single => \A o \in Producers : ringpc[o].pc = "rest"
            /\ t \in Consumers /\ cons.single => \A o \in Consumers : ringpc[o].pc = "rest"
  PROVE  RgState(s, pt, ct)'
<1>1. Producers \subseteq RgThreads /\ Consumers \subseteq RgThreads
  BY DEF RgThreads
<1>2. RgCounters(s, pt, ct)'
  BY Zenon DEF RgState, RgCounters
<1>3. /\ Claims(ringpc', s, Producers, pt, claimed')
      /\ Claims(ringpc', s, Consumers, ct, taken'.n)
  <2>1. \A u \in RgThreads : /\ Claiming(ringpc'[u]) <=> Claiming(ringpc[u])
                             /\ Claiming(ringpc[u]) => ringpc'[u] = ringpc[u]
    OBVIOUS
  <2>2. Claims(ringpc, s, Producers, pt, claimed) /\ Claims(ringpc, s, Consumers, ct, taken.n)
    BY DEF RgState
  <2>3. Claims(ringpc', s, Producers, pt, claimed)
    BY Zenon, <1>1, <2>1, <2>2, ClaimsKept
  <2>4. Claims(ringpc', s, Consumers, ct, taken.n)
    BY Zenon, <1>1, <2>1, <2>2, ClaimsKept
  <2> QED BY <2>3, <2>4
<1>4. RgReaders(s, pt, ct)'
  <2>1. RgReaders(s, pt, ct)
    BY DEF RgState
  <2>2. ASSUME NEW u \in Producers, ringpc'[u].pc \in {"room", "move"}
        PROVE  ReadAt(ringpc'[u], s, claimed, Capacity - (claimed - ct), prod.single)
    BY Zenon, <1>1, <2>1, <2>2 DEF RgReaders
  <2>3. ASSUME NEW u \in Consumers, ringpc'[u].pc \in {"room", "move"}
        PROVE  ReadAt(ringpc'[u], s, taken.n, pt - taken.n, cons.single)
    BY Zenon, <1>1, <2>1, <2>3 DEF RgReaders
  <2> QED BY Zenon, <2>2, <2>3 DEF RgReaders
<1>5. RgSingle'
  <2>1. RgSingle
    BY DEF RgState
  <2>2. ASSUME prod.single PROVE Alone(ringpc', Producers)
    BY <2>1, <2>2, <1>1 DEF RgSingle, Alone
  <2>3. ASSUME cons.single PROVE Alone(ringpc', Consumers)
    BY <2>1, <2>3, <1>1 DEF RgSingle, Alone
  <2> QED BY <2>2, <2>3 DEF RgSingle
<1>6. RgContents(s, pt, ct)'
  <2>1. RgContents(s, pt, ct)
    BY DEF RgState
  <2>2. ASSUME NEW u \in Producers, ringpc'[u].pc = "tail"
        PROVE  Holds(ring, s, ringpc'[u].pos, ringpc'[u].pos + ringpc'[u].n)
    <3>1. u # t
      BY <2>2 DEF Claiming
    <3> QED BY Zenon, <2>1, <2>2, <3>1, <1>1 DEF RgContents
  <2> QED BY Zenon, <2>1, <2>2 DEF RgContents
<1> QED BY Zenon, <1>2, <1>3, <1>4, <1>5, <1>6 DEF RgState

LEMMA CallStep ==
  ASSUME RingAssumptions, RgTypeOK, NEW s, NEW pt, NEW ct, RgState(s, pt, ct),
         NEW t \in RgThreads, NEW n \in Batches, NEW fixed \in BOOLEAN, Call(t, n, fixed)
  PROVE  RgState(s, pt, ct)'
<1>1. Modulus \in Nat \ {0} /\ n \in Nat
  BY DEF RingAssumptions
<1>2. /\ ringpc'[t].pc = "head"
      /\ \A u \in RgThreads \ {t} : ringpc'[u] = ringpc[u]
  BY ZenonT(30), <1>1, RestingFacts, GotoFacts DEF Call
<1>3. /\ ringpc[t].pc = "rest"
      /\ UNCHANGED <<prod, cons, ring, claimed, taken>>
      /\ t \in Producers /\ prod.single => \A o \in Producers : ringpc[o].pc = "rest"
      /\ t \in Consumers /\ cons.single => \A o \in Consumers : ringpc[o].pc = "rest"
  BY DEF Call, RingAssumptions
<1>4. ~ Claiming(ringpc[t]) /\ ~ Claiming(ringpc'[t])
  BY <1>2, <1>3 DEF Claiming
<1>5. ringpc'[t].pc \notin {"room", "move"}
  BY <1>2
<1> QED BY Zenon, <1>2, <1>3, <1>4, <1>5, LocalStep

(* What the counters say of the positions, as numbers. *)
LEMMA PositionFacts ==
  ASSUME RingAssumptions, RgTypeOK, NEW s \in 0 .. Modulus - 1,
         NEW pt \in 0 .. MaxItems, NEW ct \in 0 .. MaxItems, RgState(s, pt, ct)
  PROVE  /\ Modulus \in Nat \ {0} /\ Size \in Nat \ {0} /\ Capacity \in Nat /\ Capacity < Size
         /\ Size <= Modulus
         /\ claimed \in 0 .. Modulus - 1 /\ taken.n \in 0 .. Modulus - 1
         /\ pt \in 0 .. Modulus - 1 /\ ct \in 0 .. Modulus - 1
         /\ ct <= taken.n /\ taken.n <= pt /\ pt <= claimed /\ claimed - ct <= Capacity
         /\ prod.head = At(s, claimed) /\ prod.tail = At(s, pt)
         /\ cons.head = At(s, taken.n) /\ cons.tail = At(s, ct)
<1>1. /\ Modulus \in Nat \ {0} /\ Size \in Nat \ {0} /\ Capacity \in Nat /\ Capacity < Size
      /\ MaxItems \in Nat /\ MaxItems < Modulus
  BY DEF RingAssumptions
<1>2. Size <= Modulus
  <2>1. PICK laps \in Nat \ {0} : Modulus = laps * Size
    BY DEF RingAssumptions
  <2>2. \A a, b \in Nat \ {0} : b <= a * b
    OBVIOUS
  <2> QED BY <1>1, <2>1, <2>2
<1>3. /\ ct <= taken.n /\ taken.n <= pt /\ pt <= claimed /\ claimed - ct <= Capacity
      /\ prod.head = At(s, claimed) /\ prod.tail = At(s, pt)
      /\ cons.head = At(s, taken.n) /\ cons.tail = At(s, ct)
  BY DEF RgState, RgCounters
<1>4. claimed \in 0 .. MaxItems /\ taken.n \in Nat
  BY DEF RgTypeOK
<1> QED BY <1>1, <1>2, <1>3, <1>4

LEMMA ReadHeadStep ==
  ASSUME RingAssumptions, RgTypeOK, NEW s \in 0 .. Modulus - 1,
         NEW pt \in 0 .. MaxItems, NEW ct \in 0 .. MaxItems, RgState(s, pt, ct),
         NEW t \in RgThreads, ReadHead(t)
  PROVE  RgState(s, pt, ct)'
<1>1. /\ prod.head = At(s, claimed) /\ cons.head = At(s, taken.n)
      /\ claimed \in Nat /\ taken.n \in Nat
      /\ prod.head \in 0 .. Modulus - 1 /\ cons.head \in 0 .. Modulus - 1
  BY PositionFacts DEF RgTypeOK
<1>2. PICK c \in RgRecords : c = ringpc[t]
  BY DEF RgTypeOK
<1>3. PICK old \in 0 .. Modulus - 1 : old = IF t \in Producers THEN prod.head ELSE cons.head
  BY <1>1
<1>4. PICK rec \in RgRecords : RingGoto(t, rec) /\ rec.pc = "room" /\ rec.old = old
  <2>1. RingGoto(t, [c EXCEPT !.pc = "room", !.old = old])
    BY <1>2, <1>3 DEF ReadHead
  <2> QED BY Zenon, <2>1, RecordReadFacts
<1>5. /\ ringpc'[t].pc = "room" /\ ringpc'[t].old = old
      /\ \A u \in RgThreads \ {t} : ringpc'[u] = ringpc[u]
  BY <1>4, GotoFacts
<1>6. ringpc[t].pc = "head" /\ UNCHANGED <<prod, cons, ring, claimed, taken>>
  BY DEF ReadHead
<1>7. ~ Claiming(ringpc[t]) /\ ~ Claiming(ringpc'[t]) /\ ringpc[t].pc # "rest"
  BY <1>5, <1>6 DEF Claiming
<1>8. ASSUME t \in Producers
      PROVE  ReadAt(ringpc'[t], s, claimed, Capacity - (claimed - ct), prod.single)
  BY <1>8, <1>1, <1>3, <1>5 DEF ReadAt
<1>9. ASSUME t \in Consumers
      PROVE  ReadAt(ringpc'[t], s, taken.n, pt - taken.n, cons.single)
  BY <1>9, <1>1, <1>3, <1>5 DEF ReadAt, RingAssumptions
<1> QED BY Zenon, <1>5, <1>6, <1>7, <1>8, <1>9, LocalStep
(* A thread that finds room finds room it may use, if the head has not moved. *)
LEMMA ReadTailStep ==
  ASSUME RingAssumptions, RgTypeOK, NEW s \in 0 .. Modulus - 1,
         NEW pt \in 0 .. MaxItems, NEW ct \in 0 .. MaxItems, RgState(s, pt, ct),
         NEW t \in RgThreads, ReadTail(t)
  PROVE  RgState(s, pt, ct)'
<1>1. /\ Modulus \in Nat \ {0} /\ Size \in Nat \ {0} /\ Capacity \in Nat /\ Capacity < Size
      /\ Size <= Modulus
      /\ claimed \in 0 .. Modulus - 1 /\ taken.n \in 0 .. Modulus - 1
      /\ pt \in 0 .. Modulus - 1 /\ ct \in 0 .. Modulus - 1
      /\ ct <= taken.n /\ taken.n <= pt /\ pt <= claimed /\ claimed - ct <= Capacity
      /\ prod.tail = At(s, pt) /\ cons.tail = At(s, ct)
  BY PositionFacts
<1>2. PICK c \in RgRecords : c = ringpc[t]
  BY DEF RgTypeOK
<1>3. c.pc = "room" /\ c.max \in Nat /\ c.fixed \in BOOLEAN /\ c.old \in 0 .. Modulus - 1
  BY <1>2 DEF RgRecords, ReadTail
<1>4. UNCHANGED <<prod, cons, ring, claimed, taken>>
  BY DEF ReadTail
<1>5. PICK room \in Nat : room = Room(t)
  <2>1. \A a \in Int : (a % Modulus) \in Nat
    BY Zenon, <1>1, ModNat
  <2>2. At(s, pt) \in Int /\ At(s, ct) \in Int
    BY <1>1 DEF At
  <2>3. c.old - At(s, ct) \in Int /\ At(s, pt) - c.old \in Int
    BY <1>1, <1>3, <2>2
  <2>4. PICK used \in Nat : used = Minus(c.old, cons.tail)
    BY <1>1, <2>1, <2>3 DEF Minus
  <2>5. Minus(prod.tail, c.old) \in Nat
    BY <1>1, <2>1, <2>3 DEF Minus
  <2>6. Minus(Capacity, Minus(c.old, cons.tail)) \in Nat
    <3>1. Capacity - used \in Int
      BY <1>1
    <3> QED BY <3>1, <2>4, <2>1 DEF Minus
  <2>7. Room(t) \in Nat
    BY <2>5, <2>6, <1>2 DEF Room
  <2> QED BY <2>7
<1>6. PICK n \in Nat : /\ n <= room
                       /\ RingGoto(t, IF n = 0 THEN Resting ELSE [c EXCEPT !.pc = "move", !.n = n])
  <2>1. PICK n \in Nat : n = IF c.max <= room THEN c.max ELSE IF c.fixed THEN 0 ELSE room
    BY <1>3
  <2>2. n <= room
    BY <2>1, <1>3
  <2> QED BY Zenon, <2>1, <2>2, <1>2, <1>5 DEF ReadTail
<1>7. PICK rec \in RgRecords :
        /\ RingGoto(t, rec)
        /\ rec.pc = "rest" \/ (rec.pc = "move" /\ rec.old = c.old /\ rec.n = n /\ n > 0)
  <2>1. CASE n = 0
    BY Zenon, <2>1, <1>6, <1>1, 0 \in Nat, RestingFacts
  <2>2. CASE n # 0
    <3>1. /\ [c EXCEPT !.pc = "move", !.n = n] \in RgRecords
          /\ [c EXCEPT !.pc = "move", !.n = n].pc = "move"
          /\ [c EXCEPT !.pc = "move", !.n = n].old = c.old
          /\ [c EXCEPT !.pc = "move", !.n = n].n = n
      BY Zenon DEF RgRecords, RingPlaces
    <3>2. n > 0 /\ RingGoto(t, [c EXCEPT !.pc = "move", !.n = n])
      BY <2>2, <1>6
    <3> QED BY Zenon, <3>1, <3>2
  <2> QED BY <2>1, <2>2
<1>8. ringpc'[t] = rec /\ \A u \in RgThreads \ {t} : ringpc'[u] = ringpc[u]
  BY <1>7, GotoFacts
<1>9. ~ Claiming(ringpc[t]) /\ ~ Claiming(ringpc'[t]) /\ ringpc[t].pc # "rest"
  BY <1>2, <1>3, <1>7, <1>8 DEF Claiming
<1>10. ASSUME t \in Producers, rec.pc \in {"room", "move"}
       PROVE  ReadAt(rec, s, claimed, Capacity - (claimed - ct), prod.single)
  <2>1. ReadAt(c, s, claimed, Capacity - (claimed - ct), prod.single)
    BY Zenon, <1>10, <1>2, <1>3 DEF RgState, RgReaders
  <2>2. PICK o \in 0 .. claimed : c.old = At(s, o) /\ (prod.single => o = claimed)
    BY <2>1 DEF ReadAt
  <2>3. ASSUME o = claimed
        PROVE  n <= Capacity - (claimed - ct)
    <3>1. Minus(At(s, claimed), At(s, ct)) = claimed - ct
      <4>1. ct \in 0 .. claimed
        BY <1>1
      <4> QED BY ZenonT(30), <4>1, <1>1, AtFacts
    <3>2. PICK d \in 0 .. Modulus - 1 : d = Capacity - (claimed - ct)
      <4>1. Capacity - (claimed - ct) \in 0 .. Modulus - 1
        BY <1>1
      <4> QED BY <4>1
    <3>3. d % Modulus = d
      BY Zenon, <1>1, ModSmall
    <3>4. room = d
      BY Zenon, <3>1, <3>2, <3>3, <2>2, <2>3, <1>1, <1>2, <1>5, <1>10 DEF Room, Minus
    <3> QED BY <3>2, <3>4, <1>6
  <2> QED BY <2>2, <2>3, <1>7, <1>10 DEF ReadAt
<1>11. ASSUME t \in Consumers, rec.pc \in {"room", "move"}
       PROVE  ReadAt(rec, s, taken.n, pt - taken.n, cons.single)
  <2>1. ReadAt(c, s, taken.n, pt - taken.n, cons.single)
    BY Zenon, <1>11, <1>2, <1>3 DEF RgState, RgReaders
  <2>2. PICK o \in 0 .. taken.n : c.old = At(s, o) /\ (cons.single => o = taken.n)
    BY <2>1 DEF ReadAt
  <2>3. ASSUME o = taken.n
        PROVE  n <= pt - taken.n
    <3>1. Minus(At(s, pt), At(s, taken.n)) = pt - taken.n
      <4>1. taken.n \in 0 .. pt
        BY <1>1
      <4> QED BY ZenonT(30), <4>1, <1>1, AtFacts
    <3>2. t \notin Producers
      BY <1>11 DEF RingAssumptions
    <3>3. room = pt - taken.n
      BY Zenon, <3>1, <3>2, <2>2, <2>3, <1>1, <1>2, <1>5 DEF Room
    <3> QED BY <3>3, <1>6
  <2> QED BY <2>2, <2>3, <1>7, <1>11 DEF ReadAt
<1> QED BY Zenon, <1>4, <1>8, <1>9, <1>10, <1>11, LocalStep
(* A thread whose compare-and-swap fails reads the head again. *)
LEMMA RetryStep ==
  ASSUME RingAssumptions, RgTypeOK, NEW s \in 0 .. Modulus - 1,
         NEW pt \in 0 .. MaxItems, NEW ct \in 0 .. MaxItems, RgState(s, pt, ct),
         NEW t \in RgThreads, ringpc[t].pc = "move",
         RingGoto(t, [ringpc[t] EXCEPT !.pc = "head"]),
         UNCHANGED <<prod, cons, ring, claimed, taken>>
  PROVE  RgState(s, pt, ct)'
<1>1. PICK c \in RgRecords : c = ringpc[t]
  BY DEF RgTypeOK
<1>2. PICK rec \in RgRecords : RingGoto(t, rec) /\ rec.pc = "head"
  <2>1. [c EXCEPT !.pc = "head"] \in RgRecords /\ [c EXCEPT !.pc = "head"].pc = "head"
    BY DEF RgRecords, RingPlaces
  <2> QED BY Zenon, <2>1, <1>1
<1>3. ringpc'[t] = rec /\ \A u \in RgThreads \ {t} : ringpc'[u] = ringpc[u]
  BY <1>2, GotoFacts
<1>4. ~ Claiming(ringpc[t]) /\ ~ Claiming(ringpc'[t]) /\ ringpc[t].pc # "rest"
  BY <1>2, <1>3 DEF Claiming
<1>5. ringpc'[t].pc \notin {"room", "move"}
  BY <1>2, <1>3
<1> QED BY Zenon, <1>3, <1>4, <1>5, LocalStep

(* A head that moves on leaves the heads read before behind it. *)
LEMMA ReadBehind ==
  ASSUME NEW c, NEW s, NEW head \in Nat, NEW to \in Nat, head < to,
         NEW limit, NEW beyond, NEW single, ReadAt(c, s, head, limit, single), ~ single
  PROVE  ReadAt(c, s, to, beyond, single)
BY DEF ReadAt

(* Claiming room: the head was where the thread read it, so the room is there. *)
LEMMA MoveProdHeadStep ==
  ASSUME RingAssumptions, RgTypeOK, NEW s \in 0 .. Modulus - 1,
         NEW pt \in 0 .. MaxItems, NEW ct \in 0 .. MaxItems, RgState(s, pt, ct),
         NEW t \in RgThreads, MoveProdHead(t)
  PROVE  RgState(s, pt, ct)'
<1>1. /\ Modulus \in Nat \ {0} /\ Capacity \in Nat
      /\ claimed \in 0 .. Modulus - 1 /\ taken.n \in 0 .. Modulus - 1
      /\ pt \in 0 .. Modulus - 1 /\ ct \in 0 .. Modulus - 1
      /\ ct <= taken.n /\ taken.n <= pt /\ pt <= claimed /\ claimed - ct <= Capacity
      /\ prod.head = At(s, claimed) /\ prod.tail = At(s, pt)
      /\ cons.head = At(s, taken.n) /\ cons.tail = At(s, ct)
  BY PositionFacts
<1>2. PICK c \in RgRecords : c = ringpc[t]
  BY DEF RgTypeOK
<1>3. c.pc = "move" /\ t \in Producers /\ t \notin Consumers /\ c.n \in Nat
  BY <1>2 DEF RgRecords, MoveProdHead, RingAssumptions
<1>4. CASE ~ (prod.single \/ prod.head = c.old)
  BY Zenon, <1>2, <1>3, <1>4, RetryStep DEF MoveProdHead
<1>5. CASE prod.single \/ prod.head = c.old
  <2>1. /\ claimed + c.n <= MaxItems /\ claimed' = claimed + c.n
        /\ prod' = [prod EXCEPT !.head = (c.old + c.n) % Modulus]
        /\ UNCHANGED <<cons, ring, taken>>
    BY Zenon, <1>2, <1>5 DEF MoveProdHead
  <2>2. claimed + c.n \in 0 .. Modulus - 1
    BY <2>1, <1>1, <1>3 DEF RingAssumptions
  <2>3. PICK o \in 0 .. claimed :
          /\ c.old = At(s, o) /\ (prod.single => o = claimed)
          /\ c.n > 0 /\ (o = claimed => c.n <= Capacity - (claimed - ct))
    BY Zenon, <1>2, <1>3 DEF RgState, RgReaders, ReadAt
  <2>4. o = claimed
    <3>1. At(s, claimed) = At(s, o) => claimed = o
      BY <1>1, AtFacts
    <3> QED BY Zenon, <3>1, <2>3, <1>1, <1>5
  <2>5. (c.old + c.n) % Modulus = At(s, claimed + c.n)
    <3>1. PICK a \in 0 .. Modulus - 1 : a = claimed + c.n
      BY <2>2
    <3>2. claimed \in 0 .. a /\ a - claimed = c.n
      BY <3>1, <1>1, <1>3
    <3>3. (At(s, claimed) + (a - claimed)) % Modulus = At(s, a)
      BY <3>2, AtFacts
    <3> QED BY Zenon, <3>1, <3>2, <3>3, <2>3, <2>4
  <2>6. /\ prod'.head = At(s, claimed') /\ prod'.tail = prod.tail
        /\ prod'.single = prod.single
    BY <2>1, <2>5 DEF RgTypeOK
  <2>7. PICK rec \in RgRecords :
          /\ RingGoto(t, rec) /\ rec.pc = "copy" /\ rec.pos = claimed
          /\ rec.n = c.n /\ rec.old = c.old
    <3>1. PICK k \in Nat : k = claimed
      BY <1>1
    <3>2. /\ [c EXCEPT !.pc = "copy", !.pos = k] \in RgRecords
          /\ [c EXCEPT !.pc = "copy", !.pos = k].pc = "copy"
          /\ [c EXCEPT !.pc = "copy", !.pos = k].pos = k
          /\ [c EXCEPT !.pc = "copy", !.pos = k].n = c.n
          /\ [c EXCEPT !.pc = "copy", !.pos = k].old = c.old
      BY Zenon DEF RgRecords, RingPlaces
    <3>3. RingGoto(t, [c EXCEPT !.pc = "copy", !.pos = k])
      BY Zenon, <1>2, <1>5, <3>1 DEF MoveProdHead
    <3> QED BY Zenon, <3>1, <3>2, <3>3
  <2>8. /\ ringpc' \in [RgThreads -> RgRecords] /\ ringpc'[t] = rec
        /\ \A u \in RgThreads \ {t} : ringpc'[u] = ringpc[u]
    BY <2>7, GotoFacts
  <2>9. Producers \subseteq RgThreads /\ Consumers \subseteq RgThreads
    BY DEF RgThreads
  <2>10. RgCounters(s, pt, ct)'
    <3>1. pt <= claimed' /\ claimed' - ct <= Capacity
      BY <2>1, <2>3, <2>4, <1>1, <1>3
    <3> QED BY Zenon, <3>1, <2>1, <2>6, <1>1 DEF RgCounters
  <2>11. Claims(ringpc', s, Producers, pt, claimed')
    <3>1. \A u \in Producers : /\ ringpc[u].n \in Nat /\ ringpc[u].pos \in Nat
                               /\ ringpc'[u].n \in Nat
      BY Zenon, <2>8, <2>9 DEF RgTypeOK, RgRecords
    <3>2. Claims(ringpc, s, Producers, pt, claimed)
      BY DEF RgState
    <3>3. /\ ~ Claiming(ringpc[t]) /\ Claiming(ringpc'[t])
          /\ ringpc'[t].pos = claimed /\ ringpc'[t].n > 0 /\ ringpc'[t].old = At(s, claimed)
      BY Zenon, <1>2, <1>3, <2>3, <2>4, <2>7, <2>8 DEF Claiming
    <3>4. pt \in Nat /\ claimed \in Nat /\ pt <= claimed
      BY <1>1
    <3>5. Claims(ringpc', s, Producers, pt, claimed + ringpc'[t].n)
      BY Zenon, <3>1, <3>2, <3>3, <3>4, <1>3, <2>8, <2>9, ClaimsGrow
    <3> QED BY <3>5, <2>1, <2>7, <2>8
  <2>12. Claims(ringpc', s, Consumers, ct, taken'.n)
    <3>1. Claims(ringpc, s, Consumers, ct, taken.n)
      BY DEF RgState
    <3>2. \A u \in Consumers : ringpc'[u] = ringpc[u]
      BY <1>3, <2>8, <2>9
    <3>3. Claims(ringpc', s, Consumers, ct, taken.n)
      BY Zenon, <3>1, <3>2, ClaimsKept
    <3> QED BY <3>3, <2>1
  <2>13. RgReaders(s, pt, ct)'
    <3>1. ASSUME NEW u \in Producers, ringpc'[u].pc \in {"room", "move"}
          PROVE  ReadAt(ringpc'[u], s, claimed', Capacity - (claimed' - ct), prod'.single)
      <4>1. u # t /\ ringpc'[u] = ringpc[u]
        BY <3>1, <2>7, <2>8, <2>9
      <4>2. ReadAt(ringpc[u], s, claimed, Capacity - (claimed - ct), prod.single)
        BY <3>1, <4>1 DEF RgState, RgReaders
      <4>3. ~ prod.single
        BY Zenon, <3>1, <4>1, <1>2, <1>3 DEF RgState, RgSingle, Alone
      <4>4. claimed \in Nat /\ claimed' \in Nat /\ claimed < claimed'
        BY <2>1, <2>2, <2>3, <1>1, <1>3
      <4>5. ReadAt(ringpc[u], s, claimed', Capacity - (claimed' - ct), prod.single)
        BY <4>2, <4>3, <4>4, ReadBehind
      <4> QED BY <4>1, <4>5, <2>6
    <3>2. ASSUME NEW u \in Consumers, ringpc'[u].pc \in {"room", "move"}
          PROVE  ReadAt(ringpc'[u], s, taken'.n, pt - taken'.n, cons'.single)
      <4>1. ringpc'[u] = ringpc[u]
        BY <1>3, <2>8, <2>9
      <4> QED BY Zenon, <4>1, <3>2, <2>1 DEF RgState, RgReaders
    <3> QED BY <3>1, <3>2 DEF RgReaders
  <2>14. RgSingle'
    <3>1. \A u \in RgThreads : ringpc'[u].pc # "rest" => ringpc[u].pc # "rest"
      BY <1>2, <1>3, <2>8
    <3> QED BY Zenon, <3>1, <2>1, <2>6, <2>9 DEF RgState, RgSingle, Alone
  <2>15. RgContents(s, pt, ct)'
    <3>1. ASSUME NEW u \in Producers, ringpc'[u].pc = "tail"
          PROVE  Holds(ring, s, ringpc'[u].pos, ringpc'[u].pos + ringpc'[u].n)
      <4>1. ringpc'[u] = ringpc[u]
        BY <3>1, <2>7, <2>8, <2>9
      <4> QED BY <3>1, <4>1 DEF RgState, RgContents
    <3>2. Holds(ring, s, ct, pt) /\ taken.good
      BY DEF RgState, RgContents
    <3> QED BY <3>1, <3>2, <2>1 DEF RgContents
  <2> QED BY Zenon, <2>10, <2>11, <2>12, <2>13, <2>14, <2>15 DEF RgState
<1> QED BY <1>4, <1>5
(* Claiming objects: they were published, for the tail only moves on. *)
LEMMA MoveConsHeadStep ==
  ASSUME RingAssumptions, RgTypeOK, NEW s \in 0 .. Modulus - 1,
         NEW pt \in 0 .. MaxItems, NEW ct \in 0 .. MaxItems, RgState(s, pt, ct),
         NEW t \in RgThreads, MoveConsHead(t)
  PROVE  RgState(s, pt, ct)'
<1>1. /\ Modulus \in Nat \ {0} /\ Capacity \in Nat
      /\ claimed \in 0 .. Modulus - 1 /\ taken.n \in 0 .. Modulus - 1
      /\ pt \in 0 .. Modulus - 1 /\ ct \in 0 .. Modulus - 1
      /\ ct <= taken.n /\ taken.n <= pt /\ pt <= claimed /\ claimed - ct <= Capacity
      /\ prod.head = At(s, claimed) /\ prod.tail = At(s, pt)
      /\ cons.head = At(s, taken.n) /\ cons.tail = At(s, ct)
  BY PositionFacts
<1>2. PICK c \in RgRecords : c = ringpc[t]
  BY DEF RgTypeOK
<1>3. c.pc = "move" /\ t \in Consumers /\ t \notin Producers /\ c.n \in Nat
  BY <1>2 DEF RgRecords, MoveConsHead, RingAssumptions
<1>4. CASE ~ (cons.single \/ cons.head = c.old)
  BY Zenon, <1>2, <1>3, <1>4, RetryStep DEF MoveConsHead
<1>5. CASE cons.single \/ cons.head = c.old
  <2>1. /\ taken' = [taken EXCEPT !.n = taken.n + c.n]
        /\ cons' = [cons EXCEPT !.head = (c.old + c.n) % Modulus]
        /\ UNCHANGED <<prod, ring, claimed>>
    BY Zenon, <1>2, <1>5 DEF MoveConsHead
  <2>2. taken'.n = taken.n + c.n /\ taken'.good = taken.good
    BY <2>1 DEF RgTypeOK
  <2>3. PICK o \in 0 .. taken.n :
          /\ c.old = At(s, o) /\ (cons.single => o = taken.n)
          /\ c.n > 0 /\ (o = taken.n => c.n <= pt - taken.n)
    BY Zenon, <1>2, <1>3 DEF RgState, RgReaders, ReadAt
  <2>4. o = taken.n
    <3>1. At(s, taken.n) = At(s, o) => taken.n = o
      BY ZenonT(30), <1>1, AtFacts
    <3> QED BY Zenon, <3>1, <2>3, <1>1, <1>5
  <2>5. (c.old + c.n) % Modulus = At(s, taken.n + c.n)
    <3>1. PICK a \in 0 .. Modulus - 1 : a = taken.n + c.n
      <4>1. taken.n + c.n \in 0 .. Modulus - 1
        BY SMTT(30), <2>3, <2>4, <1>1, <1>3
      <4> QED BY <4>1
    <3>2. taken.n \in 0 .. a /\ a - taken.n = c.n
      BY <3>1, <1>1, <1>3
    <3>3. (At(s, taken.n) + (a - taken.n)) % Modulus = At(s, a)
      BY Zenon, <3>2, AtFacts
    <3> QED BY Zenon, <3>1, <3>2, <3>3, <2>3, <2>4
  <2>6. /\ cons'.head = At(s, taken'.n) /\ cons'.tail = cons.tail
        /\ cons'.single = cons.single
    BY <2>1, <2>2, <2>5 DEF RgTypeOK
  <2>7. PICK rec \in RgRecords :
          /\ RingGoto(t, rec) /\ rec.pc = "copy" /\ rec.pos = taken.n
          /\ rec.n = c.n /\ rec.old = c.old
    <3>1. PICK k \in Nat : k = taken.n
      BY <1>1
    <3>2. /\ [c EXCEPT !.pc = "copy", !.pos = k] \in RgRecords
          /\ [c EXCEPT !.pc = "copy", !.pos = k].pc = "copy"
          /\ [c EXCEPT !.pc = "copy", !.pos = k].pos = k
          /\ [c EXCEPT !.pc = "copy", !.pos = k].n = c.n
          /\ [c EXCEPT !.pc = "copy", !.pos = k].old = c.old
      BY Zenon DEF RgRecords, RingPlaces
    <3>3. RingGoto(t, [c EXCEPT !.pc = "copy", !.pos = k])
      BY Zenon, <1>2, <1>5, <3>1 DEF MoveConsHead
    <3> QED BY Zenon, <3>1, <3>2, <3>3
  <2>8. /\ ringpc' \in [RgThreads -> RgRecords] /\ ringpc'[t] = rec
        /\ \A u \in RgThreads \ {t} : ringpc'[u] = ringpc[u]
    BY <2>7, GotoFacts
  <2>9. Producers \subseteq RgThreads /\ Consumers \subseteq RgThreads
    BY DEF RgThreads
  <2>10. RgCounters(s, pt, ct)'
    <3>1. ct <= taken'.n /\ taken'.n <= pt
      BY <2>2, <2>3, <2>4, <1>1, <1>3
    <3> QED BY Zenon, <3>1, <2>1, <2>6, <1>1 DEF RgCounters
  <2>11. Claims(ringpc', s, Consumers, ct, taken'.n)
    <3>1. \A u \in Consumers : /\ ringpc[u].n \in Nat /\ ringpc[u].pos \in Nat
                               /\ ringpc'[u].n \in Nat
      BY Zenon, <2>8, <2>9 DEF RgTypeOK, RgRecords
    <3>2. Claims(ringpc, s, Consumers, ct, taken.n)
      BY DEF RgState
    <3>3. /\ ~ Claiming(ringpc[t]) /\ Claiming(ringpc'[t])
          /\ ringpc'[t].pos = taken.n /\ ringpc'[t].n > 0 /\ ringpc'[t].old = At(s, taken.n)
      BY Zenon, <1>2, <1>3, <2>3, <2>4, <2>7, <2>8 DEF Claiming
    <3>4. ct \in Nat /\ taken.n \in Nat /\ ct <= taken.n
      BY <1>1
    <3>5. Claims(ringpc', s, Consumers, ct, taken.n + ringpc'[t].n)
      BY Zenon, <3>1, <3>2, <3>3, <3>4, <1>3, <2>8, <2>9, ClaimsGrow
    <3> QED BY Zenon, <3>5, <2>2, <2>7, <2>8
  <2>12. Claims(ringpc', s, Producers, pt, claimed')
    <3>1. Claims(ringpc, s, Producers, pt, claimed)
      BY DEF RgState
    <3>2. \A u \in Producers : ringpc'[u] = ringpc[u]
      BY <1>3, <2>8, <2>9
    <3>3. Claims(ringpc', s, Producers, pt, claimed)
      BY Zenon, <3>1, <3>2, ClaimsKept
    <3> QED BY <3>3, <2>1
  <2>13. RgReaders(s, pt, ct)'
    <3>1. ASSUME NEW u \in Consumers, ringpc'[u].pc \in {"room", "move"}
          PROVE  ReadAt(ringpc'[u], s, taken'.n, pt - taken'.n, cons'.single)
      <4>1. u # t /\ ringpc'[u] = ringpc[u]
        BY <3>1, <2>7, <2>8, <2>9
      <4>2. ReadAt(ringpc[u], s, taken.n, pt - taken.n, cons.single)
        BY Zenon, <3>1, <4>1 DEF RgState, RgReaders
      <4>3. ~ cons.single
        BY Zenon, <3>1, <4>1, <1>2, <1>3 DEF RgState, RgSingle, Alone
      <4>4. taken.n \in Nat /\ taken'.n \in Nat /\ taken.n < taken'.n
        BY SMTT(30), <2>2, <2>3, <1>1, <1>3
      <4>5. ReadAt(ringpc[u], s, taken'.n, pt - taken'.n, cons.single)
        BY <4>2, <4>3, <4>4, ReadBehind
      <4> QED BY <4>1, <4>5, <2>6
    <3>2. ASSUME NEW u \in Producers, ringpc'[u].pc \in {"room", "move"}
          PROVE  ReadAt(ringpc'[u], s, claimed', Capacity - (claimed' - ct), prod'.single)
      <4>1. ringpc'[u] = ringpc[u]
        BY <1>3, <2>8, <2>9
      <4> QED BY Zenon, <4>1, <3>2, <2>1 DEF RgState, RgReaders
    <3> QED BY <3>1, <3>2 DEF RgReaders
  <2>14. RgSingle'
    <3>1. \A u \in RgThreads : ringpc'[u].pc # "rest" => ringpc[u].pc # "rest"
      BY <1>2, <1>3, <2>8
    <3> QED BY Zenon, <3>1, <2>1, <2>6, <2>9 DEF RgState, RgSingle, Alone
  <2>15. RgContents(s, pt, ct)'
    <3>1. ASSUME NEW u \in Producers, ringpc'[u].pc = "tail"
          PROVE  Holds(ring, s, ringpc'[u].pos, ringpc'[u].pos + ringpc'[u].n)
      <4>1. ringpc'[u] = ringpc[u]
        BY <1>3, <2>8, <2>9
      <4> QED BY <3>1, <4>1 DEF RgState, RgContents
    <3>2. Holds(ring, s, ct, pt) /\ taken.good
      BY DEF RgState, RgContents
    <3> QED BY Zenon, <3>1, <3>2, <2>1, <2>2 DEF RgContents
  <2> QED BY Zenon, <2>10, <2>11, <2>12, <2>13, <2>14, <2>15 DEF RgState
<1> QED BY <1>4, <1>5

(* A thread that goes from the copy to the tail keeps its claim. *)
LEMMA CopyStep ==
  ASSUME RingAssumptions, RgTypeOK, NEW s \in 0 .. Modulus - 1,
         NEW pt \in 0 .. MaxItems, NEW ct \in 0 .. MaxItems, RgState(s, pt, ct),
         NEW t \in RgThreads, ringpc[t].pc = "copy",
         RingGoto(t, [ringpc[t] EXCEPT !.pc = "tail"]),
         UNCHANGED <<prod, cons, claimed>>, taken'.n = taken.n
  PROVE  /\ RgCounters(s, pt, ct)'
         /\ Claims(ringpc', s, Producers, pt, claimed')
         /\ Claims(ringpc', s, Consumers, ct, taken'.n)
         /\ RgReaders(s, pt, ct)' /\ RgSingle'
         /\ ringpc'[t].pc = "tail" /\ ringpc'[t].pos = ringpc[t].pos /\ ringpc'[t].n = ringpc[t].n
         /\ \A u \in RgThreads \ {t} : ringpc'[u] = ringpc[u]
<1>1. PICK c \in RgRecords : c = ringpc[t]
  BY DEF RgTypeOK
<1>2. PICK rec \in RgRecords : /\ RingGoto(t, rec) /\ rec.pc = "tail" /\ rec.pos = c.pos
                               /\ rec.n = c.n /\ rec.old = c.old
  <2>1. /\ [c EXCEPT !.pc = "tail"] \in RgRecords
        /\ [c EXCEPT !.pc = "tail"].pc = "tail"
        /\ [c EXCEPT !.pc = "tail"].pos = c.pos
        /\ [c EXCEPT !.pc = "tail"].n = c.n
        /\ [c EXCEPT !.pc = "tail"].old = c.old
    BY DEF RgRecords, RingPlaces
  <2> QED BY Zenon, <2>1, <1>1
<1>3. ringpc'[t] = rec /\ \A u \in RgThreads \ {t} : ringpc'[u] = ringpc[u]
  BY <1>2, GotoFacts
<1>4. \A u \in RgThreads :
        /\ Claiming(ringpc'[u]) <=> Claiming(ringpc[u])
        /\ ringpc'[u].n = ringpc[u].n /\ ringpc'[u].pos = ringpc[u].pos
        /\ ringpc'[u].old = ringpc[u].old
  <2>1. Claiming(ringpc[t]) /\ Claiming(ringpc'[t])
    BY <1>2, <1>3 DEF Claiming
  <2> QED BY <2>1, <1>1, <1>2, <1>3
<1>5. Producers \subseteq RgThreads /\ Consumers \subseteq RgThreads
  BY DEF RgThreads
<1>6. RgCounters(s, pt, ct)'
  BY DEF RgState, RgCounters
<1>7. Claims(ringpc', s, Producers, pt, claimed)
  BY Zenon, <1>4, <1>5, ClaimsKept DEF RgState
<1>8. Claims(ringpc', s, Consumers, ct, taken.n)
  BY ZenonT(30), <1>4, <1>5, ClaimsKept DEF RgState
<1>9. RgReaders(s, pt, ct)'
  <2>1. \A u \in RgThreads : ringpc'[u].pc \in {"room", "move"} => ringpc'[u] = ringpc[u]
    BY <1>2, <1>3
  <2> QED BY <2>1, <1>5 DEF RgState, RgReaders
<1>10. RgSingle'
  <2>1. \A u \in RgThreads : ringpc'[u].pc # "rest" => ringpc[u].pc # "rest"
    BY <1>3
  <2> QED BY ZenonT(30), <2>1, <1>5 DEF RgState, RgSingle, Alone
<1> QED BY Zenon, <1>1, <1>2, <1>3, <1>6, <1>7, <1>8, <1>9, <1>10
(* The slots of a thread's claim. *)
LEMMA ClaimFacts ==
  ASSUME RingAssumptions, RgTypeOK, NEW s \in 0 .. Modulus - 1,
         NEW lo \in Nat, NEW hi \in 0 .. Modulus - 1, hi - lo <= Capacity,
         NEW side, side \subseteq RgThreads, Claims(ringpc, s, side, lo, hi),
         NEW t \in side, ringpc[t].pc = "copy",
         NEW idx, idx = Slot(ringpc[t].old),
         NEW first, first = FirstRun(idx, ringpc[t].n),
         NEW pos, NEW n, pos = ringpc[t].pos, n = ringpc[t].n
  PROVE  /\ pos \in Nat /\ n \in Nat /\ lo <= pos /\ pos + n <= hi
         /\ CopyRuns(s, pos, n, idx, first)
<1>1. PICK c \in RgRecords : c = ringpc[t]
  BY DEF RgTypeOK
<1>2. c.pos \in Nat /\ c.n \in Nat
  BY DEF RgRecords
<1>3. lo <= c.pos /\ c.pos + c.n <= hi /\ c.old = At(s, c.pos) /\ c.n > 0
  BY Zenon, <1>1 DEF Claims, Claiming
<1>4. Capacity < Size /\ Size \in Nat /\ Capacity \in Nat /\ Modulus \in Nat
  BY DEF RingAssumptions
<1>5. c.pos \in 0 .. Modulus - 1 /\ c.pos + c.n < Modulus /\ c.n < Size
  BY <1>2, <1>3, <1>4
<1>6. Slot(At(s, c.pos)) = SlotAt(s, c.pos)
  BY <1>5, SlotFacts
<1>7. idx = SlotAt(s, c.pos)
  BY Zenon, <1>1, <1>3, <1>6
<1>8. first = FirstRun(idx, c.n)
  BY Zenon, <1>1
<1>9. c.pos + c.n < Modulus /\ c.n < Size
  BY <1>5
<1>10. CopyRuns(s, c.pos, c.n, idx, first)
  BY ZenonT(30), <1>2, <1>7, <1>8, <1>9, CopiedSlots
<1> QED BY Zenon, <1>1, <1>2, <1>3, <1>10

LEMMA EnqueueStep ==
  ASSUME RingAssumptions, RgTypeOK, NEW s \in 0 .. Modulus - 1,
         NEW pt \in 0 .. MaxItems, NEW ct \in 0 .. MaxItems, RgState(s, pt, ct),
         NEW t \in RgThreads, EnqueuePtrs(t)
  PROVE  RgState(s, pt, ct)'
<1>1. /\ Modulus \in Nat \ {0} /\ Size \in Nat \ {0} /\ Capacity \in Nat /\ Capacity < Size
      /\ claimed \in 0 .. Modulus - 1 /\ pt \in Nat /\ ct \in Nat
      /\ ct <= pt /\ pt <= claimed /\ claimed - ct <= Capacity
      /\ claimed - pt <= Capacity
  BY SMTT(30), PositionFacts
<1>2. /\ ringpc[t].pc = "copy" /\ t \in Producers
      /\ RingGoto(t, [ringpc[t] EXCEPT !.pc = "tail"])
      /\ UNCHANGED <<prod, cons, claimed, taken>>
  BY Zenon DEF EnqueuePtrs
<1>3. /\ RgCounters(s, pt, ct)'
      /\ Claims(ringpc', s, Producers, pt, claimed')
      /\ Claims(ringpc', s, Consumers, ct, taken'.n)
      /\ RgReaders(s, pt, ct)' /\ RgSingle'
      /\ ringpc'[t].pos = ringpc[t].pos /\ ringpc'[t].n = ringpc[t].n
      /\ \A u \in RgThreads \ {t} : ringpc'[u] = ringpc[u]
  BY ZenonT(30), <1>2, CopyStep
<1>4. PICK idx : idx = Slot(ringpc[t].old)
  OBVIOUS
<1>5. PICK first : first = FirstRun(idx, ringpc[t].n)
  OBVIOUS
<1>6. PICK pos, n : pos = ringpc[t].pos /\ n = ringpc[t].n
  BY Zenon
<1>7. Producers \subseteq RgThreads
  BY DEF RgThreads
<1>8. /\ pos \in Nat /\ n \in Nat /\ pt <= pos /\ pos + n <= claimed
      /\ idx \in 0 .. Size - 1 /\ first \in Nat /\ first <= n
      /\ \A j \in 0 .. n - 1 : SlotAt(s, pos + j) = (IF j < first THEN idx + j ELSE j - first)
      /\ \A j \in 0 .. n - 1 : j >= first => j - first < idx
  <2>1. Claims(ringpc, s, Producers, pt, claimed)
    BY DEF RgState
  <2>2. pos \in Nat /\ n \in Nat /\ pt <= pos /\ pos + n <= claimed /\ CopyRuns(s, pos, n, idx, first)
    BY ZenonT(30), <2>1, <1>1, <1>2, <1>4, <1>5, <1>6, <1>7, ClaimFacts
  <2> QED BY Zenon, <2>2 DEF CopyRuns
<1>9. ring' = [i \in 0 .. Size - 1 |->
         IF i \in idx .. idx + first - 1 THEN pos + (i - idx) + 1
         ELSE IF i \in 0 .. n - first - 1 THEN pos + first + i + 1 ELSE ring[i]]
  BY Zenon, <1>4, <1>5, <1>6 DEF EnqueuePtrs, FirstRun
<1>10. ASSUME NEW k \in pos .. (pos + n) - 1
       PROVE  ring'[SlotAt(s, k)] = k + 1
  <2>1. PICK j \in 0 .. n - 1 : k = pos + j
    <3>1. k - pos \in 0 .. n - 1 /\ k = pos + (k - pos)
      BY <1>8
    <3> QED BY <3>1
  <2>2. k \in 0 .. Modulus - 1
    BY <1>1, <1>8
  <2>3. SlotAt(s, k) \in 0 .. Size - 1
    BY <2>2, SlotFacts
  <2>4. CASE j < first
    <3>1. SlotAt(s, k) = idx + j /\ idx + j \in idx .. idx + first - 1
      BY <2>1, <2>4, <1>8
    <3>2. ring'[idx + j] = pos + ((idx + j) - idx) + 1
      BY <3>1, <2>3, <1>9
    <3> QED BY <3>1, <3>2, <2>1, <1>8
  <2>5. CASE j >= first
    <3>1. /\ SlotAt(s, k) = j - first /\ j - first < idx /\ j - first \in 0 .. n - first - 1
      BY <2>1, <2>5, <1>8
    <3>2. j - first \notin idx .. idx + first - 1
      BY <3>1, <1>8
    <3>3. ring'[j - first] = pos + first + (j - first) + 1
      BY Zenon, <3>1, <3>2, <2>3, <1>9
    <3> QED BY <3>1, <3>3, <2>1, <1>8
  <2> QED BY <2>4, <2>5, <1>8
<1>11. ASSUME NEW k \in ct .. claimed - 1, k \notin pos .. (pos + n) - 1
       PROVE  ring'[SlotAt(s, k)] = ring[SlotAt(s, k)]
  <2>1. k \in 0 .. Modulus - 1
    BY <1>1
  <2>2. PICK i \in 0 .. Size - 1 : i = SlotAt(s, k)
    BY <2>1, SlotFacts
  <2>3. ASSUME NEW j \in 0 .. n - 1
        PROVE  SlotAt(s, pos + j) # i
    <3>1. PICK l \in 0 .. Modulus - 1 : l = pos + j
      <4>1. pos + j \in 0 .. Modulus - 1
        BY <1>1, <1>8
      <4> QED BY <4>1
    <3>2. l # k /\ l - k < Size /\ k - l < Size
      BY <3>1, <1>1, <1>8, <1>11
    <3>3. SlotAt(s, l) # SlotAt(s, k)
      BY <3>2, <2>1, OtherSlots
    <3> QED BY <3>1, <3>3, <2>2
  <2>4. i \notin idx .. idx + first - 1
    <3>1. SUFFICES ASSUME i \in idx .. idx + first - 1 PROVE FALSE
      OBVIOUS
    <3>2. PICK j \in 0 .. n - 1 : j = i - idx /\ j < first
      <4>1. i - idx \in 0 .. n - 1 /\ i - idx < first
        BY <3>1, <1>8
      <4> QED BY <4>1
    <3>3. SlotAt(s, pos + j) = idx + j /\ idx + j = i
      BY <3>2, <1>8
    <3> QED BY <3>3, <2>3
  <2>5. i \notin 0 .. n - first - 1
    <3>1. SUFFICES ASSUME i \in 0 .. n - first - 1 PROVE FALSE
      OBVIOUS
    <3>2. PICK j \in 0 .. n - 1 : j = first + i /\ ~ (j < first)
      <4>1. first + i \in 0 .. n - 1 /\ ~ (first + i < first)
        BY <3>1, <1>8
      <4> QED BY <4>1
    <3>3. SlotAt(s, pos + j) = j - first /\ j - first = i
      BY <3>2, <1>8
    <3> QED BY <3>3, <2>3
  <2> QED BY Zenon, <2>2, <2>4, <2>5, <1>9
<1>12. Holds(ring', s, ct, pt)
  <2>1. Holds(ring, s, ct, pt)
    BY DEF RgState, RgContents
  <2>2. ASSUME NEW k \in ct .. pt - 1
        PROVE  ring'[SlotAt(s, k)] = k + 1
    <3>1. k \in ct .. claimed - 1 /\ k \notin pos .. (pos + n) - 1
      BY <1>1, <1>8
    <3> QED BY <3>1, <1>11, <2>1 DEF Holds
  <2> QED BY <2>2 DEF Holds
<1>13. ASSUME NEW u \in Producers, ringpc'[u].pc = "tail"
       PROVE  Holds(ring', s, ringpc'[u].pos, ringpc'[u].pos + ringpc'[u].n)
  <2>1. CASE u = t
    <3>1. Holds(ring', s, pos, pos + n)
      BY <1>10 DEF Holds
    <3> QED BY Zenon, <3>1, <2>1, <1>3, <1>6
  <2>2. CASE u # t
    <3>1. ringpc'[u] = ringpc[u]
      BY <2>2, <1>3, <1>7
    <3>2. PICK d \in RgRecords : d = ringpc[u]
      BY <1>7 DEF RgTypeOK
    <3>3. d.pos \in Nat /\ d.n \in Nat
      BY DEF RgRecords
    <3>4. Holds(ring, s, d.pos, d.pos + d.n)
      BY Zenon, <1>13, <3>1, <3>2 DEF RgState, RgContents
    <3>5. /\ pt <= d.pos /\ d.pos + d.n <= claimed
          /\ d.pos + d.n <= pos \/ pos + n <= d.pos
      <4>1. Claiming(ringpc[u]) /\ Claiming(ringpc[t])
        BY <1>2, <1>13, <3>1 DEF Claiming
      <4>2. Claims(ringpc, s, Producers, pt, claimed)
        BY DEF RgState
      <4> QED BY Zenon, <4>1, <4>2, <1>2, <1>6, <2>2, <3>2 DEF Claims
    <3>6. ASSUME NEW k \in d.pos .. (d.pos + d.n) - 1
          PROVE  ring'[SlotAt(s, k)] = k + 1
      <4>1. k \in ct .. claimed - 1 /\ k \notin pos .. (pos + n) - 1
        BY <3>3, <3>5, <1>1, <1>8
      <4>2. ring'[SlotAt(s, k)] = ring[SlotAt(s, k)]
        BY <4>1, <1>11
      <4>3. ring[SlotAt(s, k)] = k + 1
        BY <3>4 DEF Holds
      <4> QED BY <4>2, <4>3
    <3>7. Holds(ring', s, d.pos, d.pos + d.n)
      BY <3>6 DEF Holds
    <3> QED BY <3>1, <3>2, <3>7
  <2> QED BY <2>1, <2>2
<1>14. RgContents(s, pt, ct)'
  <2>1. taken.good
    BY DEF RgState, RgContents
  <2> QED BY Zenon, <2>1, <1>2, <1>12, <1>13 DEF RgContents
<1> QED BY Zenon, <1>3, <1>14 DEF RgState

(* What a consumer copies out is what its positions hold. *)
LEMMA DequeueStep ==
  ASSUME RingAssumptions, RgTypeOK, NEW s \in 0 .. Modulus - 1,
         NEW pt \in 0 .. MaxItems, NEW ct \in 0 .. MaxItems, RgState(s, pt, ct),
         NEW t \in RgThreads, DequeuePtrs(t)
  PROVE  RgState(s, pt, ct)'
<1>1. /\ Modulus \in Nat \ {0} /\ Size \in Nat \ {0} /\ Capacity \in Nat
      /\ taken.n \in 0 .. Modulus - 1 /\ pt \in Nat /\ ct \in Nat
      /\ taken.n <= pt /\ taken.n - ct <= Capacity
  BY PositionFacts
<1>2. /\ ringpc[t].pc = "copy" /\ t \in Consumers /\ t \notin Producers
      /\ RingGoto(t, [ringpc[t] EXCEPT !.pc = "tail"])
      /\ UNCHANGED <<prod, cons, ring, claimed>>
  BY Zenon DEF DequeuePtrs, RingAssumptions
<1>3. PICK idx : idx = Slot(ringpc[t].old)
  OBVIOUS
<1>4. PICK first : first = FirstRun(idx, ringpc[t].n)
  OBVIOUS
<1>5. PICK pos, n : pos = ringpc[t].pos /\ n = ringpc[t].n
  BY Zenon
<1>6. Producers \subseteq RgThreads /\ Consumers \subseteq RgThreads
  BY DEF RgThreads
<1>7. /\ pos \in Nat /\ n \in Nat /\ ct <= pos /\ pos + n <= taken.n
      /\ idx \in 0 .. Size - 1 /\ first \in Nat /\ first <= n
      /\ \A j \in 0 .. n - 1 : SlotAt(s, pos + j) = (IF j < first THEN idx + j ELSE j - first)
  <2>1. Claims(ringpc, s, Consumers, ct, taken.n)
    BY DEF RgState
  <2>2. ct \in Nat /\ taken.n \in 0 .. Modulus - 1 /\ taken.n - ct <= Capacity
    BY <1>1
  <2>3. pos \in Nat /\ n \in Nat /\ ct <= pos /\ pos + n <= taken.n /\ CopyRuns(s, pos, n, idx, first)
    <3>1. t \in Consumers /\ ringpc[t].pc = "copy" /\ Consumers \subseteq RgThreads
      BY Zenon, <1>2, <1>6
    <3>2. PICK hi \in 0 .. Modulus - 1 : hi = taken.n
      BY Zenon, <2>2
    <3>3. Claims(ringpc, s, Consumers, ct, hi) /\ hi - ct <= Capacity
      BY Zenon, <2>1, <2>2, <3>2
    <3>4. pos \in Nat /\ n \in Nat /\ ct <= pos /\ pos + n <= hi /\ CopyRuns(s, pos, n, idx, first)
      BY <2>2, <3>1, <3>3, <1>3, <1>4, <1>5, ClaimFacts
    <3> QED BY Zenon, <3>2, <3>4
  <2> QED BY Zenon, <2>3 DEF CopyRuns
<1>8. ASSUME NEW i \in 1 .. n
      PROVE  (IF i <= first THEN ring[idx + i - 1] ELSE ring[i - first - 1]) = pos + i
  <2>1. PICK j \in 0 .. n - 1 : j = i - 1
    <3>1. i - 1 \in 0 .. n - 1
      BY <1>7
    <3> QED BY <3>1
  <2>2. Holds(ring, s, ct, pt)
    BY DEF RgState, RgContents
  <2>3. PICK k \in ct .. pt - 1 : k = pos + j
    <3>1. pos + j \in ct .. pt - 1
      BY <1>1, <1>7
    <3> QED BY <3>1
  <2>4. ring[SlotAt(s, k)] = k + 1 /\ k + 1 = pos + i
    BY <2>1, <2>2, <2>3, <1>7 DEF Holds
  <2>5. SlotAt(s, k) = (IF j < first THEN idx + j ELSE j - first)
    BY <2>3, <1>7
  <2>6. /\ i <= first <=> j < first
        /\ idx + i - 1 = idx + j /\ i - first - 1 = j - first
    BY <2>1, <1>7
  <2> QED BY <2>4, <2>5, <2>6
<1>9. taken' = [taken EXCEPT !.good = taken.good /\
         [i \in 1 .. n |-> IF i <= first THEN ring[idx + i - 1] ELSE ring[i - first - 1]]
           = [i \in 1 .. n |-> pos + i]]
  BY Zenon, <1>3, <1>4, <1>5 DEF DequeuePtrs, FirstRun
<1>10. [i \in 1 .. n |-> IF i <= first THEN ring[idx + i - 1] ELSE ring[i - first - 1]]
         = [i \in 1 .. n |-> pos + i]
  BY <1>8
<1>11. taken.good
  BY DEF RgState, RgContents
<1>12. taken'.good /\ taken'.n = taken.n
  BY Zenon, <1>9, <1>10, <1>11 DEF RgTypeOK
<1>13. /\ RgCounters(s, pt, ct)'
       /\ Claims(ringpc', s, Producers, pt, claimed')
       /\ Claims(ringpc', s, Consumers, ct, taken'.n)
       /\ RgReaders(s, pt, ct)' /\ RgSingle'
       /\ \A u \in RgThreads \ {t} : ringpc'[u] = ringpc[u]
  BY Zenon, <1>2, <1>12, CopyStep
<1>14. RgContents(s, pt, ct)'
  <2>1. \A u \in Producers : ringpc'[u] = ringpc[u]
    BY <1>2, <1>6, <1>13
  <2> QED BY Zenon, <2>1, <1>2, <1>12 DEF RgState, RgContents
<1> QED BY <1>13, <1>14 DEF RgState
(* Giving a claim back: it is the first one of its side. *)
LEMMA TailStep ==
  ASSUME RingAssumptions, RgTypeOK, NEW s \in 0 .. Modulus - 1,
         NEW pt \in 0 .. MaxItems, NEW ct \in 0 .. MaxItems, RgState(s, pt, ct),
         NEW t \in RgThreads, UpdateTail(t)
  PROVE  \E pt2, ct2 \in 0 .. MaxItems : RgState(s, pt2, ct2)'
<1>1. /\ Modulus \in Nat \ {0} /\ Capacity \in Nat
      /\ claimed \in 0 .. Modulus - 1 /\ taken.n \in 0 .. Modulus - 1
      /\ pt \in 0 .. Modulus - 1 /\ ct \in 0 .. Modulus - 1
      /\ ct <= taken.n /\ taken.n <= pt /\ pt <= claimed /\ claimed - ct <= Capacity
      /\ prod.head = At(s, claimed) /\ prod.tail = At(s, pt)
      /\ cons.head = At(s, taken.n) /\ cons.tail = At(s, ct)
  BY PositionFacts
<1>2. claimed \in 0 .. MaxItems /\ MaxItems \in Nat
  BY DEF RgTypeOK, RingAssumptions
<1>3. PICK c \in RgRecords : c = ringpc[t]
  BY DEF RgTypeOK
<1>4. c.pc = "tail" /\ Claiming(c) /\ c.n \in Nat /\ c.pos \in Nat /\ c.old \in 0 .. Modulus - 1
  BY <1>3 DEF RgRecords, UpdateTail, Claiming
<1>5. /\ Resting \in RgRecords /\ Resting.pc = "rest"
  BY Zenon, <1>1, 0 \in Nat, RestingFacts
<1>6. RingGoto(t, Resting) /\ UNCHANGED <<ring, claimed, taken>>
  BY DEF UpdateTail
<1>7. /\ ringpc'[t] = Resting
      /\ \A u \in RgThreads \ {t} : ringpc'[u] = ringpc[u]
  BY <1>5, <1>6, GotoFacts
<1>8. ringpc'[t].pc = "rest" /\ ~ Claiming(ringpc'[t])
  BY <1>5, <1>7 DEF Claiming
<1>9. Producers \subseteq RgThreads /\ Consumers \subseteq RgThreads /\ Producers \cap Consumers = {}
  BY DEF RgThreads, RingAssumptions
<1>10. /\ Claims(ringpc, s, Producers, pt, claimed) /\ Claims(ringpc, s, Consumers, ct, taken.n)
       /\ RgReaders(s, pt, ct) /\ RgSingle /\ RgContents(s, pt, ct)
  BY DEF RgState
<1>11. \A u \in RgThreads : ringpc[u].n \in Nat /\ ringpc[u].pos \in Nat
  BY Zenon DEF RgTypeOK, RgRecords
<1>12. ASSUME NEW side, NEW lo \in 0 .. Modulus - 1, NEW hi \in 0 .. Modulus - 1,
              side \subseteq RgThreads, t \in side, Claims(ringpc, s, side, lo, hi),
              \/ Alone(ringpc, side)
              \/ At(s, lo) = c.old
       PROVE  /\ c.pos = lo /\ lo + c.n <= hi
              /\ (c.old + c.n) % Modulus = At(s, lo + c.n)
              /\ Claims(ringpc', s, side, lo + c.n, hi)
  <2>1. c.old = At(s, c.pos) /\ lo <= c.pos /\ c.pos + c.n <= hi
    BY Zenon, <1>3, <1>4, <1>12 DEF Claims
  <2>2. c.pos = lo
    <3>1. CASE Alone(ringpc, side)
      <4>1. lo \in Nat /\ hi \in Nat
        BY <1>1, <1>12
      <4>2. \A u \in side : ringpc[u].n \in Nat /\ ringpc[u].pos \in Nat
        BY Zenon, <1>11, <1>12
      <4>3. ringpc[t].pos = lo
        BY Zenon, <3>1, <4>1, <4>2, <1>3, <1>4, <1>12, FirstClaim
      <4> QED BY Zenon, <4>3, <1>3
    <3>2. CASE At(s, lo) = c.old
      <4>1. c.pos \in 0 .. Modulus - 1 /\ lo \in 0 .. c.pos
        BY <2>1, <1>1, <1>4, <1>12
      <4>2. At(s, c.pos) = At(s, lo) => c.pos = lo
        BY ZenonT(30), <4>1, AtFacts
      <4> QED BY <4>2, <3>2, <2>1
    <3> QED BY <3>1, <3>2, <1>12
  <2>3. (c.old + c.n) % Modulus = At(s, lo + c.n)
    <3>1. PICK a \in 0 .. Modulus - 1 : a = lo + c.n
      <4>1. lo + c.n \in 0 .. Modulus - 1
        BY <2>1, <2>2, <1>1, <1>4, <1>12
      <4> QED BY <4>1
    <3>2. lo \in 0 .. a /\ a - lo = c.n
      BY <3>1, <1>1, <1>4, <1>12
    <3>3. (At(s, lo) + (a - lo)) % Modulus = At(s, a)
      BY <3>2, AtFacts
    <3> QED BY Zenon, <3>1, <3>2, <3>3, <2>1, <2>2
  <2>4. Claims(ringpc', s, side, lo + ringpc[t].n, hi)
    <3>1. lo \in Nat /\ hi \in Nat
      BY <1>1, <1>12
    <3> QED BY Zenon, <3>1, <2>2, <1>3, <1>4, <1>7, <1>8, <1>11, <1>12, ClaimsShrink
  <2> QED BY Zenon, <2>1, <2>2, <2>3, <2>4, <1>3
<1>13. RgSingle' <=> /\ prod'.single => Alone(ringpc', Producers)
                     /\ cons'.single => Alone(ringpc', Consumers)
  BY DEF RgSingle
<1>14. /\ Alone(ringpc, Producers) => Alone(ringpc', Producers)
       /\ Alone(ringpc, Consumers) => Alone(ringpc', Consumers)
  BY ZenonT(30), <1>7, <1>8, <1>9 DEF Alone
<1>15. \A u \in RgThreads : ringpc'[u].pc # "rest" => ringpc'[u] = ringpc[u]
  BY <1>7, <1>8
<1>16. CASE t \in Producers
  <2>1. /\ prod.single \/ prod.tail = c.old
        /\ prod' = [prod EXCEPT !.tail = (c.old + c.n) % Modulus] /\ cons' = cons
    BY <1>3, <1>16 DEF UpdateTail
  <2>2. /\ c.pos = pt /\ pt + c.n <= claimed
        /\ (c.old + c.n) % Modulus = At(s, pt + c.n)
        /\ Claims(ringpc', s, Producers, pt + c.n, claimed)
    <3>1. Alone(ringpc, Producers) \/ At(s, pt) = c.old
      BY Zenon, <2>1, <1>1, <1>10 DEF RgSingle
    <3> QED BY Zenon, <3>1, <1>1, <1>9, <1>10, <1>12, <1>16
  <2>3. PICK to \in 0 .. MaxItems : to = pt + c.n
    <3>1. pt + c.n \in 0 .. MaxItems
      BY <2>2, <1>1, <1>2, <1>4
    <3> QED BY <3>1
  <2>4. prod'.head = prod.head /\ prod'.tail = At(s, to) /\ prod'.single = prod.single
    BY Zenon, <2>1, <2>2, <2>3 DEF RgTypeOK
  <2>5. RgCounters(s, to, ct)'
    <3>1. ct <= taken.n /\ taken.n <= to /\ to <= claimed
      BY <2>2, <2>3, <1>1, <1>4
    <3> QED BY Zenon, <3>1, <2>1, <2>4, <1>1, <1>6 DEF RgCounters
  <2>6. Claims(ringpc', s, Producers, to, claimed')
    BY <2>2, <2>3, <1>6
  <2>7. Claims(ringpc', s, Consumers, ct, taken'.n)
    <3>1. \A u \in Consumers : ringpc'[u] = ringpc[u]
      BY <1>7, <1>9, <1>16
    <3>2. Claims(ringpc', s, Consumers, ct, taken.n)
      BY Zenon, <3>1, <1>10, ClaimsKept
    <3> QED BY <3>2, <1>6
  <2>8. RgReaders(s, to, ct)'
    <3>1. ASSUME NEW u \in Producers, ringpc'[u].pc \in {"room", "move"}
          PROVE  ReadAt(ringpc'[u], s, claimed', Capacity - (claimed' - ct), prod'.single)
      BY Zenon, <3>1, <1>6, <1>9, <1>10, <1>15, <2>4 DEF RgReaders
    <3>2. ASSUME NEW u \in Consumers, ringpc'[u].pc \in {"room", "move"}
          PROVE  ReadAt(ringpc'[u], s, taken'.n, to - taken'.n, cons'.single)
      <4>1. ringpc'[u] = ringpc[u] /\ ringpc[u].n \in Nat
        BY Zenon, <3>2, <1>9, <1>11, <1>15
      <4>2. ReadAt(ringpc[u], s, taken.n, pt - taken.n, cons.single)
        BY Zenon, <3>2, <4>1, <1>10 DEF RgReaders
      <4>3. pt - taken.n <= to - taken.n /\ pt - taken.n \in Int /\ to - taken.n \in Int
        BY <2>3, <1>1, <1>4
      <4>4. ReadAt(ringpc[u], s, taken.n, to - taken.n, cons.single)
        BY <4>1, <4>2, <4>3 DEF ReadAt
      <4> QED BY Zenon, <4>1, <4>4, <1>6, <2>1
    <3> QED BY <3>1, <3>2 DEF RgReaders
  <2>9. RgSingle'
    BY Zenon, <1>10, <1>13, <1>14, <2>1, <2>4 DEF RgSingle
  <2>10. RgContents(s, to, ct)'
    <3>1. Holds(ring, s, ct, pt) /\ Holds(ring, s, pt, pt + c.n)
      BY Zenon, <1>3, <1>4, <1>10, <1>16, <2>2 DEF RgContents
    <3>2. ct \in Int /\ pt \in Int /\ to \in Int
      BY <1>1
    <3>3. Holds(ring, s, ct, to)
      BY Zenon, <3>1, <3>2, <2>3, HoldsJoin
    <3>4. ASSUME NEW u \in Producers, ringpc'[u].pc = "tail"
          PROVE  Holds(ring, s, ringpc'[u].pos, ringpc'[u].pos + ringpc'[u].n)
      BY Zenon, <3>4, <1>9, <1>10, <1>15 DEF RgContents
    <3>5. taken.good
      BY <1>10 DEF RgContents
    <3> QED BY Zenon, <3>3, <3>4, <3>5, <1>6 DEF RgContents
  <2>11. RgState(s, to, ct)'
    BY Zenon, <2>5, <2>6, <2>7, <2>8, <2>9, <2>10 DEF RgState
  <2> QED BY <2>11
<1>17. CASE t \in Consumers
  <2>1. /\ cons.single \/ cons.tail = c.old
        /\ cons' = [cons EXCEPT !.tail = (c.old + c.n) % Modulus] /\ prod' = prod
    BY Zenon, <1>3, <1>9, <1>17 DEF UpdateTail
  <2>2. /\ c.pos = ct /\ ct + c.n <= taken.n
        /\ (c.old + c.n) % Modulus = At(s, ct + c.n)
        /\ Claims(ringpc', s, Consumers, ct + c.n, taken.n)
    <3>1. Alone(ringpc, Consumers) \/ At(s, ct) = c.old
      BY Zenon, <2>1, <1>1, <1>10 DEF RgSingle
    <3> QED BY Zenon, <3>1, <1>1, <1>9, <1>10, <1>12, <1>17
  <2>3. PICK to \in 0 .. MaxItems : to = ct + c.n
    <3>1. ct + c.n \in 0 .. MaxItems
      BY <2>2, <1>1, <1>2, <1>4
    <3> QED BY <3>1
  <2>4. cons'.head = cons.head /\ cons'.tail = At(s, to) /\ cons'.single = cons.single
    BY Zenon, <2>1, <2>2, <2>3 DEF RgTypeOK
  <2>5. RgCounters(s, pt, to)'
    <3>1. to <= taken.n /\ claimed - to <= Capacity
      BY <2>2, <2>3, <1>1, <1>4
    <3> QED BY Zenon, <3>1, <2>1, <2>4, <1>1, <1>6 DEF RgCounters
  <2>6. Claims(ringpc', s, Consumers, to, taken'.n)
    BY <2>2, <2>3, <1>6
  <2>7. Claims(ringpc', s, Producers, pt, claimed')
    <3>1. \A u \in Producers : ringpc'[u] = ringpc[u]
      BY <1>7, <1>9, <1>17
    <3>2. Claims(ringpc', s, Producers, pt, claimed)
      BY ZenonT(30), <3>1, <1>10, ClaimsKept
    <3> QED BY <3>2, <1>6
  <2>8. RgReaders(s, pt, to)'
    <3>1. ASSUME NEW u \in Consumers, ringpc'[u].pc \in {"room", "move"}
          PROVE  ReadAt(ringpc'[u], s, taken'.n, pt - taken'.n, cons'.single)
      BY Zenon, <3>1, <1>6, <1>9, <1>10, <1>15, <2>4 DEF RgReaders
    <3>2. ASSUME NEW u \in Producers, ringpc'[u].pc \in {"room", "move"}
          PROVE  ReadAt(ringpc'[u], s, claimed', Capacity - (claimed' - to), prod'.single)
      <4>1. ringpc'[u] = ringpc[u] /\ ringpc[u].n \in Nat
        BY Zenon, <3>2, <1>9, <1>11, <1>15
      <4>2. ReadAt(ringpc[u], s, claimed, Capacity - (claimed - ct), prod.single)
        BY Zenon, <3>2, <4>1, <1>10 DEF RgReaders
      <4>3. /\ Capacity - (claimed - ct) <= Capacity - (claimed - to)
            /\ Capacity - (claimed - ct) \in Int /\ Capacity - (claimed - to) \in Int
        BY <2>3, <1>1, <1>4
      <4>4. ReadAt(ringpc[u], s, claimed, Capacity - (claimed - to), prod.single)
        BY <4>1, <4>2, <4>3 DEF ReadAt
      <4> QED BY Zenon, <4>1, <4>4, <1>6, <2>1
    <3> QED BY ZenonT(30), <3>1, <3>2 DEF RgReaders
  <2>9. RgSingle'
    BY Zenon, <1>10, <1>13, <1>14, <2>1, <2>4 DEF RgSingle
  <2>10. RgContents(s, pt, to)'
    <3>1. Holds(ring, s, ct, pt)
      BY <1>10 DEF RgContents
    <3>2. ct \in Int /\ pt \in Int /\ to \in Int /\ ct <= to
      BY <2>3, <1>1, <1>4
    <3>3. Holds(ring, s, to, pt)
      BY Zenon, <3>1, <3>2, HoldsLess
    <3>4. ASSUME NEW u \in Producers, ringpc'[u].pc = "tail"
          PROVE  Holds(ring, s, ringpc'[u].pos, ringpc'[u].pos + ringpc'[u].n)
      BY Zenon, <3>4, <1>9, <1>10, <1>15 DEF RgContents
    <3>5. taken.good
      BY <1>10 DEF RgContents
    <3> QED BY Zenon, <3>3, <3>4, <3>5, <1>6 DEF RgContents
  <2>11. RgState(s, pt, to)'
    BY Zenon, <2>5, <2>6, <2>7, <2>8, <2>9, <2>10 DEF RgState
  <2> QED BY <2>11
<1> QED BY <1>16, <1>17 DEF RgThreads
LEMMA RingStep == RingAssumptions /\ RingInv /\ [RingNext]_rgvars => RingInv'
<1> SUFFICES ASSUME RingAssumptions, RingInv, [RingNext]_rgvars PROVE RingInv'
  OBVIOUS
<1>1. RgTypeOK
  BY DEF RingInv
<1>2. RgTypeOK'
  BY <1>1, RgTypeStep
<1>3. PICK s \in 0 .. Modulus - 1, pt \in 0 .. MaxItems, ct \in 0 .. MaxItems : RgState(s, pt, ct)
  BY DEF RingInv
<1>4. SUFFICES \E pt2, ct2 \in 0 .. MaxItems : RgState(s, pt2, ct2)'
  BY <1>2 DEF RingInv
<1>5. CASE UNCHANGED rgvars
  <2>1. RgState(s, pt, ct)'
    BY ZenonT(30), <1>3, <1>5
       DEF rgvars, RgState, RgCounters, Claims, Claiming, RgReaders, RgSingle, RgContents
  <2> QED BY <2>1
<1>6. ASSUME NEW t \in RgThreads,
             \/ \E n \in Batches, fixed \in BOOLEAN : Call(t, n, fixed)
             \/ ReadHead(t) \/ ReadTail(t) \/ MoveProdHead(t) \/ MoveConsHead(t)
             \/ EnqueuePtrs(t) \/ DequeuePtrs(t)
      PROVE  RgState(s, pt, ct)'
  BY Zenon, <1>1, <1>3, <1>6, CallStep, ReadHeadStep, ReadTailStep, MoveProdHeadStep,
     MoveConsHeadStep, EnqueueStep, DequeueStep
<1>7. ASSUME NEW t \in RgThreads, UpdateTail(t)
      PROVE  \E pt2, ct2 \in 0 .. MaxItems : RgState(s, pt2, ct2)'
  BY <1>1, <1>3, <1>7, TailStep
<1> QED BY <1>5, <1>6, <1>7 DEF RingNext, RgThreads

(* The invariant says that the ring is a queue. *)
LEMMA RingInvQueue == RingAssumptions /\ RingInv => RingIsQueue
<1> SUFFICES ASSUME RingAssumptions, RingInv PROVE RingIsQueue
  OBVIOUS
<1>1. RgTypeOK
  BY DEF RingInv
<1>2. PICK s \in 0 .. Modulus - 1, pt \in 0 .. MaxItems, ct \in 0 .. MaxItems : RgState(s, pt, ct)
  BY DEF RingInv
<1>3. /\ Modulus \in Nat \ {0} /\ Size \in Nat \ {0} /\ Capacity \in Nat /\ Capacity < Size
      /\ claimed \in 0 .. Modulus - 1 /\ taken.n \in 0 .. Modulus - 1
      /\ pt \in 0 .. Modulus - 1 /\ ct \in 0 .. Modulus - 1
      /\ ct <= taken.n /\ taken.n <= pt /\ pt <= claimed /\ claimed - ct <= Capacity
      /\ prod.head = At(s, claimed) /\ prod.tail = At(s, pt)
      /\ cons.head = At(s, taken.n) /\ cons.tail = At(s, ct)
  BY Zenon, <1>1, <1>2, PositionFacts
<1>4. taken.good
  BY <1>2 DEF RgState, RgContents
<1>5. taken.n <= claimed /\ claimed - taken.n <= Capacity
  BY <1>3
<1>6. ASSUME \A t \in Producers \cup Consumers : ringpc[t].pc = "rest"
      PROVE  /\ prod.head = prod.tail /\ cons.head = cons.tail
             /\ ringb_count = claimed - taken.n
  <2>1. \A t \in Producers \cup Consumers : ~ Claiming(ringpc[t])
    BY <1>6 DEF Claiming
  <2>2. /\ \A k \in pt .. claimed - 1 : FALSE
        /\ \A k \in ct .. taken.n - 1 : FALSE
    BY Zenon, <1>2, <2>1 DEF RgState, Claims
  <2>3. pt = claimed /\ ct = taken.n
    <3>1. pt \notin pt .. claimed - 1 /\ ct \notin ct .. taken.n - 1
      BY <2>2
    <3> QED BY <3>1, <1>3
  <2>4. Minus(prod.tail, cons.tail) = claimed - taken.n
    <3>1. taken.n \in 0 .. claimed
      BY <1>3
    <3>2. Minus(At(s, claimed), At(s, taken.n)) = claimed - taken.n
      BY ZenonT(30), <3>1, <1>3, AtFacts
    <3> QED BY <3>2, <2>3, <1>3
  <2>5. PICK d \in 0 .. Capacity : d = claimed - taken.n
    <3>1. claimed - taken.n \in 0 .. Capacity
      BY <1>3, <1>5
    <3> QED BY <3>1
  <2>6. d % Size = d
    <3>1. d \in 0 .. Size - 1 /\ d = 0 * Size + d
      BY <1>3
    <3> QED BY <3>1, <1>3, ModUnique
  <2>7. ringb_count = d
    BY <2>4, <2>5, <2>6, <1>3 DEF ringb_count
  <2> QED BY Zenon, <2>3, <2>5, <2>7, <1>3
<1> QED BY <1>4, <1>5, <1>6 DEF RingIsQueue

(***************************************************************************)
(* RingIsQueue for any number of producers and consumers, single or not,   *)
(* any size and capacity that ringb_init gives, any batch sizes and any    *)
(* value of the counters at the start.                                     *)
(***************************************************************************)
THEOREM RingQueue == ASSUME RingAssumptions PROVE RingSpec => []RingIsQueue
<1>1. RingInit => RingInv
  BY RingInitInv
<1>2. RingInv /\ [RingNext]_rgvars => RingInv'
  BY RingStep
<1>3. RingInv => RingIsQueue
  BY RingInvQueue
<1> QED BY <1>1, <1>2, <1>3, PTL DEF RingSpec
=============================================================================
