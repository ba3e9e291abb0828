------------------------------- MODULE Bitmap -------------------------------
(***************************************************************************)
(* The bitmaps of src/utils/bitmap.c and include/skp/utils/bitmap.h.  A    *)
(* word is the set of its set bits, a bitmap is a function from word       *)
(* numbers to words; bits of the last word beyond nbits hold garbage the   *)
(* operations may leave there.  `bits` is the set the bitmap stands for.   *)
(* `const` tells whether nbits is a compile-time constant, in which case   *)
(* the inline functions have a one-word variant.  The last part is the     *)
(* list format that bitmap_parselist reads, with a state of its own: the   *)
(* list of ranges whose text it is given.                                  *)
(***************************************************************************)
EXTENDS Integers, Sequences, SequencesExt, FiniteSets, FiniteSetsExt

CONSTANTS BITS_PER_LONG, Sizes,
          MaskBits, Bounds, Groups, MaxRanges   \* of bitmap_parselist

VARIABLES nbits, map, bits, ranges

bmvars == <<nbits, map, bits>>

WordBits == 0 .. BITS_PER_LONG - 1
BITS_TO_LONGS(n) == (n + BITS_PER_LONG - 1) \div BITS_PER_LONG
Words(n) == 0 .. BITS_TO_LONGS(n) - 1
Bitmaps(n) == [Words(n) -> SUBSET WordBits]
Bits(m) == UNION {{k * BITS_PER_LONG + b : b \in m[k]} : k \in DOMAIN m}
BitsIn(m, n) == Bits(m) \cap (0 .. n - 1)

BITMAP_FIRST_WORD_MASK(start) == (start % BITS_PER_LONG) .. BITS_PER_LONG - 1

(* ~(~0UL << (nbits & 63)): no bit at all when nbits fills its last word.  *)
BITMAP_LAST_WORD_MASK(n) == WordBits \ BITMAP_FIRST_WORD_MASK(n)

Small(n, const) == const /\ n <= BITS_PER_LONG
Partial(n) == n % BITS_PER_LONG # 0
Whole(n) == 0 .. (n \div BITS_PER_LONG) - 1
LastWord(n) == n \div BITS_PER_LONG
MinOf(a, b) == IF a < b THEN a ELSE b

-----------------------------------------------------------------------------
(* Readers.                                                                *)
SetBits(m, m2, inv, k) == LET w == m[k] \cap m2[k] IN IF inv THEN WordBits \ w ELSE w

__find_next_bit(m, m2, n, start, inv) ==
  LET k0 == start \div BITS_PER_LONG
      Found(k) == SetBits(m, m2, inv, k)
                  \cap IF k = k0 THEN BITMAP_FIRST_WORD_MASK(start) ELSE WordBits
      hits == {k \in Words(n) : k >= k0 /\ Found(k) # {}}
  IN  IF start >= n \/ hits = {} THEN n
      ELSE LET k == Min(hits) IN MinOf(k * BITS_PER_LONG + Min(Found(k)), n)

(* _find_first_bit and _find_first_zero_bit.                               *)
FindFirst(m, n, inv) ==
  LET hits == {k \in Words(n) : SetBits(m, m, inv, k) # {}}
  IN  IF hits = {} THEN n
      ELSE LET k == Min(hits)
           IN  MinOf(k * BITS_PER_LONG + Min(SetBits(m, m, inv, k)), n)

find_last_bit(m, n) ==
  LET last == (n - 1) \div BITS_PER_LONG
      Seen(k) == IF k = last THEN m[k] \cap BITMAP_LAST_WORD_MASK(n) ELSE m[k]
      hits == {k \in 0 .. last : Seen(k) # {}}
  IN  IF hits = {} THEN n
      ELSE LET k == Max(hits) IN k * BITS_PER_LONG + Max(Seen(k))

(* Mutant: the bits beyond nbits are counted too.                          *)
WeightOfWords(m, n, const) == Cardinality(Bits(m))

bitmap_weight(m, n, const) ==
  IF Small(n, const) THEN Cardinality(m[0] \cap BITMAP_LAST_WORD_MASK(n))
  ELSE Cardinality(UNION {{<<k, b>> : b \in m[k]} : k \in Whole(n)})
       + IF Partial(n) THEN Cardinality(m[LastWord(n)] \cap BITMAP_LAST_WORD_MASK(n)) ELSE 0

(* The loops of __bitmap_equal, __bitmap_intersects and __bitmap_subset    *)
(* stop at the first word whose difference D shows, the last one masked.   *)
NoDifference(D(_), n, const) ==
  IF Small(n, const) THEN D(0) \cap BITMAP_LAST_WORD_MASK(n) = {}
  ELSE /\ \A k \in Whole(n) : D(k) = {}
       /\ Partial(n) => D(LastWord(n)) \cap BITMAP_LAST_WORD_MASK(n) = {}

bitmap_equal(a, b, n, const) ==
  NoDifference(LAMBDA k : (a[k] \ b[k]) \cup (b[k] \ a[k]), n, const)
bitmap_intersects(a, b, n, const) == ~NoDifference(LAMBDA k : a[k] \cap b[k], n, const)
bitmap_subset(a, b, n, const) == NoDifference(LAMBDA k : a[k] \ b[k], n, const)
bitmap_empty(a, n, const) ==
  IF Small(n, const) THEN a[0] \cap BITMAP_LAST_WORD_MASK(n) = {} ELSE FindFirst(a, n, FALSE) = n
bitmap_full(a, n, const) ==
  IF Small(n, const) THEN (WordBits \ a[0]) \cap BITMAP_LAST_WORD_MASK(n) = {}
  ELSE FindFirst(a, n, TRUE) = n

-----------------------------------------------------------------------------
(* Writers.                                                                *)
(* __bitmap_and and __bitmap_andnot mask the last word, the others do not. *)
Masked(F(_), n, const) ==
  [k \in Words(n) |-> IF Small(n, const) \/ (Partial(n) /\ k = LastWord(n))
                      THEN F(k) \cap BITMAP_LAST_WORD_MASK(n) ELSE F(k)]

bitmap_and(a, b, n, const) == Masked(LAMBDA k : a[k] \cap b[k], n, const)
bitmap_andnot(a, b, n, const) == Masked(LAMBDA k : a[k] \ b[k], n, const)
bitmap_or(a, b) == [k \in DOMAIN a |-> a[k] \cup b[k]]
bitmap_xor(a, b) == [k \in DOMAIN a |-> (a[k] \ b[k]) \cup (b[k] \ a[k])]
bitmap_complement(a) == [k \in DOMAIN a |-> WordBits \ a[k]]

(* The words __bitmap_set and __bitmap_clear touch: whole words while len  *)
(* reaches their end, then the part of the last one below start + len.     *)
RangeWord(k, start, len) ==
  LET k0 == start \div BITS_PER_LONG
      head == IF k = k0 THEN BITMAP_FIRST_WORD_MASK(start) ELSE WordBits
      done == IF k = k0 THEN 0 ELSE k * BITS_PER_LONG - start
      room == Cardinality(head)
  IN  IF k < k0 \/ len <= done THEN {}
      ELSE IF len - done >= room THEN head
      ELSE head \cap BITMAP_LAST_WORD_MASK(start + len)

bitmap_set(m, start, len) == [k \in DOMAIN m |-> m[k] \cup RangeWord(k, start, len)]
bitmap_clear(m, start, len) == [k \in DOMAIN m |-> m[k] \ RangeWord(k, start, len)]

Shr(w, s) == {b - s : b \in {c \in w : c >= s}}
Shl(w, s) == {b + s : b \in {c \in w : c + s < BITS_PER_LONG}}

bitmap_shift_right(m, shift, n, const) ==
  LET lim == BITS_TO_LONGS(n)
      off == shift \div BITS_PER_LONG
      rem == shift % BITS_PER_LONG
      Src(k) == IF k = lim - 1 THEN m[k] \cap BITMAP_LAST_WORD_MASK(n) ELSE m[k]
      Upper(k) == IF rem = 0 \/ off + k + 1 >= lim THEN {}
                  ELSE Shl(Src(off + k + 1), BITS_PER_LONG - rem)
  IN  IF Small(n, const) THEN [m EXCEPT ![0] = Shr(@ \cap BITMAP_LAST_WORD_MASK(n), shift)]
      ELSE [k \in Words(n) |->
              IF off + k < lim THEN Shr(Src(off + k), rem) \cup Upper(k) ELSE {}]

bitmap_shift_left(m, shift, n, const) ==
  LET off == shift \div BITS_PER_LONG
      rem == shift % BITS_PER_LONG
      Lower(k) == IF rem = 0 \/ k = 0 THEN {} ELSE Shr(m[k - 1], BITS_PER_LONG - rem)
  IN  IF Small(n, const) THEN [m EXCEPT ![0] = Shl(@, shift) \cap BITMAP_LAST_WORD_MASK(n)]
      ELSE [k \in Words(n) |->
              IF k < off THEN {} ELSE Shl(m[k - off], rem) \cup Lower(k - off)]

(* bitmap_from_arr32(bitmap_to_arr32(m)): the halves are copied one by one *)
(* and the bits beyond nbits are cleared.                                  *)
ThroughArr32(m, n) ==
  [k \in Words(n) |-> IF Partial(n) /\ k = LastWord(n)
                      THEN m[k] \cap BITMAP_LAST_WORD_MASK(n) ELSE m[k]]

-----------------------------------------------------------------------------
(* A bitmap on the stack starts out with anything in it: bitmap_zero.      *)
BitmapInit ==
  /\ nbits \in Sizes
  /\ map = [k \in Words(nbits) |-> {}]
  /\ bits = {}

Stores(m, s) == map' = m /\ bits' = s /\ UNCHANGED nbits

SetRange(start, len) ==
  Stores(bitmap_set(map, start, len), bits \cup (start .. start + len - 1))
ClearRange(start, len) ==
  Stores(bitmap_clear(map, start, len), bits \ (start .. start + len - 1))
Fill == Stores([k \in Words(nbits) |-> WordBits], 0 .. nbits - 1)
Complement == Stores(bitmap_complement(map), (0 .. nbits - 1) \ bits)
Combine(m) ==
  LET s == BitsIn(m, nbits)
  IN  \/ Stores(bitmap_and(map, m, nbits, FALSE), bits \cap s)
      \/ Stores(bitmap_andnot(map, m, nbits, FALSE), bits \ s)
      \/ Stores(bitmap_or(map, m), bits \cup s)
      \/ Stores(bitmap_xor(map, m), (bits \ s) \cup (s \ bits))
ShiftLeft(n) ==
  Stores(bitmap_shift_left(map, n, nbits, FALSE), {b + n : b \in bits} \cap (0 .. nbits - 1))
Arr32 == Stores(ThroughArr32(map, nbits), bits)

BitmapNext ==
  \/ \E i \in 0 .. nbits - 1 : \E len \in 0 .. nbits - i : SetRange(i, len) \/ ClearRange(i, len)
  \/ Fill \/ Complement \/ Arr32
  \/ \E m \in Bitmaps(nbits) : Combine(m)
  \/ \E n \in 0 .. nbits : ShiftLeft(n)

BitmapSpec == BitmapInit /\ [][BitmapNext]_bmvars

-----------------------------------------------------------------------------
(* What find_next_bit and its kin should return: the first member, or the  *)
(* size.                                                                   *)
FirstFrom(s, start) == LET t == {b \in s : b >= start} IN IF t = {} THEN nbits ELSE Min(t)

(* find_last_bit "returns the bit number of the last set bit, or size"     *)
(* (bitmap.h), and a right shift keeps every bit that is not shifted off   *)
(* the bottom.                                                             *)
LastWordIsSeen ==
  /\ find_last_bit(map, nbits) = IF bits = {} THEN nbits ELSE Max(bits)
  /\ \A n \in 0 .. nbits : BitsIn(bitmap_shift_right(map, n, nbits, FALSE), nbits)
                             = {b - n : b \in {c \in bits : c >= n}}

(* Through any sequence of operations the bitmap stands for the set it     *)
(* should: the garbage that bitmap_complement, bitmap_or, bitmap_xor,      *)
(* bitmap_fill and bitmap_shift_left leave beyond nbits is never taken for *)
(* a set bit, and no bit below nbits is lost at a word boundary, in the    *)
(* loops and in the one-word variants alike.  A right shift and            *)
(* find_last_bit do so only when nbits does not fill its last word.        *)
BitmapIsSet ==
  /\ BitsIn(map, nbits) = bits
  /\ \A i \in 0 .. nbits :
       /\ __find_next_bit(map, map, nbits, i, FALSE) = FirstFrom(bits, i)
       /\ __find_next_bit(map, map, nbits, i, TRUE) = FirstFrom((0 .. nbits - 1) \ bits, i)
  /\ FindFirst(map, nbits, FALSE) = FirstFrom(bits, 0)
  /\ FindFirst(map, nbits, TRUE) = FirstFrom((0 .. nbits - 1) \ bits, 0)
  /\ Partial(nbits) => LastWordIsSeen
  /\ \A const \in BOOLEAN : ~(Small(nbits, const) /\ nbits = BITS_PER_LONG) =>
       /\ bitmap_weight(map, nbits, const) = Cardinality(bits)
       /\ bitmap_empty(map, nbits, const) = (bits = {})
       /\ bitmap_full(map, nbits, const) = (bits = 0 .. nbits - 1)
       /\ \A m \in Bitmaps(nbits) : LET s == BitsIn(m, nbits)
            IN  /\ bitmap_equal(map, m, nbits, const) = (bits = s)
                /\ bitmap_intersects(map, m, nbits, const) = (bits \cap s # {})
                /\ bitmap_subset(map, m, nbits, const) = (bits \subseteq s)
                /\ BitsIn(bitmap_and(map, m, nbits, const), nbits) = bits \cap s
                /\ BitsIn(bitmap_andnot(map, m, nbits, const), nbits) = bits \ s
                /\ __find_next_bit(map, m, nbits, 1, FALSE) = FirstFrom(bits \cap s, 1)

-----------------------------------------------------------------------------
(***************************************************************************)
(* bitmap_parselist: the list format of bitmaps, such as "0-1023:2/256,    *)
(* 7".  A text is a sequence of characters; the inputs are the texts of    *)
(* lists of ranges, well formed or not, that the format's grammar can      *)
(* write, with a blank before some ranges.                                 *)
(***************************************************************************)
Digits == <<"0", "1", "2", "3", "4", "5", "6", "7", "8", "9">>
isdigit(c) == c \in Range(Digits)
Value(c) == (CHOOSE i \in 1 .. 10 : Digits[i] = c) - 1
isspace(c) == c = " "

Text(n) == IF n < 10 THEN <<Digits[n + 1]>> ELSE <<Digits[(n \div 10) + 1], Digits[(n % 10) + 1]>>

(* The text of one range: a, a-b or a-b:used/group.                        *)
RangeText(r) ==
  (IF r.blank THEN <<" ">> ELSE <<>>)
  \o Text(r.a) \o (IF r.a = r.b /\ r.group = 0 THEN <<>> ELSE <<"-">> \o Text(r.b))
  \o (IF r.group = 0 /\ r.used = 0 THEN <<>> ELSE <<":">> \o Text(r.used) \o <<"/">> \o Text(r.group))

ListText(rs) ==
  FoldLeft(LAMBDA t, r : IF t = <<>> THEN RangeText(r) ELSE t \o <<",">> \o RangeText(r), <<>>, rs)

-----------------------------------------------------------------------------
(* The parser's variables; `seg` is ndigits, `err` the value returned.     *)
Parser0 == [c |-> "", a |-> 0, b |-> 0, old_a |-> 0, old_b |-> 0, used |-> 0, group |-> 0,
            at_start |-> TRUE, in_range |-> FALSE, partial |-> FALSE,
            total |-> 0, seg |-> 0, bits |-> {}, err |-> "none"]

NextGroup(p) == [p EXCEPT !.at_start = TRUE, !.in_range = FALSE, !.partial = FALSE,
                          !.a = 0, !.b = 0, !.seg = p.total]
Fails(p, e) == [p EXCEPT !.err = e]

(* The bits of group after group from a to b, at most used of each.        *)
GroupBits(a, b, used, group) ==
  LET Start(k) == a + k * group
      Off(k) == IF used < b - Start(k) + 1 THEN used ELSE b - Start(k) + 1
  IN  UNION {Start(k) .. Start(k) + Off(k) - 1 : k \in 0 .. (b - a) \div group}

(* Mutant: the number before the slash is not kept.                        *)
SlashForgets(p, c) ==
  [p EXCEPT !.c = c, !.at_start = TRUE, !.in_range = FALSE, !.a = 0, !.b = 0]

Slash(p, c) ==
  [p EXCEPT !.c = c, !.used = p.a, !.at_start = TRUE, !.in_range = FALSE, !.a = 0, !.b = 0]

Colon(p, c) ==
  [p EXCEPT !.c = c, !.old_a = p.a, !.old_b = p.b, !.at_start = TRUE, !.in_range = FALSE,
            !.partial = TRUE, !.a = 0, !.b = 0]

Digit(p, c) ==
  LET b == p.b * 10 + Value(c)
  IN  [p EXCEPT !.c = c, !.b = b, !.a = IF p.in_range THEN @ ELSE b,
                !.at_start = FALSE, !.total = @ + 1]

(* One character of the inner loop that does not end the range.            *)
ReadChar(p, c) ==
  CASE isspace(c) -> [p EXCEPT !.c = c]
    [] ~isspace(c) /\ p.total # p.seg /\ isspace(p.c) -> Fails(p, "EINVAL")
    [] c = "/" -> Slash(p, c)
    [] c = ":" -> Colon(p, c)
    [] c = "-" -> IF p.at_start \/ p.in_range THEN Fails(p, "EINVAL")
                  ELSE [p EXCEPT !.c = c, !.b = 0, !.in_range = TRUE, !.at_start = TRUE]
    [] isdigit(c) -> Digit(p, c)
    [] OTHER -> Fails(p, "EINVAL")

(* The end of a range: its numbers are checked and its bits set.           *)
EndRange(p) ==
  LET q == IF p.partial
           THEN [p EXCEPT !.group = p.a, !.a = p.old_a, !.b = p.old_b, !.old_a = 0, !.old_b = 0]
           ELSE [p EXCEPT !.used = p.b - p.a + 1, !.group = p.b - p.a + 1]
  IN  IF p.total = p.seg THEN NextGroup(p)
      ELSE IF p.at_start /\ p.in_range THEN Fails(q, "EINVAL")
      ELSE IF q.a > q.b \/ q.group = 0 \/ q.used > q.group THEN Fails(q, "EINVAL")
      ELSE IF q.b >= MaskBits THEN Fails(q, "ERANGE")
      ELSE NextGroup([q EXCEPT !.bits = @ \cup GroupBits(q.a, q.b, q.used, q.group)])

__bitmap_parselist(text) ==
  LET Step(p, c) == IF p.err # "none" THEN p
                    ELSE IF c = "," THEN EndRange([p EXCEPT !.c = c]) ELSE ReadChar(p, c)
      end == FoldLeft(Step, Parser0, text)
  IN  IF end.err # "none" THEN end ELSE EndRange(end)

-----------------------------------------------------------------------------
BitmapListInit == ranges = <<>>

(* A caller's text grows by a range.                                       *)
AddRange ==
  /\ Len(ranges) < MaxRanges
  /\ \E a, b \in Bounds, g \in Groups, blank \in BOOLEAN :
       ranges' = Append(ranges, [a |-> a, b |-> b, used |-> g[1], group |-> g[2], blank |-> blank])

ListDone == Len(ranges) = MaxRanges /\ UNCHANGED ranges

BitmapListNext == AddRange \/ ListDone
BitmapListSpec == BitmapListInit /\ [][BitmapListNext]_ranges

-----------------------------------------------------------------------------
(* What the documented format says of a range: its bits, or its error.     *)
WantedError(r) ==
  CASE r.a > r.b -> "EINVAL"
    [] r.a <= r.b /\ r.group = 0 /\ r.used > 0 -> "EINVAL"
    [] r.a <= r.b /\ r.group > 0 /\ r.used > r.group -> "EINVAL"
    [] OTHER -> IF r.b >= MaskBits THEN "ERANGE" ELSE "none"
WantedBits(r) == {x \in r.a .. r.b : r.group > 0 => (x - r.a) % r.group < r.used}

(* bitmap_parselist reads every list of ranges as bitmap.h describes it    *)
(* ("the range will divided to groups of specific size; from each group    *)
(* will be used only defined amount of bits"): the union of the ranges'    *)
(* bits, or the error of the first bad range.  The parser's variables run  *)
(* on from range to range, so a range must not see what an earlier one     *)
(* left in used_size, group_size, old_a or old_b.                          *)
ParsesLists ==
  LET got == __bitmap_parselist(ListText(ranges))
      bad == {i \in DOMAIN ranges : WantedError(ranges[i]) # "none"}
      first == CHOOSE i \in bad : \A j \in bad : i <= j
  IN  IF bad = {} THEN /\ got.err = "none"
                       /\ got.bits = UNION {WantedBits(ranges[i]) : i \in DOMAIN ranges}
      ELSE got.err = WantedError(ranges[first])
=============================================================================
