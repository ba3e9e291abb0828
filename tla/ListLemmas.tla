----------------------------- MODULE ListLemmas -----------------------------
(***************************************************************************)
(* What the list operations of ListOps do to the entries of a list.        *)
(***************************************************************************)
EXTENDS ListOps, FiniteSets, WellFoundedInduction, TLAPS

(* list_del leaves the other entries, once each and in their type. *)
LEMMA ListDelFacts ==
  ASSUME NEW S, NEW s \in Seq(S), NEW e \in S, Distinct(s), Occurs(s, e)
  PROVE  /\ list_del(s, e) \in Seq(S)
         /\ Distinct(list_del(s, e))
         /\ \A u \in S : Occurs(list_del(s, e), u) <=> Occurs(s, u) /\ u # e
<1> DEFINE i == CHOOSE k \in 1 .. Len(s) : s[k] = e
           w == [k \in 1 .. Len(s) - 1 |-> IF k < i THEN s[k] ELSE s[k + 1]]
<1>1. i \in 1 .. Len(s) /\ s[i] = e
  BY DEF Occurs
<1>2. list_del(s, e) = w
  BY DEF list_del
<1> HIDE DEF i
<1>3. /\ Len(s) - 1 \in Nat
      /\ \A k \in 1 .. Len(s) - 1 : w[k] \in S
  BY <1>1
<1>4. w \in Seq(S) /\ Len(w) = Len(s) - 1
  BY <1>3
<1>5. \A k \in 1 .. Len(s) - 1 : w[k] = IF k < i THEN s[k] ELSE s[k + 1]
  OBVIOUS
<1> HIDE DEF w
<1>6. Distinct(w)
  <2> DEFINE at(k) == IF k < i THEN k ELSE k + 1
  <2>1. SUFFICES ASSUME NEW j \in 1 .. Len(w), NEW k \in 1 .. Len(w), w[j] = w[k]
                 PROVE  j = k
    BY DEF Distinct
  <2>2. at(j) \in 1 .. Len(s) /\ at(k) \in 1 .. Len(s)
    BY <1>1, <1>4
  <2>3. w[j] = s[at(j)] /\ w[k] = s[at(k)]
    BY <1>4, <1>5
  <2>4. at(j) = at(k)
    BY Zenon, <2>1, <2>2, <2>3 DEF Distinct
  <2> QED
    BY <1>1, <1>4, <2>4
<1>7. ASSUME NEW u \in S, Occurs(w, u)
      PROVE  Occurs(s, u) /\ u # e
  <2>1. PICK k \in 1 .. Len(s) - 1 : w[k] = u
    BY <1>4, <1>7 DEF Occurs
  <2>2. CASE k < i
    <3>1. k \in 1 .. Len(s) /\ s[k] = u /\ k # i
      BY <1>1, <1>5, <2>1, <2>2
    <3> QED
      BY <1>1, <3>1 DEF Distinct, Occurs
  <2>3. CASE ~ (k < i)
    <3>1. k + 1 \in 1 .. Len(s) /\ s[k + 1] = u /\ k + 1 # i
      BY <1>1, <1>5, <2>1, <2>3
    <3> QED
      BY <1>1, <3>1 DEF Distinct, Occurs
  <2> QED
    BY <2>2, <2>3
<1>8. ASSUME NEW u \in S, Occurs(s, u), u # e
      PROVE  Occurs(w, u)
  <2>1. PICK k \in 1 .. Len(s) : s[k] = u
    BY <1>8 DEF Occurs
  <2>2. CASE k < i
    BY <1>1, <1>4, <1>5, <2>1, <2>2 DEF Occurs
  <2>3. CASE k > i
    <3>1. k - 1 \in 1 .. Len(w) /\ w[k - 1] = u
      BY <1>1, <1>4, <1>5, <2>1, <2>3
    <3> QED
      BY <3>1 DEF Occurs
  <2> QED
    BY <1>1, <1>8, <2>1, <2>2, <2>3
<1> QED
  BY <1>2, <1>4, <1>6, <1>7, <1>8

(* list_del takes one entry off. *)
LEMMA ListDelLen ==
  ASSUME NEW S, NEW s \in Seq(S), NEW e \in S, Occurs(s, e)
  PROVE  Len(list_del(s, e)) = Len(s) - 1
<1>1. Len(s) - 1 \in Nat
  BY DEF Occurs
<1> DEFINE i == CHOOSE k \in 1 .. Len(s) : s[k] = e
           w == [k \in 1 .. Len(s) - 1 |-> IF k < i THEN s[k] ELSE s[k + 1]]
<1>2. list_del(s, e) = w
  BY DEF list_del
<1>3. DOMAIN w = 1 .. Len(s) - 1
  OBVIOUS
<1>4. \A k \in 1 .. Len(s) - 1 : w[k] \in S
  OBVIOUS
<1> HIDE DEF w
<1>5. w \in Seq(S)
  BY <1>1, <1>2, <1>3, <1>4 DEF w
<1> QED
  BY <1>1, <1>2, <1>3, <1>5

(* list_add_tail adds one entry. *)
LEMMA ListAddTailFacts ==
  ASSUME NEW S, NEW s \in Seq(S), NEW e \in S, Distinct(s), ~ Occurs(s, e)
  PROVE  /\ list_add_tail(s, e) \in Seq(S)
         /\ Distinct(list_add_tail(s, e))
         /\ \A u \in S : Occurs(list_add_tail(s, e), u) <=> Occurs(s, u) \/ u = e
<1> DEFINE w == list_add_tail(s, e)
<1>1. /\ w \in Seq(S) /\ Len(w) = Len(s) + 1
      /\ \A k \in 1 .. Len(s) : w[k] = s[k]
      /\ w[Len(s) + 1] = e
  BY DEF list_add_tail
<1> HIDE DEF w
<1>2. Distinct(w)
  BY <1>1 DEF Distinct, Occurs
<1>3. \A u \in S : Occurs(w, u) <=> Occurs(s, u) \/ u = e
  BY <1>1 DEF Occurs
<1> QED
  BY <1>1, <1>2, <1>3 DEF w

(* The entries from n + 1 on. *)
LEMMA ListSuffixFacts ==
  ASSUME NEW S, NEW s \in Seq(S), Distinct(s), NEW n \in 0 .. Len(s)
  PROVE  LET w == SubSeq(s, n + 1, Len(s))
         IN  /\ w \in Seq(S)
             /\ Distinct(w)
             /\ Len(w) = Len(s) - n
             /\ \A k \in 1 .. Len(s) - n : w[k] = s[n + k]
             /\ \A u \in S : Occurs(w, u) <=> Occurs(s, u) /\ u \notin {s[i] : i \in 1 .. n}
<1> DEFINE w == SubSeq(s, n + 1, Len(s))
<1>1. \A i \in n + 1 .. Len(s) : s[i] \in S
  OBVIOUS
<1>2. /\ w \in Seq(S) /\ Len(w) = Len(s) - n
      /\ \A k \in 1 .. Len(s) - n : w[k] = s[n + k]
  BY <1>1
<1> HIDE DEF w
<1>3. Distinct(w)
  <2>1. SUFFICES ASSUME NEW j \in 1 .. Len(w), NEW k \in 1 .. Len(w), w[j] = w[k]
                 PROVE  j = k
    BY DEF Distinct
  <2>2. n + j \in 1 .. Len(s) /\ n + k \in 1 .. Len(s) /\ s[n + j] = s[n + k]
    BY <1>2, <2>1
  <2> QED
    BY SMTT(30), <1>2, <2>2 DEF Distinct
<1>4. ASSUME NEW u \in S, Occurs(w, u)
      PROVE  Occurs(s, u) /\ u \notin {s[i] : i \in 1 .. n}
  <2>1. PICK k \in 1 .. Len(s) - n : s[n + k] = u
    BY Zenon, <1>2, <1>4 DEF Occurs
  <2> QED
    BY <2>1 DEF Occurs, Distinct
<1>5. ASSUME NEW u \in S, Occurs(s, u), u \notin {s[i] : i \in 1 .. n}
      PROVE  Occurs(w, u)
  <2>1. PICK k \in 1 .. Len(s) : s[k] = u
    BY <1>5 DEF Occurs
  <2>2. k - n \in 1 .. Len(s) - n /\ w[k - n] = u
    BY <1>2, <1>5, <2>1
  <2> QED
    BY <1>2, <2>2 DEF Occurs
<1> QED
  BY <1>2, <1>3, <1>4, <1>5 DEF w

-----------------------------------------------------------------------------
(* A nonempty set of numbers has a least one: the induction of the proofs. *)
LEMMA NatMin ==
  ASSUME NEW T, T \subseteq Nat, T # {}
  PROVE  \E x \in T : \A y \in T : x <= y
<1> DEFINE R == {ss \in Nat \X Nat : ss[1] < ss[2]}
<1>1. IsWellFoundedOn(R, Nat)
  BY NatLessThanWellFounded DEF OpToRel
<1>2. \A x, y \in T : <<y, x>> \notin R => x <= y
  OBVIOUS
<1> HIDE DEF R
<1>3. \E x \in T : \A y \in T : ~ (<<y, x>> \in R)
  BY Zenon, <1>1, WFMin
<1> QED
  BY Zenon, <1>2, <1>3

(* f[i] is what is kept of the first i entries of s. *)
KeepWalk(s, K, f) ==
  /\ list_keep(s, K) = f[Len(s)]
  /\ f[0] = <<>>
  /\ \A i \in 1 .. Len(s) :
       f[i] = IF s[i] \in K THEN Append(f[i - 1], s[i]) ELSE f[i - 1]

(* The walk over a list that keeps some of its entries, entry by entry.    *)
(* The recursive function exists because its beginnings do: a shortest     *)
(* beginning that has none would have one.                                 *)
LEMMA ListKeepStep ==
  ASSUME NEW S, NEW s \in Seq(S), NEW K
  PROVE  \E f \in [0 .. Len(s) -> Seq(S)] : KeepWalk(s, K, f)
<1> DEFINE Val(f, i) ==
             IF i = 0 THEN <<>> ELSE IF s[i] \in K THEN Append(f[i - 1], s[i]) ELSE f[i - 1]
           Upto(n) == \E f \in [0 .. n -> Seq(S)] : \A i \in 0 .. n : f[i] = Val(f, i)
           T == {n \in 0 .. Len(s) : ~ Upto(n)}
<1>1. T = {}
  <2> SUFFICES ASSUME T # {} PROVE FALSE
    OBVIOUS
  <2>0. T \subseteq Nat
    OBVIOUS
  <2>1. PICK n \in T : \A m \in T : n <= m
    <3> HIDE DEF T
    <3> QED
      BY Zenon, <2>0, NatMin
  <2>9. n \in 0 .. Len(s) /\ ~ Upto(n) /\ \A m \in 0 .. Len(s) : ~ Upto(m) => n <= m
    BY Zenon, <2>1
  <2> HIDE DEF T
  <2>2. n # 0
    <3> SUFFICES Upto(0)
      BY Zenon, <2>9
    <3> WITNESS [i \in 0 .. 0 |-> <<>>] \in [0 .. 0 -> Seq(S)]
    <3> QED
      OBVIOUS
  <2>3. n - 1 \in 0 .. Len(s) /\ Upto(n - 1)
    <3> HIDE DEF Upto
    <3> QED
      BY <2>9, <2>2
  <2>4. PICK f \in [0 .. n - 1 -> Seq(S)] : \A i \in 0 .. n - 1 : f[i] = Val(f, i)
    BY Zenon, <2>3
  <2> DEFINE g == [i \in 0 .. n |-> IF i < n THEN f[i] ELSE Val(f, n)]
  <2>5. s[n] \in S /\ f[n - 1] \in Seq(S) /\ n \in 1 .. Len(s)
    BY <2>9, <2>2
  <2>6. Val(f, n) \in Seq(S)
    BY <2>2, <2>5
  <2>7. g \in [0 .. n -> Seq(S)]
    <3> HIDE DEF Val
    <3>1. \A i \in 0 .. n : i < n => i \in 0 .. n - 1
      BY <2>9
    <3> QED
      BY <2>6, <3>1
  <2>8. \A i \in 0 .. n : g[i] = Val(g, i)
    <3> SUFFICES ASSUME NEW i \in 0 .. n PROVE g[i] = Val(g, i)
      OBVIOUS
    <3>1. i # 0 => g[i - 1] = f[i - 1]
      BY <2>9
    <3>2. Val(g, i) = Val(f, i)
      <4> HIDE DEF g
      <4> QED
        BY <3>1
    <3>3. g[i] = Val(f, i)
      <4> HIDE DEF Val
      <4>1. CASE i = n
        BY <4>1
      <4>2. CASE i # n
        BY <2>9, <2>4, <4>2
      <4> QED
        BY <4>1, <4>2
    <3> QED BY <3>2, <3>3
  <2> QED
    BY Zenon, <2>9, <2>7, <2>8
<1>2. PICK f \in [0 .. Len(s) -> Seq(S)] : \A i \in 0 .. Len(s) : f[i] = Val(f, i)
  BY <1>1
<1>3. f = [i \in 0 .. Len(s) |-> Val(f, i)]
  BY <1>2
<1> DEFINE k == CHOOSE g : g = [i \in 0 .. Len(s) |-> Val(g, i)]
<1>4. k = [i \in 0 .. Len(s) |-> Val(k, i)]
  BY Zenon, <1>3
<1>5. list_keep(s, K) = k[Len(s)]
  BY DEF list_keep
<1> HIDE DEF k
<1>6. k[0] = <<>>
  <2>1. 0 \in 0 .. Len(s)
    OBVIOUS
  <2> QED
    BY <1>4, <2>1
<1>7. \A i \in 1 .. Len(s) : k[i] = IF s[i] \in K THEN Append(k[i - 1], s[i]) ELSE k[i - 1]
  <2> SUFFICES ASSUME NEW i \in 1 .. Len(s)
               PROVE  k[i] = IF s[i] \in K THEN Append(k[i - 1], s[i]) ELSE k[i - 1]
    OBVIOUS
  <2>1. i \in 0 .. Len(s) /\ i # 0
    OBVIOUS
  <2>2. k[i] = Val(k, i)
    <3> HIDE DEF Val
    <3> QED
      BY Zenon, <1>4, <2>1
  <2> QED
    BY <2>1, <2>2
<1> DEFINE U == {i \in 0 .. Len(s) : k[i] \notin Seq(S)}
<1>8. U = {}
  <2> SUFFICES ASSUME U # {} PROVE FALSE
    OBVIOUS
  <2>1. PICK n \in U : \A m \in U : n <= m
    <3>1. U \subseteq Nat
      OBVIOUS
    <3> HIDE DEF U
    <3> QED
      BY Zenon, <3>1, NatMin
  <2>2. n \in 0 .. Len(s) /\ k[n] \notin Seq(S)
    BY <2>1
  <2>5. <<>> \in Seq(S)
    OBVIOUS
  <2>6. n # 0
    BY Zenon, <1>6, <2>2, <2>5
  <2>3. n \in 1 .. Len(s) /\ n - 1 \in 0 .. Len(s) /\ n - 1 \notin U
    BY <2>1, <2>2, <2>6
  <2>4. s[n] \in S /\ k[n - 1] \in Seq(S)
    BY <2>3
  <2> QED
    <3>1. Append(k[n - 1], s[n]) \in Seq(S)
      BY <2>4
    <3> HIDE DEF U
    <3> QED
      BY Zenon, <1>7, <2>2, <2>3, <2>4, <3>1
<1>9. k \in [0 .. Len(s) -> Seq(S)]
  BY Zenon, <1>4, <1>8
<1> QED
  BY <1>5, <1>6, <1>7, <1>9 DEF KeepWalk

(* What is kept of a list: the entries it had that are in K, each once if  *)
(* it was there once.                                                      *)
LEMMA ListKeepFacts ==
  ASSUME NEW S, NEW s \in Seq(S), NEW K
  PROVE  /\ list_keep(s, K) \in Seq(S)
         /\ \A u \in S : Occurs(list_keep(s, K), u) <=> Occurs(s, u) /\ u \in K
         /\ Distinct(s) => Distinct(list_keep(s, K))
<1>0. PICK f \in [0 .. Len(s) -> Seq(S)] : KeepWalk(s, K, f)
  BY Zenon, ListKeepStep
<1>1. /\ list_keep(s, K) = f[Len(s)]
      /\ f[0] = <<>>
      /\ \A i \in 1 .. Len(s) :
           f[i] = IF s[i] \in K THEN Append(f[i - 1], s[i]) ELSE f[i - 1]
  BY <1>0 DEF KeepWalk
<1> DEFINE Has(n, u) == \E j \in 1 .. n : s[j] = u
           Right(n) == /\ \A u \in S : Occurs(f[n], u) <=> Has(n, u) /\ u \in K
                       /\ Distinct(s) => Distinct(f[n])
           T == {n \in 0 .. Len(s) : ~ Right(n)}
<1>2. T = {}
  <2> SUFFICES ASSUME T # {} PROVE FALSE
    OBVIOUS
  <2>1. T \subseteq Nat
    OBVIOUS
  <2>2. PICK n \in T : \A m \in T : n <= m
    <3> HIDE DEF T
    <3> QED
      BY Zenon, <2>1, NatMin
  <2>3. n \in 0 .. Len(s) /\ ~ Right(n) /\ \A m \in 0 .. Len(s) : ~ Right(m) => n <= m
    <3> HIDE DEF Right
    <3> QED
      BY <2>2
  <2> HIDE DEF T
  <2>4. Right(0)
    BY <1>1 DEF Occurs, Distinct
  <2>5. n \in 1 .. Len(s) /\ n - 1 \in 0 .. Len(s) /\ Right(n - 1)
    <3> HIDE DEF Right
    <3> QED
      BY <2>3, <2>4
  <2>6. s[n] \in S /\ f[n - 1] \in Seq(S)
    BY <2>5
  <2>7. \A u : Has(n, u) <=> Has(n - 1, u) \/ u = s[n]
    BY <2>5
  <2>8. CASE s[n] \notin K
    <3>1. f[n] = f[n - 1]
      BY <1>1, <2>5, <2>8
    <3> HIDE DEF Has
    <3> QED
      BY <2>3, <2>5, <2>7, <2>8, <3>1
  <2>9. CASE s[n] \in K
    <3>1. f[n] = Append(f[n - 1], s[n])
      BY Zenon, <1>1, <2>5, <2>9
    <3>2. \A u \in S : Occurs(f[n], u) <=> Occurs(f[n - 1], u) \/ u = s[n]
      <4> DEFINE v == f[n - 1]
                 w == Append(v, s[n])
      <4>1. /\ Len(w) = Len(v) + 1 /\ w[Len(v) + 1] = s[n]
            /\ \A i \in 1 .. Len(v) : w[i] = v[i]
            /\ Len(v) \in Nat
        BY <2>6
      <4>2. f[n] = w
        BY <3>1
      <4> HIDE DEF v, w
      <4>3. \A u \in S : Occurs(w, u) <=> Occurs(v, u) \/ u = s[n]
        BY <4>1 DEF Occurs
      <4> QED
        BY <4>2, <4>3 DEF v
    <3>3. Distinct(s) => ~ Has(n - 1, s[n])
      BY <2>5 DEF Distinct
    <3>4. Distinct(s) => Distinct(f[n])
      <4> HIDE DEF Has
      <4> QED
        BY <2>5, <2>6, <3>1, <3>3, ListAddTailFacts DEF list_add_tail
    <3> HIDE DEF Has
    <3> QED
      BY <2>3, <2>5, <2>7, <2>9, <3>2, <3>4
  <2> QED
    BY <2>8, <2>9
<1>3. Right(Len(s))
  <2>1. Len(s) \in 0 .. Len(s)
    OBVIOUS
  <2> HIDE DEF Right
  <2> QED
    BY <1>2, <2>1
<1>4. \A u : Has(Len(s), u) <=> Occurs(s, u)
  BY DEF Occurs
<1>5. f[Len(s)] \in Seq(S)
  BY <1>1
<1> QED
  BY <1>1, <1>3, <1>4, <1>5

-----------------------------------------------------------------------------
(***************************************************************************)
(* Finite sets and their sizes.                                            *)
(***************************************************************************)

(* The members of T can be numbered 1 .. n, each of them once. *)
Numbered(T, n) ==
  \E f \in [1 .. n -> T] : /\ \A i, j \in 1 .. n : f[i] = f[j] => i = j
                           /\ \A x \in T : \E i \in 1 .. n : f[i] = x

LEMMA NumberedEmpty ==
  /\ Numbered({}, 0)
  /\ \A T : Numbered(T, 0) => T = {}
<1>1. Numbered({}, 0)
  <2>1. [i \in 1 .. 0 |-> 0] \in [1 .. 0 -> {}]
    OBVIOUS
  <2> QED
    BY Zenon, <2>1 DEF Numbered
<1> QED
  BY Zenon, <1>1 DEF Numbered

(* One more member takes the next number. *)
LEMMA NumberedAdd ==
  ASSUME NEW T, NEW n \in Nat, Numbered(T, n), NEW x, x \notin T
  PROVE  Numbered(T \cup {x}, n + 1)
<1>1. PICK f \in [1 .. n -> T] : /\ \A i, j \in 1 .. n : f[i] = f[j] => i = j
                                 /\ \A y \in T : \E i \in 1 .. n : f[i] = y
  BY DEF Numbered
<1> DEFINE g == [i \in 1 .. n + 1 |-> IF i = n + 1 THEN x ELSE f[i]]
<1>2. \A i \in 1 .. n + 1 : i # n + 1 => i \in 1 .. n
  OBVIOUS
<1>3. g \in [1 .. n + 1 -> T \cup {x}]
  BY <1>2
<1>4. /\ g[n + 1] = x
      /\ \A i \in 1 .. n : i \in 1 .. n + 1 /\ g[i] = f[i] /\ f[i] \in T
  OBVIOUS
<1> HIDE DEF g
<1>5. \A i, j \in 1 .. n + 1 : g[i] = g[j] => i = j
  BY <1>1, <1>2, <1>4
<1>6. \A y \in T \cup {x} : \E i \in 1 .. n + 1 : g[i] = y
  <2>1. n + 1 \in 1 .. n + 1
    OBVIOUS
  <2> QED
    BY <1>1, <1>4, <2>1
<1> QED
  BY Zenon, <1>3, <1>5, <1>6 DEF Numbered

(* When a member leaves, the last one takes its number. *)
LEMMA NumberedDrop ==
  ASSUME NEW T, NEW n \in Nat, Numbered(T, n), NEW x \in T
  PROVE  n # 0 /\ Numbered(T \ {x}, n - 1)
<1>1. PICK f \in [1 .. n -> T] : /\ \A i, j \in 1 .. n : f[i] = f[j] => i = j
                                 /\ \A y \in T : \E i \in 1 .. n : f[i] = y
  BY DEF Numbered
<1>2. PICK k \in 1 .. n : f[k] = x
  BY <1>1
<1> DEFINE g == [i \in 1 .. n - 1 |-> IF i = k THEN f[n] ELSE f[i]]
<1>3. n \in 1 .. n /\ \A i \in 1 .. n - 1 : i \in 1 .. n /\ i # n
  OBVIOUS
<1>4. \A i \in 1 .. n - 1 : /\ g[i] = (IF i = k THEN f[n] ELSE f[i])
                            /\ g[i] \in T
  BY <1>3
<1>5. \A i \in 1 .. n - 1 : g[i] # x
  <2> HIDE DEF g
  <2> QED BY <1>1, <1>2, <1>3, <1>4
<1>6. g \in [1 .. n - 1 -> T \ {x}]
  BY <1>4, <1>5
<1> HIDE DEF g
<1>7. \A i, j \in 1 .. n - 1 : g[i] = g[j] => i = j
  BY <1>1, <1>3, <1>4
<1>8. \A y \in T \ {x} : \E i \in 1 .. n - 1 : g[i] = y
  <2> SUFFICES ASSUME NEW y \in T \ {x} PROVE \E i \in 1 .. n - 1 : g[i] = y
    OBVIOUS
  <2>1. PICK i \in 1 .. n : f[i] = y
    BY <1>1
  <2>2. i # k
    BY <2>1, <1>2
  <2>3. CASE i = n
    <3>1. k \in 1 .. n - 1
      BY <2>2, <2>3
    <3> QED BY Zenon, <3>1, <2>1, <2>3, <1>4
  <2>4. CASE i # n
    <3>1. i \in 1 .. n - 1
      BY <2>4
    <3> QED BY <3>1, <2>1, <2>2, <1>4
  <2> QED BY <2>3, <2>4
<1>9. Numbered(T \ {x}, n - 1)
  BY Zenon, <1>6, <1>7, <1>8 DEF Numbered
<1> QED
  BY <1>3, <1>9

(* A set has one size only. *)
LEMMA NumberedOnce ==
  ASSUME NEW T, NEW m \in Nat, NEW n \in Nat, Numbered(T, m), Numbered(T, n)
  PROVE  m = n
<1> DEFINE Two(k) == \E U \in SUBSET T, l \in Nat : Numbered(U, k) /\ Numbered(U, l) /\ k # l
           K == {k \in Nat : Two(k)}
<1>1. SUFFICES K = {}
  <2>1. ~ Two(m)
    <3> HIDE DEF Two
    <3> QED BY <1>1
  <2> QED
    BY <2>1
<1>2. SUFFICES ASSUME K # {} PROVE FALSE
  OBVIOUS
<1>3. PICK k \in K : \A j \in K : k <= j
  <2>1. K \subseteq Nat
    OBVIOUS
  <2> HIDE DEF K
  <2> QED BY Zenon, <1>2, <2>1, NatMin
<1>4. k \in Nat /\ Two(k) /\ \A j \in Nat : Two(j) => k <= j
  <2> HIDE DEF Two
  <2> QED BY <1>3
<1>5. PICK U \in SUBSET T, l \in Nat : Numbered(U, k) /\ Numbered(U, l) /\ k # l
  BY <1>4
<1>6. U # {}
  <2> SUFFICES ASSUME U = {} PROVE FALSE
    OBVIOUS
  <2>1. \A j \in Nat : Numbered({}, j) => j = 0
    <3> SUFFICES ASSUME NEW j \in Nat, Numbered({}, j), j # 0 PROVE FALSE
      OBVIOUS
    <3>1. 1 \in 1 .. j
      OBVIOUS
    <3> QED BY Zenon, <3>1 DEF Numbered
  <2> QED BY <2>1, <1>4, <1>5
<1>7. PICK x \in U : TRUE
  BY <1>6
<1>8. /\ k # 0 /\ Numbered(U \ {x}, k - 1)
      /\ l # 0 /\ Numbered(U \ {x}, l - 1)
  BY <1>4, <1>5, NumberedDrop
<1>9. k - 1 \in Nat /\ l - 1 \in Nat /\ k - 1 # l - 1 /\ U \ {x} \in SUBSET T
  BY <1>4, <1>5, <1>8
<1>10. Two(k - 1)
  BY <1>8, <1>9
<1> HIDE DEF Two
<1> QED
  BY <1>4, <1>9, <1>10

(* A finite set can be numbered: a shortest list of its members has none   *)
(* of them twice.                                                          *)
LEMMA FiniteNumbered ==
  ASSUME NEW T
  PROVE  IsFiniteSet(T) <=> \E n \in Nat : Numbered(T, n)
<1> DEFINE Covers(f, n) == f \in [1 .. n -> T] /\ \A x \in T : \E i \in 1 .. n : f[i] = x
           Listed(n) == \E f \in [1 .. n -> T] : Covers(f, n)
           K == {n \in Nat : Listed(n)}
<1>1. ASSUME NEW n \in Nat, Numbered(T, n) PROVE IsFiniteSet(T)
  <2>1. PICK f \in [1 .. n -> T] : \A x \in T : \E i \in 1 .. n : f[i] = x
    BY <1>1 DEF Numbered
  <2>2. f \in Seq(T) /\ Len(f) = n
    OBVIOUS
  <2> QED
    BY <2>1, <2>2 DEF IsFiniteSet
<1>2. ASSUME IsFiniteSet(T) PROVE \E n \in Nat : Numbered(T, n)
  <2>1. PICK s \in Seq(T) : \A x \in T : \E i \in 1 .. Len(s) : s[i] = x
    BY <1>2 DEF IsFiniteSet
  <2>2. Len(s) \in Nat /\ s \in [1 .. Len(s) -> T]
    OBVIOUS
  <2>3. Listed(Len(s))
    BY <2>1, <2>2
  <2>4. K # {} /\ K \subseteq Nat
    <3> HIDE DEF Listed
    <3> QED BY <2>2, <2>3
  <2>5. PICK n \in K : \A k \in K : n <= k
    <3> HIDE DEF K
    <3> QED BY Zenon, <2>4, NatMin
  <2>6. n \in Nat /\ Listed(n) /\ \A k \in Nat : Listed(k) => n <= k
    <3> HIDE DEF Listed
    <3> QED BY <2>5
  <2>7. PICK f \in [1 .. n -> T] : \A x \in T : \E i \in 1 .. n : f[i] = x
    BY Zenon, <2>6
  <2>8. ASSUME NEW i \in 1 .. n, NEW j \in 1 .. n, f[i] = f[j], i < j
        PROVE  FALSE
    <3> DEFINE g == [k \in 1 .. n - 1 |-> IF k = i THEN f[n] ELSE f[k]]
    <3>1. n - 1 \in Nat /\ n \in 1 .. n /\ i \in 1 .. n - 1
      BY <2>6, <2>8
    <3>2. \A k \in 1 .. n - 1 : k \in 1 .. n
      BY <2>6
    <3>3. g \in [1 .. n - 1 -> T]
      BY <3>1, <3>2
    <3>4. \A k \in 1 .. n - 1 : g[k] = IF k = i THEN f[n] ELSE f[k]
      OBVIOUS
    <3> HIDE DEF g
    <3>5. ASSUME NEW x \in T PROVE \E k \in 1 .. n - 1 : g[k] = x
      <4>1. PICK k \in 1 .. n : f[k] = x
        BY <2>7
      <4>2. CASE k = n
        BY Zenon, <4>1, <4>2, <3>1, <3>4
      <4>3. CASE k # n /\ k # i
        <5>1. k \in 1 .. n - 1
          BY <4>3, <2>6
        <5> QED BY Zenon, <5>1, <4>1, <4>3, <3>4
      <4>4. CASE k = i /\ j = n
        BY Zenon, <4>1, <4>4, <3>1, <3>4, <2>8
      <4>5. CASE k = i /\ j # n
        <5>1. j \in 1 .. n - 1 /\ j # i
          BY <4>5, <2>6, <2>8
        <5> QED BY Zenon, <5>1, <4>1, <4>5, <3>4, <2>8
      <4> QED BY <4>2, <4>3, <4>4, <4>5
    <3>6. Listed(n - 1)
      BY Zenon, <3>3, <3>5
    <3> HIDE DEF Listed
    <3> QED
      BY <3>1, <3>6, <2>6
  <2>9. \A i, j \in 1 .. n : f[i] = f[j] => i = j
    <3> SUFFICES ASSUME NEW i \in 1 .. n, NEW j \in 1 .. n, f[i] = f[j], i # j PROVE FALSE
      OBVIOUS
    <3>1. i < j \/ j < i
      BY <2>6
    <3> QED BY <3>1, <2>8
  <2> QED
    BY Zenon, <2>6, <2>7, <2>9 DEF Numbered
<1> QED
  BY <1>1, <1>2

(* A subset has a size too, and less of it unless it is the whole. *)
LEMMA NumberedSubset ==
  ASSUME NEW T, NEW n \in Nat, Numbered(T, n), NEW U \in SUBSET T
  PROVE  \E m \in Nat : m <= n /\ Numbered(U, m)
<1> DEFINE Above(m) == \E V \in SUBSET T : U \subseteq V /\ Numbered(V, m)
           K == {m \in Nat : Above(m)}
<1>1. Above(n)
  OBVIOUS
<1>2. PICK m \in K : \A k \in K : m <= k
  <2>1. K \subseteq Nat /\ n \in K
    <3> HIDE DEF Above
    <3> QED BY <1>1
  <2> HIDE DEF K
  <2> QED BY Zenon, <2>1, NatMin
<1>3. m \in Nat /\ Above(m) /\ \A k \in Nat : Above(k) => m <= k
  <2> HIDE DEF Above
  <2> QED BY <1>2
<1>4. PICK V \in SUBSET T : U \subseteq V /\ Numbered(V, m)
  BY <1>3
<1>5. V = U
  <2> SUFFICES ASSUME NEW x \in V, x \notin U PROVE FALSE
    BY <1>4
  <2>1. m # 0 /\ Numbered(V \ {x}, m - 1)
    BY <1>3, <1>4, NumberedDrop
  <2>2. m - 1 \in Nat /\ V \ {x} \in SUBSET T /\ U \subseteq V \ {x}
    BY <1>3, <1>4, <2>1
  <2>3. Above(m - 1)
    BY <2>1, <2>2
  <2> HIDE DEF Above
  <2> QED BY <1>3, <2>2, <2>3
<1>6. m <= n
  <2> HIDE DEF Above
  <2> QED BY <1>1, <1>3
<1> QED
  BY <1>3, <1>4, <1>5, <1>6

(* Cardinality tells the size.  Its recursion takes the members away in    *)
(* some order; the sizes of the subsets satisfy it, and nothing else does. *)
LEMMA NumberedCardinality ==
  ASSUME NEW T, NEW n \in Nat, Numbered(T, n)
  PROVE  Cardinality(T) = n
<1> DEFINE pick(U) == CHOOSE x : x \in U
           size(U) == CHOOSE m \in Nat : Numbered(U, m)
           F == [U \in SUBSET T |-> size(U)]
           Step(g) == [U \in SUBSET T |-> IF U = {} THEN 0 ELSE 1 + g[U \ {pick(U)}]]
           CS == CHOOSE g : g = Step(g)
<1>1. \A U \in SUBSET T : size(U) \in Nat /\ Numbered(U, size(U))
  BY NumberedSubset
<1>2. \A U \in SUBSET T, m \in Nat : Numbered(U, m) => size(U) = m
  BY <1>1, NumberedOnce
<1> HIDE DEF size
<1>3. size({}) = 0
  BY <1>2, NumberedEmpty
<1>4. \A U \in SUBSET T : U # {} => /\ pick(U) \in U
                                    /\ size(U) # 0
                                    /\ size(U \ {pick(U)}) = size(U) - 1
  <2> SUFFICES ASSUME NEW U \in SUBSET T, U # {}
               PROVE  /\ pick(U) \in U
                      /\ size(U) # 0
                      /\ size(U \ {pick(U)}) = size(U) - 1
    OBVIOUS
  <2>1. pick(U) \in U
    OBVIOUS
  <2> HIDE DEF pick
  <2>2. size(U) # 0 /\ Numbered(U \ {pick(U)}, size(U) - 1)
    BY <2>1, <1>1, NumberedDrop
  <2>3. size(U) - 1 \in Nat /\ U \ {pick(U)} \in SUBSET T
    BY <2>2, <1>1
  <2> QED BY <2>1, <2>2, <2>3, <1>2
<1> HIDE DEF pick
<1>5. F = Step(F)
  <2>1. ASSUME NEW U \in SUBSET T
        PROVE  size(U) = IF U = {} THEN 0 ELSE 1 + F[U \ {pick(U)}]
    <3>1. CASE U = {}
      BY <3>1, <1>3
    <3>2. CASE U # {}
      <4>1. F[U \ {pick(U)}] = size(U) - 1
        BY <3>2, <1>4
      <4> QED BY <4>1, <3>2, <1>1
    <3> QED BY <3>1, <3>2
  <2> QED BY Zenon, <2>1
<1>6. CS = Step(CS)
  <2> HIDE DEF F, Step
  <2> QED BY <1>5
<1>7. Cardinality(T) = CS[T]
  BY DEF Cardinality, pick
<1> HIDE DEF CS
<1> DEFINE Wrong(k) == \E U \in SUBSET T : size(U) = k /\ CS[U] # k
           K == {k \in Nat : Wrong(k)}
<1>8. \A U \in SUBSET T : CS[U] = IF U = {} THEN 0 ELSE 1 + CS[U \ {pick(U)}]
  BY <1>6
<1>9. K = {}
  <2> SUFFICES ASSUME K # {} PROVE FALSE
    OBVIOUS
  <2>1. PICK k \in K : \A j \in K : k <= j
    <3>1. K \subseteq Nat
      OBVIOUS
    <3> HIDE DEF K
    <3> QED BY Zenon, <3>1, NatMin
  <2>2. k \in Nat /\ Wrong(k) /\ \A j \in Nat : Wrong(j) => k <= j
    <3> HIDE DEF Wrong
    <3> QED BY <2>1
  <2>3. PICK U \in SUBSET T : size(U) = k /\ CS[U] # k
    BY <2>2
  <2>4. U # {}
    BY Zenon, <2>3, <1>3, <1>8
  <2>5. /\ size(U \ {pick(U)}) = k - 1 /\ k # 0
        /\ CS[U] = 1 + CS[U \ {pick(U)}]
    BY Zenon, <2>3, <2>4, <1>4, <1>8
  <2>6. k - 1 \in Nat /\ CS[U \ {pick(U)}] # k - 1 /\ U \ {pick(U)} \in SUBSET T
    BY <2>2, <2>3, <2>5
  <2>7. Wrong(k - 1)
    BY <2>5, <2>6
  <2> HIDE DEF Wrong
  <2> QED BY <2>2, <2>6, <2>7
<1>10. size(T) = n
  BY <1>2
<1>11. ~ Wrong(n)
  <2> HIDE DEF Wrong
  <2> QED BY <1>9
<1> QED
  BY <1>7, <1>10, <1>11

-----------------------------------------------------------------------------
(* What the proofs use of these: sizes are numbers, *)
LEMMA CardType ==
  ASSUME NEW S, IsFiniteSet(S)
  PROVE  Cardinality(S) \in Nat /\ Numbered(S, Cardinality(S))
  BY FiniteNumbered, NumberedCardinality

(* only the empty set has none, *)
LEMMA CardEmpty ==
  /\ IsFiniteSet({})
  /\ Cardinality({}) = 0
  /\ \A S : IsFiniteSet(S) => (Cardinality(S) = 0 <=> S = {})
<1>1. IsFiniteSet({}) /\ Cardinality({}) = 0
  BY NumberedEmpty, FiniteNumbered, NumberedCardinality
<1>2. \A S : IsFiniteSet(S) /\ Cardinality(S) = 0 => S = {}
  BY CardType, NumberedEmpty
<1> QED BY <1>1, <1>2

(* a member more is one more, *)
LEMMA CardAdd ==
  ASSUME NEW S, NEW x, IsFiniteSet(S)
  PROVE  /\ IsFiniteSet(S \cup {x})
         /\ Cardinality(S \cup {x}) = IF x \in S THEN Cardinality(S) ELSE Cardinality(S) + 1
<1>1. CASE x \in S
  <2>1. S \cup {x} = S
    BY <1>1
  <2> QED BY <1>1, <2>1
<1>2. CASE x \notin S
  <2>1. Cardinality(S) \in Nat /\ Cardinality(S) + 1 \in Nat
    BY CardType
  <2>2. Numbered(S \cup {x}, Cardinality(S) + 1)
    BY <1>2, <2>1, CardType, NumberedAdd
  <2> QED BY <1>2, <2>1, <2>2, FiniteNumbered, NumberedCardinality
<1> QED BY <1>1, <1>2

(* a member less is one less, *)
LEMMA CardRemove ==
  ASSUME NEW S, NEW x, IsFiniteSet(S)
  PROVE  /\ IsFiniteSet(S \ {x})
         /\ Cardinality(S \ {x}) = IF x \in S THEN Cardinality(S) - 1 ELSE Cardinality(S)
<1>1. CASE x \notin S
  <2>1. S \ {x} = S
    BY <1>1
  <2> QED BY <1>1, <2>1
<1>2. CASE x \in S
  <2>1. Cardinality(S) \in Nat /\ Cardinality(S) # 0 /\ Numbered(S \ {x}, Cardinality(S) - 1)
    BY <1>2, CardType, NumberedDrop
  <2>2. Cardinality(S) - 1 \in Nat
    BY <2>1
  <2> QED BY <1>2, <2>1, <2>2, FiniteNumbered, NumberedCardinality
<1> QED BY <1>1, <1>2

(* and a part is smaller than the whole. *)
LEMMA CardSubset ==
  ASSUME NEW S, IsFiniteSet(S), NEW T \in SUBSET S
  PROVE  /\ IsFiniteSet(T)
         /\ Cardinality(T) <= Cardinality(S)
         /\ Cardinality(S) = Cardinality(T) => S = T
<1>1. ASSUME NEW n \in Nat, NEW U, Numbered(U, n), T \subseteq U
      PROVE  IsFiniteSet(T) /\ Cardinality(T) <= n
  <2>1. PICK m \in Nat : m <= n /\ Numbered(T, m)
    BY <1>1, NumberedSubset
  <2> QED BY <2>1, FiniteNumbered, NumberedCardinality
<1>2. Cardinality(S) \in Nat /\ Numbered(S, Cardinality(S))
  BY CardType
<1>3. IsFiniteSet(T) /\ Cardinality(T) <= Cardinality(S)
  BY <1>1, <1>2
<1>4. ASSUME NEW x \in S, x \notin T
      PROVE  Cardinality(T) # Cardinality(S)
  <2>1. Cardinality(S) # 0 /\ Numbered(S \ {x}, Cardinality(S) - 1)
    BY <1>2, NumberedDrop
  <2>2. Cardinality(S) - 1 \in Nat /\ T \subseteq S \ {x}
    BY <1>2, <1>4, <2>1
  <2>3. Cardinality(T) <= Cardinality(S) - 1
    BY <2>1, <2>2, <1>1
  <2>4. Cardinality(T) \in Nat
    BY <1>3, CardType
  <2> QED BY <1>2, <2>3, <2>4
<1> QED
  BY <1>3, <1>4

LEMMA CardSingleton ==
  ASSUME NEW x
  PROVE  IsFiniteSet({x}) /\ Cardinality({x}) = 1
<1>1. {} \cup {x} = {x}
  OBVIOUS
<1> QED
  BY <1>1, CardEmpty, CardAdd

(* The first n entries of a list without repetitions are n. *)
LEMMA ListPrefixCardinality ==
  ASSUME NEW S, NEW s \in Seq(S), Distinct(s), NEW n \in 0 .. Len(s)
  PROVE  /\ IsFiniteSet({s[i] : i \in 1 .. n})
         /\ Cardinality({s[i] : i \in 1 .. n}) = n
<1> DEFINE T == {s[i] : i \in 1 .. n}
           f == [i \in 1 .. n |-> s[i]]
<1>1. f \in [1 .. n -> T] /\ \A i \in 1 .. n : f[i] = s[i] /\ i \in 1 .. Len(s)
  OBVIOUS
<1>2. \A x \in T : \E i \in 1 .. n : f[i] = x
  OBVIOUS
<1>3. \A i, j \in 1 .. n : f[i] = f[j] => i = j
  <2> HIDE DEF f
  <2> QED BY Zenon, <1>1 DEF Distinct
<1>4. n \in Nat /\ Numbered(T, n)
  <2> HIDE DEF f, T
  <2> QED BY <1>1, <1>2, <1>3 DEF Numbered
<1> HIDE DEF T
<1>5. IsFiniteSet(T) /\ Cardinality(T) = n
  BY <1>4, FiniteNumbered, NumberedCardinality
<1> QED
  BY <1>5 DEF T

(* The numbers below n are n. *)
LEMMA CardBelow ==
  ASSUME NEW n \in Nat
  PROVE  IsFiniteSet(0 .. n - 1) /\ Cardinality(0 .. n - 1) = n
<1> DEFINE f == [i \in 1 .. n |-> i - 1]
<1>1. f \in [1 .. n -> 0 .. n - 1] /\ \A i \in 1 .. n : f[i] = i - 1
  OBVIOUS
<1> HIDE DEF f
<1>2. \A i, j \in 1 .. n : f[i] = f[j] => i = j
  BY <1>1
<1>3. \A x \in 0 .. n - 1 : x + 1 \in 1 .. n /\ f[x + 1] = x
  BY <1>1
<1>4. Numbered(0 .. n - 1, n)
  BY ZenonT(30), <1>1, <1>2, <1>3 DEF Numbered
<1> QED
  BY <1>4, FiniteNumbered, NumberedCardinality

=============================================================================
