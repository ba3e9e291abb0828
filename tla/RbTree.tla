------------------------------- MODULE RbTree -------------------------------
(***************************************************************************)
(* The red-black trees of src/adt/rbtree.c, the keyed containers built on  *)
(* them and the priority queue of src/adt/heap.c.                          *)
(*                                                                         *)
(* A tree is a record: root, the two child pointers (kids["L"][n] is       *)
(* n->rb_left, kids["R"][n] is n->rb_right), the parent pointer and colour *)
(* that the code packs in __rb_parent_color, and rb_leftmost.  Null is     *)
(* NULL.  A node whose parent pointer is itself is not in the tree         *)
(* (RBT_EMPTY_NODE).  The code writes every rotation twice, once per       *)
(* direction: here it is written once, with the side s as a parameter.     *)
(***************************************************************************)
EXTENDS Integers, Sequences, FiniteSets

CONSTANTS
  Nodes,    \* the nodes a caller owns: 1 .. some number
  KeysOf    \* KeysOf[n]: the keys node n may carry

VARIABLES
  tree,     \* the tree
  key,      \* key[n]: the key of node n
  cached,   \* the caller uses the _cached operations
  shadow    \* what a sorted multiset would hold: its nodes in order

rbvars == <<tree, key, cached, shadow>>

Null == 0
Keys == UNION {KeysOf[n] : n \in Nodes}
Other(s) == IF s = "L" THEN "R" ELSE "L"

Present(t, n) == t.up[n] # n

(* compare_node and compare_key: the sign tells the caller's order. *)
compare(n, k) == key[n] - k
-----------------------------------------------------------------------------
rb_set_child(t, n, s, m) == [t EXCEPT !.kids[s][n] = m]

rb_set_parent_color(t, n, p, red) ==
  IF n = Null THEN t ELSE [t EXCEPT !.up[n] = p, !.red[n] = red]

rb_set_parent(t, n, p) == IF n = Null THEN t ELSE [t EXCEPT !.up[n] = p]

rb_change_child(t, old, new, parent) ==
  IF parent = Null
    THEN [t EXCEPT !.root = new]
    ELSE rb_set_child(t, parent, IF t.kids["L"][parent] = old THEN "L" ELSE "R", new)

(* A rotation that leaves the new top its own colour. *)
RotateKeepsColour(t, old, new, red) ==
  rb_change_child(rb_set_parent_color(rb_set_parent(t, new, t.up[old]), old, new, red),
                  old, new, t.up[old])

rb_rotate_set_parents(t, old, new, red) ==
  rb_change_child(
    rb_set_parent_color(rb_set_parent_color(t, new, t.up[old], t.red[old]), old, new, red),
    old, new, t.up[old])

IsRed(t, n) == n # Null /\ t.red[n]

RECURSIVE Deepest(_, _, _)
(* Follow the child pointers of one side to their end. *)
Deepest(t, n, s) == IF t.kids[s][n] = Null THEN n ELSE Deepest(t, t.kids[s][n], s)

RECURSIVE Climb(_, _, _)
(* Go up while the node is its parent's child on side s; the parent left of. *)
Climb(t, n, s) ==
  LET p == t.up[n] IN IF p # Null /\ n = t.kids[s][p] THEN Climb(t, p, s) ELSE p

rbt_end(t, s) == IF t.root = Null THEN Null ELSE Deepest(t, t.root, s)
rbt_first(t) == rbt_end(t, "L")
rbt_last(t) == rbt_end(t, "R")

(* The neighbour of n in sort order on side s. *)
Neighbour(t, n, s) ==
  CASE ~Present(t, n)            -> Null
    [] t.kids[s][n] # Null       -> Deepest(t, t.kids[s][n], Other(s))
    [] OTHER                     -> Climb(t, n, s)
rbt_next(t, n) == Neighbour(t, n, "R")
rbt_prev(t, n) == Neighbour(t, n, "L")

RECURSIVE rb_left_deepest_node(_, _)
rb_left_deepest_node(t, n) ==
  CASE t.kids["L"][n] # Null -> rb_left_deepest_node(t, t.kids["L"][n])
    [] t.kids["L"][n] = Null /\ t.kids["R"][n] # Null -> rb_left_deepest_node(t, t.kids["R"][n])
    [] OTHER -> n

rbt_first_postorder(t) == IF t.root = Null THEN Null ELSE rb_left_deepest_node(t, t.root)

rbt_next_postorder(t, n) ==
  LET p == t.up[n]
  IN  IF p # Null /\ n = t.kids["L"][p] /\ t.kids["R"][p] # Null
        THEN rb_left_deepest_node(t, t.kids["R"][p])
        ELSE p
-----------------------------------------------------------------------------
(* __rb_insert: node is red; repair the red parent above it, if any. *)
RECURSIVE InsertColor(_, _)
InsertColor(t, node) ==
  LET parent  == t.up[node]
      gparent == t.up[parent]
      s       == IF t.kids["R"][gparent] # parent THEN "L" ELSE "R"
      o       == Other(s)
      uncle   == t.kids[o][gparent]
      Flip    == LET a == rb_set_parent_color(t, uncle, gparent, FALSE)
                     b == rb_set_parent_color(a, parent, gparent, FALSE)
                 IN  InsertColor([b EXCEPT !.red[gparent] = TRUE], gparent)
      Inner   == node = t.kids[o][parent]
      in      == t.kids[s][node]
      (* Case 2: rotate at parent, so that node takes its place *)
      r2      == LET a == rb_set_child(t, parent, o, in)
                     b == rb_set_child(a, node, s, parent)
                     c == rb_set_parent_color(b, in, parent, FALSE)
                 IN  rb_set_parent_color(c, parent, node, TRUE)
      t2      == IF Inner THEN r2 ELSE t
      top     == IF Inner THEN node ELSE parent
      tmp     == t2.kids[o][top]
      (* Case 3: rotate at gparent *)
      r3      == LET a == rb_set_child(t2, gparent, s, tmp)
                     b == rb_set_child(a, top, o, gparent)
                     c == rb_set_parent_color(b, tmp, gparent, FALSE)
                 IN  rb_rotate_set_parents(c, gparent, top, TRUE)
  IN  CASE parent = Null                   -> rb_set_parent_color(t, node, Null, FALSE)
        [] parent # Null /\ ~t.red[parent] -> t
        [] OTHER -> IF IsRed(t, uncle) THEN Flip ELSE r3

rb_insert(t, node, newLeft) ==
  InsertColor(IF newLeft THEN [t EXCEPT !.leftmost = node] ELSE t, node)

(* rbt_link_node: a red leaf below parent, on side s. *)
rbt_link_node(t, node, parent, s) ==
  LET u == [t EXCEPT !.up[node] = parent, !.red[node] = TRUE,
                     !.kids["L"][node] = Null, !.kids["R"][node] = Null]
  IN  IF parent = Null THEN [u EXCEPT !.root = node] ELSE rb_set_child(u, parent, s, node)

(* __rb_erase_node: unlink node; reb is where the black count went wrong. *)
rb_erase_node(t0, node, upd) ==
  LET t == IF upd /\ t0.leftmost = node
             THEN [t0 EXCEPT !.leftmost = rbt_next(t0, node)] ELSE t0
      left == t.kids["L"][node]
      right == t.kids["R"][node]
      p == t.up[node]
      only == IF left = Null THEN right ELSE left
      one == rb_change_child(rb_set_parent_color(t, only, p, t.red[node]), node, only, p)
      succ == Deepest(t, right, "L")
      far == succ # right
      sp == IF far THEN t.up[succ] ELSE succ
      child2 == t.kids["R"][succ]
      a == IF far
             THEN rb_set_parent(rb_set_child(rb_set_child(t, sp, "L", child2), succ, "R", right),
                                right, succ)
             ELSE t
      b == rb_set_parent(rb_set_child(a, succ, "L", left), left, succ)
      c == rb_change_child(b, node, succ, p)
      d == rb_set_parent_color(c, succ, p, t.red[node])
      e == rb_set_parent_color(d, child2, sp, FALSE)
  IN  IF left = Null \/ right = Null
        THEN [t |-> one, reb |-> IF only = Null /\ ~t.red[node] THEN p ELSE Null]
        ELSE [t |-> e, reb |-> IF child2 = Null /\ ~t.red[succ] THEN sp ELSE Null]

(* __rb_erase_color: paths through node are one black node short. *)
RECURSIVE EraseColor(_, _, _)
EraseColor(t, node, parent) ==
  LET s == IF t.kids["R"][parent] # node THEN "L" ELSE "R"
      o == Other(s)
      sib0 == t.kids[o][parent]
      in0 == t.kids[s][sib0]
      (* Case 1: the sibling is red: rotate at parent *)
      r1 == rb_rotate_set_parents(
              rb_set_parent_color(
                rb_set_child(rb_set_child(t, parent, o, in0), sib0, s, parent),
                in0, parent, FALSE),
              parent, sib0, TRUE)
      t1 == IF t.red[sib0] THEN r1 ELSE t
      sib == IF t.red[sib0] THEN in0 ELSE sib0
      outer == t1.kids[o][sib]
      inner == t1.kids[s][sib]
      (* Case 2: recolour, and go up if the parent was black *)
      flip == rb_set_parent_color(t1, sib, parent, TRUE)
      up == flip.up[parent]
      (* Case 3: rotate at the sibling *)
      far == t1.kids[o][inner]
      r3 == rb_set_parent_color(
              rb_set_child(rb_set_child(rb_set_child(t1, sib, s, far), inner, o, sib),
                           parent, o, inner),
              far, sib, FALSE)
      Turn == ~IsRed(t1, outer)
      t3 == IF Turn THEN r3 ELSE t1
      top == IF Turn THEN inner ELSE sib
      out == IF Turn THEN sib ELSE outer
      (* Case 4: rotate at parent *)
      mid == t3.kids[s][top]
      r4 == LET a == rb_set_child(rb_set_child(t3, parent, o, mid), top, s, parent)
                b == rb_set_parent_color(a, out, top, FALSE)
                c == rb_set_parent(b, mid, parent)
            IN  rb_rotate_set_parents(c, parent, top, FALSE)
  IN  CASE IsRed(t1, outer) \/ IsRed(t1, inner) -> r4
        [] OTHER -> CASE flip.red[parent] -> [flip EXCEPT !.red[parent] = FALSE]
                      [] ~flip.red[parent] /\ up # Null -> EraseColor(flip, parent, up)
                      [] OTHER -> flip

(* RBT_CLEAR_NODE, with the dead child pointers and colour dropped. *)
RBT_CLEAR_NODE(t, n) ==
  [t EXCEPT !.up[n] = n, !.red[n] = FALSE, !.kids["L"][n] = Null, !.kids["R"][n] = Null]

rbtree_remove_node(t, n) ==
  LET e == rb_erase_node(t, n, cached)
  IN  RBT_CLEAR_NODE(IF e.reb = Null THEN e.t ELSE EraseColor(e.t, Null, e.reb), n)

rbt_replace_node(t, victim, new) ==
  LET a == [t EXCEPT !.up[new] = t.up[victim], !.red[new] = t.red[victim],
                     !.kids["L"][new] = t.kids["L"][victim],
                     !.kids["R"][new] = t.kids["R"][victim]]
      b == rb_set_parent(rb_set_parent(a, t.kids["L"][victim], new), t.kids["R"][victim], new)
      c == rb_change_child(b, victim, new, t.up[victim])
      d == IF cached /\ c.leftmost = victim THEN [c EXCEPT !.leftmost = new] ELSE c
  IN  RBT_CLEAR_NODE(d, victim)
-----------------------------------------------------------------------------
(* Where __rbtree_insert_node stops: at an equal node, or below a leaf. *)
RECURSIVE Descend(_, _, _, _, _)
Descend(t, k, multi, n, leftmost) ==
  LET rc == compare(n, k)
      s  == IF rc > 0 THEN "L" ELSE "R"
      lm == leftmost /\ rc > 0
  IN  CASE rc = 0 /\ ~multi -> [found |-> n, parent |-> n, s |-> s, leftmost |-> FALSE]
        [] ~(rc = 0 /\ ~multi) /\ t.kids[s][n] = Null ->
             [found |-> Null, parent |-> n, s |-> s, leftmost |-> lm]
        [] OTHER -> Descend(t, k, multi, t.kids[s][n], lm)

Place(t, k, multi) ==
  IF t.root = Null THEN [found |-> Null, parent |-> Null, s |-> "L", leftmost |-> TRUE]
                   ELSE Descend(t, k, multi, t.root, TRUE)

rbtree_insert(t, n, k, multi) ==
  LET at == Place(t, k, multi)
  IN  IF at.found # Null THEN t
      ELSE rb_insert(rbt_link_node(t, n, at.parent, at.s), n, cached /\ at.leftmost)

RECURSIVE LookupFrom(_, _, _)
LookupFrom(t, n, k) ==
  CASE n = Null -> Null
    [] n # Null /\ compare(n, k) = 0 -> n
    [] OTHER -> LookupFrom(t, t.kids[IF compare(n, k) < 0 THEN "R" ELSE "L"][n], k)
rbtree_lookup(t, k) == LookupFrom(t, t.root, k)

RECURSIVE EqualRun(_, _, _)
(* The last node with n's key on the way to side s. *)
EqualRun(t, n, s) ==
  LET m == Neighbour(t, n, s)
  IN  IF m = Null \/ compare(n, key[m]) # 0 THEN n ELSE EqualRun(t, m, s)
rbtree_lookup_first(t, k) ==
  IF rbtree_lookup(t, k) = Null THEN Null ELSE EqualRun(t, rbtree_lookup(t, k), "L")
rbtree_lookup_last(t, k) ==
  IF rbtree_lookup(t, k) = Null THEN Null ELSE EqualRun(t, rbtree_lookup(t, k), "R")

(* rbtree_lookup_next ("R") and rbtree_lookup_prev ("L"). *)
rbtree_lookup_beside(t, n, s) ==
  LET m == Neighbour(t, n, s)
  IN  IF m # Null /\ compare(m, key[n]) = 0 THEN m ELSE Null
-----------------------------------------------------------------------------
RbInit ==
  /\ tree = [root |-> Null, leftmost |-> Null,
             kids |-> [s \in {"L", "R"} |-> [n \in Nodes |-> Null]],
             up |-> [n \in Nodes |-> n], red |-> [n \in Nodes |-> FALSE]]
  /\ key \in [Nodes -> Keys]
  /\ \A n \in Nodes : key[n] = CHOOSE k \in KeysOf[n] : \A j \in KeysOf[n] : k <= j
  /\ cached \in BOOLEAN
  /\ shadow = <<>>

(* The sorted multiset: a node goes behind every node that is not larger. *)
Behind(s, n, k) ==
  LET i == Cardinality({j \in 1 .. Len(s) : key[s[j]] <= k})
  IN  SubSeq(s, 1, i) \o <<n>> \o SubSeq(s, i + 1, Len(s))
Without(s, n) == SelectSeq(s, LAMBDA m : m # n)

(* rbtree_insert_node[_cached] and rbtree_multi_insert_node[_cached] *)
Insert(n, multi) ==
  /\ ~Present(tree, n)
  /\ tree' = rbtree_insert(tree, n, key[n], multi)
  /\ shadow' = IF ~multi /\ \E i \in 1 .. Len(shadow) : key[shadow[i]] = key[n]
                 THEN shadow ELSE Behind(shadow, n, key[n])
  /\ UNCHANGED <<key, cached>>

(* rbtree_remove[_cached]: the first of the nodes with key k *)
RemoveKey(k) ==
  LET n == rbtree_lookup_first(tree, k)
  IN  /\ n # Null
      /\ tree' = rbtree_remove_node(tree, n)
      /\ shadow' = Without(shadow, shadow[CHOOSE i \in 1 .. Len(shadow) :
                     key[shadow[i]] = k /\ \A j \in 1 .. i - 1 : key[shadow[j]] # k])
      /\ UNCHANGED <<key, cached>>

(* rbtree_remove_node[_cached], heap_remove, and heap_extract of heap_peek *)
RemoveNode(n) ==
  /\ Present(tree, n)
  /\ tree' = rbtree_remove_node(tree, n)
  /\ shadow' = Without(shadow, n)
  /\ UNCHANGED <<key, cached>>

(* rbt_replace_node[_cached]: the replacement carries the same key *)
Replace(victim, new) ==
  /\ Present(tree, victim) /\ ~Present(tree, new) /\ key[victim] \in KeysOf[new]
  /\ tree' = rbt_replace_node(tree, victim, new)
  /\ key' = [key EXCEPT ![new] = key[victim]]
  /\ shadow' = [i \in 1 .. Len(shadow) |-> IF shadow[i] = victim THEN new ELSE shadow[i]]
  /\ UNCHANGED cached

(* iheap_update: heap_remove, the new value, heap_insert; the heap is cached *)
HeapUpdate(n, k) ==
  /\ cached /\ Present(tree, n) /\ k \in KeysOf[n] \ {key[n]}
  /\ tree' = rbtree_insert(rbtree_remove_node(tree, n), n, k, TRUE)
  /\ key' = [key EXCEPT ![n] = k]
  /\ shadow' = Behind(Without(shadow, n), n, k)
  /\ UNCHANGED cached

RbNext ==
  \/ \E n \in Nodes, multi \in BOOLEAN : Insert(n, multi)
  \/ \E k \in Keys : RemoveKey(k)
  \/ \E n \in Nodes : RemoveNode(n)
  \/ \E victim, new \in Nodes : Replace(victim, new)
  \/ \E n \in Nodes, k \in Keys : HeapUpdate(n, k)
-----------------------------------------------------------------------------
RECURSIVE Walk(_, _, _)
Walk(t, n, s) == IF n = Null THEN <<>> ELSE <<n>> \o Walk(t, Neighbour(t, n, s), s)

RECURSIVE WalkPost(_, _)
WalkPost(t, n) == IF n = Null THEN <<>> ELSE <<n>> \o WalkPost(t, rbt_next_postorder(t, n))

RECURSIVE BlackHeight(_, _)
(* Black nodes on every path down from n, or -1 when the paths differ. *)
BlackHeight(t, n) ==
  IF n = Null THEN 0
  ELSE LET l == BlackHeight(t, t.kids["L"][n])
           r == BlackHeight(t, t.kids["R"][n])
       IN  IF l # r \/ l = -1 THEN -1 ELSE l + IF t.red[n] THEN 0 ELSE 1

(***************************************************************************)
(* The five rules in the comment above rb_set_black hold after every       *)
(* operation: black root, no red child of a red node, equal black counts.  *)
(***************************************************************************)
Balanced ==
  /\ ~IsRed(tree, tree.root)
  /\ \A n \in Nodes : Present(tree, n) /\ tree.red[n] =>
       ~IsRed(tree, tree.kids["L"][n]) /\ ~IsRed(tree, tree.kids["R"][n])
  /\ BlackHeight(tree, tree.root) # -1

(***************************************************************************)
(* The tree is the sorted multiset of the nodes inserted and not removed,  *)
(* equal keys in the order of their insertion ("insert at the rightmost    *)
(* place"): walking it with rbt_next, or backwards with rbt_prev, gives    *)
(* exactly that sequence, the postorder walk gives every node after its    *)
(* children, rb_leftmost is its first node, and every lookup finds the     *)
(* node it names.                                                          *)
(***************************************************************************)
IsSortedMultiset ==
  LET N == Len(shadow)
      post == WalkPost(tree, rbt_first_postorder(tree))
      At(i) == IF i \in 1 .. N THEN shadow[i] ELSE Null
      Run(k) == {i \in 1 .. N : key[shadow[i]] = k}
      End(k, Le(_, _)) == IF Run(k) = {} THEN Null
                          ELSE shadow[CHOOSE i \in Run(k) : \A j \in Run(k) : Le(i, j)]
      Same(i, j) == IF At(j) # Null /\ key[At(i)] = key[At(j)] THEN At(j) ELSE Null
  IN  /\ Walk(tree, rbt_first(tree), "R") = shadow
      /\ Walk(tree, rbt_last(tree), "L") = [i \in 1 .. N |-> shadow[N + 1 - i]]
      /\ Len(post) = N
      /\ \A i, j \in 1 .. N : post[i] = tree.up[post[j]] => j < i
      /\ tree.leftmost = IF cached THEN At(1) ELSE Null
      /\ \A k \in Keys :
           /\ rbtree_lookup_first(tree, k) = End(k, LAMBDA i, j : i <= j)
           /\ rbtree_lookup_last(tree, k) = End(k, LAMBDA i, j : j <= i)
      /\ \A i \in 1 .. N :
           /\ rbtree_lookup_beside(tree, shadow[i], "R") = Same(i, i + 1)
           /\ rbtree_lookup_beside(tree, shadow[i], "L") = Same(i, i - 1)
=============================================================================
