------------------------------- MODULE Rbtree -------------------------------
(***************************************************************************)
(* The red-black tree of core/rbtree.c and inc/rbtree_augmented.h, which   *)
(* keeps the run queue and the timer tree, as operators on a tree value.   *)
(*                                                                         *)
(* A tree is a record: the root, and for every node its two children, its  *)
(* parent and its colour (__rb_parent_color packs the last two in a word). *)
(* The source writes every case twice, once for each side; here the side   *)
(* is a parameter.                                                         *)
(***************************************************************************)
EXTENDS Integers, Sequences

CONSTANTS Nodes, Null

ASSUME RbtreeAssumption == Null \notin Nodes

Flip(s) == IF s = "L" THEN "R" ELSE "L"

\* RB_ROOT.  A node outside the tree has whatever fields it had before;
\* rb_link_node sets them all, so they are all cleared here.
RB_ROOT ==
  [root |-> Null,
   ch |-> [n \in Nodes |-> [L |-> Null, R |-> Null]],
   up |-> [n \in Nodes |-> Null],
   red |-> [n \in Nodes |-> FALSE]]

rb_is_black(t, n) == n = Null \/ ~t.red[n]

-----------------------------------------------------------------------------
(* Assignments to one node                                                   *)

SetChild(t, n, s, c) == [t EXCEPT !.ch[n][s] = c]
rb_set_parent(t, n, p) == [t EXCEPT !.up[n] = p]
rb_set_parent_color(t, n, p, red) == [t EXCEPT !.up[n] = p, !.red[n] = red]

\* if (tmp) rb_set_parent_color(tmp, p, RB_BLACK);
AdoptBlack(t, n, p) == IF n = Null THEN t ELSE rb_set_parent_color(t, n, p, FALSE)

\* __rb_change_child(): what pointed to old now points to new.
rb_change_child(t, old, new, parent) ==
  IF parent = Null THEN [t EXCEPT !.root = new]
  ELSE SetChild(t, parent, IF t.ch[parent].L = old THEN "L" ELSE "R", new)

\* __rb_rotate_set_parents(): new takes over old's parent and colour.
rb_rotate_set_parents(t, old, new, red) ==
  rb_change_child(rb_set_parent_color(rb_set_parent_color(t, new, t.up[old], t.red[old]),
                                      old, new, red),
                  old, new, t.up[old])

\* rb_link_node(): node becomes the red leaf at a link, which is a side of parent
\* or, without a parent, the root.
rb_link_node(t, node, parent, s) ==
  LET fresh == [t EXCEPT !.up[node] = parent, !.red[node] = TRUE,
                         !.ch[node] = [L |-> Null, R |-> Null]]
  IN  IF parent = Null THEN [fresh EXCEPT !.root = node] ELSE SetChild(fresh, parent, s, node)

-----------------------------------------------------------------------------
(* Insertion.  s is the side of gparent that parent is on.                   *)

ColourFlip(t, parent, uncle, gparent) ==
  [t EXCEPT !.red[uncle] = FALSE, !.red[parent] = FALSE, !.red[gparent] = TRUE,
            !.up[uncle] = gparent, !.up[parent] = gparent]

\* Case 2: rotate at parent, so that node, an inner grandchild, is outside.
RotateParent(t, node, parent, s) ==
  LET tmp == t.ch[node][s]
  IN  rb_set_parent_color(
        AdoptBlack(SetChild(SetChild(t, parent, Flip(s), tmp), node, s, parent), tmp, parent),
        parent, node, TRUE)

\* Mutant: the node that moves across keeps its old parent.
RotateForgetParent(t, parent, gparent, s) ==
  rb_rotate_set_parents(SetChild(SetChild(t, gparent, s, t.ch[parent][Flip(s)]),
                                 parent, Flip(s), gparent),
                        gparent, parent, TRUE)

\* Case 3: rotate at gparent, which goes below parent.
RotateGrandparent(t, parent, gparent, s) ==
  LET tmp == t.ch[parent][Flip(s)]
  IN  rb_rotate_set_parents(
        AdoptBlack(SetChild(SetChild(t, gparent, s, tmp), parent, Flip(s), gparent),
                   tmp, gparent),
        gparent, parent, TRUE)

\* __rb_insert(), rb_insert_color(): node is red; its parent may be red as well.
RECURSIVE rb_insert_color(_, _)
rb_insert_color(t, node) ==
  LET parent == t.up[node]
      gparent == t.up[parent]
      s == IF parent # t.ch[gparent].R THEN "L" ELSE "R"
      uncle == t.ch[gparent][Flip(s)]
  IN  IF parent = Null THEN rb_set_parent_color(t, node, Null, FALSE)
      ELSE IF rb_is_black(t, parent) THEN t
      ELSE IF ~rb_is_black(t, uncle)
           THEN rb_insert_color(ColourFlip(t, parent, uncle, gparent), gparent)
      ELSE IF node = t.ch[parent][Flip(s)]
           THEN RotateGrandparent(RotateParent(t, node, parent, s), node, gparent, s)
      ELSE RotateGrandparent(t, parent, gparent, s)

-----------------------------------------------------------------------------
(* Erasure.  s is the side of parent that the sibling is on.                 *)

\* Case 1: a red sibling is rotated above parent.
RaiseRedSibling(t, parent, sibling, s) ==
  LET tmp1 == t.ch[sibling][Flip(s)]
  IN  rb_rotate_set_parents(
        rb_set_parent_color(SetChild(SetChild(t, parent, s, tmp1), sibling, Flip(s), parent),
                            tmp1, parent, FALSE),
        parent, sibling, TRUE)

\* Case 3: the sibling's inner child, red, is rotated above it.
RaiseNephew(t, parent, sibling, s) ==
  LET tmp2 == t.ch[sibling][Flip(s)]
      tmp1 == t.ch[tmp2][s]
  IN  AdoptBlack(SetChild(SetChild(SetChild(t, sibling, Flip(s), tmp1), tmp2, s, sibling),
                          parent, s, tmp2),
                 tmp1, sibling)

\* Case 4: the sibling is rotated above parent and its outer child, tmp1, becomes
\* black.
RaiseSibling(t, parent, sibling, tmp1, s) ==
  LET tmp2 == t.ch[sibling][Flip(s)]
      rotated == rb_set_parent_color(
                   SetChild(SetChild(t, parent, s, tmp2), sibling, Flip(s), parent),
                   tmp1, sibling, FALSE)
  IN  rb_rotate_set_parents(IF tmp2 = Null THEN rotated ELSE rb_set_parent(rotated, tmp2, parent),
                            parent, sibling, FALSE)

\* ____rb_erase_color(): the paths through node, a child of parent, lack one
\* black node.
RECURSIVE rb_erase_color(_, _, _)
rb_erase_color(tree, node, parent) ==
  LET s == IF node # tree.ch[parent].R THEN "R" ELSE "L"
      first == tree.ch[parent][s]
      t == IF rb_is_black(tree, first) THEN tree ELSE RaiseRedSibling(tree, parent, first, s)
      sibling == t.ch[parent][s]
      tmp1 == t.ch[sibling][s]
      tmp2 == t.ch[sibling][Flip(s)]
      flipped == rb_set_parent_color(t, sibling, parent, TRUE)
  IN  IF ~rb_is_black(t, tmp1) THEN RaiseSibling(t, parent, sibling, tmp1, s)
      ELSE IF ~rb_is_black(t, tmp2)
           THEN RaiseSibling(RaiseNephew(t, parent, sibling, s), parent, tmp2, sibling, s)
      ELSE IF t.red[parent] THEN [flipped EXCEPT !.red[parent] = FALSE]
      ELSE IF t.up[parent] = Null THEN flipped
      ELSE rb_erase_color(flipped, parent, t.up[parent])

\* As far as the links of one side go.
RECURSIVE Deepest(_, _, _)
Deepest(t, n, s) == IF t.ch[n][s] = Null THEN n ELSE Deepest(t, t.ch[n][s], s)

\* __rb_erase_augmented() with one child or none: the child takes the place.
\* Below, [tree, at] is the tree and the node to rebalance at, or Null.
SpliceOut(t, node, child) ==
  LET parent == t.up[node]
      cut == rb_change_child(t, node, child, parent)
  IN  IF child # Null
      THEN [tree |-> rb_set_parent_color(cut, child, parent, t.red[node]), at |-> Null]
      ELSE [tree |-> cut, at |-> IF t.red[node] THEN Null ELSE parent]

\* Mutant: the successor brings its own colour along.
KeepSuccessorColour(t, node) ==
  LET successor == Deepest(t, t.ch[node].R, "L")
      child2 == t.ch[successor].R
      near == successor = t.ch[node].R
      parent == IF near THEN successor ELSE t.up[successor]
      lifted == IF near THEN t
                ELSE rb_set_parent(SetChild(SetChild(t, parent, "L", child2),
                                            successor, "R", t.ch[node].R),
                                   t.ch[node].R, successor)
      placed == rb_change_child(rb_set_parent(SetChild(lifted, successor, "L", t.ch[node].L),
                                              t.ch[node].L, successor),
                                node, successor, t.up[node])
      taken == rb_set_parent(placed, successor, t.up[node])
  IN  IF child2 # Null
      THEN [tree |-> AdoptBlack(taken, child2, parent), at |-> Null]
      ELSE [tree |-> taken, at |-> IF t.red[successor] THEN Null ELSE parent]

\* __rb_erase_augmented() with two children: the successor, the leftmost node of
\* the right subtree, takes node's place, parent and colour.
ReplaceBySuccessor(t, node) ==
  LET successor == Deepest(t, t.ch[node].R, "L")
      child2 == t.ch[successor].R
      near == successor = t.ch[node].R
      parent == IF near THEN successor ELSE t.up[successor]
      lifted == IF near THEN t
                ELSE rb_set_parent(SetChild(SetChild(t, parent, "L", child2),
                                            successor, "R", t.ch[node].R),
                                   t.ch[node].R, successor)
      placed == rb_change_child(rb_set_parent(SetChild(lifted, successor, "L", t.ch[node].L),
                                              t.ch[node].L, successor),
                                node, successor, t.up[node])
      taken == rb_set_parent_color(placed, successor, t.up[node], t.red[node])
  IN  IF child2 # Null
      THEN [tree |-> AdoptBlack(taken, child2, parent), at |-> Null]
      ELSE [tree |-> taken, at |-> IF t.red[successor] THEN Null ELSE parent]

rb_erase_augmented(t, node) ==
  IF t.ch[node].L = Null THEN SpliceOut(t, node, t.ch[node].R)
  ELSE IF t.ch[node].R = Null THEN SpliceOut(t, node, t.ch[node].L)
  ELSE ReplaceBySuccessor(t, node)

\* The fields of a node that is not in the tree.
Cleared(t, node) ==
  [t EXCEPT !.up[node] = Null, !.red[node] = FALSE, !.ch[node] = [L |-> Null, R |-> Null]]

\* rb_erase()
rb_erase(t, node) ==
  LET cut == rb_erase_augmented(t, node)
  IN  Cleared(IF cut.at = Null THEN cut.tree ELSE rb_erase_color(cut.tree, Null, cut.at), node)

\* rb_replace_node(): new takes victim's place, links and colour.
rb_replace_node(t, victim, new) ==
  LET kids == {t.ch[victim].L, t.ch[victim].R} \ {Null}
      hung == rb_change_child(t, victim, new, t.up[victim])
  IN  Cleared([hung EXCEPT
                 !.ch[new] = t.ch[victim], !.red[new] = t.red[victim],
                 !.up = [n \in Nodes |-> IF n \in kids THEN new
                                         ELSE IF n = new THEN t.up[victim] ELSE @[n]]],
              victim)

-----------------------------------------------------------------------------
(* Walks.  rb_first and rb_next go with s = "R", rb_last and rb_prev with    *)
(* s = "L".                                                                  *)

End(t, s) == IF t.root = Null THEN Null ELSE Deepest(t, t.root, Flip(s))
rb_first(t) == End(t, "R")
rb_last(t) == End(t, "L")

\* Up until the node is not on side s of its parent.
RECURSIVE Climb(_, _, _)
Climb(t, n, s) ==
  IF t.up[n] # Null /\ n = t.ch[t.up[n]][s] THEN Climb(t, t.up[n], s) ELSE t.up[n]

\* Mutant: only the parent is looked at.
StepToParent(t, n, s) ==
  IF t.ch[n][s] # Null THEN Deepest(t, t.ch[n][s], Flip(s)) ELSE t.up[n]

Step(t, n, s) ==
  IF t.ch[n][s] # Null THEN Deepest(t, t.ch[n][s], Flip(s)) ELSE Climb(t, n, s)

rb_next(t, n) == Step(t, n, "R")
rb_prev(t, n) == Step(t, n, "L")

RECURSIVE rb_left_deepest_node(_, _)
rb_left_deepest_node(t, n) ==
  IF t.ch[n].L # Null THEN rb_left_deepest_node(t, t.ch[n].L)
  ELSE IF t.ch[n].R # Null THEN rb_left_deepest_node(t, t.ch[n].R)
  ELSE n

rb_first_postorder(t) == IF t.root = Null THEN Null ELSE rb_left_deepest_node(t, t.root)

\* Mutant: a right subtree is entered at its leftmost node.
PostorderByLeft(t, n) ==
  LET p == t.up[n]
  IN  IF p # Null /\ n = t.ch[p].L /\ t.ch[p].R # Null THEN Deepest(t, t.ch[p].R, "L") ELSE p

rb_next_postorder(t, n) ==
  LET p == t.up[n]
  IN  IF p # Null /\ n = t.ch[p].L /\ t.ch[p].R # Null
      THEN rb_left_deepest_node(t, t.ch[p].R) ELSE p
=============================================================================
