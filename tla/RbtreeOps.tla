----------------------------- MODULE RbtreeOps -----------------------------
(***************************************************************************)
(* The callers of core/rbtree.c: nodes with distinct keys (a node is its   *)
(* key) come and go in any order, and may be replaced by one that sorts in *)
(* the same place.                                                         *)
(***************************************************************************)
EXTENDS Rbtree, FiniteSets, SequencesExt

VARIABLES
  tree,     \* the tree
  members   \* history: the nodes that were inserted and not erased

rbVars == <<tree, members>>

RbInit == tree = RB_ROOT /\ members = {}

\* The descent of enqueue_se() and insert_timer(): the link a new node goes to.
RECURSIVE Descend(_, _, _)
Descend(t, at, n) ==
  LET s == IF at > n THEN "L" ELSE "R"
  IN  IF t.ch[at][s] = Null THEN [parent |-> at, side |-> s] ELSE Descend(t, t.ch[at][s], n)

Insert(n) ==
  LET link == IF tree.root = Null THEN [parent |-> Null, side |-> "L"]
              ELSE Descend(tree, tree.root, n)
  IN  /\ n \notin members
      /\ tree' = rb_insert_color(rb_link_node(tree, n, link.parent, link.side), n)
      /\ members' = members \cup {n}

Erase(n) ==
  /\ n \in members
  /\ tree' = rb_erase(tree, n)
  /\ members' = members \ {n}

\* The caller's duty: new sorts where victim does.
SamePlace(victim, new) ==
  \A m \in members \ {victim} : (m < victim) <=> (m < new)

Replace(victim, new) ==
  /\ victim \in members /\ new \notin members /\ SamePlace(victim, new)
  /\ tree' = rb_replace_node(tree, victim, new)
  /\ members' = (members \ {victim}) \cup {new}

RbNext == \E n \in Nodes : Insert(n) \/ Erase(n) \/ \E m \in Nodes : Replace(n, m)

RbSpec == RbInit /\ [][RbNext]_rbVars

-----------------------------------------------------------------------------
(* Properties *)

\* The nodes of the subtree at n, found through the child links alone, at most
\* depth links down.
RECURSIVE Under(_, _)
Under(n, depth) ==
  IF n = Null \/ depth = 0 THEN {}
  ELSE {n} \cup Under(tree.ch[n].L, depth - 1) \cup Under(tree.ch[n].R, depth - 1)

\* The links hold together: the root's subtree holds exactly the members, every
\* child's parent is the node it is a child of, and only the root has none
\* (rb_link_node, __rb_change_child, rb_replace_node).
Linked ==
  /\ tree.root = Null \/ tree.up[tree.root] = Null
  /\ Under(tree.root, Cardinality(Nodes)) = members
  /\ \A n \in members, s \in {"L", "R"} : tree.ch[n][s] # Null => tree.up[tree.ch[n][s]] = n

\* Black nodes on the paths from n to the leaves, all of them.
RECURSIVE BlackCounts(_)
BlackCounts(n) ==
  IF n = Null THEN {0}
  ELSE {k + (IF tree.red[n] THEN 0 ELSE 1) :
          k \in BlackCounts(tree.ch[n].L) \cup BlackCounts(tree.ch[n].R)}

\* What core/rbtree.c promises in its head comment: the root is black, no red
\* node has a red child, all paths to the leaves have as many black nodes.
RedBlack ==
  /\ rb_is_black(tree, tree.root)
  /\ \A n \in members, s \in {"L", "R"} : tree.red[n] => rb_is_black(tree, tree.ch[n][s])
  /\ Cardinality(BlackCounts(tree.root)) = 1

\* A walk from first, at most one node longer than the tree has.
RECURSIVE Walk(_, _, _)
Walk(n, Step2(_), left) == IF n = Null \/ left = 0 THEN <<>>
                           ELSE <<n>> \o Walk(Step2(n), Step2, left - 1)
Limit == Cardinality(Nodes) + 1
Increasing(w) == \A i, j \in 1..Len(w) : i < j => w[i] < w[j]

\* rb_first and rb_next visit the members in order, rb_last and rb_prev in the
\* opposite order, whatever rotations have happened.
WalksSorted ==
  LET up == Walk(rb_first(tree), LAMBDA n : rb_next(tree, n), Limit)
      down == Walk(rb_last(tree), LAMBDA n : rb_prev(tree, n), Limit)
  IN  ToSet(up) = members /\ Increasing(up) /\ down = Reverse(up)

\* The postorder iteration visits every member once and a node only after its
\* children, so that an iteration may free what it has visited
\* (rb_first_postorder, rb_next_postorder).
ChildrenFirst ==
  LET walk == Walk(rb_first_postorder(tree), LAMBDA n : rb_next_postorder(tree, n), Limit)
  IN  /\ ToSet(walk) = members /\ Len(walk) = Cardinality(members)
      /\ \A i, j \in 1..Len(walk) : tree.up[walk[i]] = walk[j] => i < j
=============================================================================
