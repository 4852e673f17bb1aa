------------------------------- MODULE RbTree -------------------------------
(***************************************************************************)
(* rbtree.c: the red-black tree under the VMM's areas.  Nodes are integers *)
(* and sort by their value.  The two halves of every routine mirror each   *)
(* other, so an operator takes the side it works on.  A call is one action *)
(* for what it does before its fix-up loop and one action for every turn   *)
(* of the loop; a tree has one caller at a time.                           *)
(*                                                                         *)
(* A NULL dereference is an application outside a function's domain: it    *)
(* stops TLC with an error.                                                *)
(***************************************************************************)
EXTENDS Integers, Sequences, FiniteSetsExt, SequencesExt

CONSTANTS Node, NULL

ASSUME RbAssumption == IsFiniteSet(Node) /\ Node \subseteq Int /\ NULL \notin Int

VARIABLES tree,            \* the rb_root and every rb_node
          pc,              \* "idle", or the fix-up loop that runs
          node, parent,    \* that loop's cursor
          member           \* the nodes the caller has linked and not erased

vars == <<tree, pc, node, parent, member>>

Side == {"left", "right"}
Other(s) == IF s = "left" THEN "right" ELSE "left"
Ptr == Node \cup {NULL}

EmptyTree == [root   |-> NULL,
              child  |-> [s \in Side |-> [n \in Node |-> NULL]],
              parent |-> [n \in Node |-> NULL],
              red    |-> [n \in Node |-> TRUE]]

\* A NULL leaf is black.
IsRed(t, n) == IF n = NULL THEN FALSE ELSE t.red[n]

SideOf(t, p, n) == IF t.child.left[p] = n THEN "left" ELSE "right"

SetChild(t, s, p, n)   == [t EXCEPT !.child[s][p] = n]
SetParent(t, n, p)     == IF n = NULL THEN t ELSE [t EXCEPT !.parent[n] = p]
Paint(t, n, isRed)     == [t EXCEPT !.red[n] = isRed]

\* The pointer that led to old leads to new.
Redirect(t, p, old, new) ==
  IF p = NULL THEN [t EXCEPT !.root = new]
              ELSE SetChild(t, SideOf(t, p, old), p, new)

\* The caller owns the memory of a node that is in no tree.
Forget(t, n) ==
  [t EXCEPT !.child.left[n] = NULL, !.child.right[n] = NULL,
            !.parent[n] = NULL, !.red[n] = TRUE]

-----------------------------------------------------------------------------
(* __rb_rotate_left is Rotate(t, n, "left"), __rb_rotate_right the other.  *)

\* Faulty variant: the inner subtree keeps its old parent pointer.
Rotate_StaleParent(t, n, s) ==
  LET up == t.child[Other(s)][n]
      t1 == SetChild(t, Other(s), n, t.child[s][up])
      t2 == SetParent(SetChild(t1, s, up, n), up, t.parent[n])
  IN  SetParent(Redirect(t2, t.parent[n], n, up), n, up)

Rotate(t, n, s) ==
  LET up    == t.child[Other(s)][n]
      inner == t.child[s][up]
      p     == t.parent[n]
      t1 == SetParent(SetChild(t, Other(s), n, inner), inner, n)
      t2 == SetParent(SetChild(t1, s, up, n), up, p)
  IN  SetParent(Redirect(t2, p, n, up), n, up)

Init ==
  /\ tree = EmptyTree
  /\ pc = "idle" /\ node = NULL /\ parent = NULL
  /\ member = {}

-----------------------------------------------------------------------------
(* Insertion.  The caller walks down from the root, as in any search tree, *)
(* and hands the place it ends at to rb_link_node and rb_insert_color.     *)

Descend(n) ==
  LET down[p \in Node] ==
        LET s == IF n < p THEN "left" ELSE "right"
        IN  IF tree.child[s][p] = NULL THEN <<p, s>> ELSE down[tree.child[s][p]]
  IN  down[tree.root]

rb_link_node(n) ==
  /\ pc = "idle"
  /\ n \notin member
  /\ LET t == Forget(tree, n)
         place == Descend(n)
     IN  tree' = IF tree.root = NULL THEN [t EXCEPT !.root = n]
                 ELSE SetParent(SetChild(t, place[2], place[1], n), n, place[1])
  /\ pc' = "insert_color" /\ node' = n
  /\ member' = member \cup {n}
  /\ UNCHANGED parent

\* Faulty variant: the root is not blackened at the end.
InsertDone_RedRoot ==
  /\ pc = "insert_color"
  /\ ~IsRed(tree, tree.parent[node])
  /\ pc' = "idle" /\ node' = NULL
  /\ UNCHANGED <<tree, parent, member>>

InsertDone ==
  /\ pc = "insert_color"
  /\ ~IsRed(tree, tree.parent[node])
  /\ tree' = Paint(tree, tree.root, FALSE)
  /\ pc' = "idle" /\ node' = NULL
  /\ UNCHANGED <<parent, member>>

\* Faulty variant: recolouring moves the cursor one node too far up.
InsertTurn_TooFar ==
  /\ pc = "insert_color"
  /\ IsRed(tree, tree.parent[node])
  /\ LET p     == tree.parent[node]
         g     == tree.parent[p]
         s     == SideOf(tree, g, p)
         uncle == tree.child[Other(s)][g]
         inner == tree.child[Other(s)][p] = node
         t1    == IF inner THEN Rotate(tree, p, s) ELSE tree
         top   == IF inner THEN node ELSE p
     IN  IF IsRed(tree, uncle)
         THEN /\ tree' = Paint(Paint(Paint(tree, uncle, FALSE), p, FALSE), g, TRUE)
              /\ node' = tree.parent[g]
         ELSE /\ tree' = Rotate(Paint(Paint(t1, top, FALSE), g, TRUE), g, Other(s))
              /\ node' = IF inner THEN p ELSE node
  /\ UNCHANGED <<pc, parent, member>>

\* A turn of the loop of rb_insert_color: the parent p is red.
InsertTurn ==
  /\ pc = "insert_color"
  /\ IsRed(tree, tree.parent[node])
  /\ LET p     == tree.parent[node]
         g     == tree.parent[p]
         s     == SideOf(tree, g, p)
         uncle == tree.child[Other(s)][g]
         inner == tree.child[Other(s)][p] = node
         t1    == IF inner THEN Rotate(tree, p, s) ELSE tree
         top   == IF inner THEN node ELSE p
     IN  IF IsRed(tree, uncle)
         THEN /\ tree' = Paint(Paint(Paint(tree, uncle, FALSE), p, FALSE), g, TRUE)
              /\ node' = g
         ELSE /\ tree' = Rotate(Paint(Paint(t1, top, FALSE), g, TRUE), g, Other(s))
              /\ node' = IF inner THEN p ELSE node
  /\ UNCHANGED <<pc, parent, member>>

-----------------------------------------------------------------------------
(* Removal.                                                                *)

Farthest(t, n, s) ==
  LET go[m \in Node] == IF t.child[s][m] = NULL THEN m ELSE go[t.child[s][m]]
  IN  go[n]

\* Faulty variant: the child's parent pointer is not set, or the child is lost.
Splice_Loses(t, n) ==
  [tree |-> Redirect(t, t.parent[n], n, t.child.right[n]),
   child |-> t.child.right[n], parent |-> t.parent[n], red |-> t.red[n]]

\* A node with at most one child is cut out: its child takes its place.
Splice(t, n) ==
  LET child == IF t.child.left[n] = NULL THEN t.child.right[n] ELSE t.child.left[n]
      p == t.parent[n]
  IN  [tree |-> Redirect(SetParent(t, child, p), p, n, child),
       child |-> child, parent |-> p, red |-> t.red[n]]

\* Otherwise its successor m takes its place, and its colour.
Supplant(t, old) ==
  LET m     == Farthest(t, t.child.right[old], "left")
      child == t.child.right[m]
      p     == t.parent[m]
      t1 == Redirect(t, t.parent[old], old, m)
      t2 == IF p = old THEN t1
            ELSE SetParent(
                   SetChild(SetChild(SetParent(t1, child, p), "left", p, child),
                            "right", m, t.child.right[old]),
                   t.child.right[old], m)
      t3 == Paint(SetParent(t2, m, t.parent[old]), m, t.red[old])
      t4 == SetParent(SetChild(t3, "left", m, t.child.left[old]),
                      t.child.left[old], m)
  IN  [tree |-> t4, child |-> child,
       parent |-> IF p = old THEN m ELSE p, red |-> t.red[m]]

rb_erase(n) ==
  /\ pc = "idle"
  /\ n \in member
  /\ LET cut == IF NULL \in {tree.child.left[n], tree.child.right[n]}
                THEN Splice(tree, n) ELSE Supplant(tree, n)
     IN  /\ tree' = Forget(cut.tree, n)
         /\ IF cut.red THEN UNCHANGED <<pc, node, parent>>
            ELSE pc' = "erase_color" /\ node' = cut.child /\ parent' = cut.parent
  /\ member' = member \ {n}

\* The loop of __rb_erase_color goes on while the cursor is black and not the
\* root: every path through the cursor then lacks one black node.
Lacking == ~IsRed(tree, node) /\ node # tree.root

EraseDone ==
  /\ pc = "erase_color"
  /\ ~Lacking
  /\ tree' = IF node = NULL THEN tree ELSE Paint(tree, node, FALSE)
  /\ pc' = "idle" /\ node' = NULL /\ parent' = NULL
  /\ UNCHANGED member

\* Faulty variant: the parent of the rotated sibling keeps its colour.
BlackSibling_KeepsColour(t, p, s) ==
  LET other == t.child[Other(s)][p]
  IN  IF t.red[other] THEN Rotate(Paint(t, other, FALSE), p, s) ELSE t

\* A red sibling is rotated away first: the sibling is black afterwards.
BlackSibling(t, p, s) ==
  LET other == t.child[Other(s)][p]
  IN  IF t.red[other]
      THEN Rotate(Paint(Paint(t, other, FALSE), p, TRUE), p, s)
      ELSE t

\* The sibling's far child is made red, if it is not, by rotating the near one.
RedFarChild(t, other, s) ==
  IF IsRed(t, t.child[Other(s)][other]) THEN t
  ELSE Rotate(Paint(Paint(t, t.child[s][other], FALSE), other, TRUE),
              other, Other(s))

\* Faulty variant: the cursor is not moved to the parent.
EraseTurn_NoClimb ==
  /\ pc = "erase_color"
  /\ Lacking
  /\ LET s     == SideOf(tree, parent, node)
         o     == Other(s)
         t1    == BlackSibling(tree, parent, s)
         other == t1.child[o][parent]
         t2    == RedFarChild(t1, other, s)
         last  == t2.child[o][parent]
         t3    == Paint(Paint(Paint(t2, last, t2.red[parent]), parent, FALSE),
                        t2.child[o][last], FALSE)
         t4    == Rotate(t3, parent, s)
     IN  IF \A c \in Side : ~IsRed(t1, t1.child[c][other])
         THEN /\ tree' = Paint(t1, other, TRUE)
              /\ UNCHANGED <<pc, node, parent>>
         ELSE /\ tree' = Paint(t4, t4.root, FALSE)
              /\ pc' = "idle" /\ node' = NULL /\ parent' = NULL
  /\ UNCHANGED member

\* A turn of the loop of __rb_erase_color.
EraseTurn ==
  /\ pc = "erase_color"
  /\ Lacking
  /\ LET s     == SideOf(tree, parent, node)
         o     == Other(s)
         t1    == BlackSibling(tree, parent, s)
         other == t1.child[o][parent]
         t2    == RedFarChild(t1, other, s)
         last  == t2.child[o][parent]
         t3    == Paint(Paint(Paint(t2, last, t2.red[parent]), parent, FALSE),
                        t2.child[o][last], FALSE)
         t4    == Rotate(t3, parent, s)
     IN  IF \A c \in Side : ~IsRed(t1, t1.child[c][other])
         THEN /\ tree' = Paint(t1, other, TRUE)
              /\ node' = parent /\ parent' = t1.parent[parent]
              /\ UNCHANGED pc
         ELSE /\ tree' = Paint(t4, t4.root, FALSE)
              /\ pc' = "idle" /\ node' = NULL /\ parent' = NULL
  /\ UNCHANGED member

-----------------------------------------------------------------------------
(* Replacement and traversal.                                              *)

\* The caller puts a node in another's place only if it sorts there.
rb_replace_node(victim, new) ==
  /\ pc = "idle"
  /\ victim \in member /\ new \notin member
  /\ \A m \in member \ {victim} : m < victim <=> m < new
  /\ LET l == tree.child.left[victim]
         r == tree.child.right[victim]
         t1 == Redirect(tree, tree.parent[victim], victim, new)
         t2 == SetParent(SetParent(t1, l, new), r, new)
     IN  tree' = Forget([t2 EXCEPT !.child.left[new] = l, !.child.right[new] = r,
                                   !.parent[new] = tree.parent[victim],
                                   !.red[new] = tree.red[victim]], victim)
  /\ member' = (member \ {victim}) \cup {new}
  /\ UNCHANGED <<pc, node, parent>>

\* rb_first is End(t, "left"), rb_last is End(t, "right").
End(t, s) == IF t.root = NULL THEN NULL ELSE Farthest(t, t.root, s)

\* Faulty variant: without a child on that side the parent is the neighbour.
Neighbour_NoClimb(t, n, s) ==
  IF t.child[s][n] # NULL THEN Farthest(t, t.child[s][n], Other(s))
  ELSE t.parent[n]

\* rb_next is Neighbour(t, n, "right"), rb_prev is Neighbour(t, n, "left").
Neighbour(t, n, s) ==
  LET climb[m \in Node] ==
        LET p == t.parent[m]
        IN  IF p = NULL THEN NULL
            ELSE IF m = t.child[s][p] THEN climb[p] ELSE p
  IN  IF t.parent[n] = n THEN NULL
      ELSE IF t.child[s][n] # NULL
      THEN Farthest(t, t.child[s][n], Other(s))
      ELSE climb[n]

-----------------------------------------------------------------------------
Turn == InsertDone \/ InsertTurn \/ EraseDone \/ EraseTurn

Next ==
  \/ Turn
  \/ \E n \in Node : rb_link_node(n) \/ rb_erase(n)
  \/ \E victim, new \in Node : rb_replace_node(victim, new)

Spec == Init /\ [][Next]_vars

-----------------------------------------------------------------------------
\* Besides the types: a running fix-up has a node of the tree to work at.
TypeOK ==
  /\ tree \in [root : Ptr, child : [Side -> [Node -> Ptr]],
               parent : [Node -> Ptr], red : [Node -> BOOLEAN]]
  /\ pc \in {"idle", "insert_color", "erase_color"}
  /\ node \in Ptr /\ parent \in Ptr
  /\ pc = "insert_color" => node \in member
  /\ pc = "erase_color" => node \in member \/ parent \in member \/ member = {}
  /\ member \subseteq Node

\* Up and down pointers agree, also in the middle of a fix-up: a child's
\* parent pointer leads back to the node that has it, the root has none, and
\* no pointer leads to a node that is not in the tree.
LinksAgree ==
  /\ tree.root \in member \cup {NULL}
  /\ tree.root # NULL => tree.parent[tree.root] = NULL
  /\ \A n \in member :
       /\ \A s \in Side : LET c == tree.child[s][n]
                          IN  c # NULL => c \in member /\ tree.parent[c] = n
       /\ n # tree.root => \E s \in Side :
            tree.parent[n] \in member /\ tree.child[s][tree.parent[n]] = n

\* What an in-order walk from the root meets; it gives up below the depth a
\* tree of Node can have.
InOrder ==
  LET walk[k \in 0 .. Cardinality(Node)] == [n \in Ptr |->
        IF n = NULL \/ k = 0 THEN <<>>
        ELSE walk[k - 1][tree.child.left[n]] \o <<n>>
             \o walk[k - 1][tree.child.right[n]]]
  IN  walk[Cardinality(Node)][tree.root]

\* The tree holds exactly the nodes that were inserted and not erased, in
\* order, at every turn of a fix-up: no rotation or unlinking loses,
\* duplicates or misplaces a node.
HoldsMembers ==
  /\ Range(InOrder) = member
  /\ \A i, j \in DOMAIN InOrder : i < j => InOrder[i] < InOrder[j]

\* Red nodes have no red child, except that the cursor of an insertion may be
\* red under a red parent, and the cursor of a removal red next to red nodes;
\* between calls the root is black.
RedRule ==
  /\ \A n \in member :
       IsRed(tree, n) /\ IsRed(tree, tree.parent[n]) =>
         \/ pc = "insert_color" /\ n = node
         \/ pc = "erase_color" /\ node \in {n, tree.parent[n]}
  /\ pc = "idle" => ~IsRed(tree, tree.root)

\* The number of black nodes on the way down from n, with the one the removal
\* still owes counted at its cursor; 0 if two ways differ.
BlackHeight ==
  LET owed(s, n) == IF /\ pc = "erase_color" /\ n = parent
                       /\ tree.child[s][n] = node /\ s = SideOf(tree, n, node)
                    THEN 1 ELSE 0
      height[k \in 0 .. Cardinality(Node)] == [n \in Ptr |->
        IF n = NULL \/ k = 0 THEN 1
        ELSE LET l == height[k - 1][tree.child.left[n]] + owed("left", n)
                 r == height[k - 1][tree.child.right[n]] + owed("right", n)
             IN  IF l = r /\ l > 0 THEN l + (IF tree.red[n] THEN 0 ELSE 1) ELSE 0]
  IN  height[Cardinality(Node)][tree.root]

\* Every way down has as many black nodes as any other, and a removal in
\* progress owes exactly one, below its cursor.
Balanced == BlackHeight > 0

\* Between calls the walk functions agree with the order of the nodes:
\* rb_first and rb_last give its ends, rb_next and rb_prev the neighbours.
WalksInOrder ==
  pc = "idle" =>
    LET least(S)    == IF S = {} THEN NULL ELSE Min(S)
        greatest(S) == IF S = {} THEN NULL ELSE Max(S)
    IN  /\ End(tree, "left") = least(member)
        /\ End(tree, "right") = greatest(member)
        /\ \A n \in member :
             /\ Neighbour(tree, n, "right") = least({m \in member : m > n})
             /\ Neighbour(tree, n, "left") = greatest({m \in member : m < n})

\* How many nodes there are on the way up from n, itself counted.
Level(t, n) ==
  LET above[k \in 0 .. Cardinality(Node)] == [m \in Ptr |->
        IF m = NULL \/ k = 0 THEN 0 ELSE 1 + above[k - 1][t.parent[m]]]
  IN  above[Cardinality(Node)][n]

\* How far down the cursor of a fix-up is; a NULL cursor is below its parent.
Depth == IF node = NULL THEN 1 + Level(tree, parent) ELSE Level(tree, node)

\* What is left to climb.  A removal that has rotated a red sibling away stays
\* at its depth once, with a cursor that ends the loop.
Climb == 2 * Depth + (IF pc = "erase_color" /\ Lacking THEN 1 ELSE 0)

\* Every turn of a fix-up loop leaves less to climb, so that a call ends after
\* at most twice as many turns as the tree has levels.
FixupClimbs == [][pc # "idle" /\ pc' # "idle" => Climb' < Climb]_vars
=============================================================================
