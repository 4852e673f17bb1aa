---------------------------- MODULE RbTreeProofs ----------------------------
(***************************************************************************)
(* The red-black tree of rbtree.c keeps its nodes, its order, its links,   *)
(* its colours and its balance, for any finite set of nodes, at every turn *)
(* of every fix-up.                                                        *)
(*                                                                         *)
(* Two ghosts carry the argument: sub, the nodes from each node down, and  *)
(* h, the black height of each node.  IInv says that they exist, up to the *)
(* one defect the cursor of a fix-up stands at: a red node under a red one *)
(* (insertion), or a side that lacks a black node (erasure).  The lemmas   *)
(* go from the links a rotation moves, over each case of the two loops, to *)
(* the properties that MCRbTree checks on ten nodes.                       *)
(***************************************************************************)
EXTENDS RbTree, Induction

-----------------------------------------------------------------------------
(* Sides.                                                                  *)

\* a lies on side s of b.
Beyond(s, a, b) == IF s = "left" THEN a < b ELSE b < a

\* The two sides mirror each other.
LEMMA Sides ==
  ASSUME NEW s \in Side
  PROVE  /\ Other(s) \in Side /\ Other(s) # s /\ Other(Other(s)) = s
         /\ \A c \in Side : c = s \/ c = Other(s)
BY DEF Side, Other

\* Being on one side is a strict order, and the other side is its converse.
LEMMA Order ==
  ASSUME NEW s \in Side
  PROVE  /\ \A a \in Node : ~Beyond(s, a, a)
         /\ \A a, b \in Node : Beyond(Other(s), a, b) <=> Beyond(s, b, a)
         /\ \A a, b \in Node : a # b => Beyond(s, a, b) \/ Beyond(s, b, a)
         /\ \A a, b \in Node : ~(Beyond(s, a, b) /\ Beyond(s, b, a))
         /\ \A a, b, c \in Node : Beyond(s, a, b) /\ Beyond(s, b, c) => Beyond(s, a, c)
BY RbAssumption DEF Side, Other, Beyond

\* What a tree is: a root, two children and a parent per node, and colours.
TreeType == [root : Ptr, child : [Side -> [Node -> Ptr]],
             parent : [Node -> Ptr], red : [Node -> BOOLEAN]]

-----------------------------------------------------------------------------
(* The shape of a tree t with nodes M: sub[n] are the nodes from n down.   *)

\* Links, order and membership, with the ghost sub that makes them inductive.
Shape(t, M, sub) ==
  /\ t \in TreeType /\ M \subseteq Node /\ sub \in [Ptr -> SUBSET Node]
  /\ t.root \in M \cup {NULL}
  /\ sub[NULL] = {} /\ sub[t.root] = M
  /\ t.root # NULL => t.parent[t.root] = NULL
  /\ \A n \in M :
       /\ \A s \in Side : /\ sub[n] = {n} \cup sub[t.child[s][n]]
                                         \cup sub[t.child[Other(s)][n]]
                          /\ \A m \in sub[t.child[s][n]] : Beyond(s, m, n)
                          /\ t.child[s][n] # NULL =>
                               t.child[s][n] \in M /\ t.parent[t.child[s][n]] = n
       /\ n # t.root => /\ t.parent[n] \in M
                        /\ \E s \in Side : t.child[s][t.parent[n]] = n
  /\ \A n \in Node \ M : t.parent[n] = NULL /\ \A s \in Side : t.child[s][n] = NULL

\* What a rotation does, pointer by pointer.
Rotated(t, n, s) ==
  LET o     == Other(s)
      up    == t.child[o][n]
      inner == t.child[s][up]
      p     == t.parent[n]
  IN  [root   |-> IF p = NULL THEN up ELSE t.root,
       child  |-> [c \in Side |-> [x \in Node |->
                    IF x = n THEN (IF c = o THEN inner ELSE t.child[c][n])
                    ELSE IF x = up THEN (IF c = s THEN n ELSE t.child[c][up])
                    ELSE IF t.child[c][x] = n THEN up ELSE t.child[c][x]]],
       parent |-> [x \in Node |-> IF x = n THEN up ELSE IF x = up THEN p
                                  ELSE IF x = inner THEN n ELSE t.parent[x]],
       red    |-> t.red]

\* The null pointer is no node.
LEMMA NullNotNode == NULL \notin Node
BY RbAssumption

\* The two subtrees of a node are apart, and the node is in neither.
LEMMA Subtree ==
  ASSUME NEW t, NEW M, NEW sub, Shape(t, M, sub), NEW n \in M, NEW s \in Side
  PROVE  /\ n \in sub[n]
         /\ sub[t.child[s][n]] \subseteq sub[n]
         /\ n \notin sub[t.child[s][n]]
         /\ sub[t.child[s][n]] \cap sub[t.child[Other(s)][n]] = {}
         /\ sub[n] = {n} \cup sub[t.child[s][n]] \cup sub[t.child[Other(s)][n]]
<1>1. n \in Node /\ sub[t.child[s][n]] \subseteq Node
  BY DEF Shape, TreeType
<1>2. sub[n] = {n} \cup sub[t.child[s][n]] \cup sub[t.child[Other(s)][n]]
  BY Sides DEF Shape
<1>3. n \notin sub[t.child[s][n]]
  BY <1>1, Order DEF Shape
<1>4. ASSUME NEW x \in sub[t.child[s][n]], x \in sub[t.child[Other(s)][n]]
      PROVE  FALSE
  <2>1. Beyond(s, x, n) /\ Beyond(Other(s), x, n)
    BY <1>4, Sides DEF Shape
  <2> QED  BY <2>1, <1>1, Order
<1> QED  BY <1>2, <1>3, <1>4

\* The nodes a rotation touches are distinct.
LEMMA RotateDistinct ==
  ASSUME NEW t, NEW M, NEW sub, Shape(t, M, sub), NEW n \in M, NEW s \in Side,
         t.child[Other(s)][n] # NULL
  PROVE  LET up    == t.child[Other(s)][n]
             inner == t.child[s][up]
             p     == t.parent[n]
         IN  /\ n \in Node /\ up \in M /\ up \in Node /\ up # n
             /\ p \in Ptr /\ p # n /\ p # up
             /\ p # NULL => p \in M /\ p # inner
             /\ inner \in Ptr /\ inner # n /\ inner # up
             /\ inner # NULL => inner \in M
             /\ n = t.root <=> p = NULL
             /\ up # t.root /\ (inner # NULL => inner # t.root)
             /\ t.child[s][n] # up /\ t.child[Other(s)][up] # n
             /\ t.parent[up] = n /\ (inner # NULL => t.parent[inner] = up)
<1> DEFINE o == Other(s)
           up == t.child[o][n]
           inner == t.child[s][up]
           p == t.parent[n]
<1>1. o \in Side /\ n \in Node /\ up \in Ptr /\ up \in M /\ up \in Node /\ p \in Ptr
  BY Sides DEF Shape, TreeType, Ptr
<1>2. inner \in Ptr /\ (inner # NULL => inner \in M)
  BY <1>1 DEF Shape, TreeType
<1>3. t.parent[up] = n /\ (inner # NULL => t.parent[inner] = up)
  BY <1>1 DEF Shape
<1>4. up \in sub[up] /\ n \notin sub[up] /\ sub[inner] \subseteq sub[up] /\ up \notin sub[inner]
  BY <1>1, Subtree
<1>5. up # n /\ inner # n /\ inner # up
  BY <1>1, <1>2, <1>4, Subtree, NullNotNode
<1>6. /\ n = t.root <=> p = NULL
      /\ p # NULL => p \in M /\ \E c \in Side : t.child[c][p] = n
  BY <1>1, NullNotNode DEF Shape
<1>7. p # NULL => n \in sub[p] /\ p # n
  <2> SUFFICES ASSUME p # NULL PROVE n \in sub[p] /\ p # n
    OBVIOUS
  <2>1. PICK c \in Side : t.child[c][p] = n
    BY <1>6
  <2>2. n \in sub[n] /\ sub[n] \subseteq sub[p] /\ p \notin sub[n]
    BY <1>6, <2>1, Subtree
  <2> QED  BY <2>2
<1>8. p # up /\ (p # NULL => p # inner) /\ p # n
  BY <1>1, <1>4, <1>7, NullNotNode
<1>9. up # t.root /\ (inner # NULL => inner # t.root)
  BY <1>1, <1>2, <1>3, NullNotNode DEF Shape
<1>10. up \notin sub[t.child[s][n]] /\ n \notin sub[t.child[o][up]]
  BY SMTT(30), <1>1, <1>4, Subtree, Sides
<1>11. t.child[s][n] # up /\ t.child[o][up] # n
  BY <1>1, <1>4, <1>10, Subtree
<1> QED
  BY <1>1, <1>2, <1>3, <1>5, <1>6, <1>8, <1>9, <1>11

\* Assignments to one pointer of one node.
LEMMA SetChildIs ==
  ASSUME NEW t \in TreeType, NEW s \in Side, NEW p \in Node, NEW n \in Ptr
  PROVE  LET u == SetChild(t, s, p, n)
         IN  /\ u \in TreeType
             /\ u.root = t.root /\ u.parent = t.parent /\ u.red = t.red
             /\ \A c \in Side, x \in Node :
                  u.child[c][x] = IF c = s /\ x = p THEN n ELSE t.child[c][x]
BY DEF SetChild, TreeType

\* rb_set_parent changes one parent and nothing else.
LEMMA SetParentIs ==
  ASSUME NEW t \in TreeType, NEW n \in Ptr, NEW p \in Ptr
  PROVE  LET u == SetParent(t, n, p)
         IN  /\ u \in TreeType
             /\ u.root = t.root /\ u.child = t.child /\ u.red = t.red
             /\ \A x \in Node : u.parent[x] = IF x = n THEN p ELSE t.parent[x]
BY NullNotNode DEF SetParent, TreeType, Ptr

\* rb_set_color changes one colour and nothing else.
LEMMA PaintIs ==
  ASSUME NEW t \in TreeType, NEW n \in Node, NEW b \in BOOLEAN
  PROVE  LET u == Paint(t, n, b)
         IN  /\ u \in TreeType
             /\ u.root = t.root /\ u.child = t.child /\ u.parent = t.parent
             /\ \A x \in Node : u.red[x] = IF x = n THEN b ELSE t.red[x]
BY DEF Paint, TreeType

\* The pointer that leads to old, in its parent p or in the root, leads to new.
LEMMA RedirectIs ==
  ASSUME NEW t \in TreeType, NEW p \in Ptr, NEW old \in Node, NEW new \in Ptr,
         p # NULL => \E s \in Side : t.child[s][p] = old /\ t.child[Other(s)][p] # old
  PROVE  LET u == Redirect(t, p, old, new)
         IN  /\ u \in TreeType
             /\ u.root = IF p = NULL THEN new ELSE t.root
             /\ u.parent = t.parent /\ u.red = t.red
             /\ \A c \in Side, x \in Node :
                  u.child[c][x] = IF x = p /\ t.child[c][x] = old THEN new
                                  ELSE t.child[c][x]
<1>1. CASE p = NULL
  BY <1>1, NullNotNode DEF Redirect, TreeType
<1>2. CASE p # NULL
  <2>1. PICK s \in Side : t.child[s][p] = old /\ t.child[Other(s)][p] # old
    BY <1>2
  <2>2. SideOf(t, p, old) = s
    BY <2>1 DEF SideOf, Side, Other
  <2>3. p \in Node
    BY <1>2 DEF Ptr
  <2>4. Redirect(t, p, old, new) = SetChild(t, s, p, new)
    BY <1>2, <2>2 DEF Redirect
  <2> DEFINE u == SetChild(t, s, p, new)
  <2>5. /\ u \in TreeType
        /\ u.root = t.root /\ u.parent = t.parent /\ u.red = t.red
        /\ \A c \in Side, x \in Node :
             u.child[c][x] = IF c = s /\ x = p THEN new ELSE t.child[c][x]
    BY <2>3, SetChildIs
  <2> HIDE DEF u
  <2>6. \A c \in Side : c = s <=> t.child[c][p] = old
    BY <2>1, Sides
  <2>7. \A c \in Side, x \in Node :
          u.child[c][x] = IF x = p /\ t.child[c][x] = old THEN new ELSE t.child[c][x]
    BY <2>5, <2>6
  <2> QED  BY <1>2, <2>4, <2>5, <2>7 DEF u
<1> QED  BY <1>1, <1>2

\* Trees are equal when every pointer and colour is.
LEMMA SameTree ==
  ASSUME NEW t \in TreeType, NEW u \in TreeType, t.root = u.root,
         \A x \in Node : t.parent[x] = u.parent[x],
         \A x \in Node : t.red[x] = u.red[x],
         \A c \in Side, x \in Node : t.child[c][x] = u.child[c][x]
  PROVE  t = u
<1>1. t.parent = u.parent /\ t.red = u.red
  BY DEF TreeType
<1>2. ASSUME NEW c \in Side PROVE t.child[c] = u.child[c]
  BY DEF TreeType
<1>3. t.child = u.child
  BY <1>2 DEF TreeType
<1> QED  BY <1>1, <1>3 DEF TreeType

\* __rb_rotate_left and __rb_rotate_right move the pointers they should.
LEMMA RotateIs ==
  ASSUME NEW t, NEW M, NEW sub, Shape(t, M, sub), NEW n \in M, NEW s \in Side,
         t.child[Other(s)][n] # NULL
  PROVE  Rotate(t, n, s) = Rotated(t, n, s) /\ Rotated(t, n, s) \in TreeType
<1> DEFINE o == Other(s)
           up == t.child[o][n]
           inner == t.child[s][up]
           p == t.parent[n]
           t0 == SetChild(t, o, n, inner)
           t1 == SetParent(t0, inner, n)
           t2 == SetChild(t1, s, up, n)
           t3 == SetParent(t2, up, p)
           t4 == Redirect(t3, p, n, up)
           t5 == SetParent(t4, n, up)
           v  == Rotated(t, n, s)
<1>1. o \in Side /\ o # s /\ \A c \in Side : c = s \/ c = o
  BY Sides
<1>2. /\ n \in Node /\ up \in M /\ up \in Node /\ up # n
      /\ p \in Ptr /\ p # n /\ p # up
      /\ p # NULL => p \in M /\ p # inner
      /\ inner \in Ptr /\ inner # n /\ inner # up
      /\ inner # NULL => inner \in M
      /\ n = t.root <=> p = NULL
      /\ up # t.root /\ (inner # NULL => inner # t.root)
      /\ t.child[s][n] # up /\ t.child[o][up] # n
  BY RotateDistinct
<1>3. /\ t \in TreeType /\ NULL \notin Node
      /\ p # NULL => \E c \in Side : t.child[c][p] = n
      /\ \A c \in Side, x \in Node : t.child[c][x] = n => x = p
      /\ n \in Ptr /\ up \in Ptr
  BY <1>2, NullNotNode DEF Shape, Ptr
<1>4. p # NULL => \E c \in Side : t.child[c][p] = n /\ t.child[Other(c)][p] # n
  <2> SUFFICES ASSUME p # NULL PROVE \E c \in Side : t.child[c][p] = n /\ t.child[Other(c)][p] # n
    OBVIOUS
  <2>1. PICK c \in Side : t.child[c][p] = n
    BY <1>3
  <2>2. sub[n] \cap sub[t.child[Other(c)][p]] = {} /\ n \in sub[n]
    BY <1>2, <2>1, Subtree
  <2> QED  BY <2>1, <2>2
<1>v. /\ v.root = IF p = NULL THEN up ELSE t.root
      /\ v.red = t.red
      /\ \A x \in Node : v.parent[x] = IF x = n THEN up ELSE IF x = up THEN p
                                        ELSE IF x = inner THEN n ELSE t.parent[x]
      /\ \A c \in Side, x \in Node :
           v.child[c][x] = IF x = n THEN (IF c = o THEN inner ELSE t.child[c][n])
                           ELSE IF x = up THEN (IF c = s THEN n ELSE t.child[c][up])
                           ELSE IF t.child[c][x] = n THEN up ELSE t.child[c][x]
  BY DEF Rotated
<1>w. v \in TreeType
  BY <1>1, <1>2, <1>3 DEF Rotated, TreeType, Ptr
<1>r. Rotate(t, n, s) = t5
  BY DEF Rotate
<1> HIDE DEF o, up, inner, p, v
<1>y. /\ n \in Node /\ up \in Node /\ n \in Ptr /\ up \in Ptr /\ inner \in Ptr /\ p \in Ptr
      /\ o \in Side /\ t \in TreeType
  BY <1>1, <1>2, <1>3
<1>5. /\ t0 \in TreeType /\ t0.root = t.root /\ t0.parent = t.parent /\ t0.red = t.red
      /\ \A c \in Side, x \in Node :
           t0.child[c][x] = IF c = o /\ x = n THEN inner ELSE t.child[c][x]
  BY <1>y, SetChildIs
<1>ta. t0 \in TreeType  BY <1>5
<1> HIDE DEF t0
<1>6. /\ t1 \in TreeType /\ t1.root = t0.root /\ t1.child = t0.child /\ t1.red = t0.red
      /\ \A x \in Node : t1.parent[x] = IF x = inner THEN n ELSE t0.parent[x]
  BY <1>y, <1>ta, SetParentIs
<1>tb. t1 \in TreeType  BY <1>6
<1> HIDE DEF t1
<1>7. /\ t2 \in TreeType /\ t2.root = t1.root /\ t2.parent = t1.parent /\ t2.red = t1.red
      /\ \A c \in Side, x \in Node :
           t2.child[c][x] = IF c = s /\ x = up THEN n ELSE t1.child[c][x]
  BY <1>y, <1>tb, SetChildIs
<1>tc. t2 \in TreeType  BY <1>7
<1> HIDE DEF t2
<1>8. /\ t3 \in TreeType /\ t3.root = t2.root /\ t3.child = t2.child /\ t3.red = t2.red
      /\ \A x \in Node : t3.parent[x] = IF x = up THEN p ELSE t2.parent[x]
  BY <1>y, <1>tc, SetParentIs
<1>td. t3 \in TreeType  BY <1>8
<1> HIDE DEF t3
<1>9. \A c \in Side, x \in Node :
        t3.child[c][x] = IF c = s /\ x = up THEN n
                         ELSE IF c = o /\ x = n THEN inner ELSE t.child[c][x]
  BY <1>5, <1>6, <1>7, <1>8
<1>10. p # NULL => \E c \in Side : t3.child[c][p] = n /\ t3.child[Other(c)][p] # n
  BY <1>2, <1>4, <1>9, Sides DEF Ptr
<1>11. /\ t4 \in TreeType /\ t4.root = IF p = NULL THEN up ELSE t3.root
       /\ t4.parent = t3.parent /\ t4.red = t3.red
       /\ \A c \in Side, x \in Node :
            t4.child[c][x] = IF x = p /\ t3.child[c][x] = n THEN up ELSE t3.child[c][x]
  BY <1>y, <1>td, <1>10, RedirectIs
<1>te. t4 \in TreeType  BY <1>11
<1> HIDE DEF t4
<1>12. /\ t5 \in TreeType /\ t5.root = t4.root /\ t5.child = t4.child /\ t5.red = t4.red
       /\ \A x \in Node : t5.parent[x] = IF x = n THEN up ELSE t4.parent[x]
  BY <1>y, <1>te, SetParentIs
<1> HIDE DEF t5
<1>13. t5.root = v.root /\ t5.red = v.red
  BY <1>v, <1>5, <1>6, <1>7, <1>8, <1>11, <1>12
<1>14. \A x \in Node : t5.parent[x] = v.parent[x]
  BY <1>v, <1>2, <1>5, <1>6, <1>7, <1>8, <1>11, <1>12
<1>15. ASSUME NEW c \in Side, NEW x \in Node PROVE t5.child[c][x] = v.child[c][x]
  <2>1. t5.child[c][x] = IF x = p /\ t3.child[c][x] = n THEN up ELSE t3.child[c][x]
    BY <1>11, <1>12
  <2>2. t.child[c][x] = n => x = p
    BY <1>3
  <2> QED  BY <1>v, <1>1, <1>2, <1>9, <2>1, <2>2
<1>16. t5 = v
  BY <1>w, <1>12, <1>13, <1>14, <1>15, SameTree
<1> QED  BY <1>r, <1>w, <1>16 DEF v

\* What a rotation does, for every node.
LEMMA RotateFacts ==
  ASSUME NEW t, NEW M, NEW sub, Shape(t, M, sub), NEW n \in M, NEW s \in Side,
         t.child[Other(s)][n] # NULL
  PROVE  LET o     == Other(s)
             up    == t.child[o][n]
             inner == t.child[s][up]
             p     == t.parent[n]
             u     == Rotate(t, n, s)
         IN  /\ u \in TreeType
             /\ u.root = IF p = NULL THEN up ELSE t.root
             /\ u.red = t.red
             /\ u.parent[n] = up /\ u.parent[up] = p
             /\ inner # NULL => u.parent[inner] = n
             /\ \A x \in Node \ {n, up, inner} : u.parent[x] = t.parent[x]
             /\ u.child[o][n] = inner /\ u.child[s][n] = t.child[s][n]
             /\ u.child[s][up] = n /\ u.child[o][up] = t.child[o][up]
             /\ \A c \in Side, x \in Node \ {n, up} :
                  u.child[c][x] = IF t.child[c][x] = n THEN up ELSE t.child[c][x]
<1> DEFINE o == Other(s)
           up == t.child[o][n]
           inner == t.child[s][up]
           p == t.parent[n]
           u == Rotate(t, n, s)
<1>1. /\ n \in Node /\ up \in Node /\ up # n /\ p # up /\ (p # NULL => p # inner)
      /\ inner \in Ptr /\ inner # n /\ inner # up
  BY RotateDistinct
<1>2. o \in Side /\ o # s
  BY Sides
<1>3. /\ u \in TreeType
      /\ u.root = IF p = NULL THEN up ELSE t.root
      /\ u.red = t.red
      /\ \A x \in Node : u.parent[x] = IF x = n THEN up ELSE IF x = up THEN p
                                        ELSE IF x = inner THEN n ELSE t.parent[x]
      /\ \A c \in Side, x \in Node :
           u.child[c][x] = IF x = n THEN (IF c = o THEN inner ELSE t.child[c][n])
                           ELSE IF x = up THEN (IF c = s THEN n ELSE t.child[c][up])
                           ELSE IF t.child[c][x] = n THEN up ELSE t.child[c][x]
  <2> DEFINE v == Rotated(t, n, s)
  <2>1. u = v /\ v \in TreeType
    BY RotateIs
  <2>2. /\ v.root = IF p = NULL THEN up ELSE t.root
        /\ v.red = t.red
        /\ \A x \in Node : v.parent[x] = IF x = n THEN up ELSE IF x = up THEN p
                                          ELSE IF x = inner THEN n ELSE t.parent[x]
        /\ \A c \in Side, x \in Node :
             v.child[c][x] = IF x = n THEN (IF c = o THEN inner ELSE t.child[c][n])
                             ELSE IF x = up THEN (IF c = s THEN n ELSE t.child[c][up])
                             ELSE IF t.child[c][x] = n THEN up ELSE t.child[c][x]
    BY DEF Rotated
  <2> HIDE DEF o, up, inner, p, u, v
  <2> QED  BY <2>1, <2>2
<1> HIDE DEF o, up, inner, p, u
<1>4. /\ u.parent[n] = up /\ u.parent[up] = p
      /\ inner # NULL => u.parent[inner] = n
      /\ \A x \in Node \ {n, up, inner} : u.parent[x] = t.parent[x]
  BY <1>1, <1>3 DEF Ptr
<1>5. /\ u.child[o][n] = inner /\ u.child[s][n] = t.child[s][n]
      /\ u.child[s][up] = n /\ u.child[o][up] = t.child[o][up]
      /\ \A c \in Side, x \in Node \ {n, up} :
           u.child[c][x] = IF t.child[c][x] = n THEN up ELSE t.child[c][x]
  BY <1>1, <1>2, <1>3
<1> QED  BY <1>3, <1>4, <1>5 DEF o, up, inner, p, u

\* The nodes from each node down, after a rotation.
SubRotated(t, sub, n, s) ==
  LET up == t.child[Other(s)][n]
  IN  [sub EXCEPT ![up] = sub[n],
                  ![n] = {n} \cup sub[t.child[s][n]] \cup sub[t.child[s][up]]]

\* A rotation keeps the shape.
LEMMA RotateShape ==
  ASSUME NEW t, NEW M, NEW sub, Shape(t, M, sub), NEW n \in M, NEW s \in Side,
         t.child[Other(s)][n] # NULL
  PROVE  Shape(Rotate(t, n, s), M, SubRotated(t, sub, n, s))
<1> DEFINE o == Other(s)
           up == t.child[o][n]
           inner == t.child[s][up]
           p == t.parent[n]
           u == Rotate(t, n, s)
           w == SubRotated(t, sub, n, s)
<1>1. /\ n \in Node /\ up \in M /\ up \in Node /\ up # n
      /\ p \in Ptr /\ p # n /\ p # up
      /\ p # NULL => p \in M /\ p # inner
      /\ inner \in Ptr /\ inner # n /\ inner # up
      /\ inner # NULL => inner \in M
      /\ n = t.root <=> p = NULL
      /\ up # t.root /\ (inner # NULL => inner # t.root)
      /\ t.child[s][n] # up /\ t.child[o][up] # n
      /\ t.parent[up] = n /\ (inner # NULL => t.parent[inner] = up)
  BY RotateDistinct
<1>2. /\ u \in TreeType
      /\ u.root = IF p = NULL THEN up ELSE t.root
      /\ u.red = t.red
      /\ u.parent[n] = up /\ u.parent[up] = p
      /\ inner # NULL => u.parent[inner] = n
      /\ \A x \in Node \ {n, up, inner} : u.parent[x] = t.parent[x]
      /\ u.child[o][n] = inner /\ u.child[s][n] = t.child[s][n]
      /\ u.child[s][up] = n /\ u.child[o][up] = t.child[o][up]
      /\ \A c \in Side, x \in Node \ {n, up} :
           u.child[c][x] = IF t.child[c][x] = n THEN up ELSE t.child[c][x]
  BY RotateFacts
<1>3. /\ o \in Side /\ o # s /\ Other(o) = s /\ \A c \in Side : c = s \/ c = o
      /\ NULL \notin Node
  BY Sides, NullNotNode
<1>4. /\ M \subseteq Node /\ sub \in [Ptr -> SUBSET Node] /\ sub[NULL] = {}
      /\ t.root \in M \cup {NULL} /\ sub[t.root] = M
      /\ t.root # NULL => t.parent[t.root] = NULL
      /\ t \in TreeType
  BY DEF Shape
<1>5. ASSUME NEW x \in M, NEW c \in Side
      PROVE  /\ sub[x] = {x} \cup sub[t.child[c][x]] \cup sub[t.child[Other(c)][x]]
             /\ \A m \in sub[t.child[c][x]] : Beyond(c, m, x)
             /\ t.child[c][x] \in Ptr
             /\ t.child[c][x] # NULL => t.child[c][x] \in M /\ t.parent[t.child[c][x]] = x
  BY DEF Shape, TreeType
<1>6. \A x \in M : x # t.root => /\ t.parent[x] \in M
                                  /\ \E c \in Side : t.child[c][t.parent[x]] = x
  BY DEF Shape
<1>7. \A x \in Node \ M : t.parent[x] = NULL /\ \A c \in Side : t.child[c][x] = NULL
  BY DEF Shape
<1>8. /\ w \in [Ptr -> SUBSET Node]
      /\ w[up] = sub[n]
      /\ w[n] = {n} \cup sub[t.child[s][n]] \cup sub[inner]
      /\ \A x \in Ptr : x # up /\ x # n => w[x] = sub[x]
  <2>1. up \in Ptr /\ n \in Ptr /\ sub[n] \subseteq Node
        /\ {n} \cup sub[t.child[s][n]] \cup sub[inner] \subseteq Node
    BY <1>1, <1>4, <1>5 DEF Ptr
  <2> QED  BY <1>1, <1>4, <2>1 DEF SubRotated
<1> HIDE DEF o, up, inner, p, u, w
<1>9. w[NULL] = {} /\ u.root \in M \cup {NULL} /\ w[u.root] = M
  BY <1>1, <1>2, <1>3, <1>4, <1>8 DEF Ptr
<1>10. u.root # NULL => u.parent[u.root] = NULL
  BY <1>1, <1>2, <1>3, <1>4
<1> DEFINE Good(x, c) ==
             /\ w[x] = {x} \cup w[u.child[c][x]] \cup w[u.child[Other(c)][x]]
             /\ \A m \in w[u.child[c][x]] : Beyond(c, m, x)
             /\ u.child[c][x] # NULL => u.child[c][x] \in M /\ u.parent[u.child[c][x]] = x
<1>a. t.child[o][n] = up /\ t.child[s][up] = inner /\ t.parent[n] = p
  BY DEF o, up, inner, p
<1>b. /\ sub[n] = {n} \cup sub[t.child[s][n]] \cup sub[up]
      /\ sub[up] = {up} \cup sub[inner] \cup sub[t.child[o][up]]
  BY <1>1, <1>3, <1>5, <1>a DEF o
<1>c. /\ w[t.child[s][n]] = sub[t.child[s][n]] /\ w[inner] = sub[inner]
      /\ w[t.child[o][up]] = sub[t.child[o][up]]
  <2>1. t.child[s][n] # n /\ t.child[o][up] # up
    BY <1>1, <1>3, Subtree
  <2> QED  BY <1>1, <1>3, <1>5, <1>8, <2>1
<1>11. Good(n, s) /\ Good(n, o)
  <2>1. w[n] = {n} \cup w[u.child[s][n]] \cup w[u.child[o][n]]
    BY <1>2, <1>8, <1>c
  <2>2. \A m \in w[u.child[s][n]] : Beyond(s, m, n)
    BY <1>2, <1>5, <1>c
  <2>3. \A m \in w[u.child[o][n]] : Beyond(o, m, n)
    BY <1>2, <1>3, <1>5, <1>a, <1>b, <1>c
  <2>4. u.child[o][n] # NULL => u.child[o][n] \in M /\ u.parent[u.child[o][n]] = n
    BY <1>1, <1>2
  <2>5. t.child[s][n] # NULL => t.child[s][n] \in Node \ {n, up, inner}
    BY <1>1, <1>4, <1>5, Subtree
  <2>6. u.child[s][n] # NULL => u.child[s][n] \in M /\ u.parent[u.child[s][n]] = n
    BY <1>2, <1>5, <2>5
  <2> QED  BY <1>3, <2>1, <2>2, <2>3, <2>4, <2>6 DEF o
<1>12. Good(up, s) /\ Good(up, o)
  <2>1. w[up] = {up} \cup w[u.child[s][up]] \cup w[u.child[o][up]]
    BY <1>2, <1>8, <1>b, <1>c
  <2>2. \A m \in w[u.child[o][up]] : Beyond(o, m, up)
    BY <1>1, <1>2, <1>3, <1>5, <1>c
  <2>3. \A m \in w[u.child[s][up]] : Beyond(s, m, up)
    <3> SUFFICES ASSUME NEW m \in w[n] PROVE Beyond(s, m, up)
      BY <1>2
    <3>1. \A y \in sub[inner] : Beyond(s, y, up)
      BY <1>1, <1>5, <1>a
    <3>2. Beyond(o, up, n) /\ \A y \in sub[t.child[s][n]] : Beyond(s, y, n)
      BY <1>1, <1>3, <1>5, <1>a, <1>b
    <3>3. Beyond(s, n, up)
      BY <1>1, <3>2, Order DEF o
    <3>4. \A y \in sub[t.child[s][n]] : y \in Node
      BY <1>4, <1>5
    <3> QED  BY <1>1, <1>8, <3>1, <3>2, <3>3, <3>4, Order
  <2>4. u.child[s][up] # NULL => u.child[s][up] \in M /\ u.parent[u.child[s][up]] = up
    BY <1>1, <1>2
  <2>5. t.child[o][up] # NULL => t.child[o][up] \in Node \ {n, up, inner}
    <3> SUFFICES ASSUME t.child[o][up] # NULL
                 PROVE  t.child[o][up] \in Node \ {n, up, inner}
      OBVIOUS
    <3>1. t.child[o][up] \in M /\ t.child[o][up] \in sub[t.child[o][up]]
      BY <1>1, <1>3, <1>5, Subtree
    <3>2. up \notin sub[t.child[o][up]] /\ sub[inner] \cap sub[t.child[o][up]] = {}
      BY <1>1, <1>3, <1>a, Subtree DEF o
    <3>3. inner # NULL => inner \in sub[inner]
      BY <1>1, Subtree, <1>3
    <3> QED  BY <1>1, <1>3, <1>4, <3>1, <3>2, <3>3
  <2>6. u.child[o][up] # NULL => u.child[o][up] \in M /\ u.parent[u.child[o][up]] = up
    BY <1>1, <1>2, <1>3, <1>5, <2>5
  <2> QED  BY <1>3, <2>1, <2>2, <2>3, <2>4, <2>6 DEF o
<1>13. ASSUME NEW x \in M, x # n, x # up, NEW c \in Side PROVE Good(x, c)
  <2>1. x \in Node /\ w[x] = sub[x]
    BY <1>4, <1>8, <1>13 DEF Ptr
  <2>2. ASSUME NEW d \in Side
        PROVE  /\ w[u.child[d][x]] = sub[t.child[d][x]]
               /\ u.child[d][x] # NULL => u.child[d][x] \in M /\ u.parent[u.child[d][x]] = x
    <3>1. CASE t.child[d][x] = n
      <4>1. u.child[d][x] = up
        BY <1>2, <1>13, <2>1, <3>1
      <4>2. p = x
        BY <1>1, <1>3, <1>5, <1>a, <3>1
      <4> QED  BY <1>1, <1>2, <1>8, <3>1, <4>1, <4>2
    <3>2. CASE t.child[d][x] # n
      <4>1. u.child[d][x] = t.child[d][x]
        BY <1>2, <1>13, <2>1, <3>2
      <4>2. t.child[d][x] # NULL => t.child[d][x] \in Node \ {n, up, inner}
        BY <1>1, <1>4, <1>5, <1>13, <3>2
      <4>3. t.child[d][x] # up
        BY <1>1, <1>3, <4>2
      <4> QED  BY <1>2, <1>5, <1>8, <3>2, <4>1, <4>2, <4>3
    <3> QED  BY <3>1, <3>2
  <2>3. Other(c) \in Side
    BY Sides
  <2> QED  BY <1>5, <2>1, <2>2, <2>3
<1>14. ASSUME NEW x \in M, x # u.root
       PROVE  u.parent[x] \in M /\ \E c \in Side : u.child[c][u.parent[x]] = x
  <2>1. CASE x = n
    BY <1>1, <1>2, <2>1
  <2>2. CASE x = up
    <3>1. p # NULL /\ n # t.root
      BY <1>1, <1>2, <1>14, <2>2
    <3>2. PICK c \in Side : t.child[c][p] = n
      BY <1>6, <1>a, <3>1
    <3>3. u.child[c][p] = up
      BY <1>1, <1>2, <1>4, <3>1, <3>2
    <3> QED  BY <1>1, <1>2, <2>2, <3>1, <3>3
  <2>3. CASE x = inner
    BY <1>1, <1>2, <1>3, <1>4, <2>3
  <2>4. CASE x \notin {n, up, inner}
    <3>1. u.parent[x] = t.parent[x]
      BY <1>2, <1>4, <2>4
    <3>2. x # t.root
      BY <1>1, <1>2, <1>14, <2>4
    <3>3. t.parent[x] \in M
      BY <1>6, <3>2
    <3>4. PICK c \in Side : t.child[c][t.parent[x]] = x
      BY <1>6, <3>2
    <3>5. CASE t.parent[x] = n
      BY <1>2, <1>3, <1>a, <2>4, <3>1, <3>3, <3>4, <3>5
    <3>6. CASE t.parent[x] = up
      BY <1>2, <1>3, <1>a, <2>4, <3>1, <3>3, <3>4, <3>6
    <3>7. CASE t.parent[x] \notin {n, up}
      BY <1>2, <1>4, <2>4, <3>1, <3>3, <3>4, <3>7
    <3> QED  BY <3>5, <3>6, <3>7
  <2> QED  BY <2>1, <2>2, <2>3, <2>4
<1>15. ASSUME NEW x \in Node \ M
       PROVE  u.parent[x] = NULL /\ \A c \in Side : u.child[c][x] = NULL
  <2>1. x \notin {n, up, inner}
    BY <1>1, <1>3
  <2> QED  BY <1>1, <1>2, <1>3, <1>7, <2>1
<1>16. \A x \in M, c \in Side : Good(x, c)
  BY <1>3, <1>11, <1>12, <1>13
<1>17. Shape(u, M, w)
  BY <1>2, <1>4, <1>8, <1>9, <1>10, <1>14, <1>15, <1>16 DEF Shape
<1> QED  BY <1>17 DEF u, w

-----------------------------------------------------------------------------
(* Colours and heights.  h[n] is the number of black nodes on every way    *)
(* down from n, NULL leaves counted; the way down from q on side d lacks   *)
(* one.                                                                    *)

\* What a node and an owed side add to a height.
Black(t, n) == IF t.red[n] THEN 0 ELSE 1
Owed(q, d, n, s) == IF n = q /\ s = d THEN 1 ELSE 0

\* Every way down from a node counts the same black nodes, but for what q owes.
Heights(t, M, h, q, d) ==
  /\ h \in [Ptr -> Nat \ {0}] /\ h[NULL] = 1
  /\ \A n \in M, s \in Side :
       h[n] = h[t.child[s][n]] + Owed(q, d, n, s) + Black(t, n)

\* A red node under a red one is one of X.
RedsApart(t, M, X) ==
  \A n \in M : t.red[n] /\ IsRed(t, t.parent[n]) => n \in X

\* The inductive invariant.
Owing == IF pc = "erase_color" THEN parent ELSE NULL
\* Where the node and parent of the running fix-up point.
Cursor ==
  /\ pc = "idle" => node = NULL
  /\ pc # "erase_color" => parent = NULL
  /\ pc = "insert_color" => node \in member /\ tree.red[node]
  /\ pc = "erase_color" =>
       /\ parent = NULL => node = tree.root
       /\ parent # NULL => /\ parent \in member
                           /\ tree.child[SideOf(tree, parent, node)][parent] = node
       /\ node # NULL => node \in member /\ tree.parent[node] = parent
  /\ IsRed(tree, tree.root) => pc # "idle" /\ node = tree.root

\* The nodes that a running fix-up allows to be red under a red parent.
Excused == CASE pc = "idle" -> {}
             [] pc = "insert_color" -> {node}
             [] pc = "erase_color" -> {n \in member : node \in {n, tree.parent[n]}}

\* Between two turns of any operation the tree is whole: a shape and its heights
\* exist, with at most the one defect that the cursor stands at.
IInv ==
  /\ pc \in {"idle", "insert_color", "erase_color"}
  /\ node \in Ptr /\ parent \in Ptr
  /\ \E sub : Shape(tree, member, sub)
  /\ \E h : Heights(tree, member, h, Owing, SideOf(tree, Owing, node))
  /\ RedsApart(tree, member, Excused)
  /\ Cursor

-----------------------------------------------------------------------------
(* Static facts.                                                           *)

\* Colours do not matter to the shape.
LEMMA Recolour ==
  ASSUME NEW t, NEW M, NEW sub, Shape(t, M, sub), NEW u \in TreeType,
         u.root = t.root, u.child = t.child, u.parent = t.parent
  PROVE  Shape(u, M, sub)
BY DEF Shape

\* The types of what a shape speaks of.
LEMMA ShapeTypes ==
  ASSUME NEW t, NEW M, NEW sub, Shape(t, M, sub)
  PROVE  /\ t \in TreeType /\ M \subseteq Node /\ NULL \notin M
         /\ sub \in [Ptr -> SUBSET Node]
         /\ t.root \in Ptr /\ (t.root # NULL => t.root \in M /\ t.parent[t.root] = NULL)
         /\ \A n \in M : t.parent[n] \in Ptr /\ t.red[n] \in BOOLEAN
         /\ \A n \in M, s \in Side : /\ t.child[s][n] \in Ptr
                                     /\ t.child[s][n] # NULL =>
                                          t.child[s][n] \in M /\ t.parent[t.child[s][n]] = n
         /\ \A n \in M : n = t.root <=> t.parent[n] = NULL
         /\ \A n \in M : t.parent[n] # NULL => t.parent[n] \in M
BY NullNotNode DEF Shape, TreeType, Ptr

\* Two children of a node are two, and neither is the node.
LEMMA Children ==
  ASSUME NEW t, NEW M, NEW sub, Shape(t, M, sub), NEW n \in M, NEW s \in Side,
         t.child[s][n] # NULL
  PROVE  /\ t.child[s][n] # n /\ t.child[s][n] # t.child[Other(s)][n]
         /\ SideOf(t, n, t.child[s][n]) = s
<1>1. t.child[s][n] \in M
  BY ShapeTypes
<1>2. t.child[s][n] \in sub[t.child[s][n]] /\ n \notin sub[t.child[s][n]]
  BY <1>1, Subtree
<1>3. sub[t.child[s][n]] \cap sub[t.child[Other(s)][n]] = {}
  BY Subtree
<1> QED  BY <1>2, <1>3 DEF SideOf, Side, Other

\* A node that is not the root is a child of its parent, on one side.
LEMMA ParentSide ==
  ASSUME NEW t, NEW M, NEW sub, Shape(t, M, sub), NEW n \in M, t.parent[n] # NULL
  PROVE  LET p == t.parent[n]
             s == SideOf(t, p, n)
         IN  /\ p \in M /\ p # n /\ s \in Side
             /\ t.child[s][p] = n /\ t.child[Other(s)][p] # n
<1>1. t.parent[n] \in M /\ n # NULL
  BY ShapeTypes
<1>2. PICK s \in Side : t.child[s][t.parent[n]] = n
  BY <1>1, ShapeTypes DEF Shape
<1> QED  BY <1>1, <1>2, Children

\* Going down, there are fewer nodes from here down.
LEMMA Sizes ==
  ASSUME NEW t, NEW M, NEW sub, Shape(t, M, sub)
  PROVE  /\ Cardinality(Node) \in Nat
         /\ \A x \in Ptr : IsFiniteSet(sub[x]) /\ Cardinality(sub[x]) \in 0 .. Cardinality(Node)
         /\ \A n \in M, s \in Side : Cardinality(sub[t.child[s][n]]) < Cardinality(sub[n])
<1>1. Cardinality(Node) \in Nat
  BY RbAssumption, FS_CardinalityType
<1>2. \A x \in Ptr : sub[x] \in SUBSET Node
  BY ShapeTypes
<1>3. ASSUME NEW x \in Ptr
      PROVE  IsFiniteSet(sub[x]) /\ Cardinality(sub[x]) \in 0 .. Cardinality(Node)
  <2>1. IsFiniteSet(sub[x]) /\ Cardinality(sub[x]) <= Cardinality(Node)
    BY <1>2, RbAssumption, FS_Subset
  <2>2. Cardinality(sub[x]) \in Nat
    BY <2>1, FS_CardinalityType
  <2> QED  BY <1>1, <2>1, <2>2
<1>4. ASSUME NEW n \in M, NEW s \in Side
      PROVE  Cardinality(sub[t.child[s][n]]) < Cardinality(sub[n])
  <2>1. n \in sub[n] /\ sub[t.child[s][n]] \subseteq sub[n] /\ n \notin sub[t.child[s][n]]
    BY Subtree
  <2>2. n \in Ptr /\ t.child[s][n] \in Ptr
    BY ShapeTypes DEF Ptr
  <2>3. sub[t.child[s][n]] # sub[n] /\ sub[t.child[s][n]] \in SUBSET sub[n]
    BY <2>1
  <2>4. Cardinality(sub[t.child[s][n]]) <= Cardinality(sub[n])
        /\ Cardinality(sub[t.child[s][n]]) # Cardinality(sub[n])
    BY <1>3, <2>2, <2>3, FS_Subset
  <2>5. Cardinality(sub[t.child[s][n]]) \in Nat /\ Cardinality(sub[n]) \in Nat
    BY <1>1, <1>3, <2>2
  <2> QED  BY <2>4, <2>5
<1> QED  BY <1>1, <1>3, <1>4

\* A property of nodes that holds when it holds of the children holds of all.
LEMMA FromBelow ==
  ASSUME NEW t, NEW M, NEW sub, Shape(t, M, sub), NEW G,
         \A n \in M : (\A s \in Side : t.child[s][n] # NULL => t.child[s][n] \in G) => n \in G
  PROVE  \A n \in M : n \in G
<1> DEFINE rank == [n \in M |-> Cardinality(sub[n])]
<1>1. \A n \in M : n \in Ptr
  BY ShapeTypes DEF Ptr
<1>2. rank \in [M -> Nat]
  BY <1>1, Sizes
<1>3. ASSUME NEW n \in M, \A y \in M : rank[y] < rank[n] => y \in G PROVE n \in G
  <2>1. \A s \in Side : t.child[s][n] # NULL => t.child[s][n] \in M
    BY ShapeTypes
  <2>2. \A s \in Side : Cardinality(sub[t.child[s][n]]) < Cardinality(sub[n])
    BY Sizes
  <2> QED  BY <1>3, <2>1, <2>2
<1> HIDE DEF rank
<1> QED  BY <1>2, <1>3, ByRank

\* The nodes from here down are closed: upwards as far as here.
LEMMA Closed ==
  ASSUME NEW t, NEW M, NEW sub, Shape(t, M, sub), NEW x \in M, NEW y \in sub[x]
  PROVE  /\ y \in M /\ sub[y] \subseteq sub[x]
         /\ y # x => t.parent[y] \in sub[x]
<1> DEFINE Ok(n) == \A z \in sub[n] : /\ z \in M /\ sub[z] \subseteq sub[n]
                                      /\ z # n => t.parent[z] \in sub[n]
           G == {n \in M : Ok(n)}
<1>1. ASSUME NEW n \in M, \A s \in Side : t.child[s][n] # NULL => t.child[s][n] \in G
      PROVE  n \in G
  <2> SUFFICES ASSUME NEW z \in sub[n], z # n
               PROVE  z \in M /\ sub[z] \subseteq sub[n] /\ t.parent[z] \in sub[n]
    OBVIOUS
  <2>1. PICK s \in Side : z \in sub[t.child[s][n]]
    BY Sides DEF Shape, Side
  <2> DEFINE c == t.child[s][n]
  <2>2. c # NULL /\ c \in M /\ t.parent[c] = n
    BY <2>1, ShapeTypes DEF Shape
  <2>3. z \in M /\ sub[z] \subseteq sub[c] /\ (z # c => t.parent[z] \in sub[c])
    BY <1>1, <2>1, <2>2
  <2>4. sub[c] \subseteq sub[n] /\ n \in sub[n]
    BY Subtree
  <2> QED  BY <2>2, <2>3, <2>4
<1> HIDE DEF G
<1>2. \A n \in M : n \in G
  BY <1>1, FromBelow
<1> QED  BY <1>2 DEF G

\* Every node of the tree is below the root.
LEMMA RootAll ==
  ASSUME NEW t, NEW M, NEW sub, Shape(t, M, sub)
  PROVE  (t.root = NULL <=> M = {}) /\ (M # {} => t.root \in M /\ sub[t.root] = M)
BY ShapeTypes DEF Shape

\* The nodes on the way up from n.
Above(M, sub, n) == {x \in M : n \in sub[x]}

\* The way up from a node is the node and the way up from its parent, and is finite.
LEMMA AboveParent ==
  ASSUME NEW t, NEW M, NEW sub, Shape(t, M, sub), NEW n \in M
  PROVE  /\ IsFiniteSet(Above(M, sub, n))
         /\ Above(M, sub, n)
              = {n} \cup (IF t.parent[n] = NULL THEN {} ELSE Above(M, sub, t.parent[n]))
         /\ t.parent[n] # NULL => n \notin Above(M, sub, t.parent[n])
<1>0. M \subseteq Node
  BY ShapeTypes
<1>1. n \in Above(M, sub, n)
  <2>1. "left" \in Side
    BY DEF Side
  <2> QED  BY <2>1, Subtree DEF Above
<1>2. IsFiniteSet(Above(M, sub, n))
  <2>1. Above(M, sub, n) \in SUBSET Node
    BY <1>0 DEF Above
  <2> QED  BY <2>1, RbAssumption, FS_Subset
<1>3. CASE t.parent[n] = NULL
  <2>1. ASSUME NEW x \in M, n \in sub[x], x # n PROVE FALSE
    <3>1. t.parent[n] \in sub[x]
      BY <2>1, Closed
    <3>2. sub[x] \subseteq Node
      BY <1>0, ShapeTypes DEF Ptr
    <3> QED  BY <1>3, <3>1, <3>2, NullNotNode
  <2> QED  BY <1>0, <1>1, <1>2, <1>3, <2>1 DEF Above
<1>4. CASE t.parent[n] # NULL
  <2> DEFINE p == t.parent[n]
             s == SideOf(t, p, n)
  <2>1. p \in M /\ s \in Side /\ t.child[s][p] = n
    BY <1>4, ParentSide
  <2>2. sub[n] \subseteq sub[p] /\ p \notin sub[n] /\ n \in sub[n]
    BY <2>1, Subtree
  <2>3. ASSUME NEW x \in M, p \in sub[x] PROVE n \in sub[x]
    <3>1. sub[p] \subseteq sub[x]
      BY <2>3, Closed
    <3> QED  BY <2>2, <3>1
  <2>4. ASSUME NEW x \in M, n \in sub[x], x # n PROVE p \in sub[x]
    BY <2>4, Closed
  <2> QED  BY <1>0, <1>1, <1>2, <1>4, <2>1, <2>2, <2>3, <2>4 DEF Above
<1> QED  BY <1>3, <1>4

-----------------------------------------------------------------------------
(* Heights and colours through a rotation.                                 *)

\* Heights h that suit t everywhere but at the two nodes that will be rotated,
\* and suit those as they will be when the height of n is a.
HeightsFor(t, M, h, q, d, n, s, a) ==
  LET o  == Other(s)
      up == t.child[o][n]
  IN  /\ h \in [Ptr -> Nat \ {0}] /\ h[NULL] = 1 /\ a \in Nat \ {0}
      /\ \A x \in M \ {n, up}, c \in Side :
           h[x] = h[t.child[c][x]] + Owed(q, d, x, c) + Black(t, x)
      /\ a = h[t.child[s][n]] + Owed(q, d, n, s) + Black(t, n)
      /\ a = h[t.child[s][up]] + Owed(q, d, n, o) + Black(t, n)
      /\ h[n] = a + Owed(q, d, up, s) + Black(t, up)
      /\ h[n] = h[t.child[o][up]] + Owed(q, d, up, o) + Black(t, up)

\* A rotation turns such heights into heights.
LEMMA RotateHeights ==
  ASSUME NEW t, NEW M, NEW sub, Shape(t, M, sub), NEW n \in M, NEW s \in Side,
         t.child[Other(s)][n] # NULL, NEW h, NEW q, NEW d, NEW a,
         HeightsFor(t, M, h, q, d, n, s, a)
  PROVE  Heights(Rotate(t, n, s), M,
                 [h EXCEPT ![t.child[Other(s)][n]] = h[n], ![n] = a], q, d)
<1> DEFINE o == Other(s)
           up == t.child[o][n]
           inner == t.child[s][up]
           u == Rotate(t, n, s)
           k == [h EXCEPT ![up] = h[n], ![n] = a]
<1>1. /\ n \in Node /\ up \in M /\ up \in Node /\ up # n
      /\ inner \in Ptr /\ inner # n /\ inner # up
      /\ t.child[s][n] # up /\ t.child[o][up] # n
      /\ o \in Side /\ o # s /\ M \subseteq Node /\ NULL \notin Node
      /\ \A c \in Side : c = s \/ c = o
  BY RotateDistinct, Sides, ShapeTypes, NullNotNode
<1>2. /\ u.red = t.red
      /\ u.child[o][n] = inner /\ u.child[s][n] = t.child[s][n]
      /\ u.child[s][up] = n /\ u.child[o][up] = t.child[o][up]
      /\ \A c \in Side, x \in Node \ {n, up} :
           u.child[c][x] = IF t.child[c][x] = n THEN up ELSE t.child[c][x]
  BY RotateFacts
<1>3. /\ t.child[s][n] # n /\ t.child[o][up] # up
      /\ t.child[s][n] \in Ptr /\ t.child[o][up] \in Ptr
  BY <1>1, Children, ShapeTypes
<1>4. /\ a = h[t.child[s][n]] + Owed(q, d, n, s) + Black(t, n)
      /\ a = h[inner] + Owed(q, d, n, o) + Black(t, n)
      /\ h[n] = a + Owed(q, d, up, s) + Black(t, up)
      /\ h[n] = h[t.child[o][up]] + Owed(q, d, up, o) + Black(t, up)
      /\ h \in [Ptr -> Nat \ {0}] /\ h[NULL] = 1 /\ a \in Nat \ {0}
  BY DEF HeightsFor
<1>5. \A x \in M \ {n, up}, c \in Side :
        /\ h[x] = h[t.child[c][x]] + Owed(q, d, x, c) + Black(t, x)
        /\ t.child[c][x] \in Ptr /\ t.child[c][x] # up
  <2>1. t.parent[up] = n
    BY <1>1, ShapeTypes
  <2> QED  BY <1>1, <2>1, ShapeTypes DEF HeightsFor
<1> HIDE DEF o, up, inner, u
<1>6. /\ k \in [Ptr -> Nat \ {0}] /\ k[up] = h[n] /\ k[n] = a
      /\ \A x \in Ptr : x # n /\ x # up => k[x] = h[x]
  BY <1>1, <1>4 DEF Ptr
<1> HIDE DEF k
<1>7. \A x \in M : Black(u, x) = Black(t, x)
  BY <1>2 DEF Black
<1>8. ASSUME NEW x \in M, NEW c \in Side
      PROVE  k[x] = k[u.child[c][x]] + Owed(q, d, x, c) + Black(u, x)
  <2>1. CASE x = n
    BY <1>1, <1>2, <1>3, <1>4, <1>6, <1>7, <2>1
  <2>2. CASE x = up
    BY <1>1, <1>2, <1>3, <1>4, <1>6, <1>7, <2>2
  <2>3. CASE x # n /\ x # up
    <3>1. k[x] = h[x]
      BY <1>1, <1>6, <2>3 DEF Ptr
    <3>2. k[u.child[c][x]] = h[t.child[c][x]]
      BY <1>1, <1>2, <1>5, <1>6, <2>3
    <3> QED  BY <1>5, <1>7, <2>3, <3>1, <3>2
  <2> QED  BY <2>1, <2>2, <2>3
<1>9. k[NULL] = 1
  BY <1>1, <1>4, <1>6 DEF Ptr
<1> QED  BY <1>6, <1>8, <1>9 DEF Heights, k, u, up, o

\* What a rotation may leave red under red, in terms of the old tree.
LEMMA RotateReds ==
  ASSUME NEW t, NEW M, NEW sub, Shape(t, M, sub), NEW n \in M, NEW s \in Side,
         t.child[Other(s)][n] # NULL, NEW X,
         LET up    == t.child[Other(s)][n]
             inner == t.child[s][up]
         IN  /\ \A x \in M \ {n, up, inner} : t.red[x] /\ IsRed(t, t.parent[x]) => x \in X
             /\ t.red[n] /\ t.red[up] => n \in X
             /\ t.red[up] /\ IsRed(t, t.parent[n]) => up \in X
             /\ IsRed(t, inner) /\ t.red[n] => inner \in X
  PROVE  RedsApart(Rotate(t, n, s), M, X)
<1> DEFINE up == t.child[Other(s)][n]
           inner == t.child[s][up]
           p == t.parent[n]
           u == Rotate(t, n, s)
<1>1. /\ n \in Node /\ up \in M /\ up \in Node /\ M \subseteq Node /\ NULL \notin Node
      /\ n # NULL /\ up # NULL
  BY RotateDistinct, ShapeTypes, NullNotNode
<1>2. /\ u.red = t.red
      /\ u.parent[n] = up /\ u.parent[up] = p
      /\ inner # NULL => u.parent[inner] = n
      /\ \A x \in Node \ {n, up, inner} : u.parent[x] = t.parent[x]
  BY RotateFacts
<1>3. /\ \A x \in M \ {n, up, inner} : t.red[x] /\ IsRed(t, t.parent[x]) => x \in X
      /\ t.red[n] /\ t.red[up] => n \in X
      /\ t.red[up] /\ IsRed(t, p) => up \in X
      /\ IsRed(t, inner) /\ t.red[n] => inner \in X
  OBVIOUS
<1> HIDE DEF up, inner, p, u
<1>4. \A x \in Ptr : IsRed(u, x) = IsRed(t, x)
  BY <1>2 DEF IsRed
<1> SUFFICES ASSUME NEW x \in M, u.red[x], IsRed(u, u.parent[x]) PROVE x \in X
  BY DEF RedsApart, u
<1>5. CASE x = n
  BY <1>1, <1>2, <1>3, <1>5 DEF IsRed
<1>6. CASE x = up
  BY <1>1, <1>2, <1>3, <1>6 DEF IsRed
<1>7. CASE x = inner
  BY <1>1, <1>2, <1>3, <1>7 DEF IsRed
<1>8. CASE x \notin {n, up, inner}
  BY <1>1, <1>2, <1>3, <1>8 DEF IsRed
<1> QED  BY <1>5, <1>6, <1>7, <1>8

-----------------------------------------------------------------------------
(* Insertion.                                                              *)

\* One node is made black and another red.
BlackRed(t, x, y) == Paint(Paint(t, x, FALSE), y, TRUE)

\* The two colour changes before a rotation leave the shape and the other colours.
LEMMA PaintTwo ==
  ASSUME NEW t, NEW M, NEW sub, Shape(t, M, sub), NEW x \in M, NEW y \in M, x # y
  PROVE  LET u == BlackRed(t, x, y)
         IN  /\ Shape(u, M, sub) /\ u \in TreeType
             /\ u.root = t.root /\ u.child = t.child /\ u.parent = t.parent
             /\ ~u.red[x] /\ u.red[y]
             /\ \A z \in M \ {x, y} : u.red[z] = t.red[z]
<1> DEFINE u == BlackRed(t, x, y)
<1>1. t \in TreeType /\ M \subseteq Node /\ x \in Node /\ y \in Node
  BY ShapeTypes
<1>2. /\ u \in TreeType
      /\ u.root = t.root /\ u.child = t.child /\ u.parent = t.parent
      /\ ~u.red[x] /\ u.red[y]
      /\ \A z \in M \ {x, y} : u.red[z] = t.red[z]
  BY <1>1 DEF BlackRed, Paint, TreeType
<1> HIDE DEF u
<1>3. Shape(u, M, sub)
  BY <1>2, Recolour
<1> QED  BY <1>2, <1>3 DEF u

\* Nothing is owed to NULL.
LEMMA NothingOwed ==
  ASSUME NEW t, NEW M, NEW sub, Shape(t, M, sub), NEW h, NEW d,
         Heights(t, M, h, NULL, d)
  PROVE  /\ \A e : \A x \in M, c \in Side : Owed(NULL, e, x, c) = 0
         /\ \A x \in M, c \in Side : h[x] = h[t.child[c][x]] + Black(t, x)
         /\ \A x \in Ptr : h[x] \in Nat \ {0}
<1>1. NULL \notin M
  BY ShapeTypes
<1>2. \A e : \A x \in M, c \in Side : Owed(NULL, e, x, c) = 0
  BY <1>1 DEF Owed
<1>3. \A x \in Ptr : h[x] \in Nat \ {0}
  BY DEF Heights
<1>4. ASSUME NEW x \in M, NEW c \in Side PROVE h[x] = h[t.child[c][x]] + Black(t, x)
  <2>1. h[t.child[c][x]] \in Nat
    BY <1>3, ShapeTypes
  <2>2. Black(t, x) \in Nat
    BY DEF Black
  <2>3. h[x] = h[t.child[c][x]] + 0 + Black(t, x)
    BY <1>2 DEF Heights
  <2> QED  BY <2>1, <2>2, <2>3
<1> QED  BY <1>2, <1>3, <1>4

\* The last case of rb_insert_color: x and its parent top are red and lie on
\* the same side; top takes the place of the grandparent g.
LEMMA InsertOuter ==
  ASSUME NEW t, NEW M, NEW sub, Shape(t, M, sub), NEW g \in M, NEW s \in Side,
         NEW top \in M, NEW x \in M, t.child[s][g] = top, t.child[s][top] = x,
         NEW h, NEW d, Heights(t, M, h, NULL, d),
         t.red[x], t.red[top], ~t.red[g], ~IsRed(t, t.child[Other(s)][g]),
         RedsApart(t, M, {x}), ~IsRed(t, t.root)
  PROVE  LET v == BlackRed(t, top, g)
             u == Rotate(v, g, Other(s))
         IN  /\ Shape(u, M, SubRotated(v, sub, g, Other(s)))
             /\ \E k, e : Heights(u, M, k, NULL, e)
             /\ RedsApart(u, M, {})
             /\ ~IsRed(u, u.root) /\ u.red[x]
<1> DEFINE o == Other(s)
           v == BlackRed(t, top, g)
           u == Rotate(v, g, o)
           inner == t.child[o][top]
           uncle == t.child[o][g]
<1>1. /\ o \in Side /\ Other(o) = s /\ o # s
      /\ M \subseteq Node /\ NULL \notin M /\ inner \in Ptr /\ uncle \in Ptr
      /\ inner # NULL => inner \in M /\ t.parent[inner] = top
      /\ uncle # NULL => uncle \in M
      /\ top # NULL /\ t.parent[top] = g /\ t.parent[x] = top
      /\ \A y \in M : t.parent[y] \in Ptr /\ (t.parent[y] # NULL => t.parent[y] \in M)
      /\ t.root # NULL => t.root \in M
      /\ t.parent[g] = NULL <=> g = t.root
      /\ t.root # NULL => t.parent[t.root] = NULL
  BY Sides, ShapeTypes
<1>2. top # g /\ x # top /\ x # inner
  BY <1>1, Children
<1>x. x # g /\ inner # g
  <2>1. /\ g \notin sub[top] /\ x \in sub[x] /\ sub[x] \subseteq sub[top]
        /\ sub[inner] \subseteq sub[top] /\ (inner # NULL => inner \in sub[inner])
    BY <1>1, Subtree
  <2> QED  BY <1>1, <2>1
<1>3. /\ Shape(v, M, sub) /\ v \in TreeType
      /\ v.root = t.root /\ v.child = t.child /\ v.parent = t.parent
      /\ ~v.red[top] /\ v.red[g]
      /\ \A z \in M \ {top, g} : v.red[z] = t.red[z]
  BY <1>2, PaintTwo
<1> HIDE DEF v
<1>4. v.child[Other(o)][g] = top /\ v.child[o][top] = inner /\ v.child[o][g] = uncle
      /\ v.child[s][top] = x
  BY <1>1, <1>3
<1>5. Shape(u, M, SubRotated(v, sub, g, o))
  BY <1>1, <1>3, <1>4, RotateShape
<1>6. \E k, e : Heights(u, M, k, NULL, e)
  <2>1. /\ \A e : \A y \in M, c \in Side : Owed(NULL, e, y, c) = 0
        /\ \A y \in M, c \in Side : h[y] = h[t.child[c][y]] + Black(t, y)
        /\ \A y \in Ptr : h[y] \in Nat \ {0}
    BY NothingOwed
  <2>2. /\ h[g] = h[uncle] + 1 /\ h[g] = h[top] + 1
        /\ h[top] = h[inner] + 0 /\ h[top] = h[x] + 0
    BY <1>1, <2>1 DEF Black
  <2>3. h[uncle] \in Nat \ {0} /\ h[inner] \in Nat \ {0} /\ h[x] \in Nat \ {0}
    BY <1>1, <2>1 DEF Ptr
  <2>4. h[g] = h[uncle] + 1 /\ h[uncle] = h[inner] /\ h[x] = h[uncle]
    BY <2>2, <2>3
  <2>5. \A y \in M \ {g, top} : Black(v, y) = Black(t, y)
    BY <1>3 DEF Black
  <2>6. Black(v, g) = 0 /\ Black(v, top) = 1
    BY <1>3 DEF Black
  <2>7. ASSUME NEW y \in M \ {g, top}, NEW c \in Side
        PROVE  h[y] = h[v.child[c][y]] + Owed(NULL, s, y, c) + Black(v, y)
    <3>1. h[t.child[c][y]] \in Nat
      BY <2>1, ShapeTypes
    <3> QED  BY <1>3, <2>1, <2>5, <3>1
  <2>8. HeightsFor(v, M, h, NULL, s, g, o, h[uncle])
    <3>1. h \in [Ptr -> Nat \ {0}] /\ h[NULL] = 1
      BY DEF Heights
    <3>2. /\ h[uncle] = h[v.child[o][g]] + Owed(NULL, s, g, o) + Black(v, g)
          /\ h[uncle] = h[v.child[o][top]] + Owed(NULL, s, g, s) + Black(v, g)
          /\ h[g] = h[uncle] + Owed(NULL, s, top, o) + Black(v, top)
          /\ h[g] = h[v.child[s][top]] + Owed(NULL, s, top, s) + Black(v, top)
      BY <1>1, <1>4, <2>1, <2>3, <2>4, <2>6
    <3> QED  BY <1>1, <1>4, <2>3, <2>7, <3>1, <3>2 DEF HeightsFor
  <2>9. Heights(u, M, [h EXCEPT ![v.child[Other(o)][g]] = h[g], ![g] = h[uncle]], NULL, s)
    BY <1>1, <1>3, <1>4, <2>8, RotateHeights
  <2> QED  BY <2>9
<1>7. RedsApart(u, M, {})
  <2>1. ASSUME NEW y \in M \ {g, top, inner}, v.red[y], IsRed(v, v.parent[y])
        PROVE  FALSE
    <3>1. y # x /\ v.parent[y] = t.parent[y] /\ t.red[y] /\ t.parent[y] \in M
      BY <1>1, <1>2, <1>3, <2>1 DEF IsRed
    <3>2. t.parent[y] # top
      BY <1>3, <2>1, <3>1 DEF IsRed
    <3>3. t.parent[y] # g
      <4> SUFFICES ASSUME t.parent[y] = g PROVE FALSE
        OBVIOUS
      <4>1. PICK c \in Side : t.child[c][g] = y
        BY <1>1, <3>1, ParentSide
      <4>2. y = uncle
        BY <2>1, <4>1, Sides
      <4> QED  BY <1>1, <3>1, <4>2 DEF IsRed
    <3>4. t.red[t.parent[y]]
      BY <1>1, <1>3, <2>1, <3>1, <3>2, <3>3 DEF IsRed
    <3> QED  BY <1>1, <3>1, <3>4 DEF RedsApart, IsRed
  <2>2. ~IsRed(v, inner)
    <3> SUFFICES ASSUME inner # NULL PROVE ~v.red[inner]
      BY DEF IsRed
    <3>1. inner # top
      BY <1>1, Children
    <3>2. v.red[inner] = t.red[inner]
      BY <1>1, <1>3, <1>x, <3>1
    <3> QED  BY <1>1, <1>2, <3>2 DEF RedsApart, IsRed
  <2> QED  BY <1>1, <1>3, <1>4, <2>1, <2>2, RotateReds
<1>8. ~IsRed(u, u.root) /\ u.red[x]
  <2>1. u.root = (IF v.parent[g] = NULL THEN top ELSE v.root) /\ u.red = v.red
    BY <1>1, <1>3, <1>4, RotateFacts
  <2>2. u.red[x]
    BY <1>2, <1>3, <1>x, <2>1
  <2>3. CASE v.parent[g] = NULL
    BY <1>1, <1>3, <2>1, <2>3 DEF IsRed
  <2>4. CASE v.parent[g] # NULL
    BY <1>1, <1>3, <2>1, <2>4 DEF IsRed
  <2> QED  BY <2>2, <2>3, <2>4
<1> QED  BY <1>5, <1>6, <1>7, <1>8 DEF v

\* The case before it: x and its parent p lie on different sides, and are
\* rotated into the other case.
LEMMA InsertInner ==
  ASSUME NEW t, NEW M, NEW sub, Shape(t, M, sub), NEW g \in M, NEW s \in Side,
         NEW p \in M, NEW x \in M, t.child[s][g] = p, t.child[Other(s)][p] = x,
         NEW h, NEW d, Heights(t, M, h, NULL, d),
         t.red[x], t.red[p], ~t.red[g], RedsApart(t, M, {x}), ~IsRed(t, t.root)
  PROVE  LET u == Rotate(t, p, s)
         IN  /\ Shape(u, M, SubRotated(t, sub, p, s))
             /\ \E k, e : Heights(u, M, k, NULL, e)
             /\ u.child[s][g] = x /\ u.child[s][x] = p
             /\ u.child[Other(s)][g] = t.child[Other(s)][g] /\ u.red = t.red
             /\ RedsApart(u, M, {p})
             /\ u.root = t.root
<1> DEFINE o == Other(s)
           u == Rotate(t, p, s)
           inner == t.child[s][x]
<1>1. /\ o \in Side /\ Other(o) = s /\ o # s
      /\ M \subseteq Node /\ NULL \notin M /\ inner \in Ptr /\ x # NULL
      /\ inner # NULL => inner \in M /\ t.parent[inner] = x
      /\ t.parent[p] = g /\ t.parent[x] = p
      /\ t.child[s][p] \in Ptr /\ t.child[o][x] \in Ptr /\ t.child[o][g] \in Ptr
  BY Sides, ShapeTypes
<1>2. p # g /\ x # p /\ inner # x /\ t.child[o][g] # p
  BY <1>1, Children
<1>x. x # g
  <2>1. g \notin sub[p] /\ x \in sub[x] /\ sub[x] \subseteq sub[p]
    BY <1>1, Subtree
  <2> QED  BY <2>1
<1>3. Shape(u, M, SubRotated(t, sub, p, s))
  BY <1>1, RotateShape
<1>4. /\ u.root = (IF t.parent[p] = NULL THEN x ELSE t.root) /\ u.red = t.red
      /\ u.child[s][x] = p
      /\ \A c \in Side, y \in Node \ {p, x} :
           u.child[c][y] = IF t.child[c][y] = p THEN x ELSE t.child[c][y]
  BY <1>1, RotateFacts
<1>5. u.child[s][g] = x /\ u.child[o][g] = t.child[o][g] /\ u.root = t.root
  BY <1>1, <1>2, <1>4, <1>x
<1>6. \E k, e : Heights(u, M, k, NULL, e)
  <2>1. /\ \A e : \A y \in M, c \in Side : Owed(NULL, e, y, c) = 0
        /\ \A y \in M, c \in Side : h[y] = h[t.child[c][y]] + Black(t, y)
        /\ \A y \in Ptr : h[y] \in Nat \ {0}
    BY NothingOwed
  <2>2. Black(t, p) = 0 /\ Black(t, x) = 0
    BY DEF Black
  <2>3. /\ h[p] = h[t.child[s][p]] + 0 /\ h[p] = h[x] + 0
        /\ h[x] = h[inner] + 0 /\ h[x] = h[t.child[o][x]] + 0
    BY <1>1, <2>1, <2>2
  <2>4. /\ h[p] \in Nat \ {0} /\ h[x] \in Nat \ {0} /\ h[inner] \in Nat \ {0}
        /\ h[t.child[s][p]] \in Nat \ {0} /\ h[t.child[o][x]] \in Nat \ {0}
    BY <1>1, <2>1 DEF Ptr
  <2>5. ASSUME NEW y \in M, NEW c \in Side
        PROVE  h[y] = h[t.child[c][y]] + Owed(NULL, s, y, c) + Black(t, y)
    <3>1. h[t.child[c][y]] \in Nat
      BY <2>1, ShapeTypes
    <3> QED  BY <2>1, <3>1
  <2>6. HeightsFor(t, M, h, NULL, s, p, s, h[p])
    <3>1. h \in [Ptr -> Nat \ {0}] /\ h[NULL] = 1
      BY DEF Heights
    <3>2. /\ h[p] = h[t.child[s][p]] + Owed(NULL, s, p, s) + Black(t, p)
          /\ h[p] = h[inner] + Owed(NULL, s, p, o) + Black(t, p)
          /\ h[p] = h[p] + Owed(NULL, s, x, s) + Black(t, x)
          /\ h[p] = h[t.child[o][x]] + Owed(NULL, s, x, o) + Black(t, x)
      BY <1>1, <2>1, <2>2, <2>3, <2>4
    <3> QED  BY <1>1, <2>4, <2>5, <3>1, <3>2 DEF HeightsFor
  <2>7. Heights(u, M, [h EXCEPT ![t.child[o][p]] = h[p], ![p] = h[p]], NULL, s)
    BY <1>1, <2>6, RotateHeights
  <2> QED  BY <2>7
<1>7. RedsApart(u, M, {p})
  <2>1. ASSUME NEW y \in M \ {p, x, inner}, t.red[y], IsRed(t, t.parent[y])
        PROVE  y \in {p}
    BY <2>1 DEF RedsApart
  <2>2. ~IsRed(t, inner)
    BY <1>1, <1>2 DEF RedsApart, IsRed
  <2>3. ~IsRed(t, t.parent[p])
    BY <1>1 DEF IsRed
  <2> QED  BY <1>1, <2>1, <2>2, <2>3, RotateReds
<1> QED  BY <1>3, <1>4, <1>5, <1>6, <1>7

\* A red uncle: the red nodes move up a level.
Lifted(t, uncle, p, g) == Paint(Paint(Paint(t, uncle, FALSE), p, FALSE), g, TRUE)

\* rb_insert_color with a red uncle: only the grandparent can be red under red.
LEMMA InsertRecolour ==
  ASSUME NEW t, NEW M, NEW sub, Shape(t, M, sub), NEW g \in M, NEW s \in Side,
         NEW p \in M, NEW x \in M, NEW uncle \in M,
         t.child[s][g] = p, t.child[Other(s)][g] = uncle, t.parent[x] = p,
         NEW h, NEW d, Heights(t, M, h, NULL, d),
         t.red[p], t.red[uncle], ~t.red[g], RedsApart(t, M, {x}), ~IsRed(t, t.root)
  PROVE  LET u == Lifted(t, uncle, p, g)
         IN  /\ Shape(u, M, sub)
             /\ \E k : Heights(u, M, k, NULL, d)
             /\ RedsApart(u, M, {g})
             /\ (IsRed(u, u.root) => g = u.root) /\ u.red[g]
             /\ u.parent = t.parent
<1> DEFINE o == Other(s)
           u == Lifted(t, uncle, p, g)
<1>1. /\ o \in Side /\ Other(o) = s /\ o # s /\ \A c \in Side : c = s \/ c = o
      /\ M \subseteq Node /\ NULL \notin M /\ p # NULL /\ uncle # NULL
      /\ t.parent[p] = g /\ t.parent[uncle] = g
      /\ t \in TreeType
      /\ t.root # NULL => t.root \in M
  BY Sides, ShapeTypes
<1>2. p # g /\ uncle # g /\ p # uncle
  BY <1>1, Children
<1>3. /\ u \in TreeType /\ u.root = t.root /\ u.child = t.child /\ u.parent = t.parent
      /\ ~u.red[p] /\ ~u.red[uncle] /\ u.red[g]
      /\ \A y \in M \ {p, uncle, g} : u.red[y] = t.red[y]
  BY <1>1, <1>2 DEF Lifted, Paint, TreeType
<1> HIDE DEF u
<1>4. Shape(u, M, sub)
  BY <1>3, Recolour
<1>5. \E k : Heights(u, M, k, NULL, d)
  <2> DEFINE k == [h EXCEPT ![p] = h[p] + 1, ![uncle] = h[uncle] + 1]
  <2>1. /\ \A e : \A y \in M, c \in Side : Owed(NULL, e, y, c) = 0
        /\ \A y \in M, c \in Side : h[y] = h[t.child[c][y]] + Black(t, y)
        /\ \A y \in Ptr : h[y] \in Nat \ {0}
    BY NothingOwed
  <2>2. h \in [Ptr -> Nat \ {0}] /\ h[NULL] = 1
    BY DEF Heights
  <2>3. /\ k \in [Ptr -> Nat \ {0}] /\ k[p] = h[p] + 1 /\ k[uncle] = h[uncle] + 1
        /\ \A y \in Ptr \ {p, uncle} : k[y] = h[y]
    BY <1>1, <1>2, <2>1, <2>2 DEF Ptr
  <2> HIDE DEF k
  <2>4. ASSUME NEW y \in M, NEW c \in Side
        PROVE  k[y] = k[t.child[c][y]] + Owed(NULL, d, y, c) + Black(u, y)
    <3>1. /\ h[y] = h[t.child[c][y]] + Black(t, y) /\ Owed(NULL, d, y, c) = 0
          /\ t.child[c][y] \in Ptr /\ h[t.child[c][y]] \in Nat
          /\ (t.child[c][y] # NULL => t.child[c][y] \in M /\ t.parent[t.child[c][y]] = y)
          /\ y \in Ptr
      BY <1>1, <2>1, ShapeTypes DEF Ptr
    <3>2. CASE y = g
      BY <1>1, <1>3, <2>3, <3>1, <3>2 DEF Black
    <3>3. CASE y # g
      <4>1. t.child[c][y] # p /\ t.child[c][y] # uncle
        BY <1>1, <3>1, <3>3
      <4>2. k[t.child[c][y]] = h[t.child[c][y]]
        BY <2>3, <3>1, <4>1
      <4>3. CASE y = p
        BY <1>3, <2>3, <3>1, <4>2, <4>3 DEF Black
      <4>4. CASE y = uncle
        BY <1>3, <2>3, <3>1, <4>2, <4>4 DEF Black
      <4>5. CASE y # p /\ y # uncle
        BY <1>3, <2>3, <3>1, <3>3, <4>2, <4>5 DEF Black
      <4> QED  BY <4>3, <4>4, <4>5
    <3> QED  BY <3>2, <3>3
  <2>5. k[NULL] = 1
    BY <1>1, <2>2, <2>3 DEF Ptr
  <2> QED  BY <1>3, <2>3, <2>4, <2>5 DEF Heights
<1>6. RedsApart(u, M, {g})
  <2> SUFFICES ASSUME NEW y \in M, u.red[y], IsRed(u, u.parent[y]), y # g PROVE FALSE
    BY DEF RedsApart
  <2>1. y # p /\ y # uncle /\ t.red[y] /\ y # x
    BY <1>3 DEF IsRed
  <2>2. t.parent[y] # NULL /\ t.parent[y] \in M /\ u.red[t.parent[y]]
    BY <1>3, ShapeTypes DEF IsRed
  <2>3. t.parent[y] # g
    <3> SUFFICES ASSUME t.parent[y] = g PROVE FALSE
      OBVIOUS
    <3>1. PICK c \in Side : t.child[c][g] = y
      BY <2>2, ParentSide
    <3> QED  BY <1>1, <2>1, <3>1
  <2>4. t.red[t.parent[y]]
    BY <1>3, <2>2, <2>3
  <2> QED  BY <2>1, <2>2, <2>4 DEF RedsApart, IsRed
<1>7. IsRed(u, u.root) => g = u.root
  BY <1>1, <1>3 DEF IsRed
<1> QED  BY <1>3, <1>4, <1>5, <1>6, <1>7 DEF u

\* The side does not matter when nothing is owed.
LEMMA AnySide ==
  ASSUME NEW t, NEW M, NEW sub, Shape(t, M, sub), NEW h, NEW d, NEW e,
         Heights(t, M, h, NULL, d)
  PROVE  Heights(t, M, h, NULL, e)
<1>1. NULL \notin M
  BY ShapeTypes
<1>2. \A n \in M, s \in Side : Owed(NULL, d, n, s) = Owed(NULL, e, n, s)
  BY <1>1 DEF Owed
<1> QED  BY <1>2 DEF Heights

\* m in w is higher up than n in sub.
Higher(M, sub, n, w, m) ==
  /\ Above(M, w, m) \subseteq Above(M, sub, n)
  /\ Above(M, w, m) # Above(M, sub, n)

\* What a turn of rb_insert_color starts from.
LEMMA InsertFacts ==
  ASSUME IInv, pc = "insert_color", IsRed(tree, tree.parent[node]),
         NEW sub, Shape(tree, member, sub)
  PROVE  LET p == tree.parent[node]
             g == tree.parent[p]
             s == SideOf(tree, g, p)
         IN  /\ node \in member /\ p \in member /\ g \in member /\ s \in Side
             /\ tree.child[s][g] = p
             /\ tree.child[s][p] = node \/ tree.child[Other(s)][p] = node
             /\ tree.red[node] /\ tree.red[p] /\ ~tree.red[g]
             /\ RedsApart(tree, member, {node}) /\ ~IsRed(tree, tree.root)
             /\ \E h, d : Heights(tree, member, h, NULL, d)
<1> DEFINE p == tree.parent[node]
           g == tree.parent[p]
           s == SideOf(tree, g, p)
<1>1. node \in member /\ tree.red[node]
  BY DEF IInv, Cursor
<1>2. p # NULL /\ tree.red[p]
  BY DEF IsRed
<1>3. p \in member /\ p # node
  BY <1>1, <1>2, ParentSide
<1>4. node # tree.root
  BY <1>1, <1>2, ShapeTypes
<1>5. ~IsRed(tree, tree.root)
  BY <1>4 DEF IInv, Cursor
<1>6. p # tree.root /\ g # NULL
  BY <1>2, <1>3, <1>5, ShapeTypes DEF IsRed
<1>7. g \in member /\ s \in Side /\ tree.child[s][g] = p /\ g # p
  BY <1>3, <1>6, ParentSide
<1>8. RedsApart(tree, member, {node})
  BY DEF IInv, Excused
<1>9. ~tree.red[g]
  BY <1>2, <1>3, <1>6, <1>8 DEF RedsApart, IsRed
<1>10. tree.child[s][p] = node \/ tree.child[Other(s)][p] = node
  <2>1. PICK c \in Side : tree.child[c][p] = node
    BY <1>1, <1>2, ParentSide
  <2> QED  BY <1>7, <2>1, Sides
<1>11. \E h, d : Heights(tree, member, h, NULL, d)
  BY DEF IInv, Owing
<1> QED  BY <1>1, <1>2, <1>3, <1>5, <1>7, <1>8, <1>9, <1>10, <1>11

\* The invariant after a step that leaves an insertion running.
LEMMA Inserting ==
  ASSUME pc' = "insert_color", node' \in member', tree'.red[node'], parent' = NULL,
         NEW w, Shape(tree', member', w), \E k, e : Heights(tree', member', k, NULL, e),
         RedsApart(tree', member', {node'}), IsRed(tree', tree'.root) => node' = tree'.root
  PROVE  IInv'
<1>1. Owing' = NULL /\ Excused' = {node'} /\ node' \in Ptr /\ parent' \in Ptr
  BY ShapeTypes DEF Owing, Excused, Ptr
<1>2. PICK k, e : Heights(tree', member', k, NULL, e)
  OBVIOUS
<1>3. Heights(tree', member', k, NULL, SideOf(tree', NULL, node'))
  BY <1>2, AnySide
<1>4. (\E h : Heights(tree, member, h, Owing, SideOf(tree, Owing, node)))'
  BY <1>1, <1>3
<1>5. Cursor'
  BY DEF Cursor, IsRed
<1>6. RedsApart(tree, member, Excused)'
  BY <1>1
<1>7. (\E s : Shape(tree, member, s))'
  OBVIOUS
<1> QED  BY <1>1, <1>4, <1>5, <1>6, <1>7 DEF IInv

\* A turn of rb_insert_color keeps the invariant, and the cursor climbs.
LEMMA InsertTurnStep ==
  ASSUME IInv, InsertTurn, NEW sub, Shape(tree, member, sub)
  PROVE  /\ IInv'
         /\ \E w : Shape(tree', member', w) /\ Higher(member, sub, node, w, node')
<1> DEFINE p == tree.parent[node]
           g == tree.parent[p]
           s == SideOf(tree, g, p)
           o == Other(s)
           uncle == tree.child[o][g]
<1>0. /\ pc = "insert_color" /\ IsRed(tree, p)
      /\ pc' = pc /\ parent' = parent /\ member' = member /\ parent = NULL
  BY DEF InsertTurn, IInv, Cursor
<1>1. /\ node \in member /\ p \in member /\ g \in member /\ s \in Side
      /\ tree.child[s][g] = p
      /\ tree.child[s][p] = node \/ tree.child[o][p] = node
      /\ tree.red[node] /\ tree.red[p] /\ ~tree.red[g]
      /\ RedsApart(tree, member, {node}) /\ ~IsRed(tree, tree.root)
      /\ \E h, d : Heights(tree, member, h, NULL, d)
  BY <1>0, InsertFacts
<1>2. PICK h, d : Heights(tree, member, h, NULL, d)
  BY <1>1
<1>3. /\ o \in Side /\ Other(o) = s /\ o # s /\ NULL \notin member
      /\ uncle \in Ptr /\ (uncle # NULL => uncle \in member)
      /\ \A x \in member : x \in Ptr
  BY SMTT(30), <1>1, Sides, ShapeTypes DEF Ptr
<1>u. uncle = tree.child[Other(s)][g]
  OBVIOUS
<1>p. tree.parent[node] = p
  OBVIOUS
<1> HIDE DEF p, g, s, uncle
<1>4. /\ node \in sub[node] /\ node \in sub[p] /\ sub[p] \subseteq sub[g]
      /\ p \notin sub[node] /\ g \notin sub[node] /\ p \in sub[p] /\ g \notin sub[p]
  <2>1. PICK c \in Side : tree.child[c][p] = node
    BY <1>1, <1>3
  <2>2. node \in sub[node] /\ sub[node] \subseteq sub[p] /\ p \notin sub[node] /\ p \in sub[p]
    BY <1>1, <2>1, Subtree
  <2>3. sub[p] \subseteq sub[g] /\ g \notin sub[p]
    BY <1>1, Subtree
  <2> QED  BY <2>2, <2>3
<1>5. CASE IsRed(tree, uncle)
  <2>1. /\ tree' = Lifted(tree, uncle, p, g)
        /\ node' = g
    BY <1>5 DEF InsertTurn, Lifted, p, g, s, uncle
  <2>2. uncle \in member /\ tree.red[uncle]
    BY <1>3, <1>5 DEF IsRed
  <2>3. /\ Shape(tree', member, sub) /\ \E k : Heights(tree', member, k, NULL, d)
        /\ RedsApart(tree', member, {g}) /\ tree'.red[g]
        /\ IsRed(tree', tree'.root) => g = tree'.root
    BY <1>1, <1>2, <1>p, <1>u, <2>1, <2>2, InsertRecolour
  <2>4. IInv'
    BY <1>0, <1>1, <2>1, <2>3, Inserting
  <2>5. Higher(member, sub, node, sub, g)
    <3>1. ASSUME NEW x \in member, g \in sub[x] PROVE node \in sub[x]
      BY <1>1, <1>4, <3>1, Closed
    <3>2. node \in Above(member, sub, node) /\ node \notin Above(member, sub, g)
      BY <1>1, <1>4 DEF Above
    <3> QED  BY <3>1, <3>2 DEF Above, Higher
  <2> QED  BY <1>0, <2>1, <2>3, <2>4, <2>5
<1>6. CASE ~IsRed(tree, uncle) /\ tree.child[o][p] # node
  <2>1. tree' = Rotate(BlackRed(tree, p, g), g, o) /\ node' = node
    BY <1>6 DEF InsertTurn, BlackRed, p, g, s, uncle
  <2> DEFINE v == BlackRed(tree, p, g)
             w == SubRotated(v, sub, g, o)
  <2>2. tree.child[s][p] = node
    BY <1>1, <1>6
  <2>3. /\ Shape(tree', member, w)
        /\ \E k, e : Heights(tree', member, k, NULL, e)
        /\ RedsApart(tree', member, {}) /\ ~IsRed(tree', tree'.root) /\ tree'.red[node]
    BY <1>1, <1>2, <1>6, <1>u, <2>1, <2>2, InsertOuter
  <2>4. RedsApart(tree', member', {node'})
    BY <1>0, <2>3 DEF RedsApart
  <2>5. IInv'
    BY <1>0, <1>1, <2>1, <2>3, <2>4, Inserting
  <2>6. v.child = tree.child
    BY <1>1, <1>4, PaintTwo
  <2>7. /\ w[p] = sub[g] /\ w[g] = {g} \cup sub[uncle] \cup sub[tree.child[o][p]]
        /\ \A x \in member : x # p /\ x # g => w[x] = sub[x]
    <3>1. /\ p \in Ptr /\ g \in Ptr /\ p # g /\ sub \in [Ptr -> SUBSET Node]
          /\ \A x \in member : x \in Ptr
      BY <1>1, <1>4, ShapeTypes DEF Ptr
    <3> QED  BY <1>1, <1>3, <1>u, <2>6, <3>1 DEF SubRotated
  <2>8. node \notin w[g]
    <3>1. node # g /\ node \notin sub[tree.child[o][p]] /\ node \notin sub[uncle]
      <4>1. sub[node] \cap sub[tree.child[o][p]] = {}
        BY <1>1, <1>3, <2>2, Subtree
      <4>2. sub[p] \cap sub[uncle] = {}
        BY <1>1, <1>3, <1>u, Subtree
      <4> QED  BY <1>4, <4>1, <4>2
    <3> QED  BY <2>7, <3>1
  <2>9. Higher(member, sub, node, w, node)
    <3>1. g \in Above(member, sub, node) /\ g \notin Above(member, w, node)
      BY <1>1, <1>4, <2>8 DEF Above
    <3>2. \A x \in member : node \in w[x] => node \in sub[x]
      BY <1>4, <2>7, <2>8
    <3> QED  BY <3>1, <3>2 DEF Above, Higher
  <2> QED  BY <1>0, <2>1, <2>3, <2>5, <2>9
<1>7. CASE ~IsRed(tree, uncle) /\ tree.child[o][p] = node
  <2> DEFINE t1 == Rotate(tree, p, s)
             w1 == SubRotated(tree, sub, p, s)
             v == BlackRed(t1, node, g)
             w == SubRotated(v, w1, g, o)
  <2>1. tree' = Rotate(v, g, o) /\ node' = p
    BY <1>7 DEF InsertTurn, BlackRed, p, g, s, uncle
  <2>2. /\ Shape(t1, member, w1)
        /\ \E k, e : Heights(t1, member, k, NULL, e)
        /\ t1.child[s][g] = node /\ t1.child[s][node] = p
        /\ t1.child[o][g] = uncle /\ t1.red = tree.red
        /\ RedsApart(t1, member, {p}) /\ t1.root = tree.root
    BY <1>1, <1>2, <1>7, <1>u, InsertInner
  <2> HIDE DEF t1, w1
  <2>3. PICK k, e : Heights(t1, member, k, NULL, e)
    BY <2>2
  <2>4. ~IsRed(t1, t1.root) /\ ~IsRed(t1, t1.child[o][g])
    BY <1>1, <1>7, <2>2 DEF IsRed
  <2>5. /\ Shape(tree', member, w)
        /\ \E kk, ee : Heights(tree', member, kk, NULL, ee)
        /\ RedsApart(tree', member, {}) /\ ~IsRed(tree', tree'.root) /\ tree'.red[p]
    BY <1>1, <2>1, <2>2, <2>3, <2>4, InsertOuter
  <2>6. RedsApart(tree', member', {node'})
    BY <1>0, <2>5 DEF RedsApart
  <2>7. IInv'
    BY <1>0, <1>1, <2>1, <2>5, <2>6, Inserting
  <2>8. v.child = t1.child
    BY <1>1, <1>4, <2>2, PaintTwo
  <2>9. /\ w1[node] = sub[p]
        /\ w1[p] = {p} \cup sub[tree.child[s][p]] \cup sub[tree.child[s][node]]
        /\ \A x \in Ptr : x # p /\ x # node => w1[x] = sub[x]
    <3>1. /\ p \in Ptr /\ node \in Ptr /\ p # node /\ sub \in [Ptr -> SUBSET Node]
      BY <1>1, <1>4, ShapeTypes DEF Ptr
    <3> QED  BY <1>1, <1>7, <3>1 DEF SubRotated, w1
  <2>10. /\ w[node] = w1[g]
         /\ w[g] = {g} \cup w1[uncle] \cup w1[t1.child[o][node]]
         /\ \A x \in Ptr : x # node /\ x # g => w[x] = w1[x]
    <3>1. /\ node \in Ptr /\ g \in Ptr /\ node # g /\ w1 \in [Ptr -> SUBSET Node]
      BY <1>1, <1>3, <1>4, <2>2, ShapeTypes
    <3> QED  BY <1>1, <1>3, <2>2, <2>8, <3>1 DEF SubRotated
  <2>11. p \notin w[g] /\ p # g /\ p # node
    <3>1. p # g /\ p # node
      BY <1>4
    <3>2. w1[p] \cap w1[t1.child[o][node]] = {} /\ p \in w1[p]
      BY SMTT(30), <1>1, <1>3, <2>2, Subtree
    <3>3. w1[node] \cap w1[uncle] = {}
      BY SMTT(30), <1>1, <1>3, <2>2, Subtree
    <3> QED  BY <1>4, <2>9, <2>10, <3>1, <3>2, <3>3
  <2>12. Higher(member, sub, node, w, p)
    <3>1. g \in Above(member, sub, node) /\ g \notin Above(member, w, p)
      BY <1>1, <1>4, <2>11 DEF Above
    <3>2. ASSUME NEW x \in member, p \in w[x] PROVE node \in sub[x]
      <4>1. CASE x = p \/ x = node
        BY <1>4, <4>1
      <4>2. CASE x # p /\ x # node
        <5>1. x # g /\ x \in Ptr
          BY <1>3, <2>11, <3>2
        <5>2. p \in sub[x]
          BY <2>9, <2>10, <3>2, <4>2, <5>1
        <5>3. sub[p] \subseteq sub[x]
          BY <5>2, Closed
        <5> QED  BY <1>4, <5>3
      <4> QED  BY <4>1, <4>2
    <3> QED  BY <3>1, <3>2 DEF Above, Higher
  <2> QED  BY <1>0, <2>1, <2>5, <2>7, <2>12
<1> QED  BY <1>5, <1>6, <1>7

-----------------------------------------------------------------------------
(* The end of a fix-up.                                                    *)

\* rb_set_color with RB_BLACK.
Blacken(t, n) == Paint(t, n, FALSE)

\* The cursor is made black: no red node is left under a red one.
LEMMA Blackening ==
  ASSUME NEW t, NEW M, NEW sub, Shape(t, M, sub), NEW n \in M,
         RedsApart(t, M, {y \in M : n \in {y, t.parent[y]}}),
         IsRed(t, t.root) => n = t.root
  PROVE  LET u == Blacken(t, n)
         IN  /\ Shape(u, M, sub) /\ u.child = t.child /\ ~u.red[n]
             /\ \A y \in M \ {n} : u.red[y] = t.red[y]
             /\ RedsApart(u, M, {}) /\ ~IsRed(u, u.root)
<1> DEFINE u == Blacken(t, n)
<1>1. t \in TreeType /\ M \subseteq Node /\ (t.root # NULL => t.root \in M)
  BY ShapeTypes
<1>2. /\ u \in TreeType /\ u.root = t.root /\ u.child = t.child /\ u.parent = t.parent
      /\ ~u.red[n] /\ \A y \in M \ {n} : u.red[y] = t.red[y]
  BY <1>1 DEF Blacken, Paint, TreeType
<1> HIDE DEF u
<1>3. Shape(u, M, sub)
  BY <1>2, Recolour
<1>4. RedsApart(u, M, {})
  <2> SUFFICES ASSUME NEW y \in M, u.red[y], IsRed(u, u.parent[y]) PROVE FALSE
    BY DEF RedsApart
  <2>1. y # n /\ t.red[y] /\ u.parent[y] = t.parent[y]
    BY <1>2
  <2>2. t.parent[y] # NULL /\ t.parent[y] \in M /\ t.parent[y] # n /\ t.red[t.parent[y]]
    BY <1>2, <2>1, ShapeTypes DEF IsRed
  <2> QED  BY <2>1, <2>2 DEF RedsApart, IsRed
<1>5. ~IsRed(u, u.root)
  BY <1>1, <1>2 DEF IsRed
<1> QED  BY <1>2, <1>3, <1>4, <1>5 DEF u

\* At the root it adds a black node to every way.
LEMMA BlackenRoot ==
  ASSUME NEW t, NEW M, NEW sub, Shape(t, M, sub), t.root \in M,
         NEW h, NEW d, Heights(t, M, h, NULL, d), NEW u,
         u.child = t.child, ~u.red[t.root], \A y \in M \ {t.root} : u.red[y] = t.red[y]
  PROVE  \E k : Heights(u, M, k, NULL, d)
<1> DEFINE n == t.root
           k == [h EXCEPT ![n] = h[t.child["left"][n]] + 1]
<1>1. /\ \A e : \A y \in M, c \in Side : Owed(NULL, e, y, c) = 0
      /\ \A y \in M, c \in Side : h[y] = h[t.child[c][y]] + Black(t, y)
      /\ \A y \in Ptr : h[y] \in Nat \ {0}
  BY NothingOwed
<1>2. /\ n \in Ptr /\ n # NULL /\ "left" \in Side /\ M \subseteq Ptr
      /\ \A y \in M, c \in Side : /\ t.child[c][y] \in Ptr /\ t.child[c][y] # n
  BY ShapeTypes, NullNotNode DEF Ptr, Side
<1>3. h \in [Ptr -> Nat \ {0}] /\ h[NULL] = 1
  BY DEF Heights
<1>4. /\ k \in [Ptr -> Nat \ {0}] /\ k[n] = h[t.child["left"][n]] + 1
      /\ \A y \in Ptr \ {n} : k[y] = h[y]
  BY <1>1, <1>2, <1>3
<1> HIDE DEF k
<1>5. ASSUME NEW y \in M, NEW c \in Side
      PROVE  k[y] = k[t.child[c][y]] + Owed(NULL, d, y, c) + Black(u, y)
  <2>1. /\ k[t.child[c][y]] = h[t.child[c][y]] /\ Owed(NULL, d, y, c) = 0
        /\ h[t.child[c][y]] \in Nat
    BY <1>1, <1>2, <1>4
  <2>2. CASE y = n
    <3>1. h[t.child[c][n]] = h[t.child["left"][n]]
      <4>1. h[t.child[c][n]] \in Nat /\ h[t.child["left"][n]] \in Nat /\ Black(t, n) \in Nat
        BY <1>1, <1>2 DEF Black
      <4>2. h[t.child[c][n]] + Black(t, n) = h[t.child["left"][n]] + Black(t, n)
        BY <1>1, <1>2
      <4> QED  BY <4>1, <4>2
    <3> QED  BY <1>4, <2>1, <2>2, <3>1 DEF Black
  <2>3. CASE y # n
    BY <1>1, <1>2, <1>4, <2>1, <2>3 DEF Black
  <2> QED  BY <2>2, <2>3
<1>6. k[NULL] = 1
  BY <1>2, <1>3, <1>4 DEF Ptr
<1> QED  BY <1>4, <1>5, <1>6 DEF Heights

\* At a red cursor below p it pays what is owed.
LEMMA BlackenOwed ==
  ASSUME NEW t, NEW M, NEW sub, Shape(t, M, sub), NEW n \in M, NEW p \in M,
         NEW d \in Side, t.child[d][p] = n, t.red[n],
         NEW h, Heights(t, M, h, p, d), NEW u,
         u.child = t.child, ~u.red[n], \A y \in M \ {n} : u.red[y] = t.red[y]
  PROVE  \E k : Heights(u, M, k, NULL, d)
<1> DEFINE k == [h EXCEPT ![n] = h[n] + 1]
<1>1. /\ n \in Ptr /\ n # NULL /\ M \subseteq Ptr /\ NULL \notin M
      /\ t.parent[n] = p
      /\ \A y \in M, c \in Side : /\ t.child[c][y] \in Ptr
                                  /\ t.child[c][y] = n => y = p
  BY ShapeTypes DEF Ptr
<1>2. /\ h \in [Ptr -> Nat \ {0}] /\ h[NULL] = 1
      /\ \A y \in M, c \in Side : h[y] = h[t.child[c][y]] + Owed(p, d, y, c) + Black(t, y)
  BY DEF Heights
<1>3. /\ k \in [Ptr -> Nat \ {0}] /\ k[n] = h[n] + 1
      /\ \A y \in Ptr \ {n} : k[y] = h[y]
  BY <1>1, <1>2
<1> HIDE DEF k
<1>4. p # n /\ t.child[Other(d)][p] # n
  BY <1>1, Children
<1>5. ASSUME NEW y \in M, NEW c \in Side
      PROVE  k[y] = k[t.child[c][y]] + Owed(NULL, d, y, c) + Black(u, y)
  <2>1. /\ h[y] = h[t.child[c][y]] + Owed(p, d, y, c) + Black(t, y)
        /\ h[t.child[c][y]] \in Nat /\ h[y] \in Nat
        /\ Owed(NULL, d, y, c) = 0
    BY <1>1, <1>2 DEF Owed
  <2>2. CASE y = p /\ c = d
    BY <1>1, <1>2, <1>3, <1>4, <2>1, <2>2 DEF Owed, Black
  <2>3. CASE y # p \/ c # d
    <3>1. t.child[c][y] # n
      BY <1>1, <1>4, <2>3, Sides
    <3>2. Owed(p, d, y, c) = 0 /\ k[t.child[c][y]] = h[t.child[c][y]]
      BY <1>1, <1>3, <2>3, <3>1 DEF Owed
    <3>3. CASE y = n
      BY <1>3, <2>1, <3>2, <3>3 DEF Black
    <3>4. CASE y # n
      BY <1>1, <1>3, <2>1, <3>2, <3>4 DEF Black
    <3> QED  BY <3>3, <3>4
  <2> QED  BY <2>2, <2>3
<1>6. k[NULL] = 1
  BY <1>1, <1>2, <1>3 DEF Ptr
<1> QED  BY <1>3, <1>5, <1>6 DEF Heights

\* The invariant after a step that leaves no call running.
LEMMA Idle ==
  ASSUME pc' = "idle", node' = NULL, parent' = NULL,
         NEW w, Shape(tree', member', w), \E k, e : Heights(tree', member', k, NULL, e),
         RedsApart(tree', member', {}), ~IsRed(tree', tree'.root)
  PROVE  IInv'
<1>1. Owing' = NULL /\ Excused' = {} /\ NULL \in Ptr
  BY DEF Owing, Excused, Ptr
<1>2. PICK k, e : Heights(tree', member', k, NULL, e)
  OBVIOUS
<1>3. Heights(tree', member', k, NULL, SideOf(tree', NULL, node'))
  BY <1>2, AnySide
<1>4. (\E h : Heights(tree, member, h, Owing, SideOf(tree, Owing, node)))'
  BY <1>1, <1>3
<1>5. Cursor'
  BY DEF Cursor, IsRed
<1>6. RedsApart(tree, member, Excused)'
  BY <1>1
<1>7. (\E s : Shape(tree, member, s))'
  OBVIOUS
<1> QED  BY <1>1, <1>4, <1>5, <1>6, <1>7 DEF IInv

\* The end of rb_insert_color leaves a tree without a defect.
LEMMA InsertDoneStep == ASSUME IInv, InsertDone PROVE IInv'
<1>1. /\ pc = "insert_color" /\ ~IsRed(tree, tree.parent[node])
      /\ tree' = Blacken(tree, tree.root)
      /\ pc' = "idle" /\ node' = NULL /\ parent' = parent /\ member' = member
  BY DEF InsertDone, Blacken
<1>2. PICK sub : Shape(tree, member, sub)
  BY DEF IInv
<1>3. PICK h, d : Heights(tree, member, h, NULL, d)
  BY <1>1 DEF IInv, Owing
<1>4. /\ node \in member /\ (IsRed(tree, tree.root) => node = tree.root)
      /\ RedsApart(tree, member, {node})
  BY <1>1 DEF IInv, Cursor, Excused
<1>5. tree.root \in member
  BY <1>2, <1>4, RootAll
<1>6. RedsApart(tree, member, {y \in member : tree.root \in {y, tree.parent[y]}})
  BY <1>1, <1>4 DEF RedsApart
<1>7. /\ Shape(tree', member, sub) /\ tree'.child = tree.child /\ ~tree'.red[tree.root]
      /\ \A y \in member \ {tree.root} : tree'.red[y] = tree.red[y]
      /\ RedsApart(tree', member, {}) /\ ~IsRed(tree', tree'.root)
  BY <1>1, <1>2, <1>5, <1>6, Blackening
<1>8. \E k : Heights(tree', member, k, NULL, d)
  BY <1>2, <1>3, <1>5, <1>7, BlackenRoot
<1>9. parent' = NULL
  BY <1>1 DEF IInv, Cursor
<1> QED  BY <1>1, <1>7, <1>8, <1>9, Idle

\* SideOf is a side.
LEMMA SideOfSide == \A t, p, n : SideOf(t, p, n) \in Side
BY DEF SideOf, Side

\* The end of __rb_erase_color leaves a tree without a defect.
LEMMA EraseDoneStep == ASSUME IInv, EraseDone PROVE IInv'
<1>1. /\ pc = "erase_color" /\ (IsRed(tree, node) \/ node = tree.root)
      /\ node = NULL => tree' = tree
      /\ node # NULL => tree' = Blacken(tree, node)
      /\ pc' = "idle" /\ node' = NULL /\ parent' = NULL /\ member' = member
  BY DEF EraseDone, Lacking, Blacken
<1>2. PICK sub : Shape(tree, member, sub)
  BY DEF IInv
<1> DEFINE d == SideOf(tree, parent, node)
<1>3. PICK h : Heights(tree, member, h, parent, d)
  BY <1>1 DEF IInv, Owing
<1>4. /\ parent # NULL => parent \in member /\ tree.child[d][parent] = node
      /\ node # NULL => node \in member /\ tree.parent[node] = parent
      /\ IsRed(tree, tree.root) => node = tree.root
      /\ RedsApart(tree, member, {y \in member : node \in {y, tree.parent[y]}})
  BY <1>1 DEF IInv, Cursor, Excused
<1>d. d \in Side
  BY SideOfSide
<1> HIDE DEF d
<1>5. CASE node = NULL
  <2>1. tree.root = NULL /\ member = {}
    BY <1>1, <1>2, <1>5, RootAll DEF IsRed
  <2>2. Heights(tree', member', h, NULL, d)
    BY <1>1, <1>3, <1>5, <2>1 DEF Heights
  <2>3. RedsApart(tree', member', {}) /\ ~IsRed(tree', tree'.root)
    BY <1>1, <1>5, <2>1 DEF RedsApart, IsRed
  <2> QED  BY <1>1, <1>2, <1>5, <2>2, <2>3, Idle
<1>6. CASE node # NULL
  <2>1. node \in member /\ tree.parent[node] = parent /\ tree' = Blacken(tree, node)
    BY <1>1, <1>4, <1>6
  <2>2. /\ Shape(tree', member, sub) /\ tree'.child = tree.child /\ ~tree'.red[node]
        /\ \A y \in member \ {node} : tree'.red[y] = tree.red[y]
        /\ RedsApart(tree', member, {}) /\ ~IsRed(tree', tree'.root)
    BY <1>2, <1>4, <2>1, Blackening
  <2>3. CASE node = tree.root
    <3>1. parent = NULL
      BY <1>2, <2>1, <2>3, ShapeTypes
    <3>2. \E k : Heights(tree', member, k, NULL, d)
      BY <1>2, <1>3, <2>1, <2>2, <2>3, <3>1, BlackenRoot
    <3> QED  BY <1>1, <2>2, <3>2, Idle
  <2>4. CASE node # tree.root
    <3>1. parent # NULL /\ parent \in member /\ tree.child[d][parent] = node
      BY <1>2, <1>4, <2>1, <2>4, ShapeTypes
    <3>2. tree.red[node]
      BY <1>1, <1>6, <2>4 DEF IsRed
    <3>3. \E k : Heights(tree', member, k, NULL, d)
      BY <1>2, <1>3, <1>d, <2>1, <2>2, <3>1, <3>2, BlackenOwed
    <3> QED  BY <1>1, <2>2, <3>3, Idle
  <2> QED  BY <2>3, <2>4
<1> QED  BY <1>5, <1>6

-----------------------------------------------------------------------------
(* Removal: a turn of the loop.                                            *)

\* The ways down through n, on side s of p, lack a black node.
Lacks(t, M, sub, h, p, s, n) ==
  /\ Shape(t, M, sub) /\ p \in M /\ s \in Side /\ t.child[s][p] = n /\ ~IsRed(t, n)
  /\ Heights(t, M, h, p, s) /\ RedsApart(t, M, {}) /\ ~IsRed(t, t.root)

\* What a turn of __rb_erase_color starts from.
LEMMA EraseFacts ==
  ASSUME IInv, pc = "erase_color", Lacking, NEW sub, Shape(tree, member, sub)
  PROVE  \E h : Lacks(tree, member, sub, h, parent, SideOf(tree, parent, node), node)
<1> DEFINE d == SideOf(tree, parent, node)
<1>1. /\ parent = NULL => node = tree.root
      /\ parent # NULL => parent \in member /\ tree.child[d][parent] = node
      /\ IsRed(tree, tree.root) => node = tree.root
      /\ RedsApart(tree, member, {y \in member : node \in {y, tree.parent[y]}})
      /\ \E h : Heights(tree, member, h, parent, d)
  BY DEF IInv, Cursor, Excused, Owing
<1>2. ~IsRed(tree, node) /\ node # tree.root /\ NULL \notin member
  BY ShapeTypes DEF Lacking
<1>3. d \in Side
  BY SideOfSide
<1> HIDE DEF d
<1>4. RedsApart(tree, member, {})
  <2> SUFFICES ASSUME NEW y \in member, tree.red[y], IsRed(tree, tree.parent[y]) PROVE FALSE
    BY DEF RedsApart
  <2>1. node \in {y, tree.parent[y]}
    BY <1>1 DEF RedsApart
  <2> QED  BY <1>2, <2>1 DEF IsRed
<1> QED  BY <1>1, <1>2, <1>3, <1>4 DEF Lacks, d

\* The heights around the sibling x of n.
LEMMA Sibling ==
  ASSUME NEW t, NEW M, NEW sub, NEW h, NEW p, NEW s, NEW n, Lacks(t, M, sub, h, p, s, n)
  PROVE  LET o == Other(s)
             x == t.child[o][p]
         IN  /\ x \in M /\ x # p /\ x # n /\ t.parent[x] = p /\ p # n
             /\ o \in Side /\ o # s /\ Other(o) = s /\ n \in Ptr
             /\ n # NULL => n \in M /\ t.parent[n] = p
             /\ h[n] \in Nat \ {0} /\ h[x] = h[n] + 1 /\ h[p] = h[n] + 1 + Black(t, p)
             /\ \A c \in Side : /\ h[x] = h[t.child[c][x]] + Black(t, x)
                                /\ h[t.child[c][x]] \in Nat \ {0}
                                /\ t.child[c][x] \in Ptr
                                /\ t.child[c][x] # NULL =>
                                     /\ t.child[c][x] \in M /\ t.parent[t.child[c][x]] = x
                                     /\ t.child[c][x] \notin {x, p, n, t.root}
<1> DEFINE o == Other(s)
           x == t.child[o][p]
<1>1. /\ Shape(t, M, sub) /\ p \in M /\ s \in Side /\ t.child[s][p] = n
      /\ h \in [Ptr -> Nat \ {0}] /\ h[NULL] = 1
      /\ \A y \in M, c \in Side : h[y] = h[t.child[c][y]] + Owed(p, s, y, c) + Black(t, y)
  BY DEF Lacks, Heights
<1>2. o \in Side /\ o # s /\ Other(o) = s
  BY <1>1, Sides
<1>3. n \in Ptr /\ x \in Ptr
  BY <1>1, <1>2, ShapeTypes
<1>4. h[n] \in Nat \ {0} /\ h[x] \in Nat \ {0} /\ Black(t, p) \in Nat
  BY <1>1, <1>3 DEF Black
<1>5. h[p] = h[n] + 1 + Black(t, p) /\ h[p] = h[x] + 0 + Black(t, p)
  BY <1>1, <1>2 DEF Owed
<1>6. h[x] = h[n] + 1 /\ x # NULL
  BY <1>1, <1>4, <1>5
<1>7. x \in M /\ t.parent[x] = p /\ x # p /\ x # n
  BY <1>1, <1>2, <1>6, ShapeTypes, Children
<1>8. p # n /\ NULL \notin M /\ (n # NULL => n \in M /\ t.parent[n] = p)
  BY <1>1, Children, ShapeTypes
<1>e. x = t.child[o][p]
  OBVIOUS
<1> HIDE DEF x, o
<1>9. ASSUME NEW c \in Side
      PROVE  /\ h[x] = h[t.child[c][x]] + Black(t, x)
             /\ h[t.child[c][x]] \in Nat \ {0}
             /\ t.child[c][x] \in Ptr
             /\ t.child[c][x] # NULL =>
                  /\ t.child[c][x] \in M /\ t.parent[t.child[c][x]] = x
                  /\ t.child[c][x] \notin {x, p, n, t.root}
  <2> DEFINE y == t.child[c][x]
  <2>1. y \in Ptr /\ (y # NULL => y \in M /\ t.parent[y] = x)
    BY <1>1, <1>7, ShapeTypes
  <2>2. h[y] \in Nat \ {0} /\ Black(t, x) \in Nat
    BY <1>1, <2>1 DEF Black
  <2>3. h[x] = h[y] + 0 + Black(t, x)
    BY <1>1, <1>7 DEF Owed
  <2>4. y # NULL => y # t.root
    BY <1>1, <1>7, <1>8, <2>1, ShapeTypes
  <2>5. p \notin sub[x] /\ sub[y] \subseteq sub[x] /\ (y # NULL => y \in sub[y] /\ y # x)
    BY <1>1, <1>2, <1>7, <1>e, <2>1, Subtree, Children
  <2> QED  BY <1>7, <1>8, <2>1, <2>2, <2>3, <2>4, <2>5
<1> QED  BY <1>2, <1>3, <1>4, <1>5, <1>6, <1>7, <1>8, <1>9 DEF x, o

\* A red sibling x: it is rotated away, and the parent p is red afterwards.
LEMMA RedSibling ==
  ASSUME NEW t, NEW M, NEW sub, NEW h, NEW p, NEW s, NEW n, Lacks(t, M, sub, h, p, s, n),
         t.red[t.child[Other(s)][p]]
  PROVE  LET o == Other(s)
             x == t.child[o][p]
             v == BlackRed(t, x, p)
             u == Rotate(v, p, s)
         IN  /\ \E k : Lacks(u, M, SubRotated(v, sub, p, s), k, p, s, n)
             /\ ~u.red[u.child[o][p]] /\ u.red[p] /\ u.parent[p] = x /\ v.child = t.child
<1> DEFINE o == Other(s)
           x == t.child[o][p]
           v == BlackRed(t, x, p)
           u == Rotate(v, p, s)
           inner == t.child[s][x]
           far == t.child[o][x]
           w == SubRotated(v, sub, p, s)
<1>1. /\ Shape(t, M, sub) /\ p \in M /\ s \in Side /\ t.child[s][p] = n /\ ~IsRed(t, n)
      /\ h \in [Ptr -> Nat \ {0}] /\ h[NULL] = 1
      /\ \A y \in M, c \in Side : h[y] = h[t.child[c][y]] + Owed(p, s, y, c) + Black(t, y)
      /\ RedsApart(t, M, {}) /\ ~IsRed(t, t.root)
  BY DEF Lacks, Heights
<1>2. /\ x \in M /\ x # p /\ x # n /\ t.parent[x] = p /\ p # n
      /\ o \in Side /\ o # s /\ Other(o) = s /\ n \in Ptr
      /\ n # NULL => n \in M /\ t.parent[n] = p
      /\ h[n] \in Nat \ {0} /\ h[x] = h[n] + 1 /\ h[p] = h[n] + 1 + Black(t, p)
      /\ \A c \in Side : /\ h[x] = h[t.child[c][x]] + Black(t, x)
                         /\ h[t.child[c][x]] \in Nat \ {0}
                         /\ t.child[c][x] \in Ptr
                         /\ t.child[c][x] # NULL =>
                              /\ t.child[c][x] \in M /\ t.parent[t.child[c][x]] = x
                              /\ t.child[c][x] \notin {x, p, n, t.root}
  BY SMTT(30), Sibling
<1>3. /\ M \subseteq Node /\ NULL \notin M /\ x # NULL /\ p # NULL
      /\ t.root # NULL => t.root \in M
      /\ \A y \in M : t.parent[y] # NULL => t.parent[y] \in M
      /\ p = t.root <=> t.parent[p] = NULL
      /\ \A c \in Side : c = s \/ c = o
  BY SMTT(30), <1>1, <1>2, ShapeTypes, Sides
<1>4. t.red[x] /\ ~t.red[p]
  BY <1>1, <1>2, <1>3 DEF RedsApart, IsRed
<1>5. /\ Shape(v, M, sub) /\ v.root = t.root /\ v.child = t.child /\ v.parent = t.parent
      /\ ~v.red[x] /\ v.red[p] /\ \A z \in M \ {x, p} : v.red[z] = t.red[z]
  BY SMTT(30), <1>1, <1>2, PaintTwo
<1>6. v.child[Other(s)][p] = x /\ v.child[s][x] = inner /\ v.child[o][x] = far /\ v.child[s][p] = n
  BY <1>1, <1>5
<1> HIDE DEF v
<1>7. Shape(u, M, w)
  BY <1>1, <1>3, <1>5, <1>6, RotateShape
<1>8. /\ u.root = (IF v.parent[p] = NULL THEN x ELSE v.root) /\ u.red = v.red
      /\ u.child[o][p] = inner /\ u.child[s][p] = n /\ u.parent[p] = x
  BY <1>1, <1>3, <1>5, <1>6, RotateFacts
<1>e. x = t.child[o][p]
  OBVIOUS
<1> HIDE DEF x, o, inner, far, u, w
<1>9. inner \in Ptr /\ far \in Ptr /\ (inner # NULL => inner \in M /\ t.parent[inner] = x /\ inner \notin {x, p})
      /\ h[inner] = h[n] + 1 /\ h[far] = h[n] + 1
  BY <1>1, <1>2, <1>4 DEF inner, far, Black
<1>10. ~IsRed(t, inner)
  BY <1>1, <1>3, <1>4, <1>9 DEF RedsApart, IsRed
<1>11. HeightsFor(v, M, h, p, s, p, s, h[n] + 1)
  <2>1. ASSUME NEW y \in M \ {p, x}, NEW c \in Side
        PROVE  h[y] = h[v.child[c][y]] + Owed(p, s, y, c) + Black(v, y)
    BY <1>1, <1>5 DEF Black
  <2>2. Black(v, p) = 0 /\ Black(v, x) = 1 /\ Black(t, p) = 1
    BY <1>4, <1>5 DEF Black
  <2>3. /\ h[n] + 1 = h[n] + Owed(p, s, p, s) + Black(v, p)
        /\ h[n] + 1 = h[inner] + Owed(p, s, p, o) + Black(v, p)
        /\ h[p] = h[n] + 1 + Owed(p, s, x, s) + Black(v, x)
        /\ h[p] = h[far] + Owed(p, s, x, o) + Black(v, x)
    BY <1>2, <1>9, <2>2 DEF Owed
  <2>4. h[n] + 1 \in Nat \ {0}
    BY <1>2
  <2> QED  BY <1>1, <1>6, <2>1, <2>3, <2>4 DEF HeightsFor, o
<1>12. \E k : Heights(u, M, k, p, s)
  <2>1. Heights(Rotate(v, p, s), M, [h EXCEPT ![v.child[Other(s)][p]] = h[p], ![p] = h[n] + 1], p, s)
    BY <1>1, <1>3, <1>5, <1>6, <1>11, RotateHeights
  <2> QED  BY <2>1 DEF u
<1>13. RedsApart(u, M, {})
  <2>1. ASSUME NEW y \in M \ {p, x, inner}, v.red[y], IsRed(v, v.parent[y])
        PROVE  FALSE
    <3>1. v.parent[y] = t.parent[y] /\ t.red[y] /\ t.parent[y] \in M /\ t.parent[y] # NULL
      BY <1>3, <1>5, <2>1 DEF IsRed
    <3>2. t.parent[y] # x
      BY <1>5, <2>1, <3>1 DEF IsRed
    <3>3. t.parent[y] # p
      <4> SUFFICES ASSUME t.parent[y] = p PROVE FALSE
        OBVIOUS
      <4>1. PICK c \in Side : t.child[c][p] = y
        BY <1>1, <3>1, ParentSide
      <4>2. y = n
        BY <1>1, <1>3, <1>e, <2>1, <4>1
      <4> QED  BY <1>1, <1>3, <3>1, <4>2 DEF IsRed
    <3>4. t.red[t.parent[y]]
      BY <1>5, <2>1, <3>1, <3>2, <3>3 DEF IsRed
    <3> QED  BY <1>1, <3>1, <3>4 DEF RedsApart, IsRed
  <2>2. ~IsRed(v, inner)
    BY <1>5, <1>9, <1>10 DEF IsRed
  <2> QED  BY <1>1, <1>3, <1>5, <1>6, <2>1, <2>2, RotateReds DEF u
<1>14. ~IsRed(u, n) /\ ~IsRed(u, u.root) /\ ~IsRed(u, inner)
  <2>1. ~IsRed(u, n) /\ ~IsRed(u, inner)
    BY <1>1, <1>2, <1>5, <1>8, <1>9, <1>10 DEF IsRed
  <2>2. CASE p = t.root
    BY <1>3, <1>5, <1>8, <2>1, <2>2 DEF IsRed
  <2>3. CASE p # t.root
    BY <1>1, <1>3, <1>5, <1>8, <2>1, <2>3 DEF IsRed
  <2> QED  BY <2>1, <2>2, <2>3
<1>15. \E k : Lacks(u, M, w, k, p, s, n)
  BY <1>1, <1>7, <1>8, <1>12, <1>13, <1>14 DEF Lacks
<1>16. inner # NULL
  BY <1>1, <1>2, <1>9
<1>17. ~u.red[u.child[o][p]] /\ u.red[p] /\ u.parent[p] = x /\ v.child = t.child
  BY <1>5, <1>8, <1>14, <1>16 DEF IsRed
<1> QED  BY <1>15, <1>17 DEF u, w, v, x, o

\* rb_set_color with RB_RED.
Redden(t, n) == Paint(t, n, TRUE)

\* u is t, but that all the ways down from p lack a black node.
Passed(t, u, M, sub, p) ==
  /\ Shape(u, M, sub) /\ u.root = t.root /\ u.child = t.child /\ u.parent = t.parent
  /\ \E k : Heights(u, M, k, t.parent[p], SideOf(u, t.parent[p], p))
  /\ RedsApart(u, M, {y \in M : p \in {y, t.parent[y]}})
  /\ ~IsRed(u, u.root) /\ u.red[p] = t.red[p]

\* A black sibling x with black children is made red: now all the ways down
\* from p lack a black node.
LEMMA EraseRecolour ==
  ASSUME NEW t, NEW M, NEW sub, NEW h, NEW p, NEW s, NEW n, Lacks(t, M, sub, h, p, s, n),
         LET x == t.child[Other(s)][p]
         IN  ~t.red[x] /\ \A c \in Side : ~IsRed(t, t.child[c][x])
  PROVE  Passed(t, Redden(t, t.child[Other(s)][p]), M, sub, p)
<1> DEFINE o == Other(s)
           x == t.child[o][p]
           u == Redden(t, x)
           q == t.parent[p]
           e == SideOf(u, q, p)
           k == [h EXCEPT ![x] = h[x] - 1, ![p] = h[p] - 1]
<1>1. /\ Shape(t, M, sub) /\ p \in M /\ s \in Side /\ t.child[s][p] = n /\ ~IsRed(t, n)
      /\ h \in [Ptr -> Nat \ {0}] /\ h[NULL] = 1
      /\ \A y \in M, c \in Side : h[y] = h[t.child[c][y]] + Owed(p, s, y, c) + Black(t, y)
      /\ RedsApart(t, M, {}) /\ ~IsRed(t, t.root)
  BY DEF Lacks, Heights
<1>2. /\ x \in M /\ x # p /\ x # n /\ t.parent[x] = p /\ p # n
      /\ o \in Side /\ o # s /\ Other(o) = s /\ n \in Ptr
      /\ n # NULL => n \in M /\ t.parent[n] = p
      /\ h[n] \in Nat \ {0} /\ h[x] = h[n] + 1 /\ h[p] = h[n] + 1 + Black(t, p)
      /\ \A c \in Side : /\ h[x] = h[t.child[c][x]] + Black(t, x)
                         /\ h[t.child[c][x]] \in Nat \ {0}
                         /\ t.child[c][x] \in Ptr
                         /\ t.child[c][x] # NULL =>
                              /\ t.child[c][x] \in M /\ t.parent[t.child[c][x]] = x
                              /\ t.child[c][x] \notin {x, p, n, t.root}
  BY Sibling
<1>3. /\ t \in TreeType /\ M \subseteq Node /\ M \subseteq Ptr /\ NULL \notin M /\ x # NULL /\ p # NULL
      /\ t.root # NULL => t.root \in M /\ t.parent[t.root] = NULL
      /\ \A y \in M : t.parent[y] # NULL => t.parent[y] \in M
      /\ \A c \in Side : c = s \/ c = o
      /\ \A y \in M, c \in Side : /\ t.child[c][y] \in Ptr
                                  /\ t.child[c][y] # NULL => t.parent[t.child[c][y]] = y
  BY SMTT(30), <1>1, <1>2, ShapeTypes, Sides DEF Ptr
<1>4. ~t.red[x] /\ \A c \in Side : ~IsRed(t, t.child[c][x])
  OBVIOUS
<1>5. /\ u \in TreeType /\ u.root = t.root /\ u.child = t.child /\ u.parent = t.parent
      /\ u.red[x] /\ \A y \in M \ {x} : u.red[y] = t.red[y]
  BY <1>2, <1>3 DEF Redden, Paint, TreeType
<1>e. t.child[o][p] = x
  OBVIOUS
<1> HIDE DEF u, x, o
<1>6. Shape(u, M, sub)
  BY <1>1, <1>5, Recolour
<1>7. q # NULL => q \in M /\ e \in Side /\ t.child[e][q] = p /\ t.child[Other(e)][q] # p /\ q # p
  BY <1>1, <1>5, <1>6, ParentSide
<1> HIDE DEF e, q
<1>8. /\ k \in [Ptr -> Nat \ {0}] /\ k[x] = h[n] /\ k[p] = h[n] + Black(t, p)
      /\ \A y \in Ptr \ {x, p} : k[y] = h[y]
  <2>1. Black(t, p) \in Nat /\ x \in Ptr /\ p \in Ptr /\ h[x] - 1 = h[n] /\ h[p] - 1 = h[n] + Black(t, p)
    BY <1>1, <1>2, <1>3 DEF Black
  <2> QED  BY <1>1, <1>2, <2>1
<1> HIDE DEF k
<1>q. t.parent[p] = q
  BY DEF q
<1>9. ASSUME NEW y \in M, NEW c \in Side
      PROVE  k[y] = k[t.child[c][y]] + Owed(q, e, y, c) + Black(u, y)
  <2>1. /\ h[y] = h[t.child[c][y]] + Owed(p, s, y, c) + Black(t, y)
        /\ h[t.child[c][y]] \in Nat /\ t.child[c][y] \in Ptr
        /\ y \in Ptr
    BY <1>1, <1>3
  <2>2. CASE y = p
    <3>1. Owed(q, e, y, c) = 0 /\ Black(u, p) = Black(t, p) /\ Black(t, p) \in Nat
      BY <1>2, <1>3, <1>5, <1>7, <1>q, <2>2, <1>1 DEF Owed, Black
    <3>2. k[t.child[c][p]] = h[n]
      BY <1>1, <1>2, <1>3, <1>8, <1>e
    <3> QED  BY <1>2, <1>8, <2>2, <3>1, <3>2
  <2>3. CASE y = x
    <3>1. Owed(q, e, y, c) = 0
      <4>1. q # x
        <5>1. x \in sub[x] /\ p \notin sub[x]
          BY <1>1, <1>2, <1>e, Subtree
        <5>2. q = x => p \in sub[x]
          <6> SUFFICES ASSUME q = x PROVE p \in sub[x]
            OBVIOUS
          <6>1. e \in Side /\ t.child[e][x] = p
            BY <1>3, <1>7
          <6>2. p \in sub[p] /\ sub[p] \subseteq sub[x]
            BY <1>1, <1>2, <6>1, Subtree
          <6> QED  BY <6>2
        <5> QED  BY <5>1, <5>2
      <4> QED  BY <2>3, <4>1 DEF Owed
    <3>2. k[t.child[c][x]] = h[t.child[c][x]] /\ h[x] = h[t.child[c][x]] + 1
      BY <1>2, <1>3, <1>4, <1>8 DEF Black
    <3>3. Black(u, x) = 0
      BY <1>5 DEF Black
    <3> QED  BY <1>2, <1>8, <2>1, <2>3, <3>1, <3>2, <3>3
  <2>4. CASE y # p /\ y # x
    <3>1. Owed(p, s, y, c) = 0 /\ Black(u, y) = Black(t, y) /\ k[y] = h[y] /\ Black(t, y) \in Nat
      BY <1>5, <1>8, <2>1, <2>4 DEF Owed, Black
    <3>2. t.child[c][y] # x
      BY <1>2, <1>3, <2>4
    <3>3. CASE t.child[c][y] = p
      <4>1. y = q /\ c = e
        BY <1>3, <1>7, <1>q, <3>3, Sides
      <4>2. k[p] + 1 = h[p] /\ Owed(q, e, y, c) = 1
        BY <1>2, <1>8, <4>1 DEF Owed, Black
      <4> QED  BY <1>2, <1>8, <2>1, <3>1, <3>3, <4>2
    <3>4. CASE t.child[c][y] # p
      <4>1. Owed(q, e, y, c) = 0
        BY <1>3, <1>7, <3>4 DEF Owed
      <4> QED  BY <1>8, <2>1, <3>1, <3>2, <3>4, <4>1
    <3> QED  BY <3>3, <3>4
  <2> QED  BY <2>2, <2>3, <2>4
<1>10. \E kk : Heights(u, M, kk, q, e)
  <2>1. k[NULL] = 1
    BY <1>1, <1>3, <1>8 DEF Ptr
  <2> QED  BY <1>5, <1>8, <1>9, <2>1 DEF Heights
<1>11. RedsApart(u, M, {y \in M : p \in {y, t.parent[y]}})
  <2> SUFFICES ASSUME NEW y \in M, u.red[y], IsRed(u, u.parent[y]), y # p, t.parent[y] # p
               PROVE  FALSE
    BY DEF RedsApart
  <2>1. y # x /\ t.red[y] /\ t.parent[y] \in M /\ t.parent[y] # NULL
    BY <1>2, <1>3, <1>5 DEF IsRed
  <2>2. t.parent[y] # x
    <3> SUFFICES ASSUME t.parent[y] = x PROVE FALSE
      OBVIOUS
    <3>1. PICK c \in Side : t.child[c][x] = y
      BY <1>1, <2>1, ParentSide
    <3> QED  BY <1>4, <1>3, <2>1, <3>1 DEF IsRed
  <2>3. t.red[t.parent[y]]
    BY <1>5, <2>1, <2>2 DEF IsRed
  <2> QED  BY <1>1, <2>1, <2>3 DEF RedsApart, IsRed
<1>12. ~IsRed(u, u.root) /\ u.red[p] = t.red[p]
  BY <1>1, <1>2, <1>3, <1>5 DEF IsRed
<1>13. Passed(t, u, M, sub, p)
  BY <1>5, <1>6, <1>10, <1>11, <1>12 DEF e, q, Passed
<1> QED  BY <1>13 DEF u, x, o

\* A black sibling x whose near child m alone is red: m takes its place.
LEMMA NearRed ==
  ASSUME NEW t, NEW M, NEW sub, NEW h, NEW p, NEW s, NEW n, Lacks(t, M, sub, h, p, s, n),
         LET x == t.child[Other(s)][p]
         IN  ~t.red[x] /\ IsRed(t, t.child[s][x]) /\ ~IsRed(t, t.child[Other(s)][x])
  PROVE  LET o == Other(s)
             x == t.child[o][p]
             m == t.child[s][x]
             v == BlackRed(t, m, x)
             u == Rotate(v, x, o)
         IN  /\ \E w, k : Lacks(u, M, w, k, p, s, n)
             /\ u.child[o][p] = m /\ u.child[o][m] = x /\ ~u.red[m] /\ u.red[x]
<1> DEFINE o == Other(s)
           x == t.child[o][p]
           m == t.child[s][x]
           far == t.child[o][x]
           v == BlackRed(t, m, x)
           u == Rotate(v, x, o)
           inner == t.child[o][m]
           outer == t.child[s][m]
           w == SubRotated(v, sub, x, o)
<1>1. /\ Shape(t, M, sub) /\ p \in M /\ s \in Side /\ t.child[s][p] = n /\ ~IsRed(t, n)
      /\ h \in [Ptr -> Nat \ {0}] /\ h[NULL] = 1
      /\ \A y \in M, c \in Side : h[y] = h[t.child[c][y]] + Owed(p, s, y, c) + Black(t, y)
      /\ RedsApart(t, M, {}) /\ ~IsRed(t, t.root)
  BY DEF Lacks, Heights
<1>2. /\ x \in M /\ x # p /\ x # n /\ t.parent[x] = p /\ p # n
      /\ o \in Side /\ o # s /\ Other(o) = s /\ n \in Ptr
      /\ n # NULL => n \in M /\ t.parent[n] = p
      /\ h[n] \in Nat \ {0} /\ h[x] = h[n] + 1 /\ h[p] = h[n] + 1 + Black(t, p)
      /\ \A c \in Side : /\ h[x] = h[t.child[c][x]] + Black(t, x)
                         /\ h[t.child[c][x]] \in Nat \ {0}
                         /\ t.child[c][x] \in Ptr
                         /\ t.child[c][x] # NULL =>
                              /\ t.child[c][x] \in M /\ t.parent[t.child[c][x]] = x
                              /\ t.child[c][x] \notin {x, p, n, t.root}
  BY Sibling
<1>3. ~t.red[x] /\ m # NULL /\ t.red[m] /\ ~IsRed(t, far)
  BY DEF IsRed
<1>4. m \in M /\ t.parent[m] = x /\ m \notin {x, p, n, t.root}
  BY <1>1, <1>2, <1>3
<1>e. /\ o = Other(s) /\ x = t.child[o][p] /\ m = t.child[s][x] /\ far = t.child[o][x]
      /\ inner = t.child[o][m] /\ outer = t.child[s][m]
  OBVIOUS
<1> HIDE DEF x, o, m, far, inner, outer, v, u, w
<1>t. Shape(t, M, sub) /\ x \in M /\ m \in M /\ s \in Side /\ o \in Side
  BY <1>1, <1>2, <1>4
<1>5. /\ t \in TreeType /\ M \subseteq Node /\ NULL \notin M /\ x # NULL /\ p # NULL
      /\ t.root # NULL => t.root \in M /\ t.parent[t.root] = NULL
      /\ \A y \in M : t.parent[y] # NULL => t.parent[y] \in M
      /\ \A c \in Side : c = s \/ c = o
      /\ inner \in Ptr /\ outer \in Ptr /\ far \in Ptr
      /\ inner # NULL => inner \in M /\ t.parent[inner] = m
      /\ x # t.root
  <2>1. /\ t \in TreeType /\ M \subseteq Node /\ NULL \notin M
        /\ t.root # NULL => t.root \in M /\ t.parent[t.root] = NULL
        /\ \A y \in M : t.parent[y] # NULL => t.parent[y] \in M
    BY <1>1, ShapeTypes
  <2>2. \A c \in Side : c = s \/ c = o
    BY <1>1, <1>e, Sides
  <2>3. /\ inner \in Ptr /\ outer \in Ptr /\ far \in Ptr
        /\ inner # NULL => inner \in M /\ t.parent[inner] = m
    BY SMTT(30), <1>t, <1>e, ShapeTypes
  <2> QED  BY <1>1, <1>2, <2>1, <2>2, <2>3
<1>6. /\ Shape(v, M, sub) /\ v.root = t.root /\ v.child = t.child /\ v.parent = t.parent
      /\ ~v.red[m] /\ v.red[x] /\ \A z \in M \ {m, x} : v.red[z] = t.red[z]
  <2>1. m # x /\ m \in M /\ x \in M
    BY <1>2, <1>4
  <2> QED  BY <1>1, <2>1, PaintTwo DEF v
<1>7. /\ v.child[Other(o)][x] = m /\ v.child[o][m] = inner /\ v.child[o][x] = far
      /\ v.child[s][m] = outer /\ v.child[s][p] = n /\ v.child[o][p] = x
  BY <1>1, <1>2, <1>6, <1>e
<1>r. Shape(v, M, sub) /\ x \in M /\ o \in Side /\ v.child[Other(o)][x] # NULL
  BY <1>2, <1>3, <1>6, <1>7
<1>8. Shape(u, M, w)
  BY <1>r, RotateShape DEF u, w
<1>9. /\ u.root = (IF v.parent[x] = NULL THEN m ELSE v.root) /\ u.red = v.red
      /\ u.child[o][m] = x
      /\ \A c \in Side, y \in Node \ {x, m} :
           u.child[c][y] = IF v.child[c][y] = x THEN m ELSE v.child[c][y]
  BY SMTT(30), <1>r, <1>7, RotateFacts DEF u
<1>10. u.child[o][p] = m /\ u.child[s][p] = n /\ u.root = t.root
  BY <1>1, <1>2, <1>4, <1>5, <1>6, <1>7, <1>9
<1>i. inner # x /\ inner # m
  <2>1. sub[inner] \subseteq sub[m] /\ x \notin sub[m] /\ inner # m
        /\ (inner # NULL => inner \in sub[inner])
    <3>1. sub[inner] \subseteq sub[m] /\ x \notin sub[m]
      BY SMTT(30), <1>t, <1>e, Subtree
    <3>2. inner # NULL => inner # m
      BY <1>t, <1>e, Children
    <3>3. inner # NULL => inner \in sub[inner]
      BY <1>t, <1>5, Subtree
    <3> QED  BY <1>4, <1>5, <3>1, <3>2, <3>3
  <2> QED  BY <1>2, <1>5, <2>1
<1>11. h[far] = h[n] /\ h[m] = h[n] /\ h[inner] = h[n] /\ h[outer] = h[n] /\ ~IsRed(t, inner)
  <2>1. h[far] = h[n] /\ h[m] = h[n]
    <3>1. h[x] = h[far] + 1 /\ h[x] = h[m] + 1
      BY <1>t, <1>2, <1>3, <1>e DEF Black
    <3>2. h[far] \in Nat /\ h[m] \in Nat /\ h[n] \in Nat /\ h[x] = h[n] + 1
      BY <1>t, <1>2, <1>e
    <3> QED  BY <3>1, <3>2
  <2>2. h[m] = h[inner] + 0 + 0 /\ h[m] = h[outer] + 0 + 0
    BY <1>1, <1>2, <1>3, <1>4 DEF Black, Owed, inner, outer
  <2>3. h[inner] \in Nat /\ h[outer] \in Nat
    BY <1>1, <1>5
  <2>4. ~IsRed(t, inner)
    BY <1>1, <1>3, <1>4, <1>5 DEF RedsApart, IsRed
  <2> QED  BY <2>1, <2>2, <2>3, <2>4
<1>12. HeightsFor(v, M, h, p, s, x, o, h[n])
  <2>1. ASSUME NEW y \in M \ {x, m}, NEW c \in Side
        PROVE  h[y] = h[v.child[c][y]] + Owed(p, s, y, c) + Black(v, y)
    BY <1>1, <1>6 DEF Black
  <2>2. Black(v, x) = 0 /\ Black(v, m) = 1
    BY <1>6 DEF Black
  <2>3. /\ h[n] = h[far] + Owed(p, s, x, o) + Black(v, x)
        /\ h[n] = h[inner] + Owed(p, s, x, s) + Black(v, x)
        /\ h[x] = h[n] + Owed(p, s, m, o) + Black(v, m)
        /\ h[x] = h[outer] + Owed(p, s, m, s) + Black(v, m)
    BY <1>2, <1>4, <1>11, <2>2 DEF Owed
  <2>4. Other(o) = s /\ v.child[s][x] = m
    BY <1>2, <1>7
  <2> QED  BY <1>1, <1>2, <1>7, <2>1, <2>3, <2>4 DEF HeightsFor
<1>13. \E k : Heights(u, M, k, p, s)
  <2>1. Heights(Rotate(v, x, o), M, [h EXCEPT ![v.child[Other(o)][x]] = h[x], ![x] = h[n]], p, s)
    BY <1>2, <1>3, <1>6, <1>7, <1>12, RotateHeights
  <2> QED  BY <2>1 DEF u
<1>14. RedsApart(u, M, {})
  <2>1. ASSUME NEW y \in M \ {x, m, inner}, v.red[y], IsRed(v, v.parent[y])
        PROVE  FALSE
    <3>1. v.parent[y] = t.parent[y] /\ t.red[y] /\ t.parent[y] \in M /\ t.parent[y] # NULL
      BY <1>5, <1>6, <2>1 DEF IsRed
    <3>2. t.parent[y] # m
      BY <1>6, <2>1, <3>1 DEF IsRed
    <3>3. t.parent[y] # x
      <4> SUFFICES ASSUME t.parent[y] = x PROVE FALSE
        OBVIOUS
      <4>1. PICK c \in Side : t.child[c][x] = y
        BY <1>1, <3>1, ParentSide
      <4>2. y = far
        BY <1>5, <1>e, <2>1, <4>1 DEF far
      <4> QED  BY <1>3, <1>5, <3>1, <4>2 DEF IsRed
    <3>4. t.red[t.parent[y]]
      BY <1>6, <2>1, <3>1, <3>2, <3>3 DEF IsRed
    <3> QED  BY <1>1, <3>1, <3>4 DEF RedsApart, IsRed
  <2>2. ~IsRed(v, inner)
    BY <1>5, <1>6, <1>11, <1>i DEF IsRed
  <2> QED  BY <1>2, <1>3, <1>6, <1>7, <2>1, <2>2, RotateReds DEF u
<1>15. ~IsRed(u, n) /\ ~IsRed(u, u.root)
  BY <1>1, <1>2, <1>4, <1>5, <1>6, <1>9, <1>10 DEF IsRed
<1>16. \E ww, k : Lacks(u, M, ww, k, p, s, n)
  BY <1>1, <1>8, <1>10, <1>13, <1>14, <1>15 DEF Lacks
<1> QED  BY <1>6, <1>9, <1>10, <1>16 DEF u, v, m, x, o

\* The sibling x takes the colour of p; p and the far child f are made black.
Settled(t, x, p, f) == Paint(Paint(Paint(t, x, t.red[p]), p, FALSE), f, FALSE)

\* A black sibling x with a red far child f: a rotation supplies the node.
LEMMA FarRed ==
  ASSUME NEW t, NEW M, NEW sub, NEW h, NEW p, NEW s, NEW n, Lacks(t, M, sub, h, p, s, n),
         LET x == t.child[Other(s)][p]
         IN  ~t.red[x] /\ IsRed(t, t.child[Other(s)][x])
  PROVE  LET o == Other(s)
             x == t.child[o][p]
             v == Settled(t, x, p, t.child[o][x])
             u == Rotate(v, p, s)
         IN  /\ \E w : Shape(u, M, w)
             /\ \E k, e : Heights(u, M, k, NULL, e)
             /\ RedsApart(u, M, {}) /\ ~IsRed(u, u.root)
<1> DEFINE o == Other(s)
           x == t.child[o][p]
           f == t.child[o][x]
           inner == t.child[s][x]
           v == Settled(t, x, p, f)
           u == Rotate(v, p, s)
           w == SubRotated(v, sub, p, s)
           k == [h EXCEPT ![f] = h[f] + 1]
<1>1. /\ Shape(t, M, sub) /\ p \in M /\ s \in Side /\ t.child[s][p] = n /\ ~IsRed(t, n)
      /\ h \in [Ptr -> Nat \ {0}] /\ h[NULL] = 1
      /\ \A y \in M, c \in Side : h[y] = h[t.child[c][y]] + Owed(p, s, y, c) + Black(t, y)
      /\ RedsApart(t, M, {}) /\ ~IsRed(t, t.root)
  BY DEF Lacks, Heights
<1>2. /\ x \in M /\ x # p /\ x # n /\ t.parent[x] = p /\ p # n
      /\ o \in Side /\ o # s /\ Other(o) = s /\ n \in Ptr
      /\ n # NULL => n \in M /\ t.parent[n] = p
      /\ h[n] \in Nat \ {0} /\ h[x] = h[n] + 1 /\ h[p] = h[n] + 1 + Black(t, p)
      /\ \A c \in Side : /\ h[x] = h[t.child[c][x]] + Black(t, x)
                         /\ h[t.child[c][x]] \in Nat \ {0}
                         /\ t.child[c][x] \in Ptr
                         /\ t.child[c][x] # NULL =>
                              /\ t.child[c][x] \in M /\ t.parent[t.child[c][x]] = x
                              /\ t.child[c][x] \notin {x, p, n, t.root}
  BY Sibling
<1>3. ~t.red[x] /\ f # NULL /\ t.red[f]
  BY DEF IsRed
<1>e. o = Other(s) /\ x = t.child[o][p] /\ f = t.child[o][x] /\ inner = t.child[s][x]
  OBVIOUS
<1> HIDE DEF x, o, f, inner, v, u, w, k
<1>4. /\ f \in M /\ t.parent[f] = x /\ f \notin {x, p, n, t.root}
      /\ inner \in Ptr /\ (inner # NULL => inner \in M /\ t.parent[inner] = x /\ inner \notin {x, p})
      /\ h[f] = h[n] /\ h[inner] = h[n]
  <2>1. s \in Side
    BY <1>1
  <2>2. /\ f \in M /\ t.parent[f] = x /\ f \notin {x, p, n, t.root}
        /\ inner \in Ptr /\ (inner # NULL => inner \in M /\ t.parent[inner] = x /\ inner \notin {x, p})
    BY <1>2, <1>3, <1>e, <2>1
  <2>3. /\ h[x] = h[f] + Black(t, x) /\ h[x] = h[inner] + Black(t, x)
        /\ h[f] \in Nat /\ h[inner] \in Nat /\ h[n] \in Nat /\ h[x] = h[n] + 1
    BY <1>2, <1>e, <2>1
  <2>4. Black(t, x) = 1
    BY <1>3 DEF Black
  <2> QED  BY <2>2, <2>3, <2>4
<1>5. /\ t \in TreeType /\ M \subseteq Node /\ M \subseteq Ptr /\ NULL \notin M /\ x # NULL /\ p # NULL
      /\ t.root # NULL => t.root \in M /\ t.parent[t.root] = NULL
      /\ \A y \in M : t.parent[y] # NULL => t.parent[y] \in M
      /\ \A c \in Side : c = s \/ c = o
      /\ p = t.root <=> t.parent[p] = NULL
      /\ \A y \in M, c \in Side : /\ t.child[c][y] \in Ptr
                                  /\ t.child[c][y] # NULL => t.parent[t.child[c][y]] = y
      /\ x # t.root
  <2>1. /\ t \in TreeType /\ M \subseteq Node /\ M \subseteq Ptr /\ NULL \notin M
        /\ t.root # NULL => t.root \in M /\ t.parent[t.root] = NULL
        /\ \A y \in M : t.parent[y] # NULL => t.parent[y] \in M
        /\ p = t.root <=> t.parent[p] = NULL
        /\ \A y \in M, c \in Side : /\ t.child[c][y] \in Ptr
                                    /\ t.child[c][y] # NULL => t.parent[t.child[c][y]] = y
    BY <1>1, ShapeTypes DEF Ptr
  <2>2. \A c \in Side : c = s \/ c = o
    BY <1>1, <1>e, Sides
  <2> QED  BY <1>1, <1>2, <2>1, <2>2
<1>i. inner # f
  <2>0. Shape(t, M, sub) /\ x \in M /\ o \in Side
    BY <1>1, <1>2
  <2>4. f # NULL /\ f = t.child[o][x]
    BY <1>3, <1>e
  <2>1. Shape(t, M, sub) /\ x \in M /\ o \in Side /\ t.child[o][x] # NULL
    BY ONLY <2>0, <2>4
  <2>2. t.child[o][x] # t.child[Other(o)][x]
    BY ONLY <2>1, Children
  <2>3. Other(o) = s
    BY <1>2
  <2> QED  BY <1>e, <2>2, <2>3
<1>6. /\ v \in TreeType /\ v.root = t.root /\ v.child = t.child /\ v.parent = t.parent
      /\ v.red[x] = t.red[p] /\ ~v.red[p] /\ ~v.red[f]
      /\ \A y \in M \ {x, p, f} : v.red[y] = t.red[y]
  <2>1. t \in TreeType /\ x \in Node /\ p \in Node /\ f \in Node /\ M \subseteq Node
    BY <1>1, <1>2, <1>4, <1>5
  <2>2. x # p /\ f # x /\ f # p
    BY <1>2, <1>4
  <2> QED  BY <2>1, <2>2 DEF Settled, Paint, TreeType, v
<1>7. /\ Shape(v, M, sub)
      /\ v.child[Other(s)][p] = x /\ v.child[s][x] = inner /\ v.child[o][x] = f /\ v.child[s][p] = n
  BY <1>1, <1>6, <1>e, Recolour
<1>r. Shape(v, M, sub) /\ p \in M /\ s \in Side /\ v.child[Other(s)][p] # NULL
  BY <1>1, <1>5, <1>7
<1>8. Shape(u, M, w)
  BY <1>r, RotateShape DEF u, w
<1>9. u.root = (IF v.parent[p] = NULL THEN x ELSE v.root) /\ u.red = v.red
  BY <1>r, <1>7, RotateFacts DEF u
<1>10. /\ k \in [Ptr -> Nat \ {0}] /\ k[f] = h[n] + 1 /\ \A y \in Ptr \ {f} : k[y] = h[y]
       /\ k[NULL] = 1 /\ k[p] = h[p] /\ k[x] = h[x] /\ k[n] = h[n] /\ k[inner] = h[inner]
  <2>1. f \in Ptr /\ p \in Ptr /\ x \in Ptr /\ NULL \in Ptr
    BY <1>2, <1>4, <1>5 DEF Ptr
  <2>2. k \in [Ptr -> Nat \ {0}] /\ k[f] = h[n] + 1 /\ \A y \in Ptr \ {f} : k[y] = h[y]
    BY <1>1, <1>2, <1>4, <2>1 DEF k
  <2> QED  BY <1>1, <1>2, <1>3, <1>4, <1>i, <2>1, <2>2
<1>11. HeightsFor(v, M, k, NULL, s, p, s, h[n] + 1)
  <2>0. \A c : \A y \in M : Owed(NULL, s, y, c) = 0
    BY <1>5 DEF Owed
  <2>1. ASSUME NEW y \in M \ {p, x}, NEW c \in Side
        PROVE  k[y] = k[v.child[c][y]] + Owed(NULL, s, y, c) + Black(v, y)
    <3>1. /\ h[y] = h[t.child[c][y]] + 0 + Black(t, y) /\ v.child[c][y] = t.child[c][y]
          /\ t.child[c][y] \in Ptr /\ t.child[c][y] # f /\ h[t.child[c][y]] \in Nat
      BY <1>1, <1>3, <1>4, <1>5, <1>6 DEF Owed
    <3>2. k[t.child[c][y]] = h[t.child[c][y]]
      BY <1>10, <3>1
    <3>3. CASE y = f
      <4>1. Black(t, f) = 0 /\ Black(v, f) = 1
        BY <1>3, <1>6 DEF Black
      <4> QED  BY <1>2, <1>4, <1>10, <2>0, <3>1, <3>2, <3>3, <4>1
    <3>4. CASE y # f
      <4>1. Black(t, y) = Black(v, y) /\ Black(t, y) \in Nat
        BY <1>6, <3>4 DEF Black
      <4> QED  BY <1>5, <1>10, <2>0, <3>1, <3>2, <3>4, <4>1
    <3> QED  BY <3>3, <3>4
  <2>2. Black(v, p) = 1 /\ Black(v, x) = Black(t, p) /\ Black(t, p) \in Nat
    BY <1>6 DEF Black
  <2>3. /\ h[n] + 1 = k[n] + Owed(NULL, s, p, s) + Black(v, p)
        /\ h[n] + 1 = k[inner] + Owed(NULL, s, p, o) + Black(v, p)
        /\ k[p] = h[n] + 1 + Owed(NULL, s, x, s) + Black(v, x)
        /\ k[p] = k[f] + Owed(NULL, s, x, o) + Black(v, x)
    BY <1>1, <1>2, <1>4, <1>10, <2>0, <2>2
  <2>4. h[n] + 1 \in Nat \ {0}
    BY <1>2
  <2> QED  BY <1>7, <1>10, <2>1, <2>3, <2>4 DEF HeightsFor, o
<1>12. \E kk, e : Heights(u, M, kk, NULL, e)
  <2>1. Heights(Rotate(v, p, s), M, [k EXCEPT ![v.child[Other(s)][p]] = k[p], ![p] = h[n] + 1], NULL, s)
    BY <1>1, <1>5, <1>7, <1>11, RotateHeights
  <2> QED  BY <2>1 DEF u
<1>13. RedsApart(u, M, {})
  <2>1. ASSUME NEW y \in M \ {p, x, inner}, v.red[y], IsRed(v, v.parent[y])
        PROVE  FALSE
    <3>1. v.parent[y] = t.parent[y] /\ y # f /\ t.red[y] /\ t.parent[y] \in M /\ t.parent[y] # NULL
      BY <1>5, <1>6, <2>1 DEF IsRed
    <3>2. t.parent[y] # p /\ t.parent[y] # f
      BY <1>6, <2>1, <3>1 DEF IsRed
    <3>3. t.parent[y] # x
      <4> SUFFICES ASSUME t.parent[y] = x PROVE FALSE
        OBVIOUS
      <4>1. PICK c \in Side : t.child[c][x] = y
        BY <1>1, <3>1, ParentSide
      <4> QED  BY <1>5, <1>e, <2>1, <3>1, <4>1
    <3>4. t.red[t.parent[y]]
      BY <1>6, <2>1, <3>1, <3>2, <3>3 DEF IsRed
    <3> QED  BY <1>1, <3>1, <3>4 DEF RedsApart, IsRed
  <2>2. ~(v.red[x] /\ IsRed(v, v.parent[p]))
    <3> SUFFICES ASSUME t.red[p], IsRed(v, t.parent[p]) PROVE FALSE
      BY <1>6
    <3>1. t.parent[p] # NULL /\ t.parent[p] \in M /\ t.parent[p] # f /\ t.parent[p] # p
      BY <1>1, <1>5, <1>6 DEF IsRed
    <3>2. t.parent[p] # x
      BY SMTT(30), <1>1, <1>5, <1>7, RotateDistinct, <1>6
    <3> QED  BY <1>1, <1>6, <3>1, <3>2 DEF RedsApart, IsRed
  <2> QED  BY <1>1, <1>5, <1>6, <1>7, <2>1, <2>2, RotateReds DEF u
<1>14. ~IsRed(u, u.root)
  <2>1. CASE p = t.root
    BY <1>1, <1>5, <1>6, <1>9, <2>1 DEF IsRed
  <2>2. CASE p # t.root
    BY <1>1, <1>4, <1>5, <1>6, <1>9, <2>2 DEF IsRed
  <2> QED  BY <2>1, <2>2
<1> QED  BY <1>8, <1>12, <1>13, <1>14 DEF u, v, f, x, o

\* The invariant after a step that leaves a removal running.
LEMMA Erasing ==
  ASSUME pc' = "erase_color", node' \in Ptr, parent' \in Ptr,
         NEW w, Shape(tree', member', w),
         \E k : Heights(tree', member', k, parent', SideOf(tree', parent', node')),
         RedsApart(tree', member', {y \in member' : node' \in {y, tree'.parent[y]}}),
         parent' = NULL => node' = tree'.root,
         parent' # NULL => /\ parent' \in member'
                           /\ tree'.child[SideOf(tree', parent', node')][parent'] = node',
         node' # NULL => node' \in member' /\ tree'.parent[node'] = parent',
         IsRed(tree', tree'.root) => node' = tree'.root
  PROVE  IInv'
<1>1. Owing' = parent' /\ Excused' = {y \in member' : node' \in {y, tree'.parent[y]}}
  BY DEF Owing, Excused
<1>2. (\E h : Heights(tree, member, h, Owing, SideOf(tree, Owing, node)))'
  BY <1>1
<1>3. Cursor'
  BY DEF Cursor
<1>4. RedsApart(tree, member, Excused)'
  BY <1>1
<1>5. (\E s : Shape(tree, member, s))'
  OBVIOUS
<1> QED  BY <1>2, <1>3, <1>4, <1>5 DEF IInv

\* The sibling as it is once it is black.
LEMMA SiblingIsBlack ==
  ASSUME NEW t, NEW M, NEW sub, NEW h, NEW p, NEW s, NEW n, Lacks(t, M, sub, h, p, s, n)
  PROVE  LET o == Other(s)
             u == BlackSibling(t, p, s)
         IN  /\ ~u.red[u.child[o][p]]
             /\ \/ u = t /\ ~t.red[t.child[o][p]]
                \/ \E w, k : Lacks(u, M, w, k, p, s, n) /\ u.red[p] /\ u.parent[p] = t.child[o][p]
                             /\ w = SubRotated(t, sub, p, s)
<1> DEFINE o == Other(s)
           x == t.child[o][p]
           v == BlackRed(t, x, p)
           r == Rotate(v, p, s)
<1>1. CASE ~t.red[x]
  <2>1. BlackSibling(t, p, s) = t
    BY <1>1 DEF BlackSibling
  <2> QED  BY <1>1, <2>1
<1>2. CASE t.red[x]
  <2>1. BlackSibling(t, p, s) = r
    BY <1>2 DEF BlackSibling, BlackRed
  <2>2. /\ \E k : Lacks(r, M, SubRotated(v, sub, p, s), k, p, s, n)
        /\ ~r.red[r.child[o][p]] /\ r.red[p] /\ r.parent[p] = x /\ v.child = t.child
    BY <1>2, RedSibling
  <2>3. SubRotated(v, sub, p, s) = SubRotated(t, sub, p, s)
    BY <2>2 DEF SubRotated
  <2> HIDE DEF r, v, x, o
  <2> QED  BY <2>1, <2>2, <2>3 DEF x, o
<1> QED  BY <1>1, <1>2

\* The far child as it is once it is red.
LEMMA FarIsRed ==
  ASSUME NEW t, NEW M, NEW sub, NEW h, NEW p, NEW s, NEW n, Lacks(t, M, sub, h, p, s, n),
         LET x == t.child[Other(s)][p]
         IN  ~t.red[x] /\ \E c \in Side : IsRed(t, t.child[c][x])
  PROVE  LET o == Other(s)
             u == RedFarChild(t, t.child[o][p], s)
             x == u.child[o][p]
         IN  /\ \E w, k : Lacks(u, M, w, k, p, s, n)
             /\ ~u.red[x] /\ IsRed(u, u.child[o][x])
<1> DEFINE o == Other(s)
           x == t.child[o][p]
           m == t.child[s][x]
           v == BlackRed(t, m, x)
           r == Rotate(v, x, o)
           u == RedFarChild(t, x, s)
<1>1. CASE IsRed(t, t.child[o][x])
  <2>1. u = t
    BY <1>1 DEF RedFarChild
  <2> QED  BY <1>1, <2>1
<1>2. CASE ~IsRed(t, t.child[o][x])
  <2>1. u = r
    BY <1>2 DEF RedFarChild, BlackRed
  <2>2. s \in Side
    BY DEF Lacks
  <2>3. IsRed(t, t.child[s][x])
    BY <1>2, <2>2, Sides
  <2>4. /\ \E w, k : Lacks(r, M, w, k, p, s, n)
        /\ r.child[o][p] = m /\ r.child[o][m] = x /\ ~r.red[m] /\ r.red[x]
    BY <1>2, <2>3, NearRed
  <2>5. x # NULL
    <3>1. x \in M
      BY Sibling
    <3>2. NULL \notin M
      BY ShapeTypes DEF Lacks
    <3> QED  BY <3>1, <3>2
  <2> HIDE DEF r, v, x, o, m
  <2> QED  BY <2>1, <2>4, <2>5 DEF IsRed, x, o
<1> QED  BY <1>1, <1>2

\* The last rotation ends the call.
LEMMA Settling ==
  ASSUME NEW t, NEW sub, NEW h, NEW p, NEW s, NEW n, Lacks(t, member, sub, h, p, s, n),
         LET x == t.child[Other(s)][p]
         IN  /\ ~t.red[x] /\ IsRed(t, t.child[Other(s)][x])
             /\ LET u == Rotate(Settled(t, x, p, t.child[Other(s)][x]), p, s)
                IN  tree' = Blacken(u, u.root),
         pc' = "idle", node' = NULL, parent' = NULL, member' = member
  PROVE  IInv'
<1> DEFINE x == t.child[Other(s)][p]
           u == Rotate(Settled(t, x, p, t.child[Other(s)][x]), p, s)
<1>1. /\ \E w : Shape(u, member, w)
      /\ \E k, e : Heights(u, member, k, NULL, e)
      /\ RedsApart(u, member, {}) /\ ~IsRed(u, u.root)
  BY FarRed
<1>2. tree' = Blacken(u, u.root) /\ p \in member
  BY DEF Lacks
<1> HIDE DEF u, x
<1>3. PICK w : Shape(u, member, w)
  BY <1>1
<1>4. PICK k, e : Heights(u, member, k, NULL, e)
  BY <1>1
<1>5. u.root \in member
  BY <1>2, <1>3, RootAll
<1>6. RedsApart(u, member, {y \in member : u.root \in {y, u.parent[y]}})
  BY <1>1 DEF RedsApart
<1>7. /\ Shape(tree', member, w) /\ tree'.child = u.child /\ ~tree'.red[u.root]
      /\ \A y \in member \ {u.root} : tree'.red[y] = u.red[y]
      /\ RedsApart(tree', member, {}) /\ ~IsRed(tree', tree'.root)
  BY <1>2, <1>3, <1>5, <1>6, Blackening
<1>8. \E kk : Heights(tree', member, kk, NULL, e)
  BY <1>3, <1>4, <1>5, <1>7, BlackenRoot
<1> QED  BY <1>7, <1>8, Idle

\* Recolouring the sibling passes the debt to the parent.
LEMMA Passing ==
  ASSUME NEW t, NEW sub, NEW h, NEW p, NEW s, NEW n, Lacks(t, member, sub, h, p, s, n),
         LET x == t.child[Other(s)][p]
         IN  /\ ~t.red[x] /\ \A c \in Side : ~IsRed(t, t.child[c][x])
             /\ tree' = Redden(t, x),
         pc' = "erase_color", node' = p, parent' = t.parent[p], member' = member
  PROVE  IInv' /\ Shape(tree', member, sub) /\ tree'.red[p] = t.red[p]
<1> DEFINE q == t.parent[p]
           e == SideOf(tree', q, p)
<1> DEFINE x == t.child[Other(s)][p]
           u == Redden(t, x)
<1>0. Passed(t, u, member, sub, p)
  BY EraseRecolour
<1>a. tree' = u
  OBVIOUS
<1> HIDE DEF u
<1>1. /\ Shape(tree', member, sub) /\ tree'.root = t.root /\ tree'.child = t.child
      /\ tree'.parent = t.parent
      /\ \E k : Heights(tree', member, k, q, e)
      /\ RedsApart(tree', member, {y \in member : p \in {y, t.parent[y]}})
      /\ ~IsRed(tree', tree'.root) /\ tree'.red[p] = t.red[p]
  BY <1>0, <1>a DEF Passed
<1>2. Shape(t, member, sub) /\ p \in member
  BY DEF Lacks
<1>3. /\ p \in Ptr /\ q \in Ptr /\ p # NULL /\ (q = NULL => p = t.root)
      /\ q # NULL => q \in member
  BY <1>2, ShapeTypes DEF Ptr
<1>4. q # NULL => tree'.child[e][q] = p
  BY SMTT(30), <1>1, <1>2, ParentSide
<1> HIDE DEF e, q
<1>5. parent' = q /\ e = SideOf(tree', parent', node') /\ tree'.parent[p] = q
  BY <1>1 DEF e, q
<1> QED  BY <1>1, <1>2, <1>3, <1>4, <1>5, Erasing

\* A turn of __rb_erase_color keeps the invariant, and if the call goes on the
\* cursor moves to the parent: in the same tree, or in one where the parent is
\* one level lower and red.
LEMMA EraseTurnStep ==
  ASSUME IInv, EraseTurn, NEW sub, Shape(tree, member, sub)
  PROVE  LET s == SideOf(tree, parent, node)
         IN  /\ IInv' /\ member' = member
             /\ \/ pc' = "idle"
                \/ pc' = "erase_color" /\ node' = parent /\ Shape(tree', member, sub)
                \/ /\ pc' = "erase_color" /\ node' = parent /\ tree'.red[parent]
                   /\ Shape(tree', member, SubRotated(tree, sub, parent, s))
<1> DEFINE s     == SideOf(tree, parent, node)
           o     == Other(s)
           t1    == BlackSibling(tree, parent, s)
           other == t1.child[o][parent]
           t2    == RedFarChild(t1, other, s)
           last  == t2.child[o][parent]
           f     == t2.child[o][last]
           t4    == Rotate(Settled(t2, last, parent, f), parent, s)
<1>1. pc = "erase_color" /\ Lacking /\ member' = member
  BY DEF EraseTurn
<1>2. PICK h : Lacks(tree, member, sub, h, parent, s, node)
  BY <1>1, EraseFacts
<1>3. /\ ~t1.red[other]
      /\ \/ t1 = tree
         \/ \E w, k : /\ Lacks(t1, member, w, k, parent, s, node) /\ t1.red[parent]
                      /\ w = SubRotated(tree, sub, parent, s)
  BY <1>2, SiblingIsBlack
<1> DEFINE Kept(w) == \/ w = sub
                      \/ t1.red[parent] /\ w = SubRotated(tree, sub, parent, s)
<1>4. PICK w, k : Lacks(t1, member, w, k, parent, s, node) /\ Kept(w)
  <2> HIDE DEF t1, s
  <2>1. CASE t1 = tree
    <3>1. Lacks(t1, member, sub, h, parent, s, node)
      BY <1>2, <2>1
    <3>2. Kept(sub)
      OBVIOUS
    <3> HIDE DEF Kept
    <3> QED  BY <3>1, <3>2
  <2>2. CASE t1 # tree
    <3>1. PICK w, k : /\ Lacks(t1, member, w, k, parent, s, node) /\ t1.red[parent]
                      /\ w = SubRotated(tree, sub, parent, s)
      BY <1>3, <2>2
    <3>2. Kept(w)
      BY <3>1
    <3> HIDE DEF Kept
    <3> QED  BY <3>1, <3>2
  <2> QED  BY <2>1, <2>2
<1>5. CASE \A c \in Side : ~IsRed(t1, t1.child[c][other])
  <2>1. /\ tree' = Redden(t1, other)
        /\ node' = parent /\ parent' = t1.parent[parent] /\ pc' = pc
    BY <1>5 DEF EraseTurn, Redden
  <2> HIDE DEF t1, s
  <2>2. IInv' /\ Shape(tree', member, w) /\ tree'.red[parent] = t1.red[parent]
    BY <1>1, <1>3, <1>4, <1>5, <2>1, Passing
  <2> QED  BY <1>1, <1>4, <2>1, <2>2 DEF s
<1>6. CASE ~(\A c \in Side : ~IsRed(t1, t1.child[c][other]))
  <2>1. /\ tree' = Blacken(t4, t4.root)
        /\ pc' = "idle" /\ node' = NULL /\ parent' = NULL
    BY <1>6 DEF EraseTurn, Settled, Blacken
  <2>2. \E c \in Side : IsRed(t1, t1.child[c][other])
    BY <1>6
  <2>l. other = t1.child[Other(s)][parent] /\ t2 = RedFarChild(t1, t1.child[Other(s)][parent], s)
    OBVIOUS
  <2> HIDE DEF t1, s
  <2>3. /\ \E ww, kk : Lacks(t2, member, ww, kk, parent, s, node)
        /\ ~t2.red[last] /\ IsRed(t2, f)
    BY <1>3, <1>4, <2>2, FarIsRed
  <2>4. PICK ww, kk : Lacks(t2, member, ww, kk, parent, s, node)
    BY <2>3
  <2> HIDE DEF t2
  <2>5. IInv'
    BY <1>1, <2>1, <2>3, <2>4, Settling
  <2> QED  BY <1>1, <2>1, <2>5
<1> QED  BY <1>5, <1>6

-----------------------------------------------------------------------------
(* Linking a node.                                                         *)

\* A forgotten node has no pointers and is red.
LEMMA ForgetIs ==
  ASSUME NEW t \in TreeType, NEW n \in Node
  PROVE  LET u == Forget(t, n)
         IN  /\ u \in TreeType /\ u.root = t.root
             /\ \A c \in Side, x \in Node :
                  u.child[c][x] = IF x = n THEN NULL ELSE t.child[c][x]
             /\ \A x \in Node : u.parent[x] = IF x = n THEN NULL ELSE t.parent[x]
             /\ \A x \in Node : x # n => u.red[x] = t.red[x]
             /\ u.red[n]
<1> DEFINE u == Forget(t, n)
<1>1. NULL \in Ptr /\ "left" \in Side /\ "right" \in Side
  BY DEF Ptr, Side
<1>2. u \in TreeType /\ u.root = t.root
  BY <1>1 DEF Forget, TreeType
<1>3. /\ \A x \in Node : u.parent[x] = IF x = n THEN NULL ELSE t.parent[x]
      /\ \A x \in Node : x # n => u.red[x] = t.red[x]
      /\ u.red[n]
  BY DEF Forget, TreeType
<1>4. \A c \in Side, x \in Node : u.child[c][x] = IF x = n THEN NULL ELSE t.child[c][x]
  BY DEF Forget, TreeType, Side
<1> QED  BY <1>2, <1>3, <1>4

\* The side of p that n sorts to.
Toward(n, p) == IF n < p THEN "left" ELSE "right"

\* The descent ends at a place n sorts to.
PlaceFor(t, M, sub, n, x, p, s) ==
  /\ p \in sub[x] /\ s \in Side /\ t.child[s][p] = NULL /\ Beyond(s, n, p)
  /\ \A y \in sub[x], c \in Side : p \in sub[t.child[c][y]] => Beyond(c, n, y)

\* The search for the place of a new node ends at one.
LEMMA DescendIs ==
  ASSUME NEW sub, Shape(tree, member, sub), NEW n \in Node \ member, tree.root # NULL
  PROVE  \E p, s : Descend(n) = <<p, s>> /\ PlaceFor(tree, member, sub, n, tree.root, p, s)
<1> DEFINE next == [p \in Node |-> tree.child[Toward(n, p)][p]]
           val  == [p \in Node |-> <<p, Toward(n, p)>>]
           rank == [p \in Node |-> Cardinality(sub[p])]
           Eq(g) == g = [p \in Node |->
                      LET s == IF n < p THEN "left" ELSE "right"
                      IN  IF tree.child[s][p] = NULL THEN <<p, s>> ELSE g[tree.child[s][p]]]
           down == CHOOSE g : Eq(g)
<1>1. Descend(n) = down[tree.root]
  BY DEF Descend
<1>t. /\ \A p \in Node : Toward(n, p) \in Side
      /\ tree \in TreeType /\ member \subseteq Node /\ NULL \notin Node
  BY ShapeTypes, NullNotNode DEF Toward, Side
<1>2. /\ next \in [Node -> Node \cup {NULL}]
      /\ rank \in [Node -> 0 .. Cardinality(Node)] /\ Cardinality(Node) \in Nat
      /\ \A p \in Node : next[p] # NULL => rank[next[p]] < rank[p]
  <2>1. next \in [Node -> Node \cup {NULL}]
    BY <1>t DEF TreeType, Ptr
  <2>2. rank \in [Node -> 0 .. Cardinality(Node)] /\ Cardinality(Node) \in Nat
    BY Sizes DEF Ptr
  <2>3. ASSUME NEW p \in Node, next[p] # NULL PROVE rank[next[p]] < rank[p]
    <3>1. p \in member
      BY <1>t, <2>3 DEF Shape
    <3>2. next[p] \in Node
      BY <2>1, <2>3
    <3> QED  BY <1>t, <3>1, <3>2, Sizes
  <2> QED  BY <2>1, <2>2, <2>3
<1> HIDE DEF next, rank
<1>3. \E g : g = [p \in Node |-> IF next[p] = NULL THEN val[p] ELSE g[next[p]]]
  <2> HIDE DEF val
  <2> QED  BY <1>2, <1>t, TailRecursion
<1>4. ASSUME NEW g
      PROVE  [p \in Node |-> IF next[p] = NULL THEN val[p] ELSE g[next[p]]]
             = [p \in Node |->
                  LET s == IF n < p THEN "left" ELSE "right"
                  IN  IF tree.child[s][p] = NULL THEN <<p, s>> ELSE g[tree.child[s][p]]]
  BY DEF next, Toward
<1>5. Eq(down)
  <2>1. PICK g : g = [p \in Node |-> IF next[p] = NULL THEN val[p] ELSE g[next[p]]]
    BY <1>3
  <2>2. Eq(g)
    BY <1>4, <2>1
  <2> HIDE DEF Eq
  <2> QED  BY <2>2
<1>6. \A p \in Node : down[p] = LET s == Toward(n, p)
                                IN  IF tree.child[s][p] = NULL THEN <<p, s>>
                                    ELSE down[tree.child[s][p]]
  BY <1>5 DEF Toward
<1> HIDE DEF down, val
<1> DEFINE G == {x \in member : \E p, s : down[x] = <<p, s>> /\ PlaceFor(tree, member, sub, n, x, p, s)}
<1>7. ASSUME NEW x \in member, \A s \in Side : tree.child[s][x] # NULL => tree.child[s][x] \in G
      PROVE  x \in G
  <2> DEFINE s == Toward(n, x)
             d == tree.child[s][x]
  <2>1. s \in Side /\ x \in Node /\ Other(s) \in Side /\ Other(s) # s
    BY <1>t, Sides
  <2>2. Beyond(s, n, x)
    <3>1. n # x /\ n \in Int /\ x \in Int
      BY <2>1, RbAssumption
    <3> QED  BY <3>1 DEF Toward, Beyond
  <2>e. d = tree.child[s][x]
    OBVIOUS
  <2>f. down[x] = IF d = NULL THEN <<x, s>> ELSE down[d]
    BY <1>6, <2>1
  <2> HIDE DEF s, d
  <2>3. /\ x \in sub[x] /\ x \notin sub[d] /\ x \notin sub[tree.child[Other(s)][x]]
        /\ sub[d] \subseteq sub[x] /\ sub[d] \cap sub[tree.child[Other(s)][x]] = {}
        /\ sub[x] = {x} \cup sub[d] \cup sub[tree.child[Other(s)][x]]
    BY <2>1, <2>e, Subtree
  <2>4. ASSUME NEW c \in Side, NEW y \in sub[tree.child[c][x]], NEW b \in Side
        PROVE  y \in member /\ sub[tree.child[b][y]] \subseteq sub[tree.child[c][x]]
    <3>1. tree.child[c][x] # NULL /\ tree.child[c][x] \in member
      BY <2>4, ShapeTypes DEF Shape
    <3>2. y \in member /\ sub[y] \subseteq sub[tree.child[c][x]]
      BY <3>1, Closed
    <3>3. sub[tree.child[b][y]] \subseteq sub[y]
      BY <3>2, Subtree
    <3> QED  BY <3>2, <3>3
  <2>5. CASE d = NULL
    <3>1. ASSUME NEW y \in sub[x], NEW c \in Side, x \in sub[tree.child[c][y]]
          PROVE  Beyond(c, n, y)
      <4>1. CASE y = x
        BY <2>1, <3>1, <4>1, Subtree
      <4>2. CASE y \in sub[d]
        BY <2>1, <2>3, <2>4, <2>e, <3>1, <4>2
      <4>3. CASE y \in sub[tree.child[Other(s)][x]]
        BY <2>1, <2>3, <2>4, <3>1, <4>3
      <4> QED  BY <2>3, <4>1, <4>2, <4>3
    <3>2. PlaceFor(tree, member, sub, n, x, x, s)
      BY <2>1, <2>2, <2>3, <2>5, <2>e, <3>1 DEF PlaceFor
    <3> QED  BY <2>5, <2>f, <3>2
  <2>6. CASE d # NULL
    <3>1. PICK p, b : down[d] = <<p, b>> /\ PlaceFor(tree, member, sub, n, d, p, b)
      BY <1>7, <2>1, <2>6, <2>e
    <3>2. /\ p \in sub[d] /\ b \in Side /\ tree.child[b][p] = NULL /\ Beyond(b, n, p)
          /\ \A y \in sub[d], c \in Side : p \in sub[tree.child[c][y]] => Beyond(c, n, y)
      BY <3>1 DEF PlaceFor
    <3>3. ASSUME NEW y \in sub[x], NEW c \in Side, p \in sub[tree.child[c][y]]
          PROVE  Beyond(c, n, y)
      <4>1. CASE y = x
        <5>1. c = s
          BY <2>1, <2>3, <2>e, <3>2, <3>3, <4>1, Sides
        <5> QED  BY <2>2, <4>1, <5>1
      <4>2. CASE y \in sub[d]
        BY <3>2, <3>3, <4>2
      <4>3. CASE y \in sub[tree.child[Other(s)][x]]
        BY <2>1, <2>3, <2>4, <3>2, <3>3, <4>3
      <4> QED  BY <2>3, <4>1, <4>2, <4>3
    <3>4. PlaceFor(tree, member, sub, n, x, p, b)
      BY <2>3, <3>2, <3>3 DEF PlaceFor
    <3> QED  BY <2>6, <2>f, <3>1, <3>4
  <2> QED  BY <2>5, <2>6
<1> HIDE DEF G
<1>8. \A x \in member : x \in G
  BY <1>7, FromBelow
<1>9. tree.root \in member
  BY ShapeTypes
<1> QED  BY <1>1, <1>8, <1>9 DEF G

\* u is t with n under p, on side s.
Linked(t, u, n, p, s) ==
  /\ u \in TreeType /\ u.root = t.root
  /\ \A c \in Side, x \in Node :
       u.child[c][x] = IF x = n THEN NULL ELSE IF c = s /\ x = p THEN n ELSE t.child[c][x]
  /\ \A x \in Node : u.parent[x] = IF x = n THEN p ELSE t.parent[x]
  /\ \A x \in Node : x # n => u.red[x] = t.red[x]
  /\ u.red[n]

\* Linking a node at its place keeps links, order and membership.
LEMMA LinkShape ==
  ASSUME NEW t, NEW M, NEW sub, Shape(t, M, sub), NEW n \in Node \ M, NEW p, NEW s,
         t.root # NULL, PlaceFor(t, M, sub, n, t.root, p, s), NEW u, Linked(t, u, n, p, s)
  PROVE  \E w : Shape(u, M \cup {n}, w)
<1> DEFINE N == M \cup {n}
           w == [x \in Ptr |-> IF x = n THEN {n}
                               ELSE IF p \in sub[x] THEN sub[x] \cup {n} ELSE sub[x]]
<1>1. /\ t \in TreeType /\ M \subseteq Node /\ NULL \notin Node /\ NULL \notin M
      /\ sub \in [Ptr -> SUBSET Node] /\ sub[NULL] = {}
      /\ t.root \in M /\ sub[t.root] = M /\ t.parent[t.root] = NULL
      /\ \A x \in M, c \in Side : /\ t.child[c][x] \in Ptr
                                  /\ t.child[c][x] # NULL =>
                                       t.child[c][x] \in M /\ t.parent[t.child[c][x]] = x
      /\ \A x \in Node \ M : t.parent[x] = NULL /\ \A c \in Side : t.child[c][x] = NULL
  <2>1. /\ t \in TreeType /\ M \subseteq Node /\ NULL \notin Node /\ NULL \notin M
        /\ sub \in [Ptr -> SUBSET Node] /\ t.root \in M /\ t.parent[t.root] = NULL
        /\ \A x \in M, c \in Side : /\ t.child[c][x] \in Ptr
                                    /\ t.child[c][x] # NULL =>
                                         t.child[c][x] \in M /\ t.parent[t.child[c][x]] = x
    BY ShapeTypes, NullNotNode
  <2>2. /\ sub[NULL] = {} /\ sub[t.root] = M
        /\ \A x \in Node \ M : t.parent[x] = NULL /\ \A c \in Side : t.child[c][x] = NULL
    BY DEF Shape
  <2> QED  BY <2>1, <2>2
<1>2. /\ p \in M /\ s \in Side /\ t.child[s][p] = NULL /\ Beyond(s, n, p)
      /\ \A y \in M, c \in Side : p \in sub[t.child[c][y]] => Beyond(c, n, y)
  BY <1>1 DEF PlaceFor
<1>3. /\ u \in TreeType /\ u.root = t.root
      /\ \A c \in Side, x \in Node :
           u.child[c][x] = IF x = n THEN NULL ELSE IF c = s /\ x = p THEN n ELSE t.child[c][x]
      /\ \A x \in Node : u.parent[x] = IF x = n THEN p ELSE t.parent[x]
  BY DEF Linked
<1>4. /\ w \in [Ptr -> SUBSET Node] /\ w[n] = {n} /\ w[NULL] = {}
      /\ \A x \in Ptr : x # n => w[x] = IF p \in sub[x] THEN sub[x] \cup {n} ELSE sub[x]
  BY <1>1 DEF Ptr
<1> HIDE DEF w
<1>5. w[t.root] = N /\ t.root # n
  BY <1>1, <1>2, <1>4 DEF Ptr
<1>6. ASSUME NEW x \in M, NEW c \in Side
      PROVE  /\ w[x] = {x} \cup w[u.child[c][x]] \cup w[u.child[Other(c)][x]]
             /\ \A m \in w[u.child[c][x]] : Beyond(c, m, x)
             /\ u.child[c][x] # NULL => u.child[c][x] \in N /\ u.parent[u.child[c][x]] = x
  <2>0. x \in Node /\ x # n /\ x \in Ptr /\ Other(c) \in Side /\ Other(c) # c
        /\ \A e \in Side : e = c \/ e = Other(c)
    BY <1>1, Sides DEF Ptr
  <2>1. /\ sub[x] = {x} \cup sub[t.child[c][x]] \cup sub[t.child[Other(c)][x]]
        /\ \A e \in Side : \A m \in sub[t.child[e][x]] : Beyond(e, m, x)
    BY <2>0 DEF Shape
  <2>2. ASSUME NEW e \in Side, ~(e = s /\ x = p)
        PROVE  /\ u.child[e][x] = t.child[e][x] /\ t.child[e][x] # n
               /\ w[u.child[e][x]] = (IF p \in sub[t.child[e][x]]
                                     THEN sub[t.child[e][x]] \cup {n} ELSE sub[t.child[e][x]])
               /\ \A m \in w[u.child[e][x]] : Beyond(e, m, x)
               /\ u.child[e][x] # NULL => u.child[e][x] \in N /\ u.parent[u.child[e][x]] = x
    <3>1. u.child[e][x] = t.child[e][x] /\ t.child[e][x] # n /\ t.child[e][x] \in Ptr
      BY <1>1, <1>3, <2>0, <2>2
    <3>2. w[u.child[e][x]] = (IF p \in sub[t.child[e][x]]
                             THEN sub[t.child[e][x]] \cup {n} ELSE sub[t.child[e][x]])
      BY <1>4, <3>1
    <3>3. \A m \in w[u.child[e][x]] : Beyond(e, m, x)
      BY <1>2, <2>1, <3>2
    <3>4. u.child[e][x] # NULL => u.child[e][x] \in N /\ u.parent[u.child[e][x]] = x
      BY <1>1, <1>3, <2>0, <3>1
    <3> QED  BY <3>1, <3>2, <3>3, <3>4
  <2>3. CASE x = p
    <3>1. /\ u.child[s][x] = n /\ w[n] = {n} /\ n # NULL /\ u.parent[n] = x
          /\ sub[t.child[s][x]] = {} /\ Other(s) \in Side /\ Other(s) # s
      BY <1>1, <1>2, <1>3, <1>4, <2>0, <2>3, Sides
    <3>2. p \notin sub[t.child[Other(s)][x]] /\ p \in sub[x]
      BY <1>2, <2>3, <3>1, Subtree
    <3>3. w[x] = sub[x] \cup {n}
      BY <1>4, <2>0, <3>2
    <3>4. \A m \in w[u.child[s][x]] : Beyond(s, m, x)
      BY <1>2, <2>3, <3>1
    <3>5. w[u.child[Other(s)][x]] = sub[t.child[Other(s)][x]]
      BY <2>2, <3>1, <3>2
    <3>6. CASE c = s
      BY <2>1, <3>1, <3>3, <3>4, <3>5, <3>6
    <3>7. CASE c = Other(s)
      <4>1. Other(c) = s
        BY <1>2, <3>7, Sides
      <4> QED  BY <2>1, <2>2, <3>1, <3>3, <3>5, <3>7, <4>1
    <3> QED  BY <1>2, <3>6, <3>7, Sides
  <2>4. CASE x # p
    <3>1. p \in sub[x] <=> p \in sub[t.child[c][x]] \/ p \in sub[t.child[Other(c)][x]]
      BY <2>1, <2>4
    <3>2. w[x] = IF p \in sub[x] THEN sub[x] \cup {n} ELSE sub[x]
      BY <1>4, <2>0
    <3>3. /\ w[u.child[c][x]] = (IF p \in sub[t.child[c][x]]
                                THEN sub[t.child[c][x]] \cup {n} ELSE sub[t.child[c][x]])
          /\ w[u.child[Other(c)][x]] = (IF p \in sub[t.child[Other(c)][x]]
                                       THEN sub[t.child[Other(c)][x]] \cup {n}
                                       ELSE sub[t.child[Other(c)][x]])
      BY <2>0, <2>2, <2>4
    <3>4. w[x] = {x} \cup w[u.child[c][x]] \cup w[u.child[Other(c)][x]]
      BY <2>1, <3>1, <3>2, <3>3
    <3> QED  BY <2>2, <2>4, <3>4
  <2> QED  BY <2>3, <2>4
<1>7. ASSUME NEW c \in Side
      PROVE  /\ w[n] = {n} \cup w[u.child[c][n]] \cup w[u.child[Other(c)][n]]
             /\ u.child[c][n] = NULL /\ w[u.child[c][n]] = {}
  <2>1. Other(c) \in Side
    BY Sides
  <2> QED  BY <1>3, <1>4, <2>1
<1>8. ASSUME NEW x \in N, x # t.root
      PROVE  u.parent[x] \in N /\ \E c \in Side : u.child[c][u.parent[x]] = x
  <2>1. CASE x = n
    BY <1>1, <1>2, <1>3, <2>1
  <2>2. CASE x # n
    <3>1. x \in M /\ x \in Node
      BY <1>1, <2>2
    <3>2. t.parent[x] \in M
      BY <1>8, <3>1 DEF Shape
    <3>3. PICK c \in Side : t.child[c][t.parent[x]] = x
      BY <1>8, <3>1 DEF Shape
    <3>4. u.parent[x] = t.parent[x] /\ u.child[c][t.parent[x]] = x
      BY <1>1, <1>2, <1>3, <2>2, <3>1, <3>2, <3>3
    <3> QED  BY <3>2, <3>4
  <2> QED  BY <2>1, <2>2
<1>9. \A x \in Node \ N : u.parent[x] = NULL /\ \A c \in Side : u.child[c][x] = NULL
  BY <1>1, <1>2, <1>3
<1>10. u.parent[u.root] = NULL
  BY <1>1, <1>3, <1>5
<1>11. \A x \in N, c \in Side :
             /\ w[x] = {x} \cup w[u.child[c][x]] \cup w[u.child[Other(c)][x]]
             /\ \A m \in w[u.child[c][x]] : Beyond(c, m, x)
             /\ u.child[c][x] # NULL => u.child[c][x] \in N /\ u.parent[u.child[c][x]] = x
  BY <1>6, <1>7
<1>12. /\ u \in TreeType /\ N \subseteq Node /\ w \in [Ptr -> SUBSET Node] /\ u.root \in N
       /\ w[NULL] = {} /\ w[u.root] = N
  BY <1>1, <1>3, <1>4, <1>5
<1>13. \A x \in N : x # u.root => u.parent[x] \in N /\ \E c \in Side : u.child[c][u.parent[x]] = x
  BY <1>3, <1>8
<1> HIDE DEF N
<1>14. Shape(u, N, w)
  BY <1>9, <1>10, <1>11, <1>12, <1>13 DEF Shape
<1> QED  BY <1>14 DEF N

\* The linked node is red, so heights stay, and only it can be red under red.
LEMMA LinkColours ==
  ASSUME NEW t, NEW M, NEW sub, Shape(t, M, sub), NEW n \in Node \ M, NEW p \in M, NEW s \in Side,
         t.child[s][p] = NULL, NEW u, Linked(t, u, n, p, s),
         NEW h, NEW d, Heights(t, M, h, NULL, d), RedsApart(t, M, {}), ~IsRed(t, t.root)
  PROVE  /\ \E k : Heights(u, M \cup {n}, k, NULL, d)
         /\ RedsApart(u, M \cup {n}, {n}) /\ ~IsRed(u, u.root)
<1> DEFINE N == M \cup {n}
           k == [h EXCEPT ![n] = 1]
<1>1. /\ M \subseteq Node /\ NULL \notin Node
      /\ \A x \in M, c \in Side : /\ t.child[c][x] \in Ptr
                                  /\ t.child[c][x] # NULL => t.child[c][x] \in M
      /\ \A x \in M : t.parent[x] \in Ptr /\ (t.parent[x] # NULL => t.parent[x] \in M)
      /\ t.root # NULL => t.root \in M
  BY ShapeTypes, NullNotNode
<1>2. /\ u.root = t.root
      /\ \A c \in Side, x \in Node :
           u.child[c][x] = IF x = n THEN NULL ELSE IF c = s /\ x = p THEN n ELSE t.child[c][x]
      /\ \A x \in Node : u.parent[x] = IF x = n THEN p ELSE t.parent[x]
      /\ \A x \in Node : x # n => u.red[x] = t.red[x]
      /\ u.red[n]
  BY DEF Linked
<1>3. /\ \A x \in M, c \in Side : h[x] = h[t.child[c][x]] + Black(t, x)
      /\ h \in [Ptr -> Nat \ {0}] /\ h[NULL] = 1
  <2>1. \A x \in M, c \in Side : h[x] = h[t.child[c][x]] + Black(t, x)
    BY NothingOwed
  <2> QED  BY <2>1 DEF Heights
<1>4. k \in [Ptr -> Nat \ {0}] /\ k[n] = 1 /\ \A x \in Ptr : x # n => k[x] = h[x]
  BY <1>3 DEF Ptr
<1> HIDE DEF k
<1>5. \A x \in N, c \in Side : Owed(NULL, d, x, c) = 0
  BY <1>1 DEF Owed
<1>6. k[NULL] = 1
  BY <1>1, <1>3, <1>4 DEF Ptr
<1>7. ASSUME NEW x \in N, NEW c \in Side
      PROVE  k[x] = k[u.child[c][x]] + Owed(NULL, d, x, c) + Black(u, x)
  <2>1. CASE x = n
    <3>1. u.child[c][x] = NULL /\ Black(u, x) = 0
      BY <1>2, <2>1 DEF Black
    <3> QED  BY <1>4, <1>5, <1>6, <2>1, <3>1
  <2>2. CASE x # n
    <3>1. /\ x \in M /\ x \in Node /\ x \in Ptr /\ Black(u, x) = Black(t, x)
          /\ h[t.child[c][x]] \in Nat /\ Black(t, x) \in Nat
      BY <1>1, <1>2, <1>3, <2>2 DEF Black, Ptr
    <3>2. k[u.child[c][x]] = h[t.child[c][x]]
      BY <1>1, <1>2, <1>3, <1>4, <3>1
    <3>3. k[x] = h[x] /\ h[x] = h[t.child[c][x]] + Black(t, x)
      BY <1>3, <1>4, <2>2, <3>1
    <3> QED  BY <1>5, <3>1, <3>2, <3>3
  <2> QED  BY <2>1, <2>2
<1>8. \E kk : Heights(u, N, kk, NULL, d)
  BY <1>4, <1>6, <1>7 DEF Heights
<1>9. ASSUME NEW x \in M, u.red[x], IsRed(u, u.parent[x]) PROVE FALSE
  BY <1>1, <1>2, <1>9 DEF RedsApart, IsRed
<1>10. RedsApart(u, N, {n})
  BY <1>9 DEF RedsApart
<1>11. ~IsRed(u, u.root)
  BY <1>1, <1>2 DEF IsRed
<1> QED  BY <1>8, <1>10, <1>11

\* The first node of a tree.
LEMMA LinkFirst ==
  ASSUME NEW t \in TreeType, NEW n \in Node, t.root = NULL,
         \A x \in Node : t.parent[x] = NULL /\ \A c \in Side : t.child[c][x] = NULL
  PROVE  LET u == [Forget(t, n) EXCEPT !.root = n]
         IN  /\ \E w : Shape(u, {n}, w)
             /\ \E k, d : Heights(u, {n}, k, NULL, d)
             /\ u.red[n] /\ u.root = n
<1> DEFINE v == Forget(t, n)
           u == [v EXCEPT !.root = n]
           w == [x \in Ptr |-> IF x = n THEN {n} ELSE {}]
           k == [x \in Ptr |-> 1]
<1>1. /\ v \in TreeType
      /\ \A c \in Side, x \in Node : v.child[c][x] = IF x = n THEN NULL ELSE t.child[c][x]
      /\ \A x \in Node : v.parent[x] = IF x = n THEN NULL ELSE t.parent[x]
      /\ v.red[n]
  BY ForgetIs
<1> HIDE DEF v
<1>2. u \in TreeType /\ u.root = n /\ u.child = v.child /\ u.parent = v.parent /\ u.red = v.red
  BY <1>1 DEF TreeType, Ptr
<1> HIDE DEF u
<1>3. \A x \in Node : u.parent[x] = NULL /\ \A c \in Side : u.child[c][x] = NULL
  BY <1>1, <1>2
<1>4. w \in [Ptr -> SUBSET Node] /\ w[n] = {n} /\ w[NULL] = {} /\ NULL # n
  BY NullNotNode DEF Ptr
<1>5. \A c \in Side : Other(c) \in Side
  BY Sides
<1> HIDE DEF w
<1>6. Shape(u, {n}, w)
  BY <1>2, <1>3, <1>4, <1>5 DEF Shape
<1>7. Heights(u, {n}, k, NULL, "left")
  <2>1. k \in [Ptr -> Nat \ {0}] /\ k[NULL] = 1 /\ k[n] = 1
    BY DEF Ptr
  <2> HIDE DEF k
  <2>2. Black(u, n) = 0
    BY <1>1, <1>2 DEF Black
  <2>3. ASSUME NEW c \in Side PROVE k[n] = k[u.child[c][n]] + Owed(NULL, "left", n, c) + Black(u, n)
    BY <1>3, <1>4, <2>1, <2>2 DEF Owed
  <2> QED  BY <2>1, <2>3 DEF Heights
<1> QED  BY <1>1, <1>2, <1>6, <1>7 DEF u, v

\* A new node n comes into the tree.
Linking(n) ==
  /\ pc = "idle" /\ n \notin member
  /\ pc' = "insert_color" /\ node' = n /\ member' = member \cup {n} /\ parent' = parent

\* A first node becomes the root.
LEMMA LinkRootStep ==
  ASSUME IInv, NEW n \in Node, Linking(n), tree.root = NULL,
         tree' = [Forget(tree, n) EXCEPT !.root = n]
  PROVE  IInv'
<1>c1. /\ pc = "idle" /\ n \notin member
       /\ pc' = "insert_color" /\ node' = n /\ member' = member \cup {n} /\ parent' = parent
  BY DEF Linking
<1>c3. PICK h, d : Heights(tree, member, h, NULL, d)
  BY <1>c1 DEF IInv, Owing
<1>c4. parent = NULL /\ ~IsRed(tree, tree.root) /\ RedsApart(tree, member, {})
  BY <1>c1 DEF IInv, Cursor, Excused
<1>c2. PICK sub : Shape(tree, member, sub)
  BY DEF IInv
<1>c5. tree \in TreeType /\ member \subseteq Node /\ NULL \notin Node
  BY <1>c2, ShapeTypes, NullNotNode
<1>1. member = {}
  BY <1>c2, RootAll
<1>2. \A x \in Node : tree.parent[x] = NULL /\ \A c \in Side : tree.child[c][x] = NULL
  BY <1>c2, <1>1 DEF Shape
<1>3. /\ \E w : Shape(tree', {n}, w)
      /\ \E k, e : Heights(tree', {n}, k, NULL, e)
      /\ tree'.red[n] /\ tree'.root = n
  <2> DEFINE u == [Forget(tree, n) EXCEPT !.root = n]
  <2>1. /\ \E w : Shape(u, {n}, w)
        /\ \E k, e : Heights(u, {n}, k, NULL, e)
        /\ u.red[n] /\ u.root = n
    BY <1>c5, <1>2, LinkFirst
  <2>2. tree' = u
    BY <1>c1
  <2> HIDE DEF u
  <2> QED  BY ONLY <2>1, <2>2
<1>4. member' = {n}
  BY <1>c1, <1>1
<1>5. RedsApart(tree', {n}, {n})
  BY DEF RedsApart
<1>6. PICK w : Shape(tree', member', w)
  BY <1>3, <1>4
<1>7. \E k, e : Heights(tree', member', k, NULL, e)
  BY <1>3, <1>4
<1>8. /\ pc' = "insert_color" /\ node' \in member' /\ tree'.red[node'] /\ parent' = NULL
      /\ RedsApart(tree', member', {node'}) /\ node' = tree'.root
  BY <1>c1, <1>c4, <1>3, <1>4, <1>5
<1> QED  BY ONLY <1>6, <1>7, <1>8, Inserting

\* A node that is linked at a place it sorts to, wherever that place comes from.
LEMMA LinkPlaceStep ==
  ASSUME IInv, NEW n \in Node, Linking(n), tree.root # NULL,
         NEW sub, Shape(tree, member, sub), NEW p, NEW s,
         PlaceFor(tree, member, sub, n, tree.root, p, s),
         tree' = SetParent(SetChild(Forget(tree, n), s, p, n), n, p)
  PROVE  IInv'
<1>c1. /\ pc = "idle" /\ n \notin member
       /\ pc' = "insert_color" /\ node' = n /\ member' = member \cup {n} /\ parent' = parent
  BY DEF Linking
<1>c3. PICK h, d : Heights(tree, member, h, NULL, d)
  BY <1>c1 DEF IInv, Owing
<1>c4. parent = NULL /\ ~IsRed(tree, tree.root) /\ RedsApart(tree, member, {})
  BY <1>c1 DEF IInv, Cursor, Excused
<1>c2. Shape(tree, member, sub)
  OBVIOUS
<1>c5. tree \in TreeType /\ member \subseteq Node /\ NULL \notin Node
  BY <1>c2, ShapeTypes, NullNotNode
<1>1. PlaceFor(tree, member, sub, n, tree.root, p, s)
  OBVIOUS
<1>2. p \in member /\ s \in Side /\ tree.child[s][p] = NULL
  BY <1>c2, <1>1, RootAll DEF PlaceFor
<1> DEFINE v == Forget(tree, n)
           r == SetChild(v, s, p, n)
<1>3. tree' = SetParent(r, n, p)
  BY <1>c1, <1>1
<1>4. /\ v \in TreeType /\ v.root = tree.root
      /\ \A c \in Side, x \in Node : v.child[c][x] = IF x = n THEN NULL ELSE tree.child[c][x]
      /\ \A x \in Node : v.parent[x] = IF x = n THEN NULL ELSE tree.parent[x]
      /\ \A x \in Node : x # n => v.red[x] = tree.red[x]
      /\ v.red[n]
  BY <1>c5, ForgetIs
<1>5. p \in Node /\ n \in Ptr /\ p \in Ptr /\ p # n
  BY <1>c1, <1>c5, <1>2 DEF Ptr
<1>t. v \in TreeType
  BY <1>4
<1> HIDE DEF v
<1>6. /\ r \in TreeType /\ r.root = v.root /\ r.parent = v.parent /\ r.red = v.red
      /\ \A c \in Side, x \in Node : r.child[c][x] = IF c = s /\ x = p THEN n ELSE v.child[c][x]
  BY <1>2, <1>5, <1>t, SetChildIs
<1>r. r \in TreeType
  BY <1>6
<1> HIDE DEF r
<1>7. /\ tree' \in TreeType
      /\ tree'.root = r.root /\ tree'.child = r.child /\ tree'.red = r.red
      /\ \A x \in Node : tree'.parent[x] = IF x = n THEN p ELSE r.parent[x]
  BY <1>3, <1>5, <1>r, SetParentIs
<1>8. Linked(tree, tree', n, p, s)
  BY <1>4, <1>5, <1>6, <1>7 DEF Linked
<1>9. n \in Node \ member
  BY <1>c1
<1>10. \E w : Shape(tree', member', w)
  BY <1>c1, <1>c2, <1>1, <1>8, <1>9, LinkShape
<1>11. /\ \E k : Heights(tree', member', k, NULL, d)
       /\ RedsApart(tree', member', {n}) /\ ~IsRed(tree', tree'.root)
  BY <1>c1, <1>c2, <1>c3, <1>c4, <1>2, <1>8, <1>9, LinkColours
<1>12. tree'.red[n] /\ n \in member'
  BY <1>c1, <1>8 DEF Linked
<1> QED  BY <1>c1, <1>c4, <1>10, <1>11, <1>12, Inserting

\* rb_link_node keeps the inductive invariant.
LEMMA LinkStep ==
  ASSUME IInv, NEW n \in Node, rb_link_node(n)
  PROVE  IInv'
<1>1. /\ Linking(n)
      /\ tree.root = NULL => tree' = [Forget(tree, n) EXCEPT !.root = n]
      /\ tree.root # NULL =>
           tree' = SetParent(SetChild(Forget(tree, n), Descend(n)[2], Descend(n)[1], n),
                             n, Descend(n)[1])
  BY DEF rb_link_node, Linking
<1>2. PICK sub : Shape(tree, member, sub)
  BY DEF IInv
<1>3. CASE tree.root = NULL
  BY <1>1, <1>3, LinkRootStep
<1>4. CASE tree.root # NULL
  <2>1. PICK p, s : Descend(n) = <<p, s>> /\ PlaceFor(tree, member, sub, n, tree.root, p, s)
    BY <1>1, <1>2, <1>4, DescendIs DEF Linking
  <2>2. tree' = SetParent(SetChild(Forget(tree, n), s, p, n), n, p)
    BY <1>1, <1>4, <2>1
  <2> QED  BY <1>1, <1>2, <1>4, <2>1, <2>2, LinkPlaceStep
<1> QED  BY <1>3, <1>4

-----------------------------------------------------------------------------
(* A node takes another's place.                                           *)

\* u is t with new where old was.
Renamed(t, u, old, new) ==
  /\ u \in TreeType
  /\ u.root = IF t.root = old THEN new ELSE t.root
  /\ \A c \in Side, x \in Node :
       u.child[c][x] = IF x = old THEN NULL ELSE IF x = new THEN t.child[c][old]
                       ELSE IF t.child[c][x] = old THEN new ELSE t.child[c][x]
  /\ \A x \in Node :
       u.parent[x] = IF x = old THEN NULL ELSE IF x = new THEN t.parent[old]
                     ELSE IF t.parent[x] = old THEN new ELSE t.parent[x]
  /\ u.red[new] = t.red[old] /\ \A x \in Node \ {old, new} : u.red[x] = t.red[x]

\* The pointer to old becomes one to new, and back.
Fwd(old, new, x) == IF x = old THEN new ELSE x
Bwd(old, new, x) == IF x = new THEN old ELSE x

\* Pointers of the new tree in terms of those of the old one.
LEMMA RenameLinks ==
  ASSUME NEW t, NEW M, NEW sub, Shape(t, M, sub), NEW old \in M, NEW new \in Node \ M,
         NEW u, Renamed(t, u, old, new), NEW x \in (M \ {old}) \cup {new}
  PROVE  LET y == Bwd(old, new, x)
             N == (M \ {old}) \cup {new}
         IN  /\ y \in M /\ x = Fwd(old, new, y) /\ x \in Node
             /\ \A c \in Side : /\ u.child[c][x] = Fwd(old, new, t.child[c][y])
                                /\ t.child[c][y] \in Ptr /\ t.child[c][y] # new
                                /\ u.child[c][x] # NULL =>
                                     u.child[c][x] \in N /\ u.parent[u.child[c][x]] = x
             /\ u.parent[x] = Fwd(old, new, t.parent[y])
             /\ t.parent[y] \in Ptr /\ t.parent[y] # new
             /\ u.red[x] = t.red[y] /\ Black(u, x) = Black(t, y)
             /\ x = u.root <=> y = t.root
<1> DEFINE y == Bwd(old, new, x)
           N == (M \ {old}) \cup {new}
<1>1. /\ u \in TreeType
      /\ u.root = IF t.root = old THEN new ELSE t.root
      /\ \A c \in Side, z \in Node :
           u.child[c][z] = IF z = old THEN NULL ELSE IF z = new THEN t.child[c][old]
                           ELSE IF t.child[c][z] = old THEN new ELSE t.child[c][z]
      /\ \A z \in Node :
           u.parent[z] = IF z = old THEN NULL ELSE IF z = new THEN t.parent[old]
                         ELSE IF t.parent[z] = old THEN new ELSE t.parent[z]
      /\ u.red[new] = t.red[old] /\ \A z \in Node \ {old, new} : u.red[z] = t.red[z]
  BY DEF Renamed
<1>2. /\ M \subseteq Node /\ NULL \notin Node /\ old \in Node /\ old # new
      /\ \A z \in M, c \in Side : /\ t.child[c][z] \in Ptr
                                  /\ t.child[c][z] # NULL =>
                                       t.child[c][z] \in M /\ t.parent[t.child[c][z]] = z
      /\ \A z \in M : t.parent[z] \in Ptr /\ (t.parent[z] # NULL => t.parent[z] \in M)
      /\ t.root # NULL => t.root \in M
  BY ShapeTypes, NullNotNode
<1>3. y \in M /\ x = Fwd(old, new, y) /\ x \in Node /\ x # old
  BY <1>2 DEF Bwd, Fwd
<1>4. /\ \A c \in Side : t.child[c][old] # old /\ (t.child[c][old] # NULL => t.child[c][old] \in M)
      /\ t.parent[old] # old
  <2>1. \A c \in Side : t.child[c][old] # old
    BY <1>2, Children
  <2>2. t.parent[old] # old
    BY <1>2, ParentSide
  <2> QED  BY <1>2, <2>1, <2>2
<1>5. u.parent[x] = Fwd(old, new, t.parent[y])
  BY <1>1, <1>2, <1>3, <1>4 DEF Fwd, Bwd
<1>6. ASSUME NEW c \in Side PROVE u.child[c][x] = Fwd(old, new, t.child[c][y])
  BY <1>1, <1>2, <1>3, <1>4 DEF Fwd, Bwd
<1>7. t.parent[y] \in Ptr /\ t.parent[y] # new
  BY <1>2, <1>3
<1>8. u.red[x] = t.red[y]
  BY <1>1, <1>2, <1>3 DEF Bwd
<1>9. x = u.root <=> y = t.root
  BY <1>1, <1>2, <1>3 DEF Bwd
<1>10. ASSUME NEW c \in Side
       PROVE  /\ t.child[c][y] \in Ptr /\ t.child[c][y] # new
              /\ u.child[c][x] # NULL => u.child[c][x] \in N /\ u.parent[u.child[c][x]] = x
  <2>1. t.child[c][y] \in Ptr /\ t.child[c][y] # new
    BY <1>2, <1>3
  <2>2. ASSUME u.child[c][x] # NULL PROVE u.child[c][x] \in N /\ u.parent[u.child[c][x]] = x
    <3> DEFINE z == t.child[c][y]
    <3>1. z # NULL /\ z \in M /\ t.parent[z] = y /\ u.child[c][x] = Fwd(old, new, z)
      BY <1>2, <1>3, <1>6, <2>2 DEF Fwd
    <3> HIDE DEF z, y
    <3>2. u.parent[Fwd(old, new, z)] = Fwd(old, new, y)
      BY <1>1, <1>2, <1>3, <1>4, <3>1 DEF Fwd
    <3> QED  BY <1>2, <1>3, <3>1, <3>2 DEF Fwd
  <2> QED  BY <2>1, <2>2
<1>11. Black(u, x) = Black(t, y)
  BY <1>8 DEF Black
<1> QED  BY <1>3, <1>5, <1>6, <1>7, <1>8, <1>9, <1>10, <1>11

\* A set of nodes with new for old.
Swap(S, old, new) == IF old \in S THEN (S \ {old}) \cup {new} ELSE S

\* A node that sorts where old did takes its place.
LEMMA RenameShape ==
  ASSUME NEW t, NEW M, NEW sub, Shape(t, M, sub), NEW old \in M, NEW new \in Node \ M,
         NEW u, Renamed(t, u, old, new),
         \A m \in M \ {old}, c \in Side : Beyond(c, m, old) <=> Beyond(c, m, new)
  PROVE  \E w : Shape(u, (M \ {old}) \cup {new}, w)
<1> DEFINE N == (M \ {old}) \cup {new}
           w == [x \in Ptr |-> Swap(sub[Bwd(old, new, x)], old, new)]
<1>1. /\ t \in TreeType /\ M \subseteq Node /\ NULL \notin Node /\ old \in Node /\ old # new
      /\ sub \in [Ptr -> SUBSET Node] /\ old \in Ptr /\ new \in Ptr /\ NULL \in Ptr
      /\ t.root \in Ptr /\ (t.root # NULL => t.root \in M /\ t.parent[t.root] = NULL)
  BY ShapeTypes, NullNotNode DEF Ptr
<1>2. /\ sub[NULL] = {} /\ sub[t.root] = M
      /\ \A x \in Node \ M : t.parent[x] = NULL /\ \A c \in Side : t.child[c][x] = NULL
      /\ \A z \in M, c \in Side : \A m \in sub[t.child[c][z]] : Beyond(c, m, z)
      /\ \A z \in M, c \in Side : sub[z] = {z} \cup sub[t.child[c][z]] \cup sub[t.child[Other(c)][z]]
      /\ \A z \in M : z # t.root => /\ t.parent[z] \in M
                                    /\ \E c \in Side : t.child[c][t.parent[z]] = z
  BY DEF Shape
<1>s. \A x \in M : sub[x] \subseteq M
  BY Closed
<1>3. /\ w \in [Ptr -> SUBSET Node]
      /\ \A y \in Ptr : y # new => w[Fwd(old, new, y)] = Swap(sub[y], old, new)
  <2>1. \A x \in Ptr : Bwd(old, new, x) \in Ptr /\ Fwd(old, new, x) \in Ptr
    BY <1>1 DEF Bwd, Fwd
  <2>2. \A S \in SUBSET Node : Swap(S, old, new) \in SUBSET Node
    BY <1>1 DEF Swap
  <2>3. \A y \in Ptr : y # new => Bwd(old, new, Fwd(old, new, y)) = y
    BY <1>1 DEF Bwd, Fwd
  <2> QED  BY <1>1, <2>1, <2>2, <2>3
<1> HIDE DEF w
<1>4. w[NULL] = {} /\ w[u.root] = N /\ u.root \in N /\ u.parent[u.root] = NULL /\ u \in TreeType
  <2>0. t.root # NULL /\ t.root \in M
    BY <1>1, RootAll
  <2>1. w[NULL] = {}
    <3>1. NULL # new /\ Fwd(old, new, NULL) = NULL
      BY <1>1 DEF Fwd
    <3> QED  BY <1>1, <1>2, <1>3, <3>1 DEF Swap
  <2>2. u.root = Fwd(old, new, t.root) /\ t.root # new /\ u \in TreeType
    BY <1>1, <2>0 DEF Renamed, Fwd
  <2>3. w[u.root] = N
    <3>1. w[u.root] = Swap(M, old, new)
      BY <1>1, <1>2, <1>3, <2>2
    <3> QED  BY <3>1 DEF Swap
  <2>4. u.root \in N
    BY <1>1, <2>0, <2>2 DEF Fwd
  <2>5. Bwd(old, new, u.root) = t.root
    BY <1>1, <2>2 DEF Fwd, Bwd
  <2>6. u.parent[u.root] = Fwd(old, new, t.parent[t.root])
    BY <2>4, <2>5, RenameLinks
  <2>7. u.parent[u.root] = NULL
    BY <1>1, <2>0, <2>6 DEF Fwd
  <2> QED  BY <2>1, <2>2, <2>3, <2>4, <2>7
<1>5. ASSUME NEW x \in N, NEW c \in Side
      PROVE  /\ w[x] = {x} \cup w[u.child[c][x]] \cup w[u.child[Other(c)][x]]
             /\ \A m \in w[u.child[c][x]] : Beyond(c, m, x)
             /\ u.child[c][x] # NULL => u.child[c][x] \in N /\ u.parent[u.child[c][x]] = x
  <2> DEFINE y == Bwd(old, new, x)
             o == Other(c)
             a == t.child[c][y]
             b == t.child[o][y]
  <2>0. o \in Side /\ Other(o) = c
    BY Sides
  <2>1. /\ y \in M /\ x = Fwd(old, new, y) /\ x \in Node
        /\ \A e \in Side : /\ u.child[e][x] = Fwd(old, new, t.child[e][y])
                           /\ t.child[e][y] \in Ptr /\ t.child[e][y] # new
                           /\ u.child[e][x] # NULL =>
                                u.child[e][x] \in N /\ u.parent[u.child[e][x]] = x
    BY RenameLinks
  <2>2. /\ w[x] = Swap(sub[y], old, new)
        /\ w[u.child[c][x]] = Swap(sub[a], old, new)
        /\ w[u.child[o][x]] = Swap(sub[b], old, new)
    <3>1. y \in Ptr /\ y # new
      BY <1>1, <2>1 DEF Ptr
    <3> QED  BY <1>3, <2>0, <2>1, <3>1
  <2>3. sub[y] = {y} \cup sub[a] \cup sub[b] /\ y \notin sub[a] /\ y \notin sub[b]
        /\ sub[a] \subseteq sub[y] /\ sub[b] \subseteq sub[y]
    BY <2>0, <2>1, Subtree
  <2>4. sub[y] \subseteq M /\ new \notin sub[y]
    BY <1>s, <2>1
  <2>5. \A m \in sub[a] : Beyond(c, m, y)
    BY <1>2, <2>1
  <2> HIDE DEF y, a, b, o
  <2>6. w[x] = {x} \cup w[u.child[c][x]] \cup w[u.child[o][x]]
    <3>1. CASE y = old
      BY <2>1, <2>2, <2>3, <3>1 DEF Swap, Fwd
    <3>2. CASE y # old
      <4>1. x = y
        BY <2>1, <3>2 DEF Fwd
      <4> QED  BY <2>2, <2>3, <3>2, <4>1 DEF Swap
    <3> QED  BY <3>1, <3>2
  <2>7. ASSUME NEW m \in w[u.child[c][x]] PROVE Beyond(c, m, x)
    <3>1. CASE m = new
      <4>1. old \in sub[a] /\ y # old /\ x = y
        BY <2>1, <2>2, <2>3, <2>4, <2>7, <3>1 DEF Swap, Fwd
      <4>2. Beyond(c, old, y)
        BY <2>5, <4>1
      <4>3. Beyond(o, y, old)
        BY <1>1, <2>0, <2>1, <4>1, <4>2, Order DEF o
      <4>4. Beyond(o, y, new)
        BY <2>0, <2>1, <4>1, <4>3
      <4>5. Beyond(c, new, y)
        BY <1>1, <2>0, <2>1, <4>1, <4>4, Order DEF o
      <4> QED  BY <3>1, <4>1, <4>5
    <3>2. CASE m # new
      <4>1. m \in sub[a] /\ m # old
        BY <2>2, <2>7, <3>2, <1>1 DEF Swap
      <4>2. Beyond(c, m, y) /\ m \in M
        BY <2>3, <2>4, <2>5, <4>1
      <4>3. CASE y = old
        BY <2>1, <4>1, <4>2, <4>3 DEF Fwd
      <4>4. CASE y # old
        BY <2>1, <4>2, <4>4 DEF Fwd
      <4> QED  BY <4>3, <4>4
    <3> QED  BY <3>1, <3>2
  <2> QED  BY <2>1, <2>6, <2>7 DEF o
<1>6. ASSUME NEW x \in N, x # u.root
      PROVE  u.parent[x] \in N /\ \E c \in Side : u.child[c][u.parent[x]] = x
  <2> DEFINE y == Bwd(old, new, x)
             p == t.parent[y]
             q == Fwd(old, new, p)
  <2>1. y \in M /\ x = Fwd(old, new, y) /\ u.parent[x] = q /\ y # t.root
    BY <1>6, RenameLinks
  <2>2. p \in M /\ \E c \in Side : t.child[c][p] = y
    BY <1>2, <2>1
  <2>3. q \in N /\ Bwd(old, new, q) = p
    BY <1>1, <2>2 DEF Fwd, Bwd
  <2> HIDE DEF y, p, q
  <2>4. PICK c \in Side : t.child[c][p] = y
    BY <2>2
  <2>5. u.child[c][q] = Fwd(old, new, t.child[c][p])
    BY <2>3, RenameLinks
  <2> QED  BY <2>1, <2>3, <2>4, <2>5
<1>7. ASSUME NEW x \in Node \ N PROVE u.parent[x] = NULL /\ \A c \in Side : u.child[c][x] = NULL
  <2>1. CASE x = old
    BY <1>1, <2>1 DEF Renamed
  <2>2. CASE x # old
    BY <1>1, <1>2, <2>2 DEF Renamed
  <2> QED  BY <2>1, <2>2
<1>8. N \subseteq Node
  BY <1>1
<1> HIDE DEF N
<1>9. Shape(u, N, w)
  BY <1>3, <1>4, <1>5, <1>6, <1>7, <1>8 DEF Shape
<1> QED  BY <1>9 DEF N

\* What is owed at q is owed at the node in its place.
LEMMA RenameHeights ==
  ASSUME NEW t, NEW M, NEW sub, Shape(t, M, sub), NEW old \in M, NEW new \in Node \ M,
         NEW u, Renamed(t, u, old, new), NEW h, NEW q \in M \cup {NULL}, NEW d,
         Heights(t, M, h, q, d)
  PROVE  \E k : Heights(u, (M \ {old}) \cup {new}, k, Fwd(old, new, q), d)
<1> DEFINE N == (M \ {old}) \cup {new}
           k == [h EXCEPT ![new] = h[old]]
<1>1. /\ M \subseteq Node /\ NULL \notin Node /\ old \in Ptr /\ new \in Ptr /\ old # new
      /\ NULL \in Ptr
  BY ShapeTypes, NullNotNode DEF Ptr
<1>2. /\ h \in [Ptr -> Nat \ {0}] /\ h[NULL] = 1
      /\ \A x \in M, c \in Side : h[x] = h[t.child[c][x]] + Owed(q, d, x, c) + Black(t, x)
  BY DEF Heights
<1>3. /\ k \in [Ptr -> Nat \ {0}] /\ k[NULL] = 1
      /\ \A y \in Ptr : y # new => k[Fwd(old, new, y)] = h[y]
  BY <1>1, <1>2 DEF Fwd
<1> HIDE DEF k
<1>4. ASSUME NEW x \in N, NEW c \in Side
      PROVE  k[x] = k[u.child[c][x]] + Owed(Fwd(old, new, q), d, x, c) + Black(u, x)
  <2> DEFINE y == Bwd(old, new, x)
  <2>1. /\ y \in M /\ x = Fwd(old, new, y)
        /\ u.child[c][x] = Fwd(old, new, t.child[c][y])
        /\ t.child[c][y] \in Ptr /\ t.child[c][y] # new
        /\ Black(u, x) = Black(t, y)
    BY RenameLinks
  <2>2. y \in Ptr /\ y # new
    BY <1>1, <2>1 DEF Ptr
  <2> HIDE DEF y
  <2>3. x = Fwd(old, new, q) <=> y = q
    BY <1>1, <2>1, <2>2 DEF Fwd
  <2>4. Owed(Fwd(old, new, q), d, x, c) = Owed(q, d, y, c)
    BY <2>3 DEF Owed
  <2>5. k[x] = h[y] /\ k[u.child[c][x]] = h[t.child[c][y]]
    BY <1>3, <2>1, <2>2
  <2> QED  BY <1>2, <2>1, <2>4, <2>5
<1>5. Heights(u, N, k, Fwd(old, new, q), d)
  BY <1>3, <1>4 DEF Heights
<1> QED  BY <1>5

\* Colours stay where they are.
LEMMA RenameReds ==
  ASSUME NEW t, NEW M, NEW sub, Shape(t, M, sub), NEW old \in M, NEW new \in Node \ M,
         NEW u, Renamed(t, u, old, new), NEW X, RedsApart(t, M, X), old \notin X
  PROVE  /\ RedsApart(u, (M \ {old}) \cup {new}, X)
         /\ IsRed(t, t.root) <=> IsRed(u, u.root)
<1> DEFINE N == (M \ {old}) \cup {new}
<1>1. /\ M \subseteq Node /\ NULL \notin Node /\ new # NULL /\ old # new
      /\ t.root # NULL => t.root \in M
      /\ \A y \in M : t.parent[y] # NULL => t.parent[y] \in M
  BY ShapeTypes, NullNotNode
<1>2. ASSUME NEW y \in M PROVE u.red[Fwd(old, new, y)] = t.red[y] /\ Fwd(old, new, y) # NULL
  BY <1>1 DEF Renamed, Fwd
<1>3. ASSUME NEW x \in N, u.red[x], IsRed(u, u.parent[x]) PROVE x \in X
  <2> DEFINE y == Bwd(old, new, x)
             p == t.parent[y]
  <2>1. /\ y \in M /\ x = Fwd(old, new, y) /\ u.parent[x] = Fwd(old, new, p)
        /\ u.red[x] = t.red[y]
    BY RenameLinks
  <2>2. p # NULL
    <3>1. Fwd(old, new, p) # NULL
      BY <1>3, <2>1 DEF IsRed
    <3>2. Fwd(old, new, NULL) = NULL
      BY <1>1 DEF Fwd
    <3> QED  BY <3>1, <3>2
  <2>3. p \in M
    BY <1>1, <2>1, <2>2
  <2> HIDE DEF p, y
  <2>4. t.red[y] /\ IsRed(t, p)
    BY <1>2, <1>3, <2>1, <2>2, <2>3 DEF IsRed
  <2>5. y \in X
    BY <2>1, <2>4 DEF RedsApart, p
  <2> QED  BY <2>1, <2>5 DEF Fwd
<1>4. u.root = Fwd(old, new, t.root)
  BY DEF Renamed, Fwd
<1>5. IsRed(t, t.root) <=> IsRed(u, u.root)
  <2>1. CASE t.root = NULL
    BY <1>1, <1>4, <2>1 DEF IsRed, Fwd
  <2>2. CASE t.root # NULL
    BY <1>1, <1>2, <1>4, <2>2 DEF IsRed
  <2> QED  BY <2>1, <2>2
<1> QED  BY <1>3, <1>5 DEF RedsApart

\* Who points at n.
LEMMA Pointers ==
  ASSUME NEW t, NEW M, NEW sub, Shape(t, M, sub), NEW n \in M
  PROVE  /\ \A c \in Side, x \in Node : t.child[c][x] = n => x \in M /\ x = t.parent[n]
         /\ \A x \in Node : t.parent[x] = n <=> \E c \in Side : t.child[c][n] = x
         /\ t.parent[n] # NULL => \E s \in Side : /\ t.child[s][t.parent[n]] = n
                                                  /\ t.child[Other(s)][t.parent[n]] # n
         /\ t.parent[n] # n /\ \A c \in Side : t.child[c][n] # n
         /\ \A c \in Side : t.child[c][n] # NULL => t.child[c][n] # t.parent[n]
<1>1. /\ M \subseteq Node /\ NULL \notin Node /\ n # NULL
      /\ \A x \in M, c \in Side : /\ t.child[c][x] \in Ptr
                                  /\ t.child[c][x] # NULL =>
                                       t.child[c][x] \in M /\ t.parent[t.child[c][x]] = x
  BY ShapeTypes, NullNotNode
<1>2. \A x \in Node \ M : t.parent[x] = NULL /\ \A c \in Side : t.child[c][x] = NULL
  BY DEF Shape
<1>3. \A c \in Side, x \in Node : t.child[c][x] = n => x \in M /\ x = t.parent[n]
  BY <1>1, <1>2
<1>4. ASSUME NEW x \in Node, t.parent[x] = n PROVE \E c \in Side : t.child[c][n] = x
  <2>1. x \in M /\ t.parent[x] # NULL
    BY <1>1, <1>2, <1>4
  <2>2. LET p == t.parent[x]
            s == SideOf(t, p, x)
        IN  s \in Side /\ t.child[s][p] = x
    BY <2>1, ParentSide
  <2> QED  BY <1>4, <2>2
<1>5. ASSUME NEW x \in Node, NEW c \in Side, t.child[c][n] = x PROVE t.parent[x] = n
  BY <1>1, <1>5
<1>6. ASSUME t.parent[n] # NULL
      PROVE  /\ \E s \in Side : /\ t.child[s][t.parent[n]] = n
                                /\ t.child[Other(s)][t.parent[n]] # n
             /\ t.parent[n] # n
  <2>1. LET p == t.parent[n]
            s == SideOf(t, p, n)
        IN  p # n /\ s \in Side /\ t.child[s][p] = n /\ t.child[Other(s)][p] # n
    BY <1>6, ParentSide
  <2> QED  BY <2>1
<1>7. ASSUME NEW c \in Side, t.child[c][n] # NULL PROVE t.child[c][n] # n /\ t.child[c][n] # t.parent[n]
  <2> DEFINE m == t.child[c][n]
             p == t.parent[n]
  <2>1. m # n /\ m \in M
    BY <1>1, <1>7, Children
  <2>2. n \notin sub[m]
    BY Subtree
  <2>3. ASSUME m = p PROVE FALSE
    <3>1. PICK s \in Side : t.child[s][p] = n
      BY <1>1, <1>6, <2>1, <2>3
    <3>2. sub[n] \subseteq sub[m] /\ n \in sub[n]
      BY <2>1, <2>3, <3>1, Subtree
    <3> QED  BY <2>2, <3>2
  <2> QED  BY <2>1, <2>3
<1>8. \A c \in Side : t.child[c][n] # n
  BY <1>1, <1>7
<1>9. t.parent[n] # n
  BY <1>1, <1>6
<1> QED  BY <1>3, <1>4, <1>5, <1>6, <1>7, <1>8, <1>9

\* rb_replace_node puts new where victim was.
LEMMA ReplaceIs ==
  ASSUME NEW t, NEW M, NEW sub, Shape(t, M, sub), NEW victim \in M, NEW new \in Node \ M
  PROVE  LET l == t.child.left[victim]
             r == t.child.right[victim]
             t1 == Redirect(t, t.parent[victim], victim, new)
             t2 == SetParent(SetParent(t1, l, new), r, new)
             u == Forget([t2 EXCEPT !.child.left[new] = l, !.child.right[new] = r,
                                    !.parent[new] = t.parent[victim],
                                    !.red[new] = t.red[victim]], victim)
         IN  Renamed(t, u, victim, new)
<1> DEFINE p == t.parent[victim]
           l == t.child["left"][victim]
           r == t.child["right"][victim]
           t1 == Redirect(t, p, victim, new)
           ta == SetParent(t1, l, new)
           t2 == SetParent(ta, r, new)
           t3 == [t2 EXCEPT !.child["left"][new] = l, !.child["right"][new] = r,
                            !.parent[new] = p, !.red[new] = t.red[victim]]
           u == Forget(t3, victim)
<1>1. /\ t \in TreeType /\ M \subseteq Node /\ NULL \notin Node /\ victim \in Node
      /\ p \in Ptr /\ l \in Ptr /\ r \in Ptr /\ new \in Ptr /\ victim # new
      /\ (l # NULL => l \in M) /\ (r # NULL => r \in M)
      /\ t.red[victim] \in BOOLEAN
      /\ "left" \in Side /\ "right" \in Side /\ \A c \in Side : c = "left" \/ c = "right"
      /\ victim = t.root <=> p = NULL
  <2>1. "left" \in Side /\ "right" \in Side /\ \A c \in Side : c = "left" \/ c = "right"
    BY DEF Side
  <2> QED  BY <2>1, ShapeTypes, NullNotNode DEF Ptr
<1>2. /\ \A c \in Side, x \in Node : t.child[c][x] = victim => x = p
      /\ \A x \in Node : t.parent[x] = victim <=> x = l \/ x = r
      /\ p # NULL => \E s \in Side : t.child[s][p] = victim /\ t.child[Other(s)][p] # victim
      /\ p # victim /\ l # victim /\ r # victim
      /\ (p # NULL => p \in M)
  <2>1. /\ \A c \in Side, x \in Node : t.child[c][x] = victim => x = p
        /\ \A x \in Node : t.parent[x] = victim <=> \E c \in Side : t.child[c][victim] = x
        /\ p # NULL => \E s \in Side : t.child[s][p] = victim /\ t.child[Other(s)][p] # victim
        /\ p # victim /\ \A c \in Side : t.child[c][victim] # victim
    BY Pointers
  <2>2. p # NULL => p \in M
    BY ShapeTypes
  <2> QED  BY <1>1, <2>1, <2>2
<1>3. \A c \in Side : t.child[c][victim] = IF c = "left" THEN l ELSE r
  BY <1>1
<1>4. LET ll == t.child.left[victim]
          rr == t.child.right[victim]
          v1 == Redirect(t, t.parent[victim], victim, new)
          v2 == SetParent(SetParent(v1, ll, new), rr, new)
      IN  Forget([v2 EXCEPT !.child.left[new] = ll, !.child.right[new] = rr,
                            !.parent[new] = t.parent[victim],
                            !.red[new] = t.red[victim]], victim) = u
  OBVIOUS
<1> HIDE DEF p, l, r
<1>5. /\ t1 \in TreeType /\ t1.root = (IF p = NULL THEN new ELSE t.root)
      /\ t1.parent = t.parent /\ t1.red = t.red
      /\ \A c \in Side, x \in Node :
           t1.child[c][x] = IF x = p /\ t.child[c][x] = victim THEN new ELSE t.child[c][x]
  BY <1>1, <1>2, RedirectIs
<1>a. t1 \in TreeType
  BY <1>5
<1> HIDE DEF t1
<1>6. /\ ta \in TreeType /\ ta.root = t1.root /\ ta.child = t1.child /\ ta.red = t1.red
      /\ \A x \in Node : ta.parent[x] = IF x = l THEN new ELSE t1.parent[x]
  BY <1>1, <1>a, SetParentIs
<1>b. ta \in TreeType
  BY <1>6
<1> HIDE DEF ta
<1>7. /\ t2 \in TreeType /\ t2.root = ta.root /\ t2.child = ta.child /\ t2.red = ta.red
      /\ \A x \in Node : t2.parent[x] = IF x = r THEN new ELSE ta.parent[x]
  BY <1>1, <1>b, SetParentIs
<1>c. t2 \in TreeType
  BY <1>7
<1> HIDE DEF t2
<1>8. /\ t3 \in TreeType /\ t3.root = t2.root
      /\ \A x \in Node : t3.parent[x] = IF x = new THEN p ELSE t2.parent[x]
      /\ t3.red[new] = t.red[victim] /\ \A x \in Node \ {new} : t3.red[x] = t2.red[x]
      /\ \A c \in Side, x \in Node :
           t3.child[c][x] = IF x = new THEN (IF c = "left" THEN l ELSE r) ELSE t2.child[c][x]
  <2>1. t3 \in TreeType /\ t3.root = t2.root
    BY <1>1, <1>c DEF TreeType
  <2>2. /\ \A x \in Node : t3.parent[x] = IF x = new THEN p ELSE t2.parent[x]
        /\ t3.red[new] = t.red[victim] /\ \A x \in Node \ {new} : t3.red[x] = t2.red[x]
    BY <1>1, <1>c DEF TreeType
  <2>3. \A c \in Side, x \in Node :
           t3.child[c][x] = IF x = new THEN (IF c = "left" THEN l ELSE r) ELSE t2.child[c][x]
    BY <1>1, <1>c DEF TreeType, Side
  <2> QED  BY <2>1, <2>2, <2>3
<1>d. t3 \in TreeType
  BY <1>8
<1> HIDE DEF t3
<1>9. /\ u \in TreeType /\ u.root = t3.root
      /\ \A c \in Side, x \in Node : u.child[c][x] = IF x = victim THEN NULL ELSE t3.child[c][x]
      /\ \A x \in Node : u.parent[x] = IF x = victim THEN NULL ELSE t3.parent[x]
      /\ \A x \in Node : x # victim => u.red[x] = t3.red[x]
  BY <1>1, <1>d, ForgetIs
<1> HIDE DEF u
<1>10. u.root = IF t.root = victim THEN new ELSE t.root
  BY <1>1, <1>5, <1>6, <1>7, <1>8, <1>9
<1>11. ASSUME NEW x \in Node
       PROVE  u.parent[x] = IF x = victim THEN NULL ELSE IF x = new THEN p
                            ELSE IF t.parent[x] = victim THEN new ELSE t.parent[x]
  <2>1. t2.parent[x] = IF x = r \/ x = l THEN new ELSE t.parent[x]
    BY <1>5, <1>6, <1>7
  <2>2. t.parent[x] = victim <=> x = l \/ x = r
    BY <1>2
  <2> QED  BY <1>8, <1>9, <2>1, <2>2
<1>12. ASSUME NEW x \in Node, NEW c \in Side
       PROVE  u.child[c][x] = IF x = victim THEN NULL ELSE IF x = new THEN t.child[c][victim]
                       ELSE IF t.child[c][x] = victim THEN new ELSE t.child[c][x]
  <2>1. t2.child[c][x] = IF t.child[c][x] = victim THEN new ELSE t.child[c][x]
    BY <1>2, <1>5, <1>6, <1>7
  <2> QED  BY <1>3, <1>8, <1>9, <2>1
<1>13. u.red[new] = t.red[victim] /\ \A x \in Node \ {victim, new} : u.red[x] = t.red[x]
  BY <1>1, <1>5, <1>6, <1>7, <1>8, <1>9
<1>14. Renamed(t, u, victim, new)
  BY <1>9, <1>10, <1>11, <1>12, <1>13 DEF Renamed, p
<1> QED  BY <1>4, <1>14

\* rb_replace_node keeps the inductive invariant.
LEMMA ReplaceStep ==
  ASSUME IInv, NEW victim \in Node, NEW new \in Node, rb_replace_node(victim, new)
  PROVE  IInv'
<1>1. /\ pc = "idle" /\ victim \in member /\ new \in Node \ member
      /\ \A m \in member \ {victim} : m < victim <=> m < new
      /\ member' = (member \ {victim}) \cup {new}
      /\ pc' = pc /\ node' = node /\ parent' = parent
  BY DEF rb_replace_node
<1>2. PICK sub : Shape(tree, member, sub)
  BY DEF IInv
<1>3. PICK h, d : Heights(tree, member, h, NULL, d)
  BY <1>1 DEF IInv, Owing
<1>4. node = NULL /\ parent = NULL /\ ~IsRed(tree, tree.root) /\ RedsApart(tree, member, {})
  BY <1>1 DEF IInv, Cursor, Excused
<1>5. Renamed(tree, tree', victim, new)
  <2> DEFINE l == tree.child.left[victim]
             r == tree.child.right[victim]
             t1 == Redirect(tree, tree.parent[victim], victim, new)
             t2 == SetParent(SetParent(t1, l, new), r, new)
             u == Forget([t2 EXCEPT !.child.left[new] = l, !.child.right[new] = r,
                                    !.parent[new] = tree.parent[victim],
                                    !.red[new] = tree.red[victim]], victim)
  <2>1. tree' = u
    BY DEF rb_replace_node
  <2>2. Renamed(tree, u, victim, new)
    BY <1>1, <1>2, ReplaceIs
  <2> HIDE DEF u
  <2> QED  BY <2>1, <2>2
<1>6. ASSUME NEW m \in member \ {victim}, NEW c \in Side
      PROVE  Beyond(c, m, victim) <=> Beyond(c, m, new)
  <2>1. /\ m \in Int /\ victim \in Int /\ new \in Int /\ m # new /\ m # victim
        /\ m < victim <=> m < new
    BY <1>1, <1>2, ShapeTypes, RbAssumption
  <2> QED  BY <2>1 DEF Beyond
<1>7. \E w : Shape(tree', member', w)
  BY <1>1, <1>2, <1>5, <1>6, RenameShape
<1>8. \E k : Heights(tree', member', k, NULL, d)
  <2>1. Fwd(victim, new, NULL) = NULL
    BY NullNotNode DEF Fwd
  <2>2. \E k : Heights(tree', (member \ {victim}) \cup {new}, k, Fwd(victim, new, NULL), d)
    BY <1>1, <1>2, <1>3, <1>5, RenameHeights
  <2> QED  BY <1>1, <2>1, <2>2
<1>9. RedsApart(tree', member', {}) /\ ~IsRed(tree', tree'.root)
  <2>1. victim \notin {}
    OBVIOUS
  <2> QED  BY <1>1, <1>2, <1>4, <1>5, <2>1, RenameReds
<1> QED  BY <1>1, <1>4, <1>7, <1>8, <1>9, Idle

-----------------------------------------------------------------------------
(* A node with at most one child is cut out.                               *)

\* u is t without n; its child on side b, the only one it has, takes its place.
CutOut(t, u, n, b) ==
  LET c == t.child[b][n]
      p == t.parent[n]
  IN  /\ u \in TreeType
      /\ u.root = IF p = NULL THEN c ELSE t.root
      /\ \A s \in Side, x \in Node :
           u.child[s][x] = IF x = n THEN NULL
                           ELSE IF t.child[s][x] = n THEN c ELSE t.child[s][x]
      /\ \A x \in Node : u.parent[x] = IF x = n THEN NULL
                                       ELSE IF x = c THEN p ELSE t.parent[x]
      /\ \A x \in Node \ {n} : u.red[x] = t.red[x]

\* The side of the only child.
Kept(t, n) == IF t.child.left[n] = NULL THEN "right" ELSE "left"

\* Splice and what follows it cut the node out.
LEMMA SpliceIs ==
  ASSUME NEW t, NEW M, NEW sub, Shape(t, M, sub), NEW n \in M,
         NULL \in {t.child.left[n], t.child.right[n]}
  PROVE  LET cut == Splice(t, n)
             b == Kept(t, n)
         IN  /\ CutOut(t, Forget(cut.tree, n), n, b)
             /\ cut.child = t.child[b][n] /\ cut.parent = t.parent[n] /\ cut.red = t.red[n]
             /\ b \in Side /\ t.child[Other(b)][n] = NULL
<1> DEFINE b == Kept(t, n)
           c == t.child[b][n]
           p == t.parent[n]
           t1 == SetParent(t, c, p)
           t2 == Redirect(t1, p, n, c)
           u == Forget(t2, n)
<1>1. b \in Side /\ t.child[Other(b)][n] = NULL
  BY DEF Kept, Side, Other
<1>2. LET cut == Splice(t, n)
      IN  cut.tree = t2 /\ cut.child = c /\ cut.parent = p /\ cut.red = t.red[n]
  BY DEF Splice, Kept
<1>3. /\ t \in TreeType /\ M \subseteq Node /\ NULL \notin Node /\ n \in Node
      /\ p \in Ptr /\ c \in Ptr
  BY <1>1, ShapeTypes, NullNotNode
<1>4. /\ \A s \in Side, x \in Node : t.child[s][x] = n => x = p
      /\ p # NULL => \E s \in Side : t.child[s][p] = n /\ t.child[Other(s)][p] # n
  BY Pointers
<1> HIDE DEF b, c, p
<1>5. /\ t1 \in TreeType /\ t1.root = t.root /\ t1.child = t.child /\ t1.red = t.red
      /\ \A x \in Node : t1.parent[x] = IF x = c THEN p ELSE t.parent[x]
  BY <1>3, SetParentIs
<1>a. t1 \in TreeType /\ (p # NULL => \E s \in Side : t1.child[s][p] = n /\ t1.child[Other(s)][p] # n)
  BY <1>4, <1>5
<1> HIDE DEF t1
<1>6. /\ t2 \in TreeType /\ t2.root = (IF p = NULL THEN c ELSE t1.root)
      /\ t2.parent = t1.parent /\ t2.red = t1.red
      /\ \A s \in Side, x \in Node :
           t2.child[s][x] = IF x = p /\ t1.child[s][x] = n THEN c ELSE t1.child[s][x]
  BY <1>3, <1>a, RedirectIs
<1>b. t2 \in TreeType
  BY <1>6
<1> HIDE DEF t2
<1>7. /\ u \in TreeType /\ u.root = t2.root
      /\ \A s \in Side, x \in Node : u.child[s][x] = IF x = n THEN NULL ELSE t2.child[s][x]
      /\ \A x \in Node : u.parent[x] = IF x = n THEN NULL ELSE t2.parent[x]
      /\ \A x \in Node : x # n => u.red[x] = t2.red[x]
  BY <1>3, <1>b, ForgetIs
<1> HIDE DEF u
<1>8. \A s \in Side, x \in Node :
        u.child[s][x] = IF x = n THEN NULL ELSE IF t.child[s][x] = n THEN c ELSE t.child[s][x]
  BY <1>4, <1>5, <1>6, <1>7
<1>9. \A x \in Node : u.parent[x] = IF x = n THEN NULL ELSE IF x = c THEN p ELSE t.parent[x]
  BY <1>5, <1>6, <1>7
<1>10. u.root = (IF p = NULL THEN c ELSE t.root) /\ \A x \in Node \ {n} : u.red[x] = t.red[x]
  BY <1>5, <1>6, <1>7
<1>11. CutOut(t, u, n, b)
  BY <1>7, <1>8, <1>9, <1>10 DEF CutOut, c, p
<1> QED  BY <1>1, <1>2, <1>11 DEF u, b, c, p

\* Around the node that is cut out.
LEMMA CutFacts ==
  ASSUME NEW t, NEW M, NEW sub, Shape(t, M, sub), NEW n \in M, NEW b \in Side,
         t.child[Other(b)][n] = NULL, NEW u, CutOut(t, u, n, b)
  PROVE  LET c == t.child[b][n]
             p == t.parent[n]
         IN  /\ n \in Node /\ n # NULL /\ NULL \notin Node /\ M \subseteq Node
             /\ c \in Ptr /\ c # n /\ (c # NULL => c \in M /\ c \in Node /\ t.parent[c] = n)
             /\ p \in Ptr /\ p # n /\ (p = NULL <=> t.root = n)
             /\ p # NULL => /\ p \in M \ {n} /\ u.root = t.root /\ t.root \in M \ {n}
                            /\ t.root # c
                            /\ \E s \in Side : t.child[s][p] = n /\ u.child[s][p] = c
             /\ p = NULL => u.root = c
             /\ \A x \in M \ {n}, s \in Side :
                  /\ t.child[s][x] \in Ptr
                  /\ t.child[s][x] = n => x = p /\ u.child[s][x] = c
                  /\ t.child[s][x] # n => /\ u.child[s][x] = t.child[s][x]
                                          /\ t.child[s][x] # NULL => /\ t.child[s][x] \in M \ {n, c}
                                                                     /\ t.parent[t.child[s][x]] = x
             /\ \A x \in M \ {n, c} : u.parent[x] = t.parent[x] /\ t.parent[x] # n
             /\ c # NULL => u.parent[c] = p
<1> DEFINE c == t.child[b][n]
           p == t.parent[n]
<1>1. /\ u \in TreeType
      /\ u.root = IF p = NULL THEN c ELSE t.root
      /\ \A s \in Side, x \in Node :
           u.child[s][x] = IF x = n THEN NULL
                           ELSE IF t.child[s][x] = n THEN c ELSE t.child[s][x]
      /\ \A x \in Node : u.parent[x] = IF x = n THEN NULL
                                       ELSE IF x = c THEN p ELSE t.parent[x]
  BY DEF CutOut
<1>2. /\ n \in Node /\ n # NULL /\ NULL \notin Node /\ M \subseteq Node
      /\ c \in Ptr /\ (c # NULL => c \in M /\ c \in Node /\ t.parent[c] = n)
      /\ p \in Ptr /\ (p # NULL => p \in M)
      /\ p = NULL <=> t.root = n
      /\ t.root # NULL => t.root \in M /\ t.parent[t.root] = NULL
  BY ShapeTypes, NullNotNode
<1>3. /\ \A s \in Side, x \in Node : t.child[s][x] = n => x \in M /\ x = p
      /\ \A x \in Node : t.parent[x] = n <=> \E s \in Side : t.child[s][n] = x
      /\ p # NULL => \E s \in Side : t.child[s][p] = n /\ t.child[Other(s)][p] # n
      /\ p # n /\ \A s \in Side : t.child[s][n] # n
  BY Pointers
<1>4. \A x \in M, s \in Side : /\ t.child[s][x] \in Ptr
                               /\ t.child[s][x] # NULL =>
                                    t.child[s][x] \in M /\ t.parent[t.child[s][x]] = x
  BY ShapeTypes
<1>5. \A s \in Side : t.child[s][n] = c \/ t.child[s][n] = NULL
  BY Sides
<1>6. t.root # NULL
  BY RootAll, <1>2
<1> HIDE DEF c, p
<1>e. c = t.child[b][n] /\ p = t.parent[n]
  BY DEF c, p
<1>7. c # n
  BY <1>3, <1>e
<1>8. p # NULL => /\ p \in M \ {n} /\ u.root = t.root /\ t.root \in M \ {n} /\ t.root # c
                  /\ \E s \in Side : t.child[s][p] = n /\ u.child[s][p] = c
  BY <1>1, <1>2, <1>3, <1>6
<1>9. \A x \in M \ {n}, s \in Side :
                  /\ t.child[s][x] = n => x = p /\ u.child[s][x] = c
                  /\ t.child[s][x] # n => /\ u.child[s][x] = t.child[s][x]
                                          /\ t.child[s][x] # NULL => t.child[s][x] \in M \ {n, c}
  BY <1>1, <1>2, <1>3, <1>4
<1>10. \A x \in M \ {n, c} : u.parent[x] = t.parent[x] /\ t.parent[x] # n
  BY <1>1, <1>2, <1>3, <1>5
<1>11. c # NULL => u.parent[c] = p
  BY <1>1, <1>2, <1>7
<1>12. p = NULL => u.root = c
  BY <1>1
<1> QED  BY <1>2, <1>3, <1>4, <1>7, <1>8, <1>9, <1>10, <1>11, <1>12 DEF c, p

\* What is left has a shape.
LEMMA CutShape ==
  ASSUME NEW t, NEW M, NEW sub, Shape(t, M, sub), NEW n \in M, NEW b \in Side,
         t.child[Other(b)][n] = NULL, NEW u, CutOut(t, u, n, b)
  PROVE  Shape(u, M \ {n}, [x \in Ptr |-> sub[x] \ {n}])
<1> DEFINE c == t.child[b][n]
           p == t.parent[n]
           N == M \ {n}
           w == [x \in Ptr |-> sub[x] \ {n}]
<1>1. /\ n \in Node /\ n # NULL /\ NULL \notin Node /\ M \subseteq Node
      /\ c \in Ptr /\ c # n /\ (c # NULL => c \in M /\ c \in Node /\ t.parent[c] = n)
      /\ p \in Ptr /\ p # n /\ (p = NULL <=> t.root = n)
      /\ p # NULL => /\ p \in M \ {n} /\ u.root = t.root /\ t.root \in M \ {n}
                     /\ t.root # c
                     /\ \E s \in Side : t.child[s][p] = n /\ u.child[s][p] = c
      /\ p = NULL => u.root = c
      /\ \A x \in M \ {n}, s \in Side :
           /\ t.child[s][x] \in Ptr
           /\ t.child[s][x] = n => x = p /\ u.child[s][x] = c
           /\ t.child[s][x] # n => /\ u.child[s][x] = t.child[s][x]
                                   /\ t.child[s][x] # NULL => /\ t.child[s][x] \in M \ {n, c}
                                                              /\ t.parent[t.child[s][x]] = x
      /\ \A x \in M \ {n, c} : u.parent[x] = t.parent[x] /\ t.parent[x] # n
      /\ c # NULL => u.parent[c] = p
  BY CutFacts
<1>2. /\ sub \in [Ptr -> SUBSET Node] /\ sub[NULL] = {} /\ sub[t.root] = M
      /\ \A x \in Node \ M : t.parent[x] = NULL /\ \A s \in Side : t.child[s][x] = NULL
      /\ \A z \in M, s \in Side : \A m \in sub[t.child[s][z]] : Beyond(s, m, z)
      /\ \A z \in M, s \in Side : sub[z] = {z} \cup sub[t.child[s][z]] \cup sub[t.child[Other(s)][z]]
      /\ \A z \in M : z # t.root => /\ t.parent[z] \in M
                                    /\ \E s \in Side : t.child[s][t.parent[z]] = z
  BY DEF Shape
<1>3. /\ w \in [Ptr -> SUBSET Node] /\ w[NULL] = {}
      /\ \A x \in Ptr : w[x] = sub[x] \ {n}
      /\ NULL \in Ptr /\ n \in Ptr
  BY <1>1, <1>2 DEF Ptr
<1>4. w[n] = w[c]
  <2>1. sub[n] = {n} \cup sub[c]
    BY <1>2
  <2> QED  BY <1>1, <1>3, <2>1
<1>r. /\ u \in TreeType
      /\ \A x \in Node \ M : /\ u.parent[x] = NULL
                             /\ \A s \in Side : u.child[s][x] = NULL
      /\ u.parent[n] = NULL /\ \A s \in Side : u.child[s][n] = NULL
  <2>1. /\ u \in TreeType
        /\ \A s \in Side, x \in Node :
             u.child[s][x] = IF x = n THEN NULL
                             ELSE IF t.child[s][x] = n THEN c ELSE t.child[s][x]
        /\ \A x \in Node : u.parent[x] = IF x = n THEN NULL
                                         ELSE IF x = c THEN p ELSE t.parent[x]
    BY DEF CutOut
  <2> HIDE DEF c, p
  <2> QED  BY <1>1, <1>2, <2>1
<1>s. \A s \in Side : Other(s) \in Side
  BY Sides
<1> HIDE DEF c, p, w
<1>5. u.root \in N \cup {NULL} /\ w[u.root] = N /\ (u.root # NULL => u.parent[u.root] = NULL)
  <2>1. CASE p = NULL
    <3>1. w[c] = M \ {n}
      BY <1>1, <1>2, <1>3, <1>4, <2>1
    <3> QED  BY <1>1, <2>1, <3>1
  <2>2. CASE p # NULL
    <3>1. t.root \in Ptr
      BY <1>1, <2>2 DEF Ptr
    <3>2. t.parent[t.root] = NULL
      BY <1>1, <2>2, ShapeTypes
    <3> QED  BY <1>1, <1>2, <1>3, <2>2, <3>1, <3>2
  <2> QED  BY <2>1, <2>2
<1>6. ASSUME NEW x \in N, NEW s \in Side PROVE w[u.child[s][x]] = sub[t.child[s][x]] \ {n}
  <2>1. CASE t.child[s][x] = n
    BY <1>1, <1>3, <1>4, <2>1
  <2>2. CASE t.child[s][x] # n
    BY <1>1, <1>3, <2>2
  <2> QED  BY <2>1, <2>2
<1>7. ASSUME NEW x \in N, NEW s \in Side
      PROVE  /\ w[x] = {x} \cup w[u.child[s][x]] \cup w[u.child[Other(s)][x]]
             /\ \A m \in w[u.child[s][x]] : Beyond(s, m, x)
             /\ u.child[s][x] # NULL => u.child[s][x] \in N /\ u.parent[u.child[s][x]] = x
  <2>1. w[u.child[s][x]] = sub[t.child[s][x]] \ {n}
        /\ w[u.child[Other(s)][x]] = sub[t.child[Other(s)][x]] \ {n}
    BY <1>6, <1>s
  <2>2. sub[x] = {x} \cup sub[t.child[s][x]] \cup sub[t.child[Other(s)][x]]
        /\ \A m \in sub[t.child[s][x]] : Beyond(s, m, x)
    BY <1>2
  <2>3. w[x] = sub[x] \ {n}
    BY <1>1, <1>3 DEF Ptr
  <2>4. w[x] = {x} \cup w[u.child[s][x]] \cup w[u.child[Other(s)][x]]
    BY <2>1, <2>2, <2>3
  <2>5. ASSUME u.child[s][x] # NULL PROVE u.child[s][x] \in N /\ u.parent[u.child[s][x]] = x
    <3>1. CASE t.child[s][x] = n
      BY <1>1, <2>5, <3>1
    <3>2. CASE t.child[s][x] # n
      <4> DEFINE z == u.child[s][x]
      <4>1. z \in M \ {n, c} /\ t.parent[z] = x
        BY <1>1, <2>5, <3>2
      <4> QED  BY <1>1, <4>1
    <3> QED  BY <3>1, <3>2
  <2> QED  BY <2>1, <2>2, <2>4, <2>5
<1>8. ASSUME NEW x \in N, x # u.root
      PROVE  u.parent[x] \in N /\ \E s \in Side : u.child[s][u.parent[x]] = x
  <2>1. CASE x = c
    <3>1. c # NULL /\ p # NULL /\ u.parent[x] = p
      BY <1>1, <1>8, <2>1
    <3> QED  BY <1>1, <2>1, <3>1
  <2>2. CASE x # c
    <3>1. x # t.root
      BY <1>1, <1>8
    <3>2. t.parent[x] \in N /\ u.parent[x] = t.parent[x] /\ \E s \in Side : t.child[s][t.parent[x]] = x
      BY <1>1, <1>2, <2>2, <3>1
    <3> QED  BY <1>1, <3>2
  <2> QED  BY <2>1, <2>2
<1>9. \A x \in Node \ N : u.parent[x] = NULL /\ \A s \in Side : u.child[s][x] = NULL
  BY <1>r
<1>10. N \subseteq Node
  BY <1>1
<1> HIDE DEF N
<1>11. Shape(u, N, w)
  BY <1>r, <1>3, <1>5, <1>7, <1>8, <1>9, <1>10 DEF Shape
<1> QED  BY <1>11 DEF N, w

\* Cutting a black node out leaves the way to its child owing one.
LEMMA CutHeights ==
  ASSUME NEW t, NEW M, NEW sub, Shape(t, M, sub), NEW n \in M, NEW b \in Side,
         t.child[Other(b)][n] = NULL, NEW u, CutOut(t, u, n, b),
         NEW h, NEW e, Heights(t, M, h, NULL, e), NEW d,
         t.parent[n] # NULL => \A s \in Side : t.child[s][t.parent[n]] = n <=> s = d
  PROVE  Heights(u, M \ {n}, h, IF t.red[n] THEN NULL ELSE t.parent[n], d)
<1> DEFINE c == t.child[b][n]
           p == t.parent[n]
           q == IF t.red[n] THEN NULL ELSE p
<1>1. /\ n \in Node /\ n # NULL /\ NULL \notin Node /\ M \subseteq Node
      /\ c \in Ptr /\ p \in Ptr /\ p # n /\ (p # NULL => p \in M \ {n})
      /\ \A x \in M \ {n}, s \in Side :
           /\ t.child[s][x] \in Ptr
           /\ t.child[s][x] = n => x = p /\ u.child[s][x] = c
           /\ t.child[s][x] # n => u.child[s][x] = t.child[s][x]
  BY CutFacts
<1>2. /\ h \in [Ptr -> Nat \ {0}] /\ h[NULL] = 1
      /\ \A x \in M, s \in Side : h[x] = h[t.child[s][x]] + Black(t, x)
      /\ \A x \in Ptr : h[x] \in Nat
  <2>1. \A x \in M, s \in Side : h[x] = h[t.child[s][x]] + Owed(NULL, e, x, s) + Black(t, x)
        /\ h \in [Ptr -> Nat \ {0}] /\ h[NULL] = 1
    BY DEF Heights
  <2>2. \A x \in M, s \in Side : Owed(NULL, e, x, s) = 0 /\ t.child[s][x] \in Ptr
    <3>1. \A x \in M, s \in Side : Owed(NULL, e, x, s) = 0
      BY <1>1 DEF Owed
    <3> QED  BY <3>1, ShapeTypes
  <2> QED  BY <2>1, <2>2
<1>3. \A x \in M \ {n} : Black(u, x) = Black(t, x)
  BY <1>1 DEF CutOut, Black
<1>4. h[n] = h[c] + Black(t, n) /\ Black(t, n) = IF t.red[n] THEN 0 ELSE 1
  BY <1>2 DEF Black
<1>e. p = t.parent[n] /\ q = IF t.red[n] THEN NULL ELSE p
  OBVIOUS
<1> HIDE DEF c, p, q
<1>5. ASSUME NEW x \in M \ {n}, NEW s \in Side
      PROVE  h[x] = h[u.child[s][x]] + Owed(q, d, x, s) + Black(u, x)
  <2>0. x # NULL /\ h[x] = h[t.child[s][x]] + Black(u, x) /\ Black(u, x) \in Nat
    BY <1>1, <1>2, <1>3 DEF Black
  <2>1. CASE t.child[s][x] = n
    <3>1. x = p /\ u.child[s][x] = c /\ s = d
      BY <1>1, <2>0, <2>1, <1>e
    <3>2. Owed(q, d, x, s) = Black(t, n)
      BY <1>4, <1>e, <2>0, <3>1 DEF Owed
    <3> QED  BY <1>1, <1>2, <1>4, <2>0, <2>1, <3>1, <3>2
  <2>2. CASE t.child[s][x] # n
    <3>1. u.child[s][x] = t.child[s][x]
      BY <1>1, <2>2
    <3>2. Owed(q, d, x, s) = 0
      BY <1>1, <1>e, <2>0, <2>2 DEF Owed
    <3> QED  BY <1>1, <1>2, <2>0, <3>1, <3>2
  <2> QED  BY <2>1, <2>2
<1>6. Heights(u, M \ {n}, h, q, d)
  BY <1>2, <1>5 DEF Heights
<1> QED  BY <1>6 DEF p, q

\* Cutting a black node out may leave its child red under a red node.
LEMMA CutReds ==
  ASSUME NEW t, NEW M, NEW sub, Shape(t, M, sub), NEW n \in M, NEW b \in Side,
         t.child[Other(b)][n] = NULL, NEW u, CutOut(t, u, n, b),
         RedsApart(t, M, {}), ~IsRed(t, t.root)
  PROVE  LET c == t.child[b][n]
         IN  /\ RedsApart(u, M \ {n}, {c})
             /\ IsRed(u, u.root) => t.parent[n] = NULL /\ u.root = c
             /\ t.red[n] => RedsApart(u, M \ {n}, {}) /\ ~IsRed(u, u.root)
<1> DEFINE c == t.child[b][n]
           p == t.parent[n]
<1>1. /\ n \in Node /\ n # NULL /\ NULL \notin Node /\ M \subseteq Node
      /\ c \in Ptr /\ c # n /\ (c # NULL => c \in M /\ c \in Node /\ t.parent[c] = n)
      /\ p \in Ptr /\ p # n /\ (p = NULL <=> t.root = n)
      /\ p # NULL => p \in M \ {n} /\ u.root = t.root /\ t.root \in M \ {n}
      /\ p = NULL => u.root = c
      /\ \A x \in M \ {n, c} : u.parent[x] = t.parent[x] /\ t.parent[x] # n
  BY CutFacts
<1>2. \A x \in Node \ {n} : u.red[x] = t.red[x]
  BY DEF CutOut
<1>3. \A x \in M : t.parent[x] # NULL => t.parent[x] \in M
  BY ShapeTypes
<1>4. \A x \in M : ~(t.red[x] /\ IsRed(t, t.parent[x]))
  BY DEF RedsApart
<1> HIDE DEF c, p
<1>5. ASSUME NEW x \in M \ {n}, u.red[x], IsRed(u, u.parent[x]) PROVE x = c
  <2> SUFFICES ASSUME x # c PROVE FALSE
    OBVIOUS
  <2>1. u.parent[x] = t.parent[x] /\ t.parent[x] # n
    BY <1>1
  <2>2. t.parent[x] # NULL /\ u.red[t.parent[x]]
    BY <1>5, <2>1 DEF IsRed
  <2>3. t.red[x] /\ IsRed(t, t.parent[x])
    BY <1>1, <1>2, <1>3, <1>5, <2>1, <2>2 DEF IsRed
  <2> QED  BY <1>4, <2>3
<1>6. ASSUME IsRed(u, u.root) PROVE p = NULL /\ u.root = c
  <2>1. u.root # NULL /\ u.red[u.root]
    BY <1>6 DEF IsRed
  <2>2. ASSUME p # NULL PROVE FALSE
    <3>1. IsRed(t, t.root)
      BY <1>1, <1>2, <2>1, <2>2 DEF IsRed
    <3> QED  BY <3>1
  <2> QED  BY <1>1, <2>2
<1>7. ASSUME t.red[n] PROVE p # NULL /\ (c # NULL => ~u.red[c])
  <2>1. IsRed(t, n)
    BY <1>1, <1>7 DEF IsRed
  <2>2. p # NULL
    BY <1>1, <2>1
  <2>3. c # NULL => ~t.red[c]
    BY <1>1, <1>4, <2>1
  <2> QED  BY <1>1, <1>2, <2>2, <2>3
<1>8. RedsApart(u, M \ {n}, {c})
  BY <1>5 DEF RedsApart
<1>9. ASSUME t.red[n] PROVE RedsApart(u, M \ {n}, {}) /\ ~IsRed(u, u.root)
  <2>1. ASSUME NEW x \in M \ {n}, u.red[x], IsRed(u, u.parent[x]) PROVE FALSE
    <3>1. x = c /\ c # NULL
      BY <1>1, <1>5, <2>1
    <3> QED  BY <1>7, <1>9, <2>1, <3>1
  <2>2. ~IsRed(u, u.root)
    BY <1>6, <1>7, <1>9
  <2> QED  BY <2>1, <2>2 DEF RedsApart
<1> QED  BY <1>6, <1>8, <1>9 DEF c, p

-----------------------------------------------------------------------------
(* Walking to the end of a subtree.                                        *)

\* A node outside a subtree lies on one side of all of it.
LEMMA Outside ==
  ASSUME NEW t, NEW M, NEW sub, Shape(t, M, sub), NEW x \in M, NEW y \in M, y \notin sub[x]
  PROVE  \E s \in Side : \A a \in sub[x] : Beyond(s, a, y)
<1> DEFINE Ok(z) == \A v \in sub[z] : \A r \in sub[z] : r \notin sub[v] =>
                      \E s \in Side : \A a \in sub[v] : Beyond(s, a, r)
           G == {z \in M : Ok(z)}
<1>0. M \subseteq Node /\ \A z \in M : sub[z] \subseteq M
  BY ShapeTypes, Closed
<1>1. ASSUME NEW z \in M, \A s \in Side : t.child[s][z] # NULL => t.child[s][z] \in G
      PROVE  z \in G
  <2> SUFFICES ASSUME NEW v \in sub[z], NEW r \in sub[z], r \notin sub[v]
               PROVE  \E s \in Side : \A a \in sub[v] : Beyond(s, a, r)
    OBVIOUS
  <2>1. v # z
    OBVIOUS
  <2>2. PICK s \in Side : v \in sub[t.child[s][z]]
    BY <2>1, Sides DEF Shape, Side
  <2> DEFINE c == t.child[s][z]
             f == t.child[Other(s)][z]
  <2>3. c # NULL /\ c \in M
    BY <2>2, ShapeTypes DEF Shape
  <2>4. sub[v] \subseteq sub[c] /\ sub[c] \subseteq M
    BY <1>0, <2>2, <2>3, Closed
  <2>5. \A a \in sub[c] : Beyond(s, a, z)
    BY DEF Shape
  <2>6. sub[z] = {z} \cup sub[c] \cup sub[f]
    BY Subtree
  <2>7. CASE r = z
    BY <2>4, <2>5, <2>7
  <2>8. CASE r \in sub[c]
    <3>1. c \in G
      BY <1>1, <2>3
    <3> QED  BY <2>2, <2>8, <3>1
  <2>9. CASE r \in sub[f]
    <3>1. Beyond(Other(s), r, z)
      BY <2>9, Sides DEF Shape
    <3>2. Beyond(s, z, r) /\ r \in Node /\ z \in Node
      BY <1>0, <3>1, Order
    <3>3. ASSUME NEW a \in sub[v] PROVE Beyond(s, a, r)
      <4>1. a \in Node /\ Beyond(s, a, z)
        BY <1>0, <2>4, <2>5
      <4> QED  BY <3>2, <4>1, Order
    <3> QED  BY <3>3
  <2> HIDE DEF c, f
  <2> QED  BY <2>6, <2>7, <2>8, <2>9
<1> HIDE DEF G
<1>2. \A z \in M : z \in G
  BY <1>1, FromBelow
<1>3. t.root \in M /\ sub[t.root] = M
  BY RootAll
<1>4. t.root \in G
  BY <1>2, <1>3
<1> QED  BY <1>3, <1>4 DEF G

\* m is the last node from x down on side s.
LastOn(t, M, sub, x, s, m) ==
  /\ m \in sub[x] /\ m \in M /\ t.child[s][m] = NULL
  /\ \A y \in sub[x] \ {m} : Beyond(s, m, y)
  /\ m # x => t.parent[m] \in sub[x] /\ t.child[s][t.parent[m]] = m

\* Following the pointers of one side leads there.
LEMMA FarthestIs ==
  ASSUME NEW t, NEW M, NEW sub, Shape(t, M, sub), NEW x \in M, NEW s \in Side
  PROVE  LastOn(t, M, sub, x, s, Farthest(t, x, s))
<1> DEFINE next == [m \in Node |-> t.child[s][m]]
           val  == [m \in Node |-> m]
           rank == [m \in Node |-> Cardinality(sub[m])]
           Eq(g) == g = [m \in Node |-> IF t.child[s][m] = NULL THEN m ELSE g[t.child[s][m]]]
           go == CHOOSE g : Eq(g)
<1>1. Farthest(t, x, s) = go[x]
  BY DEF Farthest
<1>t. t \in TreeType /\ M \subseteq Node /\ NULL \notin Node
  BY ShapeTypes, NullNotNode
<1>2. /\ next \in [Node -> Node \cup {NULL}]
      /\ rank \in [Node -> 0 .. Cardinality(Node)] /\ Cardinality(Node) \in Nat
      /\ \A m \in Node : next[m] # NULL => rank[next[m]] < rank[m]
  <2>1. next \in [Node -> Node \cup {NULL}]
    BY <1>t DEF TreeType, Ptr
  <2>2. rank \in [Node -> 0 .. Cardinality(Node)] /\ Cardinality(Node) \in Nat
    BY Sizes DEF Ptr
  <2>3. ASSUME NEW m \in Node, next[m] # NULL PROVE rank[next[m]] < rank[m]
    <3>1. m \in M
      BY <1>t, <2>3 DEF Shape
    <3>2. next[m] \in Node
      BY <2>1, <2>3
    <3> QED  BY <1>t, <3>1, <3>2, Sizes
  <2> QED  BY <2>1, <2>2, <2>3
<1> HIDE DEF next, rank
<1>3. \E g : g = [m \in Node |-> IF next[m] = NULL THEN val[m] ELSE g[next[m]]]
  <2> HIDE DEF val
  <2> QED  BY SMTT(30), <1>2, <1>t, TailRecursion
<1>4. ASSUME NEW g
      PROVE  [m \in Node |-> IF next[m] = NULL THEN val[m] ELSE g[next[m]]]
             = [m \in Node |-> IF t.child[s][m] = NULL THEN m ELSE g[t.child[s][m]]]
  BY DEF next
<1>5. Eq(go)
  <2>1. PICK g : g = [m \in Node |-> IF next[m] = NULL THEN val[m] ELSE g[next[m]]]
    BY <1>3
  <2>2. Eq(g)
    BY <1>4, <2>1
  <2> HIDE DEF Eq
  <2> QED  BY <2>2
<1>6. \A m \in Node : go[m] = IF t.child[s][m] = NULL THEN m ELSE go[t.child[s][m]]
  BY <1>5
<1> HIDE DEF go, val
<1> DEFINE G == {z \in M : LastOn(t, M, sub, z, s, go[z])}
<1>7. ASSUME NEW z \in M, \A c \in Side : t.child[c][z] # NULL => t.child[c][z] \in G
      PROVE  z \in G
  <2> DEFINE d == t.child[s][z]
             f == t.child[Other(s)][z]
  <2>e. go[z] = IF d = NULL THEN z ELSE go[d]
    BY <1>t, <1>6
  <2>1. /\ z \in sub[z] /\ z \notin sub[d] /\ sub[d] \subseteq sub[z]
        /\ sub[z] = {z} \cup sub[d] \cup sub[f]
    BY Subtree
  <2>2. /\ \A y \in sub[d] : Beyond(s, y, z)
        /\ \A y \in sub[f] : Beyond(s, z, y)
    <3>1. \A y \in sub[d] : Beyond(s, y, z)
      BY DEF Shape
    <3>2. \A y \in sub[f] : Beyond(Other(s), y, z)
      BY Sides DEF Shape
    <3>3. \A y \in sub[z] : y \in Node
      BY <1>t, Closed
    <3>4. \A y \in sub[f] : Beyond(s, z, y)
      <4>1. \A y \in sub[f] : y \in Node
        BY <2>1, <3>3
      <4> QED  BY <1>t, <3>2, <4>1, Order
    <3> QED  BY <3>1, <3>4
  <2>3. CASE d = NULL
    <3>1. sub[d] = {}
      BY <2>3 DEF Shape
    <3> QED  BY <2>e, <2>1, <2>2, <2>3, <3>1 DEF LastOn
  <2>4. CASE d # NULL
    <3> DEFINE m == go[d]
    <3>1. d \in M /\ t.parent[d] = z
      BY <2>4, ShapeTypes
    <3>2. LastOn(t, M, sub, d, s, m)
      BY <1>7, <2>4
    <3>3. /\ m \in sub[d] /\ m \in M /\ t.child[s][m] = NULL
          /\ \A y \in sub[d] \ {m} : Beyond(s, m, y)
          /\ m # d => t.parent[m] \in sub[d] /\ t.child[s][t.parent[m]] = m
      BY <3>2 DEF LastOn
    <3>d. t.child[s][z] = d /\ go[z] = m
      BY <2>e, <2>4
    <3>n. sub[z] \subseteq Node /\ z \in Node
      BY <1>t, ShapeTypes DEF Ptr
    <3> HIDE DEF m, d, f
    <3>4. ASSUME NEW y \in sub[z] \ {m} PROVE Beyond(s, m, y)
      <4>0. Beyond(s, m, z) /\ m \in Node /\ y \in Node
        BY <1>t, <2>1, <2>2, <3>3, <3>n
      <4>1. CASE y = z
        BY <4>0, <4>1
      <4>2. CASE y \in sub[d]
        BY <3>3, <4>2
      <4>3. CASE y \in sub[f]
        <5>1. Beyond(s, z, y)
          BY <2>2, <4>3
        <5> QED  BY <3>n, <4>0, <5>1, Order
      <4> QED  BY <2>1, <4>1, <4>2, <4>3
    <3>5. m \in sub[z] /\ m # z
      BY <2>1, <3>3
    <3>6. t.parent[m] \in sub[z] /\ t.child[s][t.parent[m]] = m
      <4>1. CASE m = d
        BY <2>1, <3>1, <3>d, <4>1
      <4>2. CASE m # d
        BY <2>1, <3>3, <4>2
      <4> QED  BY <4>1, <4>2
    <3> QED  BY <3>3, <3>4, <3>5, <3>6, <3>d DEF LastOn
  <2> QED  BY <2>3, <2>4
<1> HIDE DEF G
<1>8. \A z \in M : z \in G
  BY <1>7, FromBelow
<1> QED  BY <1>1, <1>8 DEF G

-----------------------------------------------------------------------------
(* rb_erase, up to its fix-up loop.                                        *)

\* The nodes N hang together as u; a node was cut out above c and below q.  If
\* it was not red, the way from q to c owes one.
Removed(u, N, c, q, isRed) ==
  /\ c \in Ptr /\ q \in N \cup {NULL}
  /\ \E w : Shape(u, N, w)
  /\ \E k : Heights(u, N, k, IF isRed THEN NULL ELSE q, SideOf(u, q, c))
  /\ RedsApart(u, N, {c}) /\ (isRed => RedsApart(u, N, {}))
  /\ IsRed(u, u.root) => ~isRed /\ u.root = c
  /\ q = NULL => c = u.root
  /\ q # NULL => u.child[SideOf(u, q, c)][q] = c
  /\ c # NULL => c \in N /\ u.parent[c] = q

\* Cutting out a node with one child at most owes a black node iff it was black.
LEMMA CutRemoved ==
  ASSUME NEW t, NEW M, NEW sub, Shape(t, M, sub), NEW n \in M, NEW b \in Side,
         t.child[Other(b)][n] = NULL, NEW u, CutOut(t, u, n, b),
         NEW h, NEW e, Heights(t, M, h, NULL, e),
         RedsApart(t, M, {}), ~IsRed(t, t.root)
  PROVE  Removed(u, M \ {n}, t.child[b][n], t.parent[n], t.red[n])
<1> DEFINE c == t.child[b][n]
           p == t.parent[n]
           d == SideOf(t, p, n)
           w == [x \in Ptr |-> sub[x] \ {n}]
<1>1. /\ n \in Node /\ n # NULL /\ NULL \notin Node /\ M \subseteq Node
      /\ c \in Ptr /\ c # n /\ (c # NULL => c \in M /\ c \in Node /\ t.parent[c] = n)
      /\ p \in Ptr /\ p # n /\ (p = NULL <=> t.root = n)
      /\ p # NULL => p \in M \ {n} /\ u.root = t.root /\ t.root \in M \ {n}
      /\ p = NULL => u.root = c
      /\ \A x \in M \ {n}, s \in Side :
           /\ t.child[s][x] = n => x = p /\ u.child[s][x] = c
           /\ t.child[s][x] # n => u.child[s][x] = t.child[s][x]
      /\ c # NULL => u.parent[c] = p
  BY CutFacts
<1>2. p # NULL => /\ d \in Side /\ t.child[d][p] = n /\ t.child[Other(d)][p] # n
                  /\ \A s \in Side : t.child[s][p] = n <=> s = d
  <2> SUFFICES ASSUME p # NULL
               PROVE  /\ d \in Side /\ t.child[d][p] = n /\ t.child[Other(d)][p] # n
                      /\ \A s \in Side : t.child[s][p] = n <=> s = d
    OBVIOUS
  <2>1. d \in Side /\ t.child[d][p] = n /\ t.child[Other(d)][p] # n
    BY ParentSide
  <2> HIDE DEF d, p
  <2> QED  BY <2>1, Sides
<1>3. Shape(u, M \ {n}, w)
  BY CutShape
<1>4. Heights(u, M \ {n}, h, IF t.red[n] THEN NULL ELSE t.parent[n], d)
  <2>1. t.parent[n] # NULL => \A s \in Side : t.child[s][t.parent[n]] = n <=> s = d
    BY <1>2
  <2> HIDE DEF d
  <2> QED  BY <2>1, CutHeights
<1>5. /\ RedsApart(u, M \ {n}, {c})
      /\ IsRed(u, u.root) => t.parent[n] = NULL /\ u.root = c
      /\ t.red[n] => RedsApart(u, M \ {n}, {}) /\ ~IsRed(u, u.root)
  BY CutReds
<1>6. ASSUME p # NULL, ~t.red[n] PROVE t.child[Other(d)][p] # NULL
  <2>1. /\ \A x \in M, s \in Side : h[x] = h[t.child[s][x]] + Black(t, x)
        /\ \A x \in Ptr : h[x] \in Nat \ {0}
    BY NothingOwed
  <2>2. h[NULL] = 1 /\ Black(t, n) = 1
    BY <1>6 DEF Heights, Black
  <2>3. h[n] = h[c] + 1 /\ h[c] \in Nat \ {0}
    BY <1>1, <2>1, <2>2
  <2>4. p \in M /\ d \in Side /\ Other(d) \in Side /\ t.child[d][p] = n
    BY <1>1, <1>2, <1>6, Sides
  <2>5. h[p] = h[n] + Black(t, p) /\ h[p] = h[t.child[Other(d)][p]] + Black(t, p)
    BY <2>1, <2>4
  <2>6. Black(t, p) \in {0, 1} /\ t.child[Other(d)][p] \in Ptr
    BY <2>4, ShapeTypes DEF Black
  <2> HIDE DEF d, p, c
  <2>7. h[t.child[Other(d)][p]] \in Nat
    BY <2>1, <2>6
  <2> QED  BY <2>2, <2>3, <2>5, <2>6, <2>7
<1>7. p # NULL => u.child[d][p] = c
  BY <1>1, <1>2
<1>8. p # NULL /\ (c # NULL \/ ~t.red[n]) => SideOf(u, p, c) = d
  <2> SUFFICES ASSUME p # NULL, c # NULL \/ ~t.red[n] PROVE SideOf(u, p, c) = d
    OBVIOUS
  <2>0. p \in M \ {n} /\ d \in Side /\ u.child[d][p] = c
    BY <1>1, <1>2, <1>7
  <2>1. CASE c # NULL
    <3> HIDE DEF c, p, d, w
    <3>1. SideOf(u, p, u.child[d][p]) = d
      BY <1>3, <2>0, <2>1, Children
    <3> QED  BY <2>0, <3>1
  <2>2. CASE c = NULL /\ ~t.red[n]
    <3>1. t.child[Other(d)][p] # NULL /\ Other(d) \in Side
      BY <1>6, <2>0, <2>2, Sides
    <3>2. u.child[Other(d)][p] # NULL
      BY <1>1, <1>2, <2>0, <3>1
    <3> HIDE DEF c, p, d
    <3> QED  BY <2>0, <2>2, <3>2 DEF SideOf, Side, Other
  <2> HIDE DEF c, p, d
  <2> QED  BY <2>1, <2>2
<1>9. Heights(u, M \ {n}, h, IF t.red[n] THEN NULL ELSE p, SideOf(u, p, c))
  <2> DEFINE f == SideOf(u, p, c)
  <2>1. CASE p # NULL /\ ~t.red[n]
    BY <1>4, <1>8, <2>1
  <2>2. CASE p = NULL \/ t.red[n]
    <3>1. Heights(u, M \ {n}, h, NULL, d)
      BY <1>4, <2>2
    <3> HIDE DEF f, d
    <3>2. Heights(u, M \ {n}, h, NULL, f)
      BY <1>3, <3>1, AnySide
    <3> HIDE DEF p, c
    <3> QED  BY <2>2, <3>2 DEF f
  <2> QED  BY <2>1, <2>2
<1>10. p # NULL => u.child[SideOf(u, p, c)][p] = c
  <2>0. \A s \in Side : c = u.child[s][p] => u.child[SideOf(u, p, c)][p] = c
    BY DEF SideOf, Side
  <2> HIDE DEF c, p, d
  <2> QED  BY <1>2, <1>7, <2>0
<1>11. c # NULL => c \in M \ {n} /\ u.parent[c] = p
  BY <1>1
<1>12. \E v : Shape(u, M \ {n}, v)
  <2> HIDE DEF w
  <2> QED  BY <1>3
<1>13. IsRed(u, u.root) => ~t.red[n] /\ u.root = c
  BY <1>5
<1>14. \E k : Heights(u, M \ {n}, k, IF t.red[n] THEN NULL ELSE p, SideOf(u, p, c))
  BY <1>9
<1>15. (p = NULL => c = u.root) /\ c \in Ptr /\ p \in (M \ {n}) \cup {NULL}
  BY <1>1
<1>16. RedsApart(u, M \ {n}, {c}) /\ (t.red[n] => RedsApart(u, M \ {n}, {}))
  BY <1>5
<1> HIDE DEF c, p
<1>17. Removed(u, M \ {n}, c, p, t.red[n])
  BY <1>10, <1>11, <1>12, <1>13, <1>14, <1>15, <1>16 DEF Removed
<1> QED  BY <1>17 DEF c, p

\* The node that was not cut out takes the place of the one that goes.
LEMMA RenameRemoved ==
  ASSUME NEW t, NEW M, NEW old \in M, NEW new \in Node \ M, NEW u, Renamed(t, u, old, new),
         \A m \in M \ {old}, s \in Side : Beyond(s, m, old) <=> Beyond(s, m, new),
         NEW c, NEW q, NEW isRed, Removed(t, M, c, q, isRed), c # old
  PROVE  Removed(u, (M \ {old}) \cup {new}, c, Fwd(old, new, q), isRed)
<1> DEFINE N == (M \ {old}) \cup {new}
           r == Fwd(old, new, q)
           d == SideOf(t, q, c)
<1>1. /\ c \in Ptr /\ q \in M \cup {NULL}
      /\ \E sub : Shape(t, M, sub)
      /\ \E h : Heights(t, M, h, IF isRed THEN NULL ELSE q, d)
      /\ RedsApart(t, M, {c}) /\ (isRed => RedsApart(t, M, {}))
      /\ IsRed(t, t.root) => ~isRed /\ t.root = c
      /\ q = NULL => c = t.root
      /\ q # NULL => t.child[d][q] = c
      /\ c # NULL => c \in M /\ t.parent[c] = q
  BY DEF Removed
<1>2. PICK sub : Shape(t, M, sub)
  BY <1>1
<1>3. PICK h : Heights(t, M, h, IF isRed THEN NULL ELSE q, d)
  BY <1>1
<1>4. /\ M \subseteq Node /\ NULL \notin Node /\ old # NULL /\ new # NULL /\ old # new
      /\ c # new /\ (c # NULL => c \in N)
  BY <1>1, <1>2, ShapeTypes, NullNotNode
<1>5. /\ r \in N \cup {NULL} /\ (r = NULL <=> q = NULL)
      /\ q # NULL => r \in N /\ Bwd(old, new, r) = q
      /\ Fwd(old, new, NULL) = NULL
  BY <1>1, <1>4 DEF Fwd, Bwd
<1>6. \E w : Shape(u, N, w)
  BY <1>2, RenameShape
<1>7. ASSUME q # NULL
      PROVE  SideOf(u, r, c) = d /\ u.child[d][r] = c /\ d \in Side
  <2>0. r \in N /\ Bwd(old, new, r) = q /\ "left" \in Side /\ d \in Side
    BY <1>5, <1>7 DEF SideOf, Side
  <2> HIDE DEF r, d
  <2>1. LET y == Bwd(old, new, r)
        IN  \A s \in Side : /\ u.child[s][r] = Fwd(old, new, t.child[s][y])
                            /\ t.child[s][y] \in Ptr /\ t.child[s][y] # new
    BY <1>2, <2>0, RenameLinks
  <2>2. \A s \in Side : u.child[s][r] = Fwd(old, new, t.child[s][q]) /\ t.child[s][q] # new
    BY <2>0, <2>1
  <2>3. u.child[d][r] = c
    BY <1>1, <1>7, <2>0, <2>2 DEF Fwd
  <2>4. u.child["left"][r] = c <=> t.child["left"][q] = c
    BY <1>4, <2>0, <2>2 DEF Fwd
  <2>5. SideOf(u, r, c) = SideOf(t, q, c)
    BY <2>4 DEF SideOf
  <2> QED  BY <2>0, <2>3, <2>5 DEF d
<1>8. \E k : Heights(u, N, k, IF isRed THEN NULL ELSE r, SideOf(u, r, c))
  <2> DEFINE f == SideOf(u, r, c)
             a == IF isRed THEN NULL ELSE q
  <2>1. a \in M \cup {NULL} /\ Fwd(old, new, a) = IF isRed THEN NULL ELSE r
    BY <1>1, <1>5
  <2>e. Heights(t, M, h, a, d)
    BY <1>3
  <2> HIDE DEF a, d
  <2>2. PICK k : Heights(u, N, k, Fwd(old, new, a), d)
    BY <1>2, <2>1, <2>e, RenameHeights
  <2>3. Heights(u, N, k, IF isRed THEN NULL ELSE r, d)
    BY <2>1, <2>2
  <2>4. CASE q # NULL
    BY <1>7, <2>3, <2>4
  <2>5. CASE q = NULL
    <3>1. Heights(u, N, k, NULL, d)
      BY <1>5, <2>3, <2>5
    <3>2. PICK w : Shape(u, N, w)
      BY <1>6
    <3> HIDE DEF f, N
    <3>3. Heights(u, N, k, NULL, f)
      BY <3>1, <3>2, AnySide
    <3>4. r = NULL
      BY <1>5, <2>5
    <3> HIDE DEF r
    <3> QED  BY <3>3, <3>4 DEF f
  <2> QED  BY <2>4, <2>5
<1>9. /\ RedsApart(u, N, {c}) /\ (isRed => RedsApart(u, N, {}))
      /\ IsRed(t, t.root) <=> IsRed(u, u.root)
  <2>1. old \notin {c} /\ old \notin {}
    OBVIOUS
  <2>2. RedsApart(u, N, {c}) /\ (IsRed(t, t.root) <=> IsRed(u, u.root))
    BY <1>1, <1>2, <2>1, RenameReds
  <2>3. isRed => RedsApart(u, N, {})
    BY <1>1, <1>2, <2>1, RenameReds
  <2> QED  BY <2>2, <2>3
<1>10. u.root = Fwd(old, new, t.root)
  BY DEF Renamed, Fwd
<1>11. ASSUME c # NULL PROVE u.parent[c] = r
  <2>1. c \in N /\ Bwd(old, new, c) = c
    BY <1>4, <1>11 DEF Bwd
  <2>2. u.parent[c] = Fwd(old, new, t.parent[Bwd(old, new, c)])
    BY <1>2, <2>1, RenameLinks
  <2> QED  BY <1>1, <1>11, <2>1, <2>2
<1>12. (IsRed(u, u.root) => ~isRed /\ u.root = c) /\ (r = NULL => c = u.root)
  BY <1>1, <1>5, <1>9, <1>10 DEF Fwd
<1>13. r # NULL => u.child[SideOf(u, r, c)][r] = c
  BY <1>5, <1>7
<1> HIDE DEF r, N
<1>14. Removed(u, N, c, r, isRed)
  BY <1>1, <1>4, <1>5, <1>6, <1>8, <1>9, <1>11, <1>12, <1>13 DEF Removed
<1> QED  BY <1>14 DEF r, N

\* Around a node with two children and its successor m.
LEMMA Successor ==
  ASSUME NEW t, NEW M, NEW sub, Shape(t, M, sub), NEW old \in M,
         t.child["left"][old] # NULL, t.child["right"][old] # NULL,
         NEW m, LastOn(t, M, sub, t.child["right"][old], "left", m)
  PROVE  LET l == t.child["left"][old]
             r == t.child["right"][old]
             c == t.child["right"][m]
             p == t.parent[m]
         IN  /\ old \in Node /\ m \in M /\ m \in Node /\ m # old
             /\ l \in M /\ r \in M /\ l # m /\ l # r /\ l # old /\ r # old
             /\ t.parent[l] = old /\ t.parent[r] = old
             /\ t.child["left"][m] = NULL
             /\ p \in M /\ p \in Node /\ p # m /\ (p = old <=> m = r)
             /\ p # old => t.child["left"][p] = m
             /\ c \in Ptr /\ c \notin {m, old, l, r} /\ (c # NULL => t.parent[c] = m)
             /\ \A y \in M \ {m, old}, s \in Side : Beyond(s, y, old) <=> Beyond(s, y, m)
<1> DEFINE l == t.child["left"][old]
           r == t.child["right"][old]
           c == t.child["right"][m]
           p == t.parent[m]
<1>s. "left" \in Side /\ "right" \in Side /\ Other("left") = "right" /\ Other("right") = "left"
  BY DEF Side, Other
<1>1. /\ m \in sub[r] /\ m \in M /\ t.child["left"][m] = NULL
      /\ \A y \in sub[r] \ {m} : Beyond("left", m, y)
      /\ m # r => t.parent[m] \in sub[r] /\ t.child["left"][t.parent[m]] = m
  BY DEF LastOn
<1>2. /\ M \subseteq Node /\ NULL \notin Node
      /\ l \in M /\ r \in M /\ t.parent[l] = old /\ t.parent[r] = old
      /\ c \in Ptr /\ (c # NULL => c \in M /\ t.parent[c] = m)
      /\ p \in Ptr /\ (p # NULL => p \in M)
  BY <1>s, <1>1, ShapeTypes, NullNotNode
<1>3. /\ old \notin sub[r] /\ sub[l] \cap sub[r] = {} /\ sub[r] \subseteq sub[old]
      /\ sub[old] = {old} \cup sub[l] \cup sub[r] /\ old \in sub[old]
  BY <1>s, Subtree
<1>4. l \in sub[l] /\ r \in sub[r]
  BY <1>s, <1>2, Subtree
<1>5. m # old /\ l # m /\ l # r /\ l # old /\ r # old
  <2>1. l # old
    BY <1>s, Children
  <2> QED  BY <1>1, <1>3, <1>4, <2>1
<1>6. c \notin {m, old}
  <2>1. sub[c] \subseteq sub[m] /\ m \notin sub[c]
    BY <1>s, <1>1, Subtree
  <2>2. sub[m] \subseteq sub[r]
    BY <1>1, <1>2, Closed
  <2>3. c # NULL => c \in sub[c]
    BY <1>s, <1>2, Subtree
  <2> QED  BY <1>1, <1>2, <1>3, <2>1, <2>2, <2>3
<1>7. c \notin {l, r}
  BY <1>2, <1>5
<1>8. /\ p \in M /\ p \in Node /\ p # m /\ (p = old <=> m = r)
      /\ p # old => t.child["left"][p] = m
  <2>1. CASE m = r
    BY <1>2, <1>5, <2>1
  <2>2. CASE m # r
    <3>1. p \in sub[r] /\ t.child["left"][p] = m
      BY <1>1, <2>2
    <3>2. p \in M
      BY <1>2, <3>1, Closed
    <3>3. p # m
      BY <1>1, Pointers
    <3> QED  BY <1>2, <1>3, <2>2, <3>1, <3>2, <3>3
  <2> QED  BY <2>1, <2>2
<1>9. ASSUME NEW y \in M \ {m, old}, NEW s \in Side PROVE Beyond(s, y, old) <=> Beyond(s, y, m)
  <2>1. \A z \in sub[r] : Beyond("right", z, old)
    BY <1>s DEF Shape
  <2>2. \A z \in sub[l] : Beyond("left", z, old)
    BY <1>s DEF Shape
  <2>3. y \in Int /\ m \in Int /\ old \in Int
    BY <1>1, <1>2, RbAssumption
  <2> HIDE DEF l, r, c, p
  <2>4. old < m
    BY <1>1, <2>1 DEF Beyond
  <2>5. CASE y \in sub[r]
    <3>1. m < y
      BY <1>1, <2>5 DEF Beyond
    <3> QED  BY <2>3, <2>4, <3>1 DEF Beyond
  <2>6. CASE y \in sub[l]
    <3>1. y < old
      BY <2>2, <2>6 DEF Beyond
    <3> QED  BY <2>3, <2>4, <3>1 DEF Beyond
  <2>7. CASE y \notin sub[old]
    <3>1. PICK e \in Side : \A a \in sub[old] : Beyond(e, a, y)
      BY <2>7, Outside
    <3>2. Beyond(e, old, y) /\ Beyond(e, m, y)
      BY <1>1, <1>3, <3>1
    <3> QED  BY <2>3, <2>4, <3>2 DEF Beyond
  <2> QED  BY <1>3, <2>5, <2>6, <2>7
<1> HIDE DEF l, r, c, p
<1>10. old \in Node /\ m \in Node
  BY <1>1, <1>2
<1> QED  BY <1>1, <1>2, <1>5, <1>6, <1>7, <1>8, <1>9, <1>10 DEF l, r, c, p

\* Supplant and what follows it cut the successor out and put it in old's place.
LEMMA SupplantIs ==
  ASSUME NEW t, NEW M, NEW sub, Shape(t, M, sub), NEW old \in M,
         t.child["left"][old] # NULL, t.child["right"][old] # NULL,
         NEW m, m = Farthest(t, t.child["right"][old], "left"),
         NEW u, CutOut(t, u, m, "right")
  PROVE  LET cut == Supplant(t, old)
         IN  /\ Renamed(u, Forget(cut.tree, old), old, m)
             /\ cut.child = t.child["right"][m]
             /\ cut.parent = Fwd(old, m, t.parent[m]) /\ cut.red = t.red[m]
<1> DEFINE l == t.child["left"][old]
           r == t.child["right"][old]
           c == t.child["right"][m]
           p == t.parent[m]
           po == t.parent[old]
           t1 == Redirect(t, po, old, m)
           ta == SetParent(t1, c, p)
           tb == SetChild(ta, "left", p, c)
           tc == SetChild(tb, "right", m, r)
           td == SetParent(tc, r, m)
           t2 == IF p = old THEN t1 ELSE td
           te == SetParent(t2, m, po)
           t3 == Paint(te, m, t.red[old])
           tg == SetChild(t3, "left", m, l)
           t4 == SetParent(tg, l, m)
           v  == Forget(t4, old)
<1>s. "left" \in Side /\ "right" \in Side /\ "left" # "right" /\ \A s \in Side : s = "left" \/ s = "right"
  BY DEF Side
<1>0. LET cut == Supplant(t, old)
      IN  /\ cut.tree = t4 /\ cut.child = c /\ cut.red = t.red[m]
          /\ cut.parent = IF p = old THEN m ELSE p
  BY DEF Supplant
<1>1. /\ old \in Node /\ m \in M /\ m \in Node /\ m # old
      /\ l \in M /\ r \in M /\ l # m /\ l # r /\ l # old /\ r # old
      /\ t.parent[l] = old /\ t.parent[r] = old
      /\ t.child["left"][m] = NULL
      /\ p \in M /\ p \in Node /\ p # m /\ (p = old <=> m = r)
      /\ p # old => t.child["left"][p] = m
      /\ c \in Ptr /\ c \notin {m, old, l, r} /\ (c # NULL => t.parent[c] = m)
  <2>1. r \in M
    BY <1>s, ShapeTypes
  <2>2. LastOn(t, M, sub, r, "left", m)
    BY <1>s, <2>1, FarthestIs
  <2> QED  BY <2>2, Successor
<1>2. /\ t \in TreeType /\ M \subseteq Node /\ NULL \notin Node /\ po \in Ptr
      /\ l \in Ptr /\ r \in Ptr /\ m \in Ptr /\ p \in Ptr /\ t.red[old] \in BOOLEAN
      /\ old = t.root <=> po = NULL
  BY <1>1, ShapeTypes, NullNotNode DEF Ptr
<1>3. /\ \A s \in Side, x \in Node : t.child[s][x] = old => x = po
      /\ \A x \in Node : t.parent[x] = old <=> x = l \/ x = r
      /\ po # NULL => \E s \in Side : t.child[s][po] = old /\ t.child[Other(s)][po] # old
      /\ po # old
  <2>1. /\ \A s \in Side, x \in Node : t.child[s][x] = old => x = po
        /\ \A x \in Node : t.parent[x] = old <=> \E s \in Side : t.child[s][old] = x
        /\ po # NULL => \E s \in Side : t.child[s][po] = old /\ t.child[Other(s)][po] # old
        /\ po # old
    BY Pointers
  <2> QED  BY <1>s, <2>1
<1>4. \A s \in Side, x \in Node : t.child[s][x] = m => x = p
  BY <1>1, Pointers
<1>5. /\ u \in TreeType /\ u.root = t.root
      /\ \A s \in Side, x \in Node :
           u.child[s][x] = IF x = m THEN NULL ELSE IF t.child[s][x] = m THEN c ELSE t.child[s][x]
      /\ \A x \in Node : u.parent[x] = IF x = m THEN NULL ELSE IF x = c THEN p ELSE t.parent[x]
      /\ \A x \in Node \ {m} : u.red[x] = t.red[x]
  <2>1. p # NULL
    BY <1>1, <1>2
  <2> QED  BY <2>1 DEF CutOut
<1>6. /\ t.child["left"][old] = l /\ t.child["right"][old] = r /\ t.child["right"][m] = c
      /\ t.parent[m] = p /\ t.parent[old] = po
  OBVIOUS
<1>y. /\ t \in TreeType /\ old \in Node /\ m \in Node /\ m \in Ptr /\ p \in Node /\ p \in Ptr
      /\ po \in Ptr /\ l \in Ptr /\ r \in Ptr /\ c \in Ptr
      /\ po # NULL => \E s \in Side : t.child[s][po] = old /\ t.child[Other(s)][po] # old
  BY <1>1, <1>2, <1>3
<1> DEFINE col == t.red[old]
<1>z. col \in BOOLEAN /\ col = t.red[old]
  BY <1>2
<1> HIDE DEF l, r, c, p, po, col
<1>7. /\ t1 \in TreeType /\ t1.root = (IF po = NULL THEN m ELSE t.root)
      /\ t1.parent = t.parent /\ t1.red = t.red
      /\ \A s \in Side, x \in Node :
           t1.child[s][x] = IF x = po /\ t.child[s][x] = old THEN m ELSE t.child[s][x]
  BY ONLY <1>y, RedirectIs
<1>a. t1 \in TreeType
  BY <1>7
<1> HIDE DEF t1
<1>8. /\ ta \in TreeType /\ ta.root = t1.root /\ ta.child = t1.child /\ ta.red = t1.red
      /\ \A x \in Node : ta.parent[x] = IF x = c THEN p ELSE t1.parent[x]
  BY <1>y, <1>a, SetParentIs
<1>b. ta \in TreeType
  BY <1>8
<1> HIDE DEF ta
<1>9. /\ tb \in TreeType /\ tb.root = ta.root /\ tb.parent = ta.parent /\ tb.red = ta.red
      /\ \A s \in Side, x \in Node :
           tb.child[s][x] = IF s = "left" /\ x = p THEN c ELSE ta.child[s][x]
  BY <1>s, <1>y, <1>b, SetChildIs
<1>c. tb \in TreeType
  BY <1>9
<1> HIDE DEF tb
<1>10. /\ tc \in TreeType /\ tc.root = tb.root /\ tc.parent = tb.parent /\ tc.red = tb.red
       /\ \A s \in Side, x \in Node :
            tc.child[s][x] = IF s = "right" /\ x = m THEN r ELSE tb.child[s][x]
  BY ONLY <1>s, <1>y, <1>c, SetChildIs
<1>d. tc \in TreeType
  BY <1>10
<1> HIDE DEF tc
<1>11. /\ td \in TreeType /\ td.root = tc.root /\ td.child = tc.child /\ td.red = tc.red
       /\ \A x \in Node : td.parent[x] = IF x = r THEN m ELSE tc.parent[x]
  BY ONLY <1>y, <1>d, SetParentIs
<1> HIDE DEF td
<1>12. /\ t2 \in TreeType /\ t2.root = (IF po = NULL THEN m ELSE t.root) /\ t2.red = t.red
       /\ \A x \in Node : x # m => t2.parent[x] = IF x = c THEN (IF p = old THEN m ELSE p)
                                       ELSE IF x = r THEN m ELSE t.parent[x]
       /\ t2.child["right"][m] = IF p = old THEN c ELSE r
       /\ \A s \in Side, x \in Node : x \notin {m, old} =>
            t2.child[s][x] = IF t.child[s][x] = old THEN m
                             ELSE IF t.child[s][x] = m THEN c ELSE t.child[s][x]
  <2>1. CASE p = old
    <3>1. m = r /\ t2 = t1
      BY <1>1, <2>1
    <3>2. \A x \in Node : x # m => t2.parent[x] = IF x = c THEN (IF p = old THEN m ELSE p)
                                       ELSE IF x = r THEN m ELSE t.parent[x]
      BY <1>1, <1>2, <1>7, <2>1, <3>1
    <3> HIDE DEF t2
    <3>x. /\ c # old /\ c \in Ptr
      BY <1>1
    <3>3. t2.child["right"][m] = c
      BY <1>s, <1>1, <1>6, <1>7, <3>1, <3>x
    <3>4. ASSUME NEW s \in Side, NEW x \in Node, x \notin {m, old}
          PROVE  t2.child[s][x] = IF t.child[s][x] = old THEN m
                                  ELSE IF t.child[s][x] = m THEN c ELSE t.child[s][x]
      BY <1>3, <1>4, <1>7, <2>1, <3>1, <3>4
    <3> QED  BY <1>7, <2>1, <3>1, <3>2, <3>3, <3>4
  <2>2. CASE p # old
    <3>1. t2 = td
      BY <2>2
    <3> HIDE DEF t2
    <3>2. ASSUME NEW x \in Node, x # m
          PROVE  t2.parent[x] = IF x = c THEN (IF p = old THEN m ELSE p)
                                       ELSE IF x = r THEN m ELSE t.parent[x]
      <4>1. t2.parent[x] = IF x = r THEN m ELSE IF x = c THEN p ELSE t.parent[x]
        BY <1>7, <1>8, <1>9, <1>10, <1>11, <3>1
      <4>2. c # r
        BY <1>1
      <4> QED  BY <2>2, <4>1, <4>2
    <3>3. t2.child["right"][m] = r
      BY <1>s, <1>1, <1>10, <1>11, <3>1
    <3>4. ASSUME NEW s \in Side, NEW x \in Node, x \notin {m, old}
          PROVE  t2.child[s][x] = IF t.child[s][x] = old THEN m
                                  ELSE IF t.child[s][x] = m THEN c ELSE t.child[s][x]
      <4>1. t2.child[s][x] = IF s = "left" /\ x = p THEN c ELSE t1.child[s][x]
        BY <1>8, <1>9, <1>10, <1>11, <3>1, <3>4
      <4>2. t1.child[s][x] = IF t.child[s][x] = old THEN m ELSE t.child[s][x]
        BY <1>3, <1>7
      <4>3. t.child["left"][p] = m /\ t.child["right"][p] # m
        <5>1. t.child["right"][p] # m
          <6>1. LET q == t.parent[m]
                    e == SideOf(t, q, m)
                IN  t.child[e][q] = m /\ t.child[Other(e)][q] # m
            BY <1>1, <1>2, <1>6, ParentSide
          <6>2. t.child["left"][p] = m
            BY <1>1, <2>2
          <6> QED  BY <1>6, <6>1, <6>2 DEF SideOf, Other
        <5> QED  BY <1>1, <2>2, <5>1
      <4>4. CASE x = p
        BY <1>s, <1>1, <4>1, <4>2, <4>3, <4>4
      <4>5. CASE x # p
        BY <1>4, <4>1, <4>2, <4>5
      <4> QED  BY <4>4, <4>5
    <3>5. t2.root = (IF po = NULL THEN m ELSE t.root) /\ t2.red = t.red /\ t2 \in TreeType
      BY <1>7, <1>8, <1>9, <1>10, <1>11, <3>1
    <3> QED  BY <2>2, <3>2, <3>3, <3>4, <3>5
  <2> QED  BY <2>1, <2>2
<1>e. t2 \in TreeType
  BY <1>12
<1> HIDE DEF t2
<1>13. /\ te \in TreeType /\ te.root = t2.root /\ te.child = t2.child /\ te.red = t2.red
       /\ \A x \in Node : te.parent[x] = IF x = m THEN po ELSE t2.parent[x]
  BY ONLY <1>y, <1>e, SetParentIs
<1>f. te \in TreeType
  BY <1>13
<1> HIDE DEF te
<1>14. /\ t3 \in TreeType /\ t3.root = te.root /\ t3.child = te.child /\ t3.parent = te.parent
       /\ \A x \in Node : t3.red[x] = IF x = m THEN t.red[old] ELSE te.red[x]
  <2>1. t3 = Paint(te, m, col)
    BY <1>z
  <2> HIDE DEF t3
  <2>2. LET a == Paint(te, m, col)
        IN  /\ a \in TreeType /\ a.root = te.root /\ a.child = te.child /\ a.parent = te.parent
            /\ \A x \in Node : a.red[x] = IF x = m THEN col ELSE te.red[x]
    BY <1>y, <1>z, <1>f, PaintIs
  <2> QED  BY <1>z, <2>1, <2>2
<1>g. t3 \in TreeType
  BY <1>14
<1> HIDE DEF t3
<1>15. /\ tg \in TreeType /\ tg.root = t3.root /\ tg.parent = t3.parent /\ tg.red = t3.red
       /\ \A s \in Side, x \in Node :
            tg.child[s][x] = IF s = "left" /\ x = m THEN l ELSE t3.child[s][x]
  BY ONLY <1>s, <1>y, <1>g, SetChildIs
<1>h. tg \in TreeType
  BY <1>15
<1> HIDE DEF tg
<1>16. /\ t4 \in TreeType /\ t4.root = tg.root /\ t4.child = tg.child /\ t4.red = tg.red
       /\ \A x \in Node : t4.parent[x] = IF x = l THEN m ELSE tg.parent[x]
  BY ONLY <1>y, <1>h, SetParentIs
<1>i. t4 \in TreeType
  BY <1>16
<1>t. t4 = SetParent(tg, l, m)
  OBVIOUS
<1> HIDE DEF t4
<1>17. /\ v \in TreeType /\ v.root = t4.root
       /\ \A s \in Side, x \in Node : v.child[s][x] = IF x = old THEN NULL ELSE t4.child[s][x]
       /\ \A x \in Node : v.parent[x] = IF x = old THEN NULL ELSE t4.parent[x]
       /\ \A x \in Node : x # old => v.red[x] = t4.red[x]
  BY <1>1, <1>i, ForgetIs
<1> HIDE DEF v
<1>18. v.root = IF u.root = old THEN m ELSE u.root
  BY <1>2, <1>5, <1>12, <1>13, <1>14, <1>15, <1>16, <1>17
<1>19. ASSUME NEW x \in Node
       PROVE  v.parent[x] = IF x = old THEN NULL ELSE IF x = m THEN u.parent[old]
                            ELSE IF u.parent[x] = old THEN m ELSE u.parent[x]
  <2>1. v.parent[x] = IF x = old THEN NULL ELSE IF x = l THEN m ELSE IF x = m THEN po ELSE t2.parent[x]
    BY <1>13, <1>14, <1>15, <1>16, <1>17
  <2>2. u.parent[old] = po
    BY <1>1, <1>5, <1>6
  <2>3. CASE x = old \/ x = m
    BY <1>1, <2>1, <2>2, <2>3
  <2>4. CASE x # old /\ x # m
    <3>1. t2.parent[x] = IF x = c THEN (IF p = old THEN m ELSE p)
                                       ELSE IF x = r THEN m ELSE t.parent[x]
      BY <1>12, <2>4
    <3>2. u.parent[x] = IF x = c THEN p ELSE t.parent[x]
      BY <1>5, <2>4
    <3>3. t.parent[x] = old <=> x = l \/ x = r
      BY <1>3
    <3>4. c # l /\ c # r /\ (p = old <=> m = r)
      BY <1>1
    <3>5. CASE x = c
      <4>1. v.parent[x] = (IF p = old THEN m ELSE p) /\ u.parent[x] = p
        BY <2>1, <2>4, <3>1, <3>2, <3>4, <3>5
      <4> QED  BY <2>4, <4>1
    <3>6. CASE x # c
      BY <2>1, <2>4, <3>1, <3>2, <3>3, <3>6
    <3> QED  BY <3>5, <3>6
  <2> QED  BY <2>3, <2>4
<1>20. ASSUME NEW x \in Node, NEW s \in Side
       PROVE  v.child[s][x] = IF x = old THEN NULL ELSE IF x = m THEN u.child[s][old]
                              ELSE IF u.child[s][x] = old THEN m ELSE u.child[s][x]
  <2>1. v.child[s][x] = IF x = old THEN NULL ELSE IF s = "left" /\ x = m THEN l ELSE t2.child[s][x]
    BY <1>13, <1>14, <1>15, <1>16, <1>17
  <2>2. u.child["left"][old] = l /\ u.child["right"][old] = IF p = old THEN c ELSE r
    BY <1>s, <1>1, <1>5, <1>6
  <2>3. CASE x = old
    BY <2>1, <2>3
  <2>4. CASE x = m
    BY <1>s, <1>1, <1>12, <2>1, <2>2, <2>4
  <2>5. CASE x # old /\ x # m
    <3>1. t2.child[s][x] = IF t.child[s][x] = old THEN m
                           ELSE IF t.child[s][x] = m THEN c ELSE t.child[s][x]
      BY <1>12, <2>5
    <3>2. u.child[s][x] = IF t.child[s][x] = m THEN c ELSE t.child[s][x]
      BY <1>5, <2>5
    <3>3. c # old /\ m # old
      BY <1>1
    <3> QED  BY <2>1, <2>5, <3>1, <3>2, <3>3
  <2> QED  BY <2>3, <2>4, <2>5
<1>21. v.red[m] = u.red[old] /\ \A x \in Node \ {old, m} : v.red[x] = u.red[x]
  BY <1>1, <1>5, <1>12, <1>13, <1>14, <1>15, <1>16, <1>17
<1>22. Renamed(u, v, old, m)
  BY <1>17, <1>18, <1>19, <1>20, <1>21 DEF Renamed
<1>23. Fwd(old, m, p) = IF p = old THEN m ELSE p
  BY DEF Fwd
<1> QED  BY <1>0, <1>22, <1>23 DEF v, c, p

\* rb_erase leaves the invariant, between calls or at the start of its loop.
LEMMA EraseStep ==
  ASSUME IInv, NEW n \in Node, rb_erase(n)
  PROVE  IInv'
<1> DEFINE two == NULL \notin {tree.child.left[n], tree.child.right[n]}
           cut == IF two THEN Supplant(tree, n) ELSE Splice(tree, n)
           N == member \ {n}
<1>1. /\ pc = "idle" /\ n \in member /\ tree' = Forget(cut.tree, n) /\ member' = N
      /\ cut.red => pc' = pc /\ node' = node /\ parent' = parent
      /\ ~cut.red => pc' = "erase_color" /\ node' = cut.child /\ parent' = cut.parent
  BY DEF rb_erase
<1>2. PICK sub : Shape(tree, member, sub)
  BY DEF IInv
<1>3. PICK h, e : Heights(tree, member, h, NULL, e)
  BY <1>1 DEF IInv, Owing
<1>4. node = NULL /\ parent = NULL /\ ~IsRed(tree, tree.root) /\ RedsApart(tree, member, {})
  BY <1>1 DEF IInv, Cursor, Excused
<1>5. Removed(Forget(cut.tree, n), N, cut.child, cut.parent, cut.red)
  <2>1. CASE ~two
    <3> DEFINE s == Splice(tree, n)
               b == Kept(tree, n)
               u == Forget(s.tree, n)
    <3>1. /\ CutOut(tree, u, n, b) /\ b \in Side /\ tree.child[Other(b)][n] = NULL
          /\ s.child = tree.child[b][n] /\ s.parent = tree.parent[n] /\ s.red = tree.red[n]
      BY <1>1, <1>2, <2>1, SpliceIs
    <3>2. cut = s
      BY <2>1
    <3>e. u = Forget(s.tree, n)
      OBVIOUS
    <3> HIDE DEF s, b, u, cut, two
    <3>3. Removed(u, member \ {n}, tree.child[b][n], tree.parent[n], tree.red[n])
      BY <1>1, <1>2, <1>3, <1>4, <3>1, CutRemoved
    <3> QED  BY <3>1, <3>2, <3>3, <3>e
  <2>2. CASE two
    <3> DEFINE m == Farthest(tree, tree.child["right"][n], "left")
               s == Splice(tree, m)
               u == Forget(s.tree, m)
               a == Supplant(tree, n)
               v == Forget(a.tree, n)
    <3>0. /\ tree.child["left"][n] # NULL /\ tree.child["right"][n] # NULL
          /\ "left" \in Side /\ "right" \in Side /\ cut = a
      BY <2>2 DEF Side
    <3>1. tree.child["right"][n] \in member
      BY <1>1, <1>2, <3>0, ShapeTypes
    <3>2. LastOn(tree, member, sub, tree.child["right"][n], "left", m)
      BY <1>2, <3>0, <3>1, FarthestIs
    <3>e. m = Farthest(tree, tree.child["right"][n], "left")
      OBVIOUS
    <3> HIDE DEF m
    <3>3. /\ m \in member /\ m \in Node /\ m # n /\ tree.child["left"][m] = NULL
          /\ tree.child["right"][m] # n
          /\ \A y \in member \ {m, n}, d \in Side : Beyond(d, y, n) <=> Beyond(d, y, m)
      BY <1>1, <1>2, <3>0, <3>2, Successor
    <3>4. /\ CutOut(tree, u, m, Kept(tree, m))
          /\ tree.child[Other(Kept(tree, m))][m] = NULL
      <4>1. NULL \in {tree.child.left[m], tree.child.right[m]}
        BY <3>3
      <4> QED  BY <1>2, <3>3, <4>1, SpliceIs
    <3>5. Kept(tree, m) = "right"
      BY <3>3 DEF Kept
    <3> HIDE DEF s, u
    <3>6. CutOut(tree, u, m, "right") /\ tree.child[Other("right")][m] = NULL
      BY <3>4, <3>5
    <3>7. Removed(u, member \ {m}, tree.child["right"][m], tree.parent[m], tree.red[m])
      BY <1>2, <1>3, <1>4, <3>0, <3>3, <3>6, CutRemoved
    <3>8. /\ Renamed(u, v, n, m)
          /\ a.child = tree.child["right"][m]
          /\ a.parent = Fwd(n, m, tree.parent[m]) /\ a.red = tree.red[m]
      BY <1>1, <1>2, <3>0, <3>3, <3>6, <3>e, SupplantIs
    <3>f. v = Forget(a.tree, n)
      OBVIOUS
    <3> HIDE DEF a, v, cut, two
    <3>9. /\ n \in member \ {m} /\ m \in Node \ (member \ {m})
          /\ \A y \in (member \ {m}) \ {n}, d \in Side : Beyond(d, y, n) <=> Beyond(d, y, m)
      BY <1>1, <3>3
    <3>10. Removed(v, ((member \ {m}) \ {n}) \cup {m}, tree.child["right"][m],
                   Fwd(n, m, tree.parent[m]), tree.red[m])
      BY <3>3, <3>7, <3>8, <3>9, RenameRemoved
    <3>11. ((member \ {m}) \ {n}) \cup {m} = N
      BY <3>3
    <3> QED  BY <3>0, <3>8, <3>10, <3>11, <3>f
  <2> QED  BY <2>1, <2>2
<1> HIDE DEF cut, two
<1>6. Removed(tree', member', cut.child, cut.parent, cut.red)
  BY <1>1, <1>5
<1>7. /\ cut.child \in Ptr /\ cut.parent \in member' \cup {NULL}
      /\ \E w : Shape(tree', member', w)
      /\ \E k : Heights(tree', member', k, IF cut.red THEN NULL ELSE cut.parent,
                        SideOf(tree', cut.parent, cut.child))
      /\ RedsApart(tree', member', {cut.child}) /\ (cut.red => RedsApart(tree', member', {}))
      /\ IsRed(tree', tree'.root) => ~cut.red /\ tree'.root = cut.child
      /\ cut.parent = NULL => cut.child = tree'.root
      /\ cut.parent # NULL => tree'.child[SideOf(tree', cut.parent, cut.child)][cut.parent] = cut.child
      /\ cut.child # NULL => cut.child \in member' /\ tree'.parent[cut.child] = cut.parent
  BY <1>6 DEF Removed
<1>8. PICK w : Shape(tree', member', w)
  BY <1>7
<1>9. CASE cut.red
  <2>1. \E k, f : Heights(tree', member', k, NULL, f)
    BY <1>7, <1>9
  <2> QED  BY <1>1, <1>4, <1>7, <1>8, <1>9, <2>1, Idle
<1>10. CASE ~cut.red
  <2>1. pc' = "erase_color" /\ node' = cut.child /\ parent' = cut.parent
    BY <1>1, <1>10
  <2>2. /\ node' \in Ptr /\ parent' \in Ptr
        /\ \E k : Heights(tree', member', k, parent', SideOf(tree', parent', node'))
        /\ parent' = NULL => node' = tree'.root
        /\ parent' # NULL => /\ parent' \in member'
                             /\ tree'.child[SideOf(tree', parent', node')][parent'] = node'
        /\ node' # NULL => node' \in member' /\ tree'.parent[node'] = parent'
        /\ IsRed(tree', tree'.root) => node' = tree'.root
    <3>1. member' \subseteq Node
      BY <1>8, ShapeTypes
    <3> QED  BY <1>7, <1>10, <2>1, <3>1 DEF Ptr
  <2>3. RedsApart(tree', member', {y \in member' : node' \in {y, tree'.parent[y]}})
    BY <1>7, <2>1 DEF RedsApart
  <2> QED  BY <1>8, <2>1, <2>2, <2>3, Erasing
<1> QED  BY <1>9, <1>10

-----------------------------------------------------------------------------
(* The invariant holds of every behaviour.                                 *)

\* The empty tree satisfies the invariant.
LEMMA InitIInv == Init => IInv
<1> SUFFICES ASSUME Init PROVE IInv
  OBVIOUS
<1>1. /\ tree = EmptyTree /\ pc = "idle" /\ node = NULL /\ parent = NULL /\ member = {}
      /\ NULL \in Ptr
  BY DEF Init, Ptr
<1> DEFINE sub == [x \in Ptr |-> {}]
           h == [x \in Ptr |-> 1]
<1>2. /\ tree \in TreeType /\ tree.root = NULL
      /\ \A n \in Node : tree.parent[n] = NULL /\ \A s \in Side : tree.child[s][n] = NULL
  BY <1>1 DEF EmptyTree, TreeType
<1>3. sub \in [Ptr -> SUBSET Node] /\ sub[NULL] = {}
  BY <1>1
<1> HIDE DEF sub
<1>4. Shape(tree, member, sub)
  BY <1>1, <1>2, <1>3 DEF Shape
<1>5. h \in [Ptr -> Nat \ {0}] /\ h[NULL] = 1
  BY <1>1
<1> HIDE DEF h
<1>6. Heights(tree, member, h, Owing, SideOf(tree, Owing, node))
  BY <1>1, <1>5 DEF Heights
<1>7. RedsApart(tree, member, Excused) /\ Cursor
  BY <1>1, <1>2 DEF RedsApart, Cursor, IsRed
<1> QED  BY <1>1, <1>4, <1>6, <1>7 DEF IInv

\* Every operation and every turn of a fix-up loop preserves the invariant.
LEMMA StepIInv == IInv /\ [Next]_vars => IInv'
<1> SUFFICES ASSUME IInv, [Next]_vars PROVE IInv'
  OBVIOUS
<1>1. PICK sub : Shape(tree, member, sub)
  BY DEF IInv
<1>2. CASE InsertDone
  BY <1>2, InsertDoneStep
<1>3. CASE InsertTurn
  BY <1>1, <1>3, InsertTurnStep
<1>4. CASE EraseDone
  BY <1>4, EraseDoneStep
<1>5. CASE EraseTurn
  BY <1>1, <1>5, EraseTurnStep
<1>6. ASSUME NEW n \in Node, rb_link_node(n) PROVE IInv'
  BY <1>6, LinkStep
<1>7. ASSUME NEW n \in Node, rb_erase(n) PROVE IInv'
  BY <1>7, EraseStep
<1>8. ASSUME NEW victim \in Node, NEW new \in Node, rb_replace_node(victim, new) PROVE IInv'
  BY <1>8, ReplaceStep
<1>9. CASE UNCHANGED vars
  BY <1>9 DEF vars, IInv, Owing, Excused, Cursor, SideOf, IsRed, Shape, Heights, RedsApart, Black
<1> QED  BY <1>2, <1>3, <1>4, <1>5, <1>6, <1>7, <1>8, <1>9 DEF Next, Turn

\* The inductive invariant: however the calls of rb_link_node, rb_erase and
\* rb_replace_node and the turns of their loops follow each other, the nodes
\* form a search tree whose ways down have as many black nodes each, but for
\* one owed at the cursor of a removal.
THEOREM InvariantHolds == Spec => []IInv
<1>1. Init => IInv
  BY InitIInv
<1>2. IInv /\ [Next]_vars => IInv'
  BY StepIInv
<1> QED  BY <1>1, <1>2, PTL DEF Spec

\* The invariant implies that pointers, colours and cursor keep their types.
LEMMA TypesFollow ==
  ASSUME IInv
  PROVE  TypeOK
<1>1. PICK sub : Shape(tree, member, sub)
  BY DEF IInv
<1>2. tree \in TreeType /\ member \subseteq Node
  BY <1>1, ShapeTypes
<1>3. pc = "insert_color" => node \in member
  BY DEF IInv, Cursor
<1>4. ASSUME pc = "erase_color" PROVE node \in member \/ parent \in member \/ member = {}
  <2>1. /\ parent = NULL => node = tree.root
        /\ parent # NULL => parent \in member
    BY <1>4 DEF IInv, Cursor
  <2>2. tree.root = NULL => member = {}
    BY <1>1, RootAll
  <2>3. tree.root # NULL => tree.root \in member
    BY <1>1, ShapeTypes
  <2> QED  BY <2>1, <2>2, <2>3
<1>5. pc \in {"idle", "insert_color", "erase_color"} /\ node \in Ptr /\ parent \in Ptr
  BY DEF IInv
<1> QED  BY <1>2, <1>3, <1>4, <1>5 DEF TypeOK, TreeType

\* rbtree.c's pointers and colours keep their types, and a running fix-up loop
\* has a node of the tree to work at.
THEOREM TypeCorrect == Spec => []TypeOK
<1>1. IInv => TypeOK
  BY TypesFollow
<1> QED  BY <1>1, InvariantHolds, PTL

\* It implies that child and parent pointers agree.
LEMMA LinksFollow ==
  ASSUME IInv
  PROVE  LinksAgree
<1>1. PICK sub : Shape(tree, member, sub)
  BY DEF IInv
<1> QED  BY <1>1 DEF Shape, LinksAgree

\* Child and parent pointers agree at every turn of every fix-up loop, also
\* between the rotations of __rb_erase_color and rb_insert_color.
THEOREM LinksAlwaysAgree == Spec => []LinksAgree
<1>1. IInv => LinksAgree
  BY LinksFollow
<1> QED  BY <1>1, InvariantHolds, PTL

\* It implies the red rule.
LEMMA RedRuleFollows ==
  ASSUME IInv
  PROVE  RedRule
<1>1. RedsApart(tree, member, Excused) /\ pc \in {"idle", "insert_color", "erase_color"}
      /\ (IsRed(tree, tree.root) => pc # "idle" /\ node = tree.root)
  BY DEF IInv, Cursor
<1>2. PICK sub : Shape(tree, member, sub)
  BY DEF IInv
<1>3. NULL \notin member
  BY <1>2, ShapeTypes
<1>4. ASSUME NEW n \in member, IsRed(tree, n), IsRed(tree, tree.parent[n])
      PROVE  \/ pc = "insert_color" /\ n = node
             \/ pc = "erase_color" /\ node \in {n, tree.parent[n]}
  <2>1. n \in Excused
    BY <1>1, <1>3, <1>4 DEF RedsApart, IsRed
  <2> QED  BY <1>1, <2>1 DEF Excused
<1> QED  BY <1>1, <1>4 DEF RedRule

\* Red nodes stay apart but at the cursor, and between calls the root is black.
THEOREM RedRuleHolds == Spec => []RedRule
<1>1. IInv => RedRule
  BY RedRuleFollows
<1> QED  BY <1>1, InvariantHolds, PTL

-----------------------------------------------------------------------------
(* The turns of a fix-up loop climb.                                       *)

\* The level of a node is the number of nodes it is below, itself counted.
LEMMA LevelIs ==
  ASSUME NEW t, NEW M, NEW sub, Shape(t, M, sub)
  PROVE  \A n \in M : Level(t, n) = Cardinality(Above(M, sub, n))
<1> DEFINE N == Cardinality(Node)
           A == [Ptr -> Nat]
           a == [m \in Ptr |-> 0]
           f == [r \in A |-> [m \in Ptr |-> IF m = NULL THEN 0 ELSE 1 + r[t.parent[m]]]]
           Row(g, k) == [m \in Ptr |-> IF m = NULL \/ k = 0 THEN 0 ELSE 1 + g[k - 1][t.parent[m]]]
           Eq(g) == g = [k \in 0 .. N |-> Row(g, k)]
           above == CHOOSE g : Eq(g)
<1>1. \A n : Level(t, n) = above[N][n]
  BY DEF Level
<1>2. /\ N \in Nat /\ M \subseteq Node /\ NULL \notin Node /\ NULL \in Ptr
      /\ \A m \in Ptr : m # NULL => t.parent[m] \in Ptr
  <2>1. N \in Nat
    BY RbAssumption, FS_CardinalityType
  <2>2. t \in TreeType /\ M \subseteq Node
    BY ShapeTypes
  <2> QED  BY <2>1, <2>2, NullNotNode DEF TreeType, Ptr
<1>3. a \in A /\ f \in [A -> A]
  BY <1>2
<1>4. PICK g : /\ g \in [0 .. N -> A]
               /\ \A k \in 0 .. N : g[k] = IF k = 0 THEN a ELSE f[g[k - 1]]
  <2> HIDE DEF N, A, a, f
  <2>1. \E g : RowsOf(A, a, f, N, g)
    BY <1>2, <1>3, Iterates
  <2> QED  BY <2>1 DEF RowsOf
<1>5. Eq(g)
  <2>1. ASSUME NEW k \in 0 .. N PROVE g[k] = Row(g, k)
    <3>1. CASE k = 0
      BY <1>4, <3>1
    <3>2. CASE k # 0
      <4>1. k - 1 \in 0 .. N
        BY <1>2, <3>2
      <4>2. g[k - 1] \in A /\ g[k] = f[g[k - 1]]
        BY <1>4, <3>2, <4>1
      <4>3. f[g[k - 1]] = [m \in Ptr |-> IF m = NULL THEN 0 ELSE 1 + g[k - 1][t.parent[m]]]
        BY <4>2
      <4> HIDE DEF f
      <4> QED  BY <3>2, <4>2, <4>3
    <3> QED  BY <3>1, <3>2
  <2> HIDE DEF Row
  <2> QED  BY <1>4, <2>1
<1>6. Eq(above)
  <2> HIDE DEF Eq
  <2> QED  BY <1>5
<1>7. \A k \in 0 .. N, m \in Ptr :
        above[k][m] = IF m = NULL \/ k = 0 THEN 0 ELSE 1 + above[k - 1][t.parent[m]]
  <2> HIDE DEF above, N
  <2>1. above = [k \in 0 .. N |-> Row(above, k)]
    BY <1>6
  <2>2. ASSUME NEW k \in 0 .. N PROVE above[k] = Row(above, k)
    BY <2>1
  <2> QED  BY <2>2
<1> HIDE DEF above, N
<1> DEFINE rank == [m \in M |-> Cardinality(Above(M, sub, m))]
           G == {m \in M : \A k \in 0 .. N : k >= rank[m] => above[k][m] = rank[m]}
<1>8. ASSUME NEW m \in M
      PROVE  /\ rank[m] \in 1 .. N
             /\ t.parent[m] = NULL => rank[m] = 1
             /\ t.parent[m] # NULL => t.parent[m] \in M /\ rank[m] = rank[t.parent[m]] + 1
  <2>1. /\ IsFiniteSet(Above(M, sub, m)) /\ Above(M, sub, m) \in SUBSET Node
        /\ Above(M, sub, m)
             = {m} \cup (IF t.parent[m] = NULL THEN {} ELSE Above(M, sub, t.parent[m]))
    <3>1. Above(M, sub, m) \in SUBSET Node
      BY <1>2 DEF Above
    <3> QED  BY <3>1, AboveParent
  <2>2. rank[m] \in Nat /\ rank[m] <= N
    BY <2>1, RbAssumption, FS_Subset, FS_CardinalityType DEF N
  <2>3. CASE t.parent[m] = NULL
    <3>1. Above(M, sub, m) = {m}
      BY <2>1, <2>3
    <3>2. rank[m] = 1
      BY <3>1, FS_Singleton
    <3> QED  BY <1>2, <2>2, <2>3, <3>2
  <2>4. CASE t.parent[m] # NULL
    <3> DEFINE p == t.parent[m]
    <3>1. p \in M
      BY <2>4, ShapeTypes
    <3>2. m \notin Above(M, sub, p)
      BY <2>4, AboveParent
    <3>3. IsFiniteSet(Above(M, sub, p))
      BY <3>1, AboveParent
    <3>4. Above(M, sub, m) = Above(M, sub, p) \cup {m}
      BY <2>1, <2>4
    <3>5. rank[p] \in Nat
      BY <3>1, <3>3, FS_CardinalityType
    <3>6. Cardinality(Above(M, sub, p) \cup {m}) = Cardinality(Above(M, sub, p)) + 1
      BY <3>2, <3>3, FS_AddElement
    <3>7. rank[m] = rank[p] + 1
      BY <3>1, <3>4, <3>6
    <3> HIDE DEF rank
    <3> QED  BY <1>2, <2>2, <2>4, <3>1, <3>5, <3>7
  <2> QED  BY <2>3, <2>4
<1>e. \A m \in M : rank[m] = Cardinality(Above(M, sub, m))
  OBVIOUS
<1>r. rank \in [M -> Nat]
  <2>1. ASSUME NEW m \in M PROVE Cardinality(Above(M, sub, m)) \in Nat
    BY AboveParent, FS_CardinalityType
  <2> QED  BY <2>1
<1> HIDE DEF rank
<1>9. ASSUME NEW m \in M, \A y \in M : rank[y] < rank[m] => y \in G PROVE m \in G
  <2> SUFFICES ASSUME NEW k \in 0 .. N, k >= rank[m] PROVE above[k][m] = rank[m]
    OBVIOUS
  <2>1. /\ rank[m] \in 1 .. N /\ m \in Ptr /\ m # NULL /\ k # 0 /\ k - 1 \in 0 .. N
    BY <1>2, <1>8 DEF Ptr
  <2>2. above[k][m] = 1 + above[k - 1][t.parent[m]]
    BY <1>7, <2>1
  <2>3. CASE t.parent[m] = NULL
    <3>1. above[k - 1][NULL] = 0
      BY <1>2, <1>7, <2>1
    <3> QED  BY <1>8, <2>2, <2>3, <3>1
  <2>4. CASE t.parent[m] # NULL
    <3> DEFINE p == t.parent[m]
    <3>1. p \in M /\ rank[m] = rank[p] + 1 /\ rank[p] \in Nat
      BY <1>8, <1>r, <2>4
    <3>2. p \in G /\ k - 1 >= rank[p]
      BY <1>9, <2>1, <3>1
    <3>3. above[k - 1][p] = rank[p]
      BY <2>1, <3>2
    <3> HIDE DEF p
    <3> QED  BY <2>2, <3>1, <3>3 DEF p
  <2> QED  BY <2>3, <2>4
<1> HIDE DEF G
<1>10. \A m \in M : m \in G
  BY <1>9, <1>r, ByRank
<1>11. \A m \in M : above[N][m] = rank[m]
  BY <1>2, <1>8, <1>10 DEF G
<1> QED  BY <1>1, <1>11, <1>e

\* A node that is rotated down is below one node more at most.
LEMMA RotatedDown ==
  ASSUME NEW t, NEW M, NEW sub, Shape(t, M, sub), NEW n \in M, NEW s \in Side, NEW w,
         w = SubRotated(t, sub, n, s)
  PROVE  Above(M, w, n) \subseteq Above(M, sub, n) \cup {t.child[Other(s)][n]}
<1> DEFINE up == t.child[Other(s)][n]
<1>1. n \in sub[n] /\ M \subseteq Node /\ sub \in [Ptr -> SUBSET Node]
  BY Subtree, ShapeTypes
<1>2. ASSUME NEW x \in M, x # n, x # up PROVE w[x] = sub[x]
  <2>1. x \in Ptr
    BY <1>1 DEF Ptr
  <2> QED  BY <1>1, <1>2, <2>1 DEF SubRotated
<1> HIDE DEF up
<1>3. ASSUME NEW x \in M, n \in w[x], x # up PROVE n \in sub[x]
  BY <1>1, <1>2, <1>3
<1> QED  BY <1>3 DEF Above, up

\* A turn of rb_insert_color climbs.
LEMMA InsertClimbs ==
  ASSUME IInv, InsertTurn
  PROVE  Climb' < Climb
<1>1. PICK sub : Shape(tree, member, sub)
  BY DEF IInv
<1>2. IInv' /\ \E w : Shape(tree', member', w) /\ Higher(member, sub, node, w, node')
  BY <1>1, InsertTurnStep
<1>3. PICK w : Shape(tree', member', w) /\ Higher(member, sub, node, w, node')
  BY <1>2
<1>4. pc = "insert_color" /\ pc' = "insert_color" /\ member' = member
  BY DEF InsertTurn
<1>5. node \in member /\ node' \in member
  <2>1. node \in member
    BY <1>4 DEF IInv, Cursor
  <2>2. node' \in member'
    BY <1>2, <1>4 DEF IInv, Cursor
  <2> QED  BY <1>4, <2>1, <2>2
<1>6. NULL \notin member
  BY <1>1, ShapeTypes
<1>7. Level(tree, node) = Cardinality(Above(member, sub, node))
  BY <1>1, <1>5, LevelIs
<1>8. Level(tree', node') = Cardinality(Above(member, w, node'))
  <2>1. Shape(tree', member, w)
    BY <1>3, <1>4
  <2> QED  BY <1>5, <2>1, LevelIs
<1>9. /\ Cardinality(Above(member, w, node')) < Cardinality(Above(member, sub, node))
      /\ Cardinality(Above(member, w, node')) \in Nat /\ Cardinality(Above(member, sub, node)) \in Nat
  <2>1. IsFiniteSet(Above(member, sub, node))
    BY <1>1, <1>5, AboveParent
  <2>2. /\ Above(member, w, node') \in SUBSET Above(member, sub, node)
        /\ Above(member, w, node') # Above(member, sub, node)
    BY <1>3 DEF Higher
  <2>3. /\ IsFiniteSet(Above(member, w, node'))
        /\ Cardinality(Above(member, w, node')) <= Cardinality(Above(member, sub, node))
        /\ Cardinality(Above(member, w, node')) # Cardinality(Above(member, sub, node))
    BY <2>1, <2>2, FS_Subset
  <2>4. Cardinality(Above(member, w, node')) \in Nat /\ Cardinality(Above(member, sub, node)) \in Nat
    BY <2>1, <2>3, FS_CardinalityType
  <2> QED  BY <2>3, <2>4
<1>10. Depth = Cardinality(Above(member, sub, node))
  BY <1>5, <1>6, <1>7 DEF Depth
<1>11. Depth' = Cardinality(Above(member, w, node'))
  BY <1>5, <1>6, <1>8 DEF Depth
<1>12. Climb = 2 * Depth + 0 /\ Climb' = 2 * Depth' + 0
  BY <1>4 DEF Climb
<1> QED  BY <1>9, <1>10, <1>11, <1>12

\* So does a turn of __rb_erase_color that does not end it.
LEMMA EraseClimbs ==
  ASSUME IInv, EraseTurn, pc' # "idle"
  PROVE  Climb' < Climb
<1> DEFINE s == SideOf(tree, parent, node)
<1>1. PICK sub : Shape(tree, member, sub)
  BY DEF IInv
<1>2. pc = "erase_color" /\ Lacking
  BY DEF EraseTurn
<1>3. /\ member' = member /\ pc' = "erase_color" /\ node' = parent
      /\ \/ Shape(tree', member, sub)
         \/ tree'.red[parent] /\ Shape(tree', member, SubRotated(tree, sub, parent, s))
  BY <1>1, EraseTurnStep
<1>4. /\ parent \in member /\ s \in Side
      /\ node # NULL => node \in member /\ tree.parent[node] = parent
  <2>1. /\ parent = NULL => node = tree.root
        /\ parent # NULL => parent \in member
        /\ node # NULL => node \in member /\ tree.parent[node] = parent
    BY <1>2 DEF IInv, Cursor
  <2>2. node # tree.root
    BY <1>2 DEF Lacking
  <2> QED  BY <2>1, <2>2 DEF SideOf, Side
<1> DEFINE P == Above(member, sub, parent)
<1>5. /\ NULL \notin member /\ IsFiniteSet(P) /\ Cardinality(P) \in Nat
  BY <1>1, <1>4, ShapeTypes, AboveParent, FS_CardinalityType
<1>6. Level(tree, parent) = Cardinality(P)
  BY <1>1, <1>4, LevelIs
<1>e. P = Above(member, sub, parent)
  OBVIOUS
<1> HIDE DEF P, s
<1>7. Depth = Cardinality(P) + 1
  <2>1. CASE node = NULL
    BY <1>5, <1>6, <2>1 DEF Depth
  <2>2. CASE node # NULL
    <3>1. node \in member /\ tree.parent[node] = parent /\ parent # NULL
      BY <1>4, <1>5, <2>2
    <3>2. /\ Above(member, sub, node)
               = {node} \cup (IF tree.parent[node] = NULL THEN {}
                              ELSE Above(member, sub, tree.parent[node]))
          /\ tree.parent[node] # NULL => node \notin Above(member, sub, tree.parent[node])
      BY <1>1, <3>1, AboveParent
    <3>3. Above(member, sub, node) = P \cup {node} /\ node \notin P
      BY <1>e, <3>1, <3>2
    <3>4. Cardinality(Above(member, sub, node)) = Cardinality(P) + 1
      BY <1>5, <3>3, FS_AddElement
    <3>5. Level(tree, node) = Cardinality(Above(member, sub, node))
      BY <1>1, <3>1, LevelIs
    <3> QED  BY <2>2, <3>4, <3>5 DEF Depth
  <2> QED  BY <2>1, <2>2
<1>8. Climb = 2 * Depth + 1
  BY <1>2 DEF Climb
<1>9. Depth' = Level(tree', parent)
  BY <1>3, <1>4, <1>5 DEF Depth
<1>10. CASE Shape(tree', member, sub)
  <2>1. Level(tree', parent) = Cardinality(P)
    BY <1>4, <1>10, <1>e, LevelIs
  <2>2. Climb' = 2 * Depth' + 1 \/ Climb' = 2 * Depth' + 0
    BY DEF Climb
  <2> QED  BY <1>5, <1>7, <1>8, <1>9, <2>1, <2>2
<1>11. CASE tree'.red[parent] /\ Shape(tree', member, SubRotated(tree, sub, parent, s))
  <2> DEFINE w == SubRotated(tree, sub, parent, s)
             W == Above(member, w, parent)
             up == tree.child[Other(s)][parent]
  <2>e. w = SubRotated(tree, sub, parent, s) /\ W = Above(member, w, parent)
    OBVIOUS
  <2> HIDE DEF w, W
  <2>0. Shape(tree', member, w)
    BY <1>11, <2>e
  <2>1. Level(tree', parent) = Cardinality(W)
    BY <1>4, <2>0, <2>e, LevelIs
  <2>2. W \subseteq P \cup {up}
    BY <1>1, <1>4, <1>e, <2>e, RotatedDown
  <2> HIDE DEF up
  <2>3. IsFiniteSet(P \cup {up}) /\ Cardinality(P \cup {up}) \in Nat
        /\ Cardinality(P \cup {up}) <= Cardinality(P) + 1
    <3>1. /\ IsFiniteSet(P \cup {up})
          /\ Cardinality(P \cup {up}) = IF up \in P THEN Cardinality(P) ELSE Cardinality(P) + 1
      BY <1>5, FS_AddElement
    <3>2. Cardinality(P \cup {up}) \in Nat
      BY <3>1, FS_CardinalityType
    <3> QED  BY <1>5, <3>1, <3>2
  <2>4. Cardinality(W) \in Nat /\ Cardinality(W) <= Cardinality(P) + 1
    <3>1. W \in SUBSET (P \cup {up})
      BY <2>2
    <3>2. IsFiniteSet(W) /\ Cardinality(W) <= Cardinality(P \cup {up})
      BY <2>3, <3>1, FS_Subset
    <3>3. Cardinality(W) \in Nat
      BY <3>2, FS_CardinalityType
    <3> QED  BY <1>5, <2>3, <3>2, <3>3
  <2>5. IsRed(tree', node')
    BY <1>3, <1>4, <1>5, <1>11 DEF IsRed
  <2>6. Climb' = 2 * Depth' + 0
    BY <2>5 DEF Climb, Lacking
  <2> QED  BY <1>5, <1>7, <1>8, <1>9, <2>1, <2>4, <2>6
<1> QED  BY <1>3, <1>10, <1>11

\* Every turn of a fix-up loop leaves less to climb: rb_insert_color and
\* __rb_erase_color end after at most twice as many turns as there are levels.
THEOREM FixupsClimb == Spec => FixupClimbs
<1>1. IInv /\ [Next]_vars => [pc # "idle" /\ pc' # "idle" => Climb' < Climb]_vars
  <2> SUFFICES ASSUME IInv, Next, pc # "idle", pc' # "idle" PROVE Climb' < Climb
    OBVIOUS
  <2>1. CASE InsertTurn
    BY <2>1, InsertClimbs
  <2>2. CASE EraseTurn
    BY <2>2, EraseClimbs
  <2>3. CASE InsertDone \/ EraseDone
    BY <2>3 DEF InsertDone, EraseDone
  <2>4. CASE \E n \in Node : rb_link_node(n) \/ rb_erase(n)
    BY <2>4 DEF rb_link_node, rb_erase
  <2>5. CASE \E victim, new \in Node : rb_replace_node(victim, new)
    BY <2>5 DEF rb_replace_node
  <2> QED  BY <2>1, <2>2, <2>3, <2>4, <2>5 DEF Next, Turn
<1> QED  BY <1>1, InvariantHolds, PTL DEF Spec, FixupClimbs

-----------------------------------------------------------------------------
(* The height that a walk down the tree computes.                          *)

\* Counted from the root, every way down has the height the invariant speaks of.
LEMMA HeightIs ==
  ASSUME IInv
  PROVE  Balanced
<1>1. PICK sub : Shape(tree, member, sub)
  BY DEF IInv
<1>2. PICK h : Heights(tree, member, h, Owing, SideOf(tree, Owing, node))
  BY DEF IInv
<1> DEFINE N == Cardinality(Node)
           owed(s, n) == IF /\ pc = "erase_color" /\ n = parent
                            /\ tree.child[s][n] = node /\ s = SideOf(tree, n, node)
                         THEN 1 ELSE 0
           A == [Ptr -> Nat]
           At(r, n) == LET lo == r[tree.child.left[n]] + owed("left", n)
                           ro == r[tree.child.right[n]] + owed("right", n)
                       IN  IF lo = ro /\ lo > 0 THEN lo + (IF tree.red[n] THEN 0 ELSE 1) ELSE 0
           a == [n \in Ptr |-> 1]
           f == [r \in A |-> [n \in Ptr |-> IF n = NULL THEN 1 ELSE At(r, n)]]
           Row(g, k) == [n \in Ptr |-> IF n = NULL \/ k = 0 THEN 1 ELSE At(g[k - 1], n)]
           Eq(g) == g = [k \in 0 .. N |-> Row(g, k)]
           height == CHOOSE g : Eq(g)
<1>3. BlackHeight = height[N][tree.root]
  BY DEF BlackHeight
<1>4. /\ N \in Nat /\ tree \in TreeType /\ member \subseteq Node /\ NULL \notin Node /\ NULL \in Ptr
      /\ \A n \in Ptr : n # NULL => tree.child.left[n] \in Ptr /\ tree.child.right[n] \in Ptr
  <2>1. N \in Nat
    BY RbAssumption, FS_CardinalityType
  <2>2. tree \in TreeType /\ member \subseteq Node
    BY <1>1, ShapeTypes
  <2> QED  BY <2>1, <2>2, NullNotNode DEF TreeType, Ptr, Side
<1>5. a \in A /\ f \in [A -> A]
  <2>1. a \in A
    OBVIOUS
  <2>2. ASSUME NEW r \in A, NEW n \in Ptr, n # NULL PROVE At(r, n) \in Nat
    <3>1. owed("left", n) \in Nat /\ owed("right", n) \in Nat
      OBVIOUS
    <3>2. r[tree.child.left[n]] \in Nat /\ r[tree.child.right[n]] \in Nat
      BY <1>4, <2>2
    <3> HIDE DEF owed
    <3> QED  BY <3>1, <3>2
  <2> HIDE DEF At
  <2>3. ASSUME NEW r \in A PROVE [n \in Ptr |-> IF n = NULL THEN 1 ELSE At(r, n)] \in A
    BY <2>2
  <2> HIDE DEF A
  <2> QED  BY <2>1, <2>3
<1>6. PICK g : /\ g \in [0 .. N -> A]
               /\ \A k \in 0 .. N : g[k] = IF k = 0 THEN a ELSE f[g[k - 1]]
  <2> HIDE DEF N, A, a, f
  <2>1. \E g : RowsOf(A, a, f, N, g)
    BY <1>4, <1>5, Iterates
  <2> QED  BY <2>1 DEF RowsOf
<1> HIDE DEF At
<1>7. Eq(g)
  <2>1. ASSUME NEW k \in 0 .. N PROVE g[k] = Row(g, k)
    <3>1. CASE k = 0
      BY <1>6, <3>1
    <3>2. CASE k # 0
      <4>1. k - 1 \in 0 .. N
        BY <1>4, <3>2
      <4>2. g[k - 1] \in A /\ g[k] = f[g[k - 1]]
        BY <1>6, <3>2, <4>1
      <4>3. f[g[k - 1]] = [n \in Ptr |-> IF n = NULL THEN 1 ELSE At(g[k - 1], n)]
        BY <4>2
      <4> HIDE DEF f
      <4> QED  BY <3>2, <4>2, <4>3
    <3> QED  BY <3>1, <3>2
  <2> HIDE DEF Row
  <2> QED  BY <1>6, <2>1
<1>8. Eq(height)
  <2> HIDE DEF Eq
  <2> QED  BY <1>7
<1>9. \A k \in 0 .. N, n \in Ptr :
        height[k][n] = IF n = NULL \/ k = 0 THEN 1 ELSE At(height[k - 1], n)
  <2> HIDE DEF height, N
  <2>1. height = [k \in 0 .. N |-> Row(height, k)]
    BY <1>8
  <2>2. ASSUME NEW k \in 0 .. N PROVE height[k] = Row(height, k)
    BY <2>1
  <2> QED  BY <2>2
<1>e. N = Cardinality(Node)
  OBVIOUS
<1> HIDE DEF height, N, A, a, f, Eq, Row
<1>10. /\ h \in [Ptr -> Nat \ {0}] /\ h[NULL] = 1
       /\ \A n \in member, s \in Side :
            h[n] = h[tree.child[s][n]] + owed(s, n) + Black(tree, n)
  <2>1. /\ h \in [Ptr -> Nat \ {0}] /\ h[NULL] = 1
        /\ \A n \in member, s \in Side :
             h[n] = h[tree.child[s][n]] + Owed(Owing, SideOf(tree, Owing, node), n, s)
                    + Black(tree, n)
    BY <1>2 DEF Heights
  <2>2. ASSUME NEW n \in member, NEW s \in Side
        PROVE  owed(s, n) = Owed(Owing, SideOf(tree, Owing, node), n, s)
    <3>0. n # NULL
      BY <1>4
    <3>1. CASE pc = "erase_color"
      <4>1. parent # NULL => tree.child[SideOf(tree, parent, node)][parent] = node
        BY <3>1 DEF IInv, Cursor
      <4>2. Owing = parent
        BY <3>1 DEF Owing
      <4> QED  BY <3>0, <3>1, <4>1, <4>2 DEF Owed
    <3>2. CASE pc # "erase_color"
      BY <3>0, <3>2 DEF Owed, Owing
    <3> QED  BY <3>1, <3>2
  <2> HIDE DEF owed
  <2> QED  BY <2>1, <2>2
<1> DEFINE G == {n \in member : \A k \in 0 .. N : k >= Cardinality(sub[n]) => height[k][n] = h[n]}
<1>11. ASSUME NEW n \in member,
              \A s \in Side : tree.child[s][n] # NULL => tree.child[s][n] \in G
       PROVE  n \in G
  <2> SUFFICES ASSUME NEW k \in 0 .. N, k >= Cardinality(sub[n]) PROVE height[k][n] = h[n]
    OBVIOUS
  <2>1. /\ n \in Ptr /\ n # NULL /\ Cardinality(sub[n]) \in Nat
        /\ \A s \in Side : /\ tree.child[s][n] \in Ptr
                           /\ Cardinality(sub[tree.child[s][n]]) \in Nat
                           /\ Cardinality(sub[tree.child[s][n]]) < Cardinality(sub[n])
    <3>1. \A s \in Side : tree.child[s][n] \in Ptr
      BY <1>1, ShapeTypes
    <3>2. n \in Ptr /\ n # NULL
      BY <1>4 DEF Ptr
    <3>3. /\ \A x \in Ptr : Cardinality(sub[x]) \in 0 .. Cardinality(Node)
          /\ \A s \in Side : Cardinality(sub[tree.child[s][n]]) < Cardinality(sub[n])
      BY <1>1, Sizes
    <3> QED  BY <1>4, <1>e, <3>1, <3>2, <3>3
  <2>2. k # 0 /\ k - 1 \in 0 .. N /\ \A s \in Side : k - 1 >= Cardinality(sub[tree.child[s][n]])
    <3>1. "left" \in Side
      BY DEF Side
    <3> QED  BY <1>4, <2>1, <3>1
  <2>3. ASSUME NEW s \in Side PROVE height[k - 1][tree.child[s][n]] = h[tree.child[s][n]]
    <3>1. CASE tree.child[s][n] = NULL
      BY <1>4, <1>9, <1>10, <2>2, <3>1
    <3>2. CASE tree.child[s][n] # NULL
      <4>1. tree.child[s][n] \in G
        BY <1>11, <3>2
      <4> QED  BY <2>2, <4>1
    <3> QED  BY <3>1, <3>2
  <2>4. height[k][n] = At(height[k - 1], n)
    BY <1>9, <2>1, <2>2
  <2> DEFINE lo == h[tree.child["left"][n]] + owed("left", n)
             ro == h[tree.child["right"][n]] + owed("right", n)
  <2>5. "left" \in Side /\ "right" \in Side
    BY DEF Side
  <2>6. At(height[k - 1], n) = IF lo = ro /\ lo > 0 THEN lo + Black(tree, n) ELSE 0
    <3> HIDE DEF owed
    <3> QED  BY <2>3, <2>5 DEF At, Black
  <2>7. /\ h[tree.child["left"][n]] \in Nat \ {0} /\ h[tree.child["right"][n]] \in Nat \ {0}
        /\ Black(tree, n) \in Nat /\ owed("left", n) \in Nat /\ owed("right", n) \in Nat
    BY <1>10, <2>1, <2>5 DEF Black
  <2>8. h[n] = lo + Black(tree, n) /\ h[n] = ro + Black(tree, n)
    <3> HIDE DEF owed
    <3> QED  BY <1>10, <2>5
  <2>9. lo \in Nat /\ ro \in Nat /\ lo > 0
    <3> HIDE DEF owed
    <3> QED  BY <2>7
  <2>10. lo = ro
    <3> HIDE DEF lo, ro
    <3> QED  BY <2>7, <2>8, <2>9
  <2> HIDE DEF lo, ro
  <2> QED  BY <2>4, <2>6, <2>8, <2>9, <2>10
<1> HIDE DEF G
<1>12. \A n \in member : n \in G
  BY <1>1, <1>11, FromBelow
<1>13. CASE tree.root = NULL
  <2>1. height[N][tree.root] = 1
    BY <1>4, <1>9, <1>13
  <2> QED  BY <1>3, <2>1 DEF Balanced
<1>14. CASE tree.root # NULL
  <2>1. tree.root \in member /\ tree.root \in Ptr
    BY <1>1, <1>14, ShapeTypes
  <2>2. Cardinality(sub[tree.root]) \in 0 .. N
    BY <1>1, <1>e, <2>1, Sizes
  <2>3. height[N][tree.root] = h[tree.root]
    BY <1>4, <1>12, <2>1, <2>2 DEF G
  <2>4. h[tree.root] \in Nat \ {0}
    BY <1>10, <2>1
  <2> QED  BY <1>3, <2>3, <2>4 DEF Balanced
<1> QED  BY <1>13, <1>14

\* Every way down from the root has as many black nodes as any other, with the
\* one that __rb_erase_color still owes counted at its cursor.
THEOREM AlwaysBalanced == Spec => []Balanced
<1>1. IInv => Balanced
  BY HeightIs
<1> QED  BY <1>1, InvariantHolds, PTL

-----------------------------------------------------------------------------
(* What an in-order walk meets.                                            *)

\* q lists the nodes S in order.
Lists(q, S) ==
  /\ q \in Seq(Node)
  /\ \A i \in 1 .. Len(q) : q[i] \in S
  /\ \A m \in S : \E i \in 1 .. Len(q) : q[i] = m
  /\ \A i, j \in 1 .. Len(q) : i < j => q[i] < q[j]

\* Lists of nodes, the first all before the second, put together.
LEMMA ListsJoined ==
  ASSUME NEW L, NEW R, NEW S, NEW T, Lists(L, S), Lists(R, T),
         \A x \in S, y \in T : x < y
  PROVE  Lists(L \o R, S \cup T)
<1> DEFINE q == L \o R
<1>1. PICK a, b : a = Len(L) /\ b = Len(R) /\ a \in Nat /\ b \in Nat
  <2>1. Len(L) \in Nat /\ Len(R) \in Nat
    BY DEF Lists
  <2> QED  BY <2>1
<1>2. /\ L \in Seq(Node) /\ R \in Seq(Node)
      /\ \A i \in 1 .. a : L[i] \in S
      /\ \A m \in S : \E i \in 1 .. a : L[i] = m
      /\ \A i, j \in 1 .. a : i < j => L[i] < L[j]
      /\ \A i \in 1 .. b : R[i] \in T
      /\ \A m \in T : \E i \in 1 .. b : R[i] = m
      /\ \A i, j \in 1 .. b : i < j => R[i] < R[j]
  BY <1>1 DEF Lists
<1>3. /\ q \in Seq(Node) /\ Len(q) = a + b
      /\ \A i \in 1 .. a + b : q[i] = IF i <= a THEN L[i] ELSE R[i - a]
  BY <1>1, <1>2
<1> HIDE DEF q
<1>4. ASSUME NEW i \in 1 .. a + b, i > a PROVE i - a \in 1 .. b
  BY <1>1, <1>4
<1>5. \A i \in 1 .. a + b : q[i] \in S \cup T
  <2> TAKE i \in 1 .. a + b
  <2>1. CASE i <= a
    <3>1. i \in 1 .. a
      BY <1>1, <2>1
    <3> QED  BY <1>2, <1>3, <2>1, <3>1
  <2>2. CASE i > a
    BY <1>1, <1>2, <1>3, <1>4, <2>2
  <2> QED  BY <1>1, <2>1, <2>2
<1>6. ASSUME NEW m \in S \cup T PROVE \E i \in 1 .. a + b : q[i] = m
  <2>1. CASE m \in S
    <3>1. PICK i \in 1 .. a : L[i] = m
      BY <1>2, <2>1
    <3>2. i \in 1 .. a + b /\ i <= a
      BY <1>1
    <3> QED  BY <1>3, <3>1, <3>2
  <2>2. CASE m \in T
    <3>1. PICK i \in 1 .. b : R[i] = m
      BY <1>2, <2>2
    <3>2. i + a \in 1 .. a + b /\ ~(i + a <= a) /\ (i + a) - a = i
      BY <1>1
    <3> QED  BY <1>3, <3>1, <3>2
  <2> QED  BY <2>1, <2>2
<1>7. ASSUME NEW i \in 1 .. a + b, NEW j \in 1 .. a + b, i < j PROVE q[i] < q[j]
  <2>1. CASE j <= a
    <3>1. i \in 1 .. a /\ j \in 1 .. a
      BY <1>1, <1>7, <2>1
    <3> QED  BY <1>2, <1>3, <1>7, <2>1, <3>1
  <2>2. CASE i > a
    <3>1. i - a \in 1 .. b /\ j - a \in 1 .. b /\ i - a < j - a /\ ~(i <= a) /\ ~(j <= a)
      BY <1>1, <1>7, <2>2
    <3> QED  BY <1>2, <1>3, <3>1
  <2>3. CASE i <= a /\ j > a
    <3>1. i \in 1 .. a /\ j - a \in 1 .. b /\ ~(j <= a)
      BY <1>1, <2>3
    <3>2. L[i] \in S /\ R[j - a] \in T /\ q[i] = L[i] /\ q[j] = R[j - a]
      BY <1>2, <1>3, <2>3, <3>1
    <3> QED  BY <3>2
  <2> QED  BY <1>1, <2>1, <2>2, <2>3
<1>8. Lists(q, S \cup T)
  <2>1. Len(q) = a + b
    BY <1>3
  <2> QED  BY <1>3, <1>5, <1>6, <1>7, <2>1 DEF Lists
<1> QED  BY <1>8 DEF q

\* The list of the nodes on both sides of n, and n.
LEMMA ListsAround ==
  ASSUME NEW L, NEW R, NEW S, NEW T, Lists(L, S), Lists(R, T), NEW n \in Node,
         \A x \in S : x < n, \A y \in T : n < y, S \subseteq Node, T \subseteq Node
  PROVE  Lists(L \o <<n>> \o R, S \cup {n} \cup T)
<1>1. Lists(<<n>>, {n})
  BY DEF Lists
<1>2. \A x \in S, y \in {n} : x < y
  OBVIOUS
<1>3. Lists(L \o <<n>>, S \cup {n})
  <2> DEFINE Q == <<n>>
             U == {n}
  <2>1. Lists(Q, U) /\ \A x \in S, y \in U : x < y
    BY <1>1, <1>2
  <2> HIDE DEF Q, U
  <2>2. Lists(L \o Q, S \cup U)
    BY <2>1, ListsJoined
  <2> QED  BY <2>2 DEF Q, U
<1>4. ASSUME NEW x \in S \cup {n}, NEW y \in T PROVE x < y
  <2>1. n \in Int /\ x \in Int /\ y \in Int /\ n < y
    BY RbAssumption
  <2>2. CASE x = n
    BY <2>1, <2>2
  <2>3. CASE x \in S
    BY <2>1, <2>3
  <2> QED  BY <2>2, <2>3
<1>5. Lists((L \o <<n>>) \o R, (S \cup {n}) \cup T)
  <2> DEFINE Q == L \o <<n>>
             U == S \cup {n}
  <2>1. Lists(Q, U) /\ \A x \in U, y \in T : x < y
    BY <1>3, <1>4
  <2> HIDE DEF Q, U
  <2>2. Lists(Q \o R, U \cup T)
    BY <2>1, ListsJoined
  <2> QED  BY <2>2 DEF Q, U
<1> QED  BY <1>5

\* Walked in order, the tree gives its nodes in order.
LEMMA InOrderIs ==
  ASSUME NEW sub, Shape(tree, member, sub)
  PROVE  Lists(InOrder, member)
<1> DEFINE N == Cardinality(Node)
           A == [Ptr -> Seq(Node)]
           At(r, n) == r[tree.child.left[n]] \o <<n>> \o r[tree.child.right[n]]
           a == [n \in Ptr |-> <<>>]
           f == [r \in A |-> [n \in Ptr |-> IF n = NULL THEN <<>> ELSE At(r, n)]]
           Row(g, k) == [n \in Ptr |-> IF n = NULL \/ k = 0 THEN <<>> ELSE At(g[k - 1], n)]
           Eq(g) == g = [k \in 0 .. N |-> Row(g, k)]
           walk == CHOOSE g : Eq(g)
<1>3. InOrder = walk[N][tree.root]
  BY DEF InOrder
<1>4. /\ N \in Nat /\ tree \in TreeType /\ member \subseteq Node /\ NULL \notin Node /\ NULL \in Ptr
      /\ \A n \in Ptr : n # NULL => tree.child.left[n] \in Ptr /\ tree.child.right[n] \in Ptr
  <2>1. N \in Nat
    BY RbAssumption, FS_CardinalityType
  <2>2. tree \in TreeType /\ member \subseteq Node
    BY ShapeTypes
  <2> QED  BY <2>1, <2>2, NullNotNode DEF TreeType, Ptr, Side
<1>5. a \in A /\ f \in [A -> A]
  <2>1. a \in A
    OBVIOUS
  <2>2. ASSUME NEW r \in A, NEW n \in Ptr, n # NULL PROVE At(r, n) \in Seq(Node)
    <3>1. r[tree.child.left[n]] \in Seq(Node) /\ r[tree.child.right[n]] \in Seq(Node)
      BY <1>4, <2>2
    <3>2. <<n>> \in Seq(Node)
      BY <2>2 DEF Ptr
    <3> QED  BY <3>1, <3>2
  <2> HIDE DEF At
  <2>3. ASSUME NEW r \in A PROVE [n \in Ptr |-> IF n = NULL THEN <<>> ELSE At(r, n)] \in A
    BY <2>2
  <2> HIDE DEF A
  <2> QED  BY <2>1, <2>3
<1>6. PICK g : /\ g \in [0 .. N -> A]
               /\ \A k \in 0 .. N : g[k] = IF k = 0 THEN a ELSE f[g[k - 1]]
  <2> HIDE DEF N, A, a, f
  <2>1. \E g : RowsOf(A, a, f, N, g)
    BY <1>4, <1>5, Iterates
  <2> QED  BY <2>1 DEF RowsOf
<1> HIDE DEF At
<1>7. Eq(g)
  <2>1. ASSUME NEW k \in 0 .. N PROVE g[k] = Row(g, k)
    <3>1. CASE k = 0
      BY <1>6, <3>1
    <3>2. CASE k # 0
      <4>1. k - 1 \in 0 .. N
        BY <1>4, <3>2
      <4>2. g[k - 1] \in A /\ g[k] = f[g[k - 1]]
        BY <1>6, <3>2, <4>1
      <4>3. f[g[k - 1]] = [n \in Ptr |-> IF n = NULL THEN <<>> ELSE At(g[k - 1], n)]
        BY <4>2
      <4> HIDE DEF f
      <4> QED  BY <3>2, <4>2, <4>3
    <3> QED  BY <3>1, <3>2
  <2> HIDE DEF Row
  <2> QED  BY <1>6, <2>1
<1>8. Eq(walk)
  <2> HIDE DEF Eq
  <2> QED  BY <1>7
<1>9. \A k \in 0 .. N, n \in Ptr :
        walk[k][n] = IF n = NULL \/ k = 0 THEN <<>> ELSE At(walk[k - 1], n)
  <2> HIDE DEF walk, N
  <2>1. walk = [k \in 0 .. N |-> Row(walk, k)]
    BY <1>8
  <2>2. ASSUME NEW k \in 0 .. N PROVE walk[k] = Row(walk, k)
    BY <2>1
  <2> QED  BY <2>2
<1>e. N = Cardinality(Node)
  OBVIOUS
<1> HIDE DEF walk, N, A, a, f, Eq, Row
<1>10. Lists(<<>>, {})
  BY DEF Lists
<1> DEFINE G == {n \in member : \A k \in 0 .. N : k >= Cardinality(sub[n]) => Lists(walk[k][n], sub[n])}
<1>11. ASSUME NEW n \in member,
              \A s \in Side : tree.child[s][n] # NULL => tree.child[s][n] \in G
       PROVE  n \in G
  <2> SUFFICES ASSUME NEW k \in 0 .. N, k >= Cardinality(sub[n]) PROVE Lists(walk[k][n], sub[n])
    OBVIOUS
  <2>1. /\ n \in Ptr /\ n # NULL /\ Cardinality(sub[n]) \in Nat
        /\ \A s \in Side : /\ tree.child[s][n] \in Ptr
                           /\ Cardinality(sub[tree.child[s][n]]) \in Nat
                           /\ Cardinality(sub[tree.child[s][n]]) < Cardinality(sub[n])
    <3>1. \A s \in Side : tree.child[s][n] \in Ptr
      BY ShapeTypes
    <3>2. n \in Ptr /\ n # NULL
      BY <1>4 DEF Ptr
    <3>3. /\ \A x \in Ptr : Cardinality(sub[x]) \in 0 .. Cardinality(Node)
          /\ \A s \in Side : Cardinality(sub[tree.child[s][n]]) < Cardinality(sub[n])
      BY Sizes
    <3> QED  BY <1>4, <1>e, <3>1, <3>2, <3>3
  <2>2. k # 0 /\ k - 1 \in 0 .. N /\ \A s \in Side : k - 1 >= Cardinality(sub[tree.child[s][n]])
    <3>1. "left" \in Side
      BY DEF Side
    <3> QED  BY <1>4, <2>1, <3>1
  <2>3. ASSUME NEW s \in Side PROVE Lists(walk[k - 1][tree.child[s][n]], sub[tree.child[s][n]])
    <3>1. CASE tree.child[s][n] = NULL
      <4>1. sub[tree.child[s][n]] = {}
        BY <3>1 DEF Shape
      <4>2. walk[k - 1][tree.child[s][n]] = <<>>
        BY <1>4, <1>9, <2>2, <3>1
      <4> QED  BY <1>10, <4>1, <4>2
    <3>2. CASE tree.child[s][n] # NULL
      <4>1. tree.child[s][n] \in G
        BY <1>11, <3>2
      <4> QED  BY <2>2, <4>1
    <3> QED  BY <3>1, <3>2
  <2>4. walk[k][n] = At(walk[k - 1], n)
    BY <1>9, <2>1, <2>2
  <2> DEFINE L == walk[k - 1][tree.child["left"][n]]
             R == walk[k - 1][tree.child["right"][n]]
             S == sub[tree.child["left"][n]]
             T == sub[tree.child["right"][n]]
  <2>5. "left" \in Side /\ "right" \in Side /\ Other("left") = "right" /\ Other("right") = "left"
    BY DEF Side, Other
  <2>6. Lists(L, S) /\ Lists(R, T)
    BY <2>3, <2>5
  <2>7. /\ \A m \in S : Beyond("left", m, n)
        /\ \A m \in T : Beyond("right", m, n)
        /\ sub[n] = {n} \cup S \cup T
    BY <2>5 DEF Shape
  <2>8. S \subseteq Node /\ T \subseteq Node
    BY <2>1, <2>5, ShapeTypes
  <2>9. At(walk[k - 1], n) = L \o <<n>> \o R
    BY DEF At
  <2> HIDE DEF L, R, S, T
  <2>10. (\A m \in S : m < n) /\ (\A m \in T : n < m) /\ n \in Node
    BY <1>4, <2>7 DEF Beyond
  <2>11. Lists(L \o <<n>> \o R, S \cup {n} \cup T)
    BY ONLY <2>6, <2>8, <2>10, ListsAround
  <2>12. S \cup {n} \cup T = sub[n]
    BY <2>7
  <2> QED  BY <2>4, <2>9, <2>11, <2>12
<1> HIDE DEF G
<1>12. \A n \in member : n \in G
  BY <1>11, FromBelow
<1>13. CASE tree.root = NULL
  <2>1. walk[N][tree.root] = <<>>
    BY <1>4, <1>9, <1>13
  <2>2. member = {}
    BY <1>13, RootAll
  <2> QED  BY <1>3, <1>10, <2>1, <2>2
<1>14. CASE tree.root # NULL
  <2>1. tree.root \in member /\ tree.root \in Ptr
    BY <1>14, ShapeTypes
  <2>2. Cardinality(sub[tree.root]) \in 0 .. N
    BY <1>e, <2>1, Sizes
  <2>3. Lists(walk[N][tree.root], sub[tree.root])
    BY <1>4, <1>12, <2>1, <2>2 DEF G
  <2>4. sub[tree.root] = member
    BY <2>1, RootAll
  <2> QED  BY <1>3, <2>3, <2>4
<1> QED  BY <1>13, <1>14

\* It implies that the tree holds its members in order.
LEMMA MembersFollow ==
  ASSUME IInv
  PROVE  HoldsMembers
<1>1. PICK sub : Shape(tree, member, sub)
  BY DEF IInv
<1>2. Lists(InOrder, member)
  BY <1>1, InOrderIs
<1> DEFINE q == InOrder
<1>e. Lists(q, member)
  BY <1>2
<1> HIDE DEF q
<1>3. DOMAIN q = 1 .. Len(q)
  BY <1>e DEF Lists
<1>4. Range(q) = member
  BY <1>e, <1>3 DEF Lists, Range
<1>5. \A i, j \in DOMAIN q : i < j => q[i] < q[j]
  BY <1>e, <1>3 DEF Lists
<1> QED  BY <1>4, <1>5 DEF HoldsMembers, q

\* The tree holds exactly the nodes that were linked and not erased, in order,
\* at every turn of a fix-up: no rotation, splice or replacement of rbtree.c
\* loses, duplicates or misplaces a node.
THEOREM MembersHeld == Spec => []HoldsMembers
<1>1. IInv => HoldsMembers
  BY MembersFollow
<1> QED  BY <1>1, InvariantHolds, PTL

-----------------------------------------------------------------------------
(* Walking from neighbour to neighbour.                                    *)

\* v is the first of M beyond n on side s; NULL if there is none.
Nearest(M, n, s, v) ==
  /\ v = NULL => \A y \in M : ~Beyond(s, y, n)
  /\ v # NULL => /\ v \in M /\ Beyond(s, v, n)
                 /\ \A y \in M : Beyond(s, y, n) => y = v \/ Beyond(s, y, v)

\* v is the first of M beyond the nodes S, which have none of M between them.
NextTo(M, S, s, v) ==
  /\ \A y \in M \ S : \/ v # NULL /\ (y = v \/ Beyond(s, y, v))
                      \/ \A a \in S : Beyond(s, a, y)
  /\ v # NULL => v \in M \ S /\ \A a \in S : Beyond(s, v, a)

\* The way up from a node on side s of its parent leads beyond that parent.
LEMMA ClimbOn ==
  ASSUME NEW t, NEW M, NEW sub, Shape(t, M, sub), NEW m \in M, NEW p \in M, NEW s \in Side,
         t.child[s][p] = m, NEW v, NextTo(M, sub[p], s, v)
  PROVE  NextTo(M, sub[m], s, v)
<1> DEFINE f == t.child[Other(s)][p]
<1>1. /\ M \subseteq Node /\ \A x \in M : sub[x] \subseteq M
  BY ShapeTypes, Closed
<1>2. /\ p \in sub[p] /\ sub[m] \subseteq sub[p]
      /\ sub[p] = {p} \cup sub[m] \cup sub[f]
  BY Subtree
<1>3. /\ \A a \in sub[m] : Beyond(s, a, p)
      /\ \A a \in sub[f] : Beyond(s, p, a)
  <2>1. \A a \in sub[m] : Beyond(s, a, p)
    BY DEF Shape
  <2>2. \A a \in sub[f] : Beyond(Other(s), a, p)
    BY Sides DEF Shape
  <2>3. \A a \in sub[f] : a \in Node
    BY <1>1, <1>2
  <2> QED  BY <1>1, <2>1, <2>2, <2>3, Order
<1>4. /\ \A y \in M \ sub[p] : \/ v # NULL /\ (y = v \/ Beyond(s, y, v))
                               \/ \A a \in sub[p] : Beyond(s, a, y)
      /\ v # NULL => v \in M \ sub[p] /\ \A a \in sub[p] : Beyond(s, v, a)
  BY DEF NextTo
<1> HIDE DEF f
<1>5. ASSUME NEW y \in M \ sub[m]
      PROVE  \/ v # NULL /\ (y = v \/ Beyond(s, y, v))
             \/ \A a \in sub[m] : Beyond(s, a, y)
  <2>1. CASE y \notin sub[p]
    BY <1>2, <1>4, <2>1
  <2>2. CASE y = p
    BY <1>3, <2>2
  <2>3. CASE y \in sub[f]
    <3>1. ASSUME NEW a \in sub[m] PROVE Beyond(s, a, y)
      <4>1. Beyond(s, a, p) /\ Beyond(s, p, y) /\ a \in Node /\ p \in Node /\ y \in Node
        BY <1>1, <1>3, <2>3
      <4> QED  BY <4>1, Order
    <3> QED  BY <3>1
  <2> QED  BY <1>2, <2>1, <2>2, <2>3
<1> QED  BY <1>2, <1>4, <1>5 DEF NextTo

\* The parent is next to a node on its other side.
LEMMA ClimbEnds ==
  ASSUME NEW t, NEW M, NEW sub, Shape(t, M, sub), NEW m \in M, NEW p \in M, NEW s \in Side,
         t.child[Other(s)][p] = m
  PROVE  NextTo(M, sub[m], s, p)
<1> DEFINE f == t.child[s][p]
<1>1. /\ M \subseteq Node /\ NULL \notin Node /\ \A x \in M : sub[x] \subseteq M
  BY ShapeTypes, Closed, NullNotNode
<1>2. /\ p \in sub[p] /\ p \notin sub[m] /\ sub[m] \subseteq sub[p]
      /\ sub[p] = {p} \cup sub[m] \cup sub[f]
  <2>1. Other(s) \in Side /\ Other(Other(s)) = s
    BY Sides
  <2> QED  BY <2>1, Subtree
<1>3. /\ \A a \in sub[m] : Beyond(s, p, a)
      /\ \A a \in sub[f] : Beyond(s, a, p)
  <2>1. \A a \in sub[f] : Beyond(s, a, p)
    BY DEF Shape
  <2>2. \A a \in sub[m] : Beyond(Other(s), a, p)
    BY Sides DEF Shape
  <2>3. \A a \in sub[m] : a \in Node
    BY <1>1, <1>2
  <2> QED  BY <1>1, <2>1, <2>2, <2>3, Order
<1> HIDE DEF f
<1>4. ASSUME NEW y \in M \ sub[m]
      PROVE  (y = p \/ Beyond(s, y, p)) \/ \A a \in sub[m] : Beyond(s, a, y)
  <2>1. CASE y \in sub[f] \/ y = p
    BY <1>3, <2>1
  <2>2. CASE y \notin sub[p]
    <3>1. PICK e \in Side : \A a \in sub[p] : Beyond(e, a, y)
      BY <2>2, Outside
    <3>2. CASE e = s
      BY <1>2, <3>1, <3>2
    <3>3. CASE e = Other(s)
      <4>1. Beyond(Other(s), p, y) /\ p \in Node /\ y \in Node
        BY <1>1, <1>2, <3>1, <3>3
      <4>2. Beyond(s, y, p)
        BY <4>1, Order
      <4> QED  BY <4>2
    <3> QED  BY <3>2, <3>3, Sides
  <2> QED  BY <1>2, <2>1, <2>2
<1> QED  BY <1>1, <1>2, <1>3, <1>4 DEF NextTo

\* Without a child on side s the first node beyond n is met on the way up.
LEMMA ClimbIs ==
  ASSUME NEW t, NEW M, NEW sub, Shape(t, M, sub), NEW n \in M, NEW s \in Side,
         t.child[s][n] = NULL
  PROVE  NextTo(M, sub[n], s, Neighbour(t, n, s))
<1> DEFINE up(m) == t.parent[m] # NULL /\ m = t.child[s][t.parent[m]]
           next == [m \in Node |-> IF up(m) THEN t.parent[m] ELSE NULL]
           val  == [m \in Node |-> t.parent[m]]
           rank == [m \in Node |-> Cardinality(Above(M, sub, m))]
           Eq(g) == g = [m \in Node |->
                      LET p == t.parent[m]
                      IN  IF p = NULL THEN NULL ELSE IF m = t.child[s][p] THEN g[p] ELSE p]
           climb == CHOOSE g : Eq(g)
<1>1. Neighbour(t, n, s) = climb[n]
  <2>1. t.parent[n] # n
    BY Pointers
  <2> QED  BY <2>1 DEF Neighbour
<1>t. /\ t \in TreeType /\ M \subseteq Node /\ NULL \notin Node
      /\ \A m \in Node \ M : t.parent[m] = NULL
      /\ \A m \in Node : t.parent[m] \in Node \cup {NULL}
  <2>1. t \in TreeType /\ M \subseteq Node /\ NULL \notin Node
    BY ShapeTypes, NullNotNode
  <2>2. \A m \in Node \ M : t.parent[m] = NULL
    BY DEF Shape
  <2>3. \A m \in Node : t.parent[m] \in Node \cup {NULL}
    BY <2>1 DEF TreeType, Ptr
  <2> QED  BY <2>1, <2>2, <2>3
<1>c. /\ Cardinality(Node) \in Nat
      /\ \A m \in Node : Cardinality(Above(M, sub, m)) \in 0 .. Cardinality(Node)
  <2>1. Cardinality(Node) \in Nat
    BY RbAssumption, FS_CardinalityType
  <2>2. ASSUME NEW m \in Node PROVE Cardinality(Above(M, sub, m)) \in 0 .. Cardinality(Node)
    <3>1. Above(M, sub, m) \in SUBSET Node
      BY <1>t DEF Above
    <3>2. /\ IsFiniteSet(Above(M, sub, m))
          /\ Cardinality(Above(M, sub, m)) <= Cardinality(Node)
      BY <3>1, RbAssumption, FS_Subset
    <3>3. Cardinality(Above(M, sub, m)) \in Nat
      BY <3>2, FS_CardinalityType
    <3> QED  BY <2>1, <3>2, <3>3
  <2> QED  BY <2>1, <2>2
<1>p. ASSUME NEW m \in M, t.parent[m] # NULL
      PROVE  /\ t.parent[m] \in M
             /\ Cardinality(Above(M, sub, t.parent[m])) < Cardinality(Above(M, sub, m))
  <2> DEFINE p == t.parent[m]
             P == Above(M, sub, p)
  <2>1. p \in M
    BY <1>p, ShapeTypes
  <2>2. /\ Above(M, sub, m) = {m} \cup (IF p = NULL THEN {} ELSE P)
        /\ p # NULL => m \notin P
    BY AboveParent
  <2>3. IsFiniteSet(P)
    BY <2>1, AboveParent
  <2>4. p # NULL
    BY <1>p
  <2>e. P = Above(M, sub, p) /\ p = t.parent[m]
    OBVIOUS
  <2> HIDE DEF P, p
  <2>5. Above(M, sub, m) = P \cup {m} /\ m \notin P
    BY <2>2, <2>4
  <2>6. Cardinality(Above(M, sub, m)) = Cardinality(P) + 1 /\ Cardinality(P) \in Nat
    BY <2>3, <2>5, FS_AddElement, FS_CardinalityType
  <2> QED  BY <2>1, <2>6, <2>e
<1>2. /\ next \in [Node -> Node \cup {NULL}]
      /\ rank \in [Node -> 0 .. Cardinality(Node)]
      /\ \A m \in Node : next[m] # NULL => rank[next[m]] < rank[m]
  <2>1. next \in [Node -> Node \cup {NULL}]
    BY <1>t
  <2>2. rank \in [Node -> 0 .. Cardinality(Node)]
    BY <1>c
  <2>3. ASSUME NEW m \in Node, next[m] # NULL PROVE rank[next[m]] < rank[m]
    <3>1. next[m] = t.parent[m] /\ t.parent[m] # NULL /\ m \in M
      BY <1>t, <2>3
    <3>2. t.parent[m] \in Node
      BY <1>t, <3>1
    <3> QED  BY <1>p, <3>1, <3>2
  <2> QED  BY <2>1, <2>2, <2>3
<1>3. \E g : g = [m \in Node |-> IF next[m] = NULL THEN val[m] ELSE g[next[m]]]
  <2> HIDE DEF val, next, rank
  <2> QED  BY <1>2, <1>c, <1>t, TailRecursion
<1>4. ASSUME NEW g
      PROVE  [m \in Node |-> IF next[m] = NULL THEN val[m] ELSE g[next[m]]]
             = [m \in Node |->
                  LET p == t.parent[m]
                  IN  IF p = NULL THEN NULL ELSE IF m = t.child[s][p] THEN g[p] ELSE p]
  BY <1>t
<1>5. Eq(climb)
  <2> HIDE DEF next, val
  <2>1. PICK g : g = [m \in Node |-> IF next[m] = NULL THEN val[m] ELSE g[next[m]]]
    BY <1>3
  <2>2. Eq(g)
    BY <1>4, <2>1
  <2> HIDE DEF Eq
  <2> QED  BY <2>2
<1>6. \A m \in Node : climb[m] = IF t.parent[m] = NULL THEN NULL
                                 ELSE IF m = t.child[s][t.parent[m]] THEN climb[t.parent[m]]
                                 ELSE t.parent[m]
  BY <1>5
<1> HIDE DEF climb, next, val, rank
<1> DEFINE below == [m \in M |-> Cardinality(Above(M, sub, m))]
           G == {m \in M : NextTo(M, sub[m], s, climb[m])}
<1>7. below \in [M -> Nat]
  <2>1. \A m \in M : Cardinality(Above(M, sub, m)) \in Nat
    BY <1>c, <1>t
  <2> QED  BY <2>1
<1>8. ASSUME NEW m \in M, \A y \in M : below[y] < below[m] => y \in G PROVE m \in G
  <2>1. CASE t.parent[m] = NULL
    <3>1. climb[m] = NULL
      BY <1>6, <1>t, <2>1
    <3>2. m = t.root
      BY <2>1, ShapeTypes
    <3>3. sub[m] = M
      BY <3>2 DEF Shape
    <3>4. NextTo(M, sub[m], s, NULL)
      BY <3>3 DEF NextTo
    <3> QED  BY <3>1, <3>4
  <2>2. CASE t.parent[m] # NULL
    <3> DEFINE p == t.parent[m]
    <3>1. p \in M /\ p \in G
      BY <1>8, <1>p, <2>2
    <3>e. /\ climb[m] = IF m = t.child[s][p] THEN climb[p] ELSE p
      BY <1>6, <1>t, <2>2
    <3>4. t.child[s][p] = m \/ t.child[Other(s)][p] = m
      <4>1. LET q == t.parent[m]
                d == SideOf(t, q, m)
            IN  d \in Side /\ t.child[d][q] = m
        BY <2>2, ParentSide
      <4> QED  BY <4>1, Sides
    <3> HIDE DEF p
    <3>2. CASE t.child[s][p] = m
      <4>1. NextTo(M, sub[p], s, climb[p])
        BY <3>1
      <4>2. NextTo(M, sub[m], s, climb[p])
        BY <3>1, <3>2, <4>1, ClimbOn
      <4> QED  BY <3>2, <3>e, <4>2
    <3>3. CASE t.child[s][p] # m
      <4>1. NextTo(M, sub[m], s, p)
        BY <3>1, <3>3, <3>4, ClimbEnds
      <4> QED  BY <3>3, <3>e, <4>1
    <3> QED  BY <3>2, <3>3
  <2> QED  BY <2>1, <2>2
<1> HIDE DEF below, G
<1>9. \A m \in M : m \in G
  BY <1>7, <1>8, ByRank
<1> QED  BY <1>1, <1>9 DEF G

\* rb_next and rb_prev lead to the first node beyond n.
LEMMA NeighbourIs ==
  ASSUME NEW t, NEW M, NEW sub, Shape(t, M, sub), NEW n \in M, NEW s \in Side
  PROVE  Nearest(M, n, s, Neighbour(t, n, s))
<1> DEFINE v == Neighbour(t, n, s)
           c == t.child[s][n]
           f == t.child[Other(s)][n]
<1>1. /\ M \subseteq Node /\ NULL \notin Node /\ NULL \notin M /\ n \in Node
      /\ \A x \in M : sub[x] \subseteq M
  BY ShapeTypes, Closed, NullNotNode
<1>2. /\ n \in sub[n] /\ sub[n] = {n} \cup sub[c] \cup sub[f]
      /\ \A a \in sub[c] : Beyond(s, a, n)
      /\ \A a \in sub[f] : ~Beyond(s, a, n)
  <2>1. n \in sub[n] /\ sub[n] = {n} \cup sub[c] \cup sub[f]
    BY Subtree
  <2>2. \A a \in sub[c] : Beyond(s, a, n)
    BY DEF Shape
  <2>3. \A a \in sub[f] : Beyond(Other(s), a, n)
    BY Sides DEF Shape
  <2>4. \A a \in sub[f] : a \in Node
    BY <1>1, <2>1
  <2>5. \A a \in sub[f] : ~Beyond(s, a, n)
    BY <1>1, <2>3, <2>4, Order
  <2> QED  BY <2>1, <2>2, <2>5
<1>3. ~Beyond(s, n, n)
  BY <1>1, Order
<1>4. CASE c # NULL
  <2>0. c \in M /\ Other(s) \in Side
    BY <1>4, ShapeTypes, Sides
  <2>1. v = Farthest(t, c, Other(s))
    <3>1. t.parent[n] # n
      BY Pointers
    <3> QED  BY <1>4, <3>1 DEF Neighbour
  <2> HIDE DEF v, c, f
  <2>2. LastOn(t, M, sub, c, Other(s), v)
    BY <2>0, <2>1, FarthestIs
  <2>3. v \in sub[c] /\ v \in M /\ v \in Node /\ \A y \in sub[c] \ {v} : Beyond(Other(s), v, y)
    BY <1>1, <2>2 DEF LastOn
  <2>4. ASSUME NEW y \in M, Beyond(s, y, n), y # v PROVE Beyond(s, y, v)
    <3>1. CASE y \in sub[c]
      <4>1. Beyond(Other(s), v, y) /\ y \in Node
        BY <1>1, <2>3, <2>4, <3>1
      <4> QED  BY <2>3, <4>1, Order
    <3>2. CASE y \notin sub[n]
      <4>1. PICK e \in Side : \A a \in sub[n] : Beyond(e, a, y)
        BY <3>2, Outside
      <4>2. Beyond(e, n, y) /\ Beyond(e, v, y) /\ y \in Node
        BY <1>1, <1>2, <2>3, <4>1
      <4>3. e # s
        BY <1>1, <2>4, <4>2, Order
      <4>4. e = Other(s)
        BY <4>3, Sides
      <4> QED  BY <2>3, <4>2, <4>4, Order
    <3> QED  BY <1>2, <1>3, <2>4, <3>1, <3>2
  <2>5. Nearest(M, n, s, v)
    BY <1>1, <1>2, <2>3, <2>4 DEF Nearest
  <2> QED  BY <2>5 DEF v
<1>5. CASE c = NULL
  <2>1. sub[c] = {}
    BY <1>5 DEF Shape
  <2>2. NextTo(M, sub[n], s, v)
    BY <1>5, ClimbIs
  <2> HIDE DEF v, c, f
  <2>3. /\ \A y \in M \ sub[n] : \/ v # NULL /\ (y = v \/ Beyond(s, y, v))
                                 \/ \A a \in sub[n] : Beyond(s, a, y)
        /\ v # NULL => v \in M \ sub[n] /\ \A a \in sub[n] : Beyond(s, v, a)
    BY <2>2 DEF NextTo
  <2>4. ASSUME NEW y \in M, Beyond(s, y, n)
        PROVE  v # NULL /\ (y = v \/ Beyond(s, y, v))
    <3>1. y \notin sub[n]
      BY <1>2, <1>3, <2>1, <2>4
    <3>2. ~Beyond(s, n, y)
      BY <1>1, <2>4, Order
    <3> QED  BY <1>2, <2>3, <3>1, <3>2
  <2>5. Nearest(M, n, s, v)
    BY <1>2, <2>3, <2>4 DEF Nearest
  <2> QED  BY <2>5 DEF v
<1> QED  BY <1>4, <1>5

\* rb_first and rb_last give the ends, rb_next and rb_prev the neighbours.
LEMMA WalkIs ==
  ASSUME NEW sub, Shape(tree, member, sub)
  PROVE  WalksInOrder
<1> DEFINE least(S)    == IF S = {} THEN NULL ELSE Min(S)
           greatest(S) == IF S = {} THEN NULL ELSE Max(S)
<1>1. /\ member \subseteq Int /\ NULL \notin member /\ member \subseteq Node
      /\ "left" \in Side /\ "right" \in Side
  <2>1. member \subseteq Node /\ NULL \notin member
    BY ShapeTypes
  <2> QED  BY <2>1, RbAssumption DEF Side
<1>2. ASSUME NEW S \in SUBSET Int, NEW m \in S, \A y \in S : m <= y PROVE least(S) = m
  <2>1. \A x \in S : (\A y \in S : x <= y) => x = m
    BY <1>2
  <2>2. Min(S) = CHOOSE x \in S : \A y \in S : x <= y
    BY DEF Min
  <2>3. Min(S) \in S /\ \A y \in S : Min(S) <= y
    BY <1>2, <2>2
  <2>4. Min(S) = m
    BY <2>1, <2>3
  <2> QED  BY <1>2, <2>4
<1>3. ASSUME NEW S \in SUBSET Int, NEW m \in S, \A y \in S : m >= y PROVE greatest(S) = m
  <2>1. \A x \in S : (\A y \in S : x >= y) => x = m
    BY <1>3
  <2>2. Max(S) = CHOOSE x \in S : \A y \in S : x >= y
    BY DEF Max
  <2>3. Max(S) \in S /\ \A y \in S : Max(S) >= y
    BY <1>3, <2>2
  <2>4. Max(S) = m
    BY <2>1, <2>3
  <2> QED  BY <1>3, <2>4
<1>4. least({}) = NULL /\ greatest({}) = NULL
  OBVIOUS
<1> HIDE DEF least, greatest
<1>5. End(tree, "left") = least(member) /\ End(tree, "right") = greatest(member)
  <2>1. CASE tree.root = NULL
    <3>1. member = {}
      BY <2>1, RootAll
    <3>2. End(tree, "left") = NULL /\ End(tree, "right") = NULL
      BY <2>1 DEF End
    <3> QED  BY <1>4, <3>1, <3>2
  <2>2. CASE tree.root # NULL
    <3> DEFINE l == Farthest(tree, tree.root, "left")
               r == Farthest(tree, tree.root, "right")
    <3>0. tree.root \in member
      BY <2>2, ShapeTypes
    <3>1. sub[tree.root] = member
      BY <3>0, RootAll
    <3>2. End(tree, "left") = l /\ End(tree, "right") = r
      BY <2>2 DEF End
    <3>3. /\ LastOn(tree, member, sub, tree.root, "left", l)
          /\ LastOn(tree, member, sub, tree.root, "right", r)
      BY <1>1, <3>0, FarthestIs
    <3> HIDE DEF l, r
    <3>4. l \in member /\ \A y \in member \ {l} : l < y
      BY <3>1, <3>3 DEF LastOn, Beyond
    <3>5. r \in member /\ \A y \in member \ {r} : y < r
      BY <3>1, <3>3 DEF LastOn, Beyond
    <3>6. \A y \in member : l <= y /\ r >= y
      BY <1>1, <3>4, <3>5
    <3>7. least(member) = l /\ greatest(member) = r
      BY <1>1, <1>2, <1>3, <3>4, <3>5, <3>6
    <3> QED  BY <3>2, <3>7
  <2> QED  BY <2>1, <2>2
<1>6. ASSUME NEW n \in member
      PROVE  Neighbour(tree, n, "right") = least({m \in member : m > n})
  <2> DEFINE v == Neighbour(tree, n, "right")
             S == {m \in member : m > n}
  <2>1. Nearest(member, n, "right", v)
    BY <1>1, NeighbourIs
  <2> HIDE DEF v
  <2>2. /\ v = NULL => \A y \in member : ~(n < y)
        /\ v # NULL => v \in member /\ n < v /\ \A y \in member : n < y => y = v \/ v < y
    BY <2>1 DEF Nearest, Beyond
  <2>3. S \in SUBSET Int /\ n \in Int /\ \A y \in S : y \in member /\ n < y /\ y \in Int
    BY <1>1
  <2>4. CASE v = NULL
    <3>1. S = {}
      BY <2>2, <2>3, <2>4
    <3> HIDE DEF S
    <3> QED  BY <1>4, <2>4, <3>1 DEF v, S
  <2>5. CASE v # NULL
    <3>1. v \in S /\ \A y \in S : v <= y
      BY <1>1, <2>2, <2>3, <2>5
    <3> HIDE DEF S
    <3>2. least(S) = v
      BY <1>2, <2>3, <3>1
    <3> QED  BY <3>2 DEF v, S
  <2> QED  BY <2>4, <2>5
<1>7. ASSUME NEW n \in member
      PROVE  Neighbour(tree, n, "left") = greatest({m \in member : m < n})
  <2> DEFINE v == Neighbour(tree, n, "left")
             S == {m \in member : m < n}
  <2>1. Nearest(member, n, "left", v)
    BY <1>1, NeighbourIs
  <2> HIDE DEF v
  <2>2. /\ v = NULL => \A y \in member : ~(y < n)
        /\ v # NULL => v \in member /\ v < n /\ \A y \in member : y < n => y = v \/ y < v
    BY <2>1 DEF Nearest, Beyond
  <2>3. S \in SUBSET Int /\ n \in Int /\ \A y \in S : y \in member /\ y < n /\ y \in Int
    BY <1>1
  <2>4. CASE v = NULL
    <3>1. S = {}
      BY <2>2, <2>3, <2>4
    <3> HIDE DEF S
    <3> QED  BY <1>4, <2>4, <3>1 DEF v, S
  <2>5. CASE v # NULL
    <3>1. v \in S /\ \A y \in S : v >= y
      BY <1>1, <2>2, <2>3, <2>5
    <3> HIDE DEF S
    <3>2. greatest(S) = v
      BY <1>3, <2>3, <3>1
    <3> QED  BY <3>2 DEF v, S
  <2> QED  BY <2>4, <2>5
<1> QED  BY <1>5, <1>6, <1>7 DEF WalksInOrder, least, greatest

\* Between calls rb_first, rb_last, rb_next and rb_prev agree with the order of
\* the nodes.
THEOREM WalksAlwaysInOrder == Spec => []WalksInOrder
<1>1. IInv => WalksInOrder
  BY WalkIs DEF IInv
<1> QED  BY <1>1, InvariantHolds, PTL
=============================================================================
