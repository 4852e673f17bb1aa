------------------------- MODULE AddressSpaceProofs -------------------------
(***************************************************************************)
(* The areas of an address space are in a list and in a tree.  However     *)
(* areas are created and address spaces destroyed, the two agree, the tree *)
(* is the red-black tree RbTreeProofs is about, although its insertion     *)
(* point comes from the list, and the tree search finds the area of an     *)
(* address.                                                                *)
(***************************************************************************)
EXTENDS AddressSpace, Induction

P == INSTANCE RbTreeProofs WITH pc <- TreePc

-----------------------------------------------------------------------------
(* Addresses and pages.                                                    *)

\* The end an area has before it is given one.
LEMMA ZeroIsAddr == 0 \in Addr
BY AddressAssumption DEF Addr

\* Rounding down to a page takes off less than a page.
LEMMA Rounding ==
  ASSUME NEW a \in Nat
  PROVE  /\ vmm_page_align(a) \in Nat
         /\ vmm_page_align(a) <= a /\ a < vmm_page_align(a) + PAGE
BY AddressAssumption DEF vmm_page_align

\* A rounded address is on a page.
LEMMA OnPage ==
  ASSUME NEW a \in Nat
  PROVE  vmm_page_align(a) % PAGE = 0
<1>1. PAGE \in Nat \ {0}
  BY AddressAssumption
<1> DEFINE d == a \div PAGE
           m == a - (a % PAGE)
           b == m % PAGE
           c == m \div PAGE
<1>2. d \in Int /\ m \in Int /\ m = PAGE * d
  BY <1>1
<1> HIDE DEF m, d
<1>3. b \in 0 .. (PAGE - 1) /\ c \in Int /\ m = PAGE * c + b
  BY <1>1, <1>2
<1>4. ASSUME NEW p \in Nat \ {0}, NEW x \in Int, NEW y \in Int, NEW z \in 0 .. (p - 1),
             p * x = p * y + z
      PROVE  z = 0
  <2>1. x >= y + 1 => p * x >= p * (y + 1)
    OBVIOUS
  <2>2. x <= y => p * x <= p * y
    OBVIOUS
  <2>3. p * (y + 1) = p * y + p
    OBVIOUS
  <2> QED  BY <1>4, <2>1, <2>2, <2>3
<1> HIDE DEF b, c
<1>5. b = 0
  BY ONLY <1>1, <1>2, <1>3, <1>4
<1> QED  BY <1>5 DEF vmm_page_align, b, m

\* An area starts on a page and ends on a page, whether or not the sum wraps.
LEMMA AreaOnPages ==
  ASSUME NEW start \in Starts, NEW len \in Lengths
  PROVE  LET e == vmm_page_align((start + len + PAGE - 1) % WORD)
         IN  vmm_page_align(start) \in Node /\ e \in Addr /\ e % PAGE = 0
<1>1. /\ start \in Nat /\ len \in Nat /\ PAGE \in Nat /\ PAGE # 0
      /\ WORD \in Nat /\ WORD # 0
  BY AddressAssumption DEF Addr
<1> DEFINE x == (start + len + PAGE - 1) % WORD
           e == vmm_page_align(x)
<1>2. x \in Addr /\ x \in Nat
  BY <1>1 DEF Addr
<1> HIDE DEF x
<1>3. e \in Nat /\ e <= x /\ e % PAGE = 0
  BY <1>2, Rounding, OnPage
<1>4. vmm_page_align(start) \in Node
  BY DEF Node
<1> HIDE DEF e
<1>5. e \in Addr
  BY <1>1, <1>2, <1>3 DEF Addr
<1> QED  BY <1>3, <1>4, <1>5 DEF e, x

\* What rbtree.c's proofs suppose of the nodes.
LEMMA TreeAssumption ==
  /\ P!RbAssumption
  /\ Node \subseteq Nat /\ NULL \notin Node /\ IsFiniteSet(Node)
<1>1. Node \subseteq Nat
  <2>1. \A a \in Starts : a \in Nat
    BY AddressAssumption DEF Addr
  <2> QED  BY <2>1, Rounding DEF Node
<1>2. IsFiniteSet(Node)
  <2>1. IsFiniteSet(Starts)
    <3>1. 0 \in Int /\ WORD - 1 \in Int /\ Starts \subseteq Addr
      BY AddressAssumption
    <3>2. IsFiniteSet(Addr)
      BY <3>1, FS_Interval DEF Addr
    <3> QED  BY <3>1, <3>2, FS_Subset
  <2> DEFINE f == [a \in Starts |-> vmm_page_align(a)]
  <2>2. f \in Surjection(Starts, Node)
    BY DEF Node, Surjection
  <2> QED  BY <2>1, <2>2, FS_Surjection
<1>3. NULL \notin Int
  BY AddressAssumption
<1>4. P!IsFiniteSet(Node)
  BY <1>2, Zenon DEF IsFiniteSet, P!IsFiniteSet
<1>5. NULL \notin Node
  <2>1. Node \subseteq Int
    BY <1>1
  <2> QED  BY ONLY <2>1, <1>3
<1> QED  BY <1>1, <1>2, <1>3, <1>4, <1>5 DEF P!RbAssumption

-----------------------------------------------------------------------------
(* The tree of the address space and the tree of RbTreeProofs are one.     *)

\* Cardinality is the same in all the modules.
LEMMA SameCardinality ==
  R!Cardinality(Node) = Cardinality(Node) /\ P!Cardinality(Node) = Cardinality(Node)
BY Zenon DEF R!Cardinality, P!Cardinality, Cardinality

\* So is what an in-order walk of the tree meets.
LEMMA SameInOrder == R!InOrder = P!InOrder
BY Zenon, SameCardinality DEF R!InOrder, P!InOrder, R!Ptr, P!Ptr

\* What the invariant of rbtree.c implies, for the tree of the address space.
LEMMA TreeIsKept ==
  ASSUME P!IInv
  PROVE  R!TypeOK /\ TreeKept
<1>1. P!TypeOK /\ P!LinksAgree /\ P!RedRule /\ P!HoldsMembers /\ P!Balanced
  BY TreeAssumption, P!TypesFollow, P!LinksFollow, P!RedRuleFollows, P!MembersFollow, P!HeightIs
<1>2. R!TypeOK
  BY <1>1 DEF R!TypeOK, P!TypeOK, R!Side, P!Side, R!Ptr, P!Ptr
<1>3. R!LinksAgree
  BY <1>1 DEF R!LinksAgree, P!LinksAgree, R!Side, P!Side
<1>4. R!RedRule
  BY <1>1 DEF R!RedRule, P!RedRule, R!IsRed, P!IsRed
<1>5. R!HoldsMembers
  BY <1>1, SameInOrder, Zenon DEF R!HoldsMembers, P!HoldsMembers, R!Range, P!Range
<1>6. R!Balanced
  BY <1>1, SameCardinality, Zenon
     DEF R!Balanced, P!Balanced, R!BlackHeight, P!BlackHeight, R!Ptr, P!Ptr, R!SideOf, P!SideOf
<1> QED  BY <1>2, <1>3, <1>4, <1>5, <1>6 DEF TreeKept

\* The helpers of a turn of rb_insert_color.
LEMMA SameTests ==
  ASSUME NEW t, NEW n, NEW m
  PROVE  /\ T!IsRed(t, n) = P!IsRed(t, n) /\ T!SideOf(t, n, m) = P!SideOf(t, n, m)
         /\ T!Other(n) = P!Other(n)
BY DEF T!IsRed, P!IsRed, T!SideOf, P!SideOf, T!Other, P!Other

\* Colouring a node, by rb_set_color, is the same in both.
LEMMA SamePaint ==
  ASSUME NEW t, NEW n, NEW b
  PROVE  T!Paint(t, n, b) = P!Paint(t, n, b)
BY DEF T!Paint, P!Paint

\* So are the writes of one pointer, and a node before it is linked.
LEMMA SameWrites ==
  ASSUME NEW t, NEW s, NEW p, NEW n
  PROVE  /\ T!SetParent(t, n, p) = P!SetParent(t, n, p)
         /\ T!SetChild(t, s, p, n) = P!SetChild(t, s, p, n)
         /\ T!Forget(t, n) = P!Forget(t, n)
<1>2. T!SetParent(t, n, p) = P!SetParent(t, n, p)
  BY DEF T!SetParent, P!SetParent
<1>3. T!SetChild(t, s, p, n) = P!SetChild(t, s, p, n)
  BY DEF T!SetChild, P!SetChild
<1>4. T!Forget(t, n) = P!Forget(t, n)
  BY Zenon DEF T!Forget, P!Forget, T!Side, P!Side
<1> QED  BY <1>2, <1>3, <1>4

\* So are the rotations.
LEMMA SameRotation ==
  ASSUME NEW t, NEW n, NEW s
  PROVE  T!Rotate(t, n, s) = P!Rotate(t, n, s)
<1>1. ASSUME NEW u, NEW p, NEW o, NEW m
      PROVE  T!Redirect(u, p, o, m) = P!Redirect(u, p, o, m)
  BY SameTests, SameWrites DEF T!Redirect, P!Redirect
<1> QED  BY <1>1, SameTests, SameWrites DEF T!Rotate, P!Rotate

\* The fix-up after an insertion is that of rbtree.c.
LEMMA SameTurn == T!InsertTurn => P!InsertTurn
BY SameTests, SamePaint, SameRotation DEF T!InsertTurn, P!InsertTurn, TreePc

\* So is the end of the fix-up, which blackens the root.
LEMMA SameDone == T!InsertDone => P!InsertDone
BY DEF T!InsertDone, P!InsertDone, TreePc, T!Paint, P!Paint, T!IsRed, P!IsRed

-----------------------------------------------------------------------------
(* The inductive invariant.                                                *)

\* The number of areas in the list; the last one is not counted yet while the
\* tree is being fixed up.
Count == map_count + (IF pc = "insert_color" THEN 1 ELSE 0)

\* The list is q[1], ..., q[Count]: the areas in order, linked both ways.
ListIs(q) ==
  /\ Count \in Nat /\ q \in [1 .. Count -> Node]
  /\ \A i \in 1 .. Count : q[i] \in member
  /\ \A m \in member : \E i \in 1 .. Count : q[i] = m
  /\ \A i, j \in 1 .. Count : i < j => q[i] < q[j]
  /\ mmap = IF Count = 0 THEN NULL ELSE q[1]
  /\ \A i \in 1 .. Count : vm_next[q[i]] = IF i = Count THEN NULL ELSE q[i + 1]
  /\ \A i \in 1 .. Count : vm_prev[q[i]] = IF i = 1 THEN NULL ELSE q[i - 1]

\* The walk of vmm_insert_vma has passed the first k areas, all of them below
\* the new one; when it has passed them all it has noted the right side of the
\* last one as the place in the tree.
Passed(q, k) ==
  /\ prev = IF k = 0 THEN NULL ELSE q[k]
  /\ curr = IF k = Count THEN NULL ELSE q[k + 1]
  /\ \A i \in 1 .. k : q[i] < new.start
  /\ curr = NULL => link = IF k = 0 THEN AtRoot ELSE [parent |-> prev, side |-> "right"]

\* The area on its way in ends on a page.
NewArea ==
  /\ new \in [start : Node, end : Addr]
  /\ new.end % PAGE = 0

\* The fields have their types.
Fields ==
  /\ pc \in {"idle", "walk", "fault", "insert_color"}
  /\ \A n \in member : vm_end[n] % PAGE = 0
  /\ mmap \in Ptr /\ curr \in Ptr /\ prev \in Ptr
  /\ vm_next \in [Node -> Ptr] /\ vm_prev \in [Node -> Ptr]
  /\ vm_end \in [Node -> Addr] /\ map_count \in Nat
  /\ new \in [start : Node, end : Addr] \cup {NULL}
  /\ link \in [parent : Node, side : T!Side] \cup {AtRoot}

\* The inductive invariant: the tree is whole, the list has the areas in order, and
\* a walk has passed a beginning of the list.
IInv ==
  /\ P!IInv /\ Fields
  /\ pc = "walk" => NewArea
  /\ \E q : ListIs(q) /\ (pc = "walk" => \E k \in 0 .. Count : Passed(q, k))

\* Without a fix-up the tree has no cursor.
LEMMA TreeFacts ==
  ASSUME P!IInv
  PROVE  /\ \E sub : P!Shape(tree, member, sub)
         /\ member \subseteq Node
         /\ pc # "insert_color" /\ Fields => TreePc = "idle" /\ node = NULL /\ parent = NULL
<1>1. PICK sub : P!Shape(tree, member, sub)
  BY DEF P!IInv
<1>2. member \subseteq Node
  BY <1>1 DEF P!Shape
<1>3. ASSUME pc # "insert_color", Fields PROVE TreePc = "idle" /\ node = NULL /\ parent = NULL
  <2>1. TreePc = "idle"
    BY <1>3 DEF TreePc, Fields
  <2> QED  BY <2>1 DEF P!IInv, P!Cursor
<1> QED  BY <1>1, <1>2, <1>3

\* A step that leaves the tree alone leaves it whole.
LEMMA TreeSame ==
  ASSUME P!IInv, UNCHANGED treeVars, TreePc' = TreePc
  PROVE  P!IInv'
BY TreeAssumption, P!StepIInv DEF treeVars, P!vars

\* A step that leaves the list and the set of areas alone leaves it a list.
LEMMA ListSame ==
  ASSUME NEW q, ListIs(q), UNCHANGED <<mmap, vm_next, vm_prev, member>>, Count' = Count
  PROVE  ListIs(q)'
BY DEF ListIs

-----------------------------------------------------------------------------
(* vmm_create_vma and the walk.                                            *)

\* The walk begins in front of the first area.
LEMMA CreateStep ==
  ASSUME IInv, NEW start \in Starts, NEW len \in Lengths, vmm_create_vma(start, len)
  PROVE  IInv'
<1>1. /\ pc = "idle" /\ len # 0 /\ pc' = "walk"
      /\ new' = [start |-> vmm_page_align(start), end |-> vmm_page_align((start + len + PAGE - 1) % WORD)]
      /\ curr' = mmap /\ prev' = NULL /\ link' = AtRoot
      /\ UNCHANGED treeVars /\ UNCHANGED listVars
  BY DEF vmm_create_vma
<1>2. NewArea'
  BY <1>1, AreaOnPages DEF NewArea
<1>3. P!IInv /\ P!IInv'
  BY <1>1, TreeSame DEF IInv, TreePc
<1>4. Count' = Count
  BY <1>1 DEF Count, listVars
<1>5. PICK q : ListIs(q)
  BY DEF IInv
<1>6. ListIs(q)'
  BY <1>1, <1>4, <1>5, ListSame DEF listVars, treeVars
<1>7. Count \in Nat /\ curr' = IF 0 = Count' THEN NULL ELSE q[0 + 1]
  BY <1>1, <1>4, <1>5 DEF ListIs
<1>8. Passed(q, 0)' /\ 0 \in 0 .. Count'
  BY <1>1, <1>4, <1>7 DEF Passed
<1>9. Fields'
  BY <1>1, <1>2 DEF IInv, Fields, NewArea, listVars, treeVars, Ptr
<1> QED  BY <1>2, <1>3, <1>6, <1>8, <1>9 DEF IInv

\* The walk passes an area below the new one.
LEMMA WalkOnStep ==
  ASSUME IInv, WalkOn
  PROVE  IInv'
<1>1. /\ pc = "walk" /\ curr # NULL /\ new.start > curr /\ pc' = pc /\ new' = new
      /\ link' = [parent |-> curr, side |-> "right"]
      /\ prev' = curr /\ curr' = vm_next[curr]
      /\ UNCHANGED treeVars /\ UNCHANGED listVars
  BY DEF WalkOn
<1>2. NewArea /\ NewArea'
  BY <1>1 DEF IInv, NewArea
<1>3. P!IInv /\ P!IInv'
  BY <1>1, TreeSame DEF IInv, TreePc
<1>4. Count' = Count
  BY <1>1 DEF Count, listVars
<1>q. PICK q : ListIs(q) /\ \E k \in 0 .. Count : Passed(q, k)
  BY <1>1 DEF IInv
<1>5. PICK k \in 0 .. Count : ListIs(q) /\ Passed(q, k)
  BY <1>q
<1>6. ListIs(q)'
  BY <1>1, <1>4, <1>5, ListSame DEF listVars, treeVars
<1>7. /\ Count \in Nat /\ k # Count /\ k + 1 \in 1 .. Count
      /\ curr = q[k + 1] /\ curr \in Node
      /\ \A i \in 1 .. k : q[i] < new.start
      /\ vm_next[curr] = IF k + 1 = Count THEN NULL ELSE q[(k + 1) + 1]
  BY <1>1, <1>5 DEF ListIs, Passed
<1>8. \A i \in 1 .. (k + 1) : q[i] < new.start
  <2>1. ASSUME NEW i \in 1 .. (k + 1) PROVE q[i] < new.start
    <3>1. i \in 1 .. k \/ i = k + 1
      BY <1>7
    <3>2. q[k + 1] < new.start
      <4>1. curr \in Nat /\ new.start \in Nat
        BY <1>2, <1>7, TreeAssumption DEF NewArea
      <4> QED  BY <1>1, <1>7, <4>1
    <3> QED  BY <1>7, <3>1, <3>2
  <2> QED  BY <2>1
<1>9. Passed(q, k + 1)'
  BY <1>1, <1>4, <1>7, <1>8 DEF Passed
<1>10. k + 1 \in 0 .. Count'
  BY <1>4, <1>7
<1>11. Fields'
  <2>1. curr' \in Ptr /\ prev' \in Ptr /\ link' \in [parent : Node, side : T!Side]
    <3>1. vm_next \in [Node -> Ptr]
      BY DEF IInv, Fields
    <3> QED  BY <1>1, <1>7, <3>1 DEF Ptr, T!Side
  <2> QED  BY <1>1, <2>1 DEF IInv, Fields, listVars, treeVars
<1> QED  BY <1>2, <1>3, <1>6, <1>9, <1>10, <1>11 DEF IInv

\* The walk comes to an area above the new one, and stays where it is.
LEMMA WalkBackStep ==
  ASSUME IInv, WalkBack
  PROVE  IInv'
<1>1. /\ pc = "walk" /\ curr # NULL /\ prev # NULL /\ pc' = pc /\ new' = new
      /\ link' = [parent |-> curr, side |-> "left"]
      /\ prev' = prev /\ curr' = vm_next[prev]
      /\ UNCHANGED treeVars /\ UNCHANGED listVars
  BY DEF WalkBack
<1>2. NewArea'
  BY <1>1 DEF IInv, NewArea
<1>3. P!IInv /\ P!IInv'
  BY <1>1, TreeSame DEF IInv, TreePc
<1>4. Count' = Count
  BY <1>1 DEF Count, listVars
<1>q. PICK q : ListIs(q) /\ \E k \in 0 .. Count : Passed(q, k)
  BY <1>1 DEF IInv
<1>5. PICK k \in 0 .. Count : ListIs(q) /\ Passed(q, k)
  BY <1>q
<1>6. ListIs(q)'
  BY <1>1, <1>4, <1>5, ListSame DEF listVars, treeVars
<1>7. Count \in Nat /\ k # 0 /\ k \in 1 .. Count /\ k # Count /\ prev = q[k] /\ curr = q[k + 1]
  BY <1>1, <1>5 DEF ListIs, Passed
<1>8. curr' = curr
  BY <1>1, <1>5, <1>7 DEF ListIs
<1>9. Passed(q, k)'
  BY <1>1, <1>4, <1>5, <1>8 DEF Passed
<1>10. Fields'
  <2>1. curr \in Node
    BY <1>1 DEF IInv, Fields, Ptr
  <2>2. link' \in [parent : Node, side : T!Side]
    BY <1>1, <2>1 DEF T!Side
  <2> QED  BY <1>1, <1>8, <2>2 DEF IInv, Fields, listVars, treeVars
<1> QED  BY <1>2, <1>3, <1>4, <1>6, <1>9, <1>10 DEF IInv

\* The walk ends in a fault, or because the area is there already.
LEMMA WalkEndStep ==
  ASSUME IInv, WalkFault \/ WalkExists
  PROVE  IInv'
<1>1. /\ pc = "walk" /\ pc' \in {"idle", "fault"}
      /\ new' \in {new, NULL} /\ curr' \in {curr, NULL} /\ prev' \in {prev, NULL}
      /\ link' \in {link, AtRoot}
      /\ UNCHANGED treeVars /\ UNCHANGED listVars
  BY DEF WalkFault, WalkExists, walkVars
<1>2. P!IInv /\ P!IInv'
  BY <1>1, TreeSame DEF IInv, TreePc
<1>3. Count' = Count
  BY <1>1 DEF Count, listVars
<1>4. PICK q : ListIs(q)
  BY DEF IInv
<1>5. ListIs(q)'
  BY <1>1, <1>3, <1>4, ListSame DEF listVars, treeVars
<1>6. Fields'
  BY <1>1 DEF IInv, Fields, listVars, treeVars, Ptr
<1> QED  BY <1>1, <1>2, <1>5, <1>6 DEF IInv

-----------------------------------------------------------------------------
(* The fix-up and the end of an address space.                             *)

\* The fix-up of the tree leaves the list alone; at its end the area counts.
LEMMA InsertColorStep ==
  ASSUME IInv, rb_insert_color
  PROVE  IInv'
<1>1. CASE T!InsertTurn /\ UNCHANGED <<listVars, walkVars>>
  <2>1. /\ pc = "insert_color" /\ pc' = pc /\ member' = member /\ P!Next
    BY <1>1, SameTurn DEF T!InsertTurn, P!Next, P!Turn
  <2>2. P!IInv'
    BY <2>1, TreeAssumption, P!StepIInv DEF IInv
  <2>3. Count' = Count
    BY <1>1, <2>1 DEF Count, listVars
  <2>4. PICK q : ListIs(q)
    BY DEF IInv
  <2>5. ListIs(q)'
    BY <1>1, <2>1, <2>3, <2>4, ListSame DEF listVars
  <2>6. Fields'
    BY <1>1, <2>1 DEF IInv, Fields, listVars, walkVars
  <2> QED  BY <2>1, <2>2, <2>5, <2>6 DEF IInv
<1>2. CASE /\ T!InsertDone /\ map_count' = map_count + 1
           /\ new' = NULL /\ curr' = NULL /\ prev' = NULL /\ link' = AtRoot
           /\ UNCHANGED <<mmap, vm_next, vm_prev, vm_end>>
  <2>1. /\ pc = "insert_color" /\ pc' = "idle" /\ member' = member /\ P!Next
    BY <1>2, SameDone DEF T!InsertDone, P!Next, P!Turn
  <2>2. P!IInv'
    BY <2>1, TreeAssumption, P!StepIInv DEF IInv
  <2>3. Count' = Count /\ map_count' \in Nat
    BY <1>2, <2>1 DEF Count, IInv, Fields
  <2>4. PICK q : ListIs(q)
    BY DEF IInv
  <2>5. ListIs(q)'
    BY <1>2, <2>1, <2>3, <2>4, ListSame
  <2>6. Fields'
    BY <1>2, <2>1, <2>3 DEF IInv, Fields, Ptr
  <2> QED  BY <2>1, <2>2, <2>5, <2>6 DEF IInv
<1> QED  BY <1>1, <1>2 DEF rb_insert_color

\* A fresh address space is as the invariant says.
LEMMA FreshIs ==
  tree = Fresh.tree /\ TreePc = "idle" /\ node = NULL /\ parent = NULL /\ member = Fresh.member
    => P!IInv
<1> SUFFICES ASSUME tree = Fresh.tree, TreePc = "idle", node = NULL, parent = NULL,
                    member = Fresh.member
             PROVE  P!IInv
  OBVIOUS
<1>1. P!Init
  BY DEF Fresh, P!Init, T!EmptyTree, P!EmptyTree, T!Side, P!Side
<1> QED  BY <1>1, TreeAssumption, P!InitIInv

\* The next address space begins without areas.
LEMMA DestroyStep ==
  ASSUME IInv, vmm_destroy_address_space
  PROVE  IInv'
<1>1. /\ pc = "idle" /\ pc' = pc /\ node' = node /\ parent' = parent /\ UNCHANGED walkVars
      /\ tree' = Fresh.tree /\ member' = Fresh.member
      /\ mmap' = Fresh.mmap /\ map_count' = Fresh.map_count
      /\ vm_next' = Fresh.ptrs /\ vm_prev' = Fresh.ptrs /\ vm_end' = Fresh.ends
  BY DEF vmm_destroy_address_space
<1>2. TreePc' = "idle" /\ node' = NULL /\ parent' = NULL
  BY <1>1, TreeFacts DEF IInv, TreePc
<1>3. (tree = Fresh.tree /\ TreePc = "idle" /\ node = NULL /\ parent = NULL
       /\ member = Fresh.member => P!IInv)'
  BY FreshIs, PTL
<1>4. Fresh' = Fresh
  BY DEF Fresh, T!EmptyTree
<1>5. P!IInv'
  BY <1>1, <1>2, <1>3, <1>4
<1>6. ListIs(<<>>)'
  BY <1>1 DEF ListIs, Count, Fresh
<1>7. Fields'
  BY <1>1, ZeroIsAddr DEF IInv, Fields, Fresh, walkVars, Ptr
<1> QED  BY <1>1, <1>5, <1>6, <1>7 DEF IInv

-----------------------------------------------------------------------------
(* The new area is linked behind the last one.                             *)

\* The right side of the last node is the place of a node beyond all others.
LEMMA LastPlace ==
  ASSUME NEW sub, P!Shape(tree, member, sub), NEW p \in member, NEW n \in Node,
         \A m \in member : m <= p /\ m < n
  PROVE  P!PlaceFor(tree, member, sub, n, tree.root, p, "right") /\ tree.root # NULL
<1>1. "right" \in P!Side /\ "left" \in P!Side /\ \A c \in P!Side : c = "right" \/ c = "left"
  BY DEF P!Side
<1>2. /\ tree.root # NULL /\ sub[tree.root] = member /\ member \subseteq Nat
      /\ \A y \in member, c \in P!Side : tree.child[c][y] # NULL => tree.child[c][y] \in member
  <2>1. tree.root # NULL /\ sub[tree.root] = member
    BY TreeAssumption, P!RootAll
  <2>2. /\ member \subseteq Node
        /\ \A y \in member, c \in P!Side : tree.child[c][y] # NULL => tree.child[c][y] \in member
    BY TreeAssumption, P!ShapeTypes
  <2> QED  BY <2>1, <2>2, TreeAssumption
<1>3. \A y \in member, c \in P!Side : \A m \in sub[tree.child[c][y]] : P!Beyond(c, m, y)
  BY DEF P!Shape
<1>4. tree.child["right"][p] = NULL
  <2> SUFFICES ASSUME tree.child["right"][p] # NULL PROVE FALSE
    OBVIOUS
  <2> DEFINE r == tree.child["right"][p]
  <2>1. r \in member
    BY <1>1, <1>2
  <2>2. r \in sub[r]
    BY <1>1, <2>1, TreeAssumption, P!Subtree
  <2>3. P!Beyond("right", r, p)
    BY <1>1, <1>3, <2>2
  <2>4. p < r
    BY <2>3 DEF P!Beyond
  <2>5. r <= p /\ r \in Nat /\ p \in Nat
    BY <1>2, <2>1
  <2> HIDE DEF r
  <2> QED  BY <2>4, <2>5
<1>5. P!Beyond("right", n, p)
  BY DEF P!Beyond
<1>6. ASSUME NEW y \in member, NEW c \in P!Side, p \in sub[tree.child[c][y]]
      PROVE  P!Beyond(c, n, y)
  <2>1. P!Beyond(c, p, y)
    BY <1>3, <1>6
  <2> QED  BY <1>1, <1>2, <2>1 DEF P!Beyond
<1> QED  BY <1>1, <1>2, <1>4, <1>5, <1>6 DEF P!PlaceFor

\* What the walk knows when it has come to the end of the list.
LEMMA WalkedAll ==
  ASSUME IInv, pc = "walk", curr = NULL
  PROVE  \E q : /\ ListIs(q) /\ Count = map_count
                /\ prev = IF Count = 0 THEN NULL ELSE q[Count]
                /\ link = IF Count = 0 THEN AtRoot ELSE [parent |-> prev, side |-> "right"]
                /\ \A i \in 1 .. Count : q[i] < new.start
<1>1. PICK q : ListIs(q) /\ \E k \in 0 .. Count : Passed(q, k)
  BY DEF IInv
<1>2. PICK k \in 0 .. Count : Passed(q, k)
  BY <1>1
<1>3. Count \in Nat /\ Count = map_count
  BY <1>1 DEF ListIs, Count, IInv, Fields
<1>4. k = Count
  <2> SUFFICES ASSUME k # Count PROVE FALSE
    OBVIOUS
  <2>1. k + 1 \in 1 .. Count
    BY <1>3
  <2>2. q[k + 1] \in Node
    BY <1>1, <2>1 DEF ListIs
  <2> QED  BY <1>2, <2>2, TreeAssumption DEF Passed
<1> QED  BY <1>1, <1>2, <1>3, <1>4 DEF Passed

\* The list with the new area behind the last one.
LEMMA LinkList ==
  ASSUME IInv, LinkVma, NEW q, ListIs(q), Count = map_count,
         prev = IF Count = 0 THEN NULL ELSE q[Count],
         NewArea, \A i \in 1 .. Count : q[i] < new.start
  PROVE  \E w : ListIs(w)'
<1>n. PICK n : n = new.start
  OBVIOUS
<1>c. PICK c : c = Count
  OBVIOUS
<1> DEFINE w == [i \in 1 .. (c + 1) |-> IF i = c + 1 THEN n ELSE q[i]]
<1>1. /\ vm_prev' = [vm_prev EXCEPT ![n] = prev]
      /\ vm_next' = [m \in Node |-> IF m = n THEN NULL ELSE IF m = prev THEN n ELSE vm_next[m]]
      /\ mmap' = IF prev = NULL THEN n ELSE mmap
      /\ member' = member \cup {n} /\ pc' = "insert_color" /\ map_count' = map_count
  BY <1>n DEF LinkVma
<1>2. /\ c \in Nat /\ q \in [1 .. c -> Node] /\ n \in Node /\ n \in Nat /\ NULL \notin Node
      /\ \A i \in 1 .. c : q[i] < n /\ q[i] \in Nat /\ q[i] \in Node /\ q[i] # n
      /\ vm_prev \in [Node -> Ptr]
  <2>1. c \in Nat /\ q \in [1 .. c -> Node] /\ n \in Node /\ Node \subseteq Nat /\ NULL \notin Node
    BY <1>n, <1>c, TreeAssumption DEF ListIs, NewArea
  <2> QED  BY <1>n, <1>c, <2>1 DEF IInv, Fields
<1>3. /\ \A i \in 1 .. c : q[i] \in member
      /\ \A m \in member : \E i \in 1 .. c : q[i] = m
      /\ \A i, j \in 1 .. c : i < j => q[i] < q[j]
      /\ mmap = IF c = 0 THEN NULL ELSE q[1]
      /\ \A i \in 1 .. c : vm_next[q[i]] = IF i = c THEN NULL ELSE q[i + 1]
      /\ \A i \in 1 .. c : vm_prev[q[i]] = IF i = 1 THEN NULL ELSE q[i - 1]
      /\ prev = IF c = 0 THEN NULL ELSE q[c]
  BY <1>c DEF ListIs
<1>4. Count' = c + 1
  BY <1>1, <1>c DEF Count
<1>5. /\ c + 1 \in 1 .. (c + 1) /\ w \in [1 .. (c + 1) -> Node] /\ w[c + 1] = n
      /\ \A i \in 1 .. c : i \in 1 .. (c + 1) /\ i # c + 1 /\ w[i] = q[i]
      /\ \A i \in 1 .. (c + 1) : i = c + 1 \/ i \in 1 .. c
  BY <1>2
<1> HIDE DEF w
<1>6. /\ \A i \in 1 .. (c + 1) : w[i] \in member'
      /\ \A m \in member' : \E i \in 1 .. (c + 1) : w[i] = m
  BY <1>1, <1>3, <1>5
<1>7. ASSUME NEW i \in 1 .. (c + 1), NEW j \in 1 .. (c + 1), i < j PROVE w[i] < w[j]
  <2>1. i \in 1 .. c
    BY <1>2, <1>7
  <2>2. CASE j = c + 1
    BY <1>2, <1>5, <2>1, <2>2
  <2>3. CASE j \in 1 .. c
    BY <1>3, <1>5, <1>7, <2>1, <2>3
  <2> QED  BY <1>5, <2>2, <2>3
<1>8. mmap' = w[1]
  <2>1. CASE c = 0
    BY <1>1, <1>3, <1>5, <2>1
  <2>2. CASE c # 0
    <3>1. 1 \in 1 .. c /\ c \in 1 .. c
      BY <1>2, <2>2
    <3>2. prev # NULL
      BY <1>2, <1>3, <2>2, <3>1
    <3> QED  BY <1>1, <1>3, <1>5, <2>2, <3>1, <3>2
  <2> QED  BY <2>1, <2>2
<1>9. ASSUME NEW i \in 1 .. (c + 1)
      PROVE  vm_next'[w[i]] = IF i = c + 1 THEN NULL ELSE w[i + 1]
  <2>1. CASE i = c + 1
    BY <1>1, <1>2, <1>5, <2>1
  <2>2. CASE i = c /\ i \in 1 .. c
    <3>1. c # 0 /\ q[c] = prev /\ q[c] \in Node /\ q[c] # n
      BY <1>2, <1>3, <2>2
    <3>2. w[i] = q[c] /\ w[i + 1] = n /\ i # c + 1
      BY <1>5, <2>2
    <3> QED  BY <1>1, <3>1, <3>2
  <2>3. CASE i # c /\ i \in 1 .. c
    <3>1. c # 0 /\ c \in 1 .. c /\ i < c /\ i + 1 \in 1 .. c /\ i # c + 1
      BY <1>2, <2>3
    <3>2. q[i] < q[c] /\ q[i] \in Nat /\ q[c] \in Nat
      BY <1>2, <1>3, <2>3, <3>1
    <3>3. q[i] # prev /\ q[i] # n /\ q[i] \in Node /\ vm_next[q[i]] = q[i + 1]
      BY SMTT(30), <1>2, <1>3, <2>3, <3>1, <3>2
    <3>4. w[i] = q[i] /\ w[i + 1] = q[i + 1]
      BY <1>5, <2>3, <3>1
    <3> QED  BY <1>1, <3>1, <3>3, <3>4
  <2> QED  BY <1>5, <2>1, <2>2, <2>3
<1>10. ASSUME NEW i \in 1 .. (c + 1)
       PROVE  vm_prev'[w[i]] = IF i = 1 THEN NULL ELSE w[i - 1]
  <2>1. CASE i = c + 1
    <3>1. vm_prev'[w[i]] = prev
      BY <1>1, <1>2, <1>5, <2>1
    <3>2. CASE c = 0
      BY <1>3, <2>1, <3>1, <3>2
    <3>3. CASE c # 0
      <4>1. c \in 1 .. c /\ i # 1 /\ i - 1 = c
        BY <1>2, <2>1, <3>3
      <4> QED  BY <1>3, <1>5, <3>1, <3>3, <4>1
    <3> QED  BY <3>2, <3>3
  <2>2. CASE i \in 1 .. c
    <3>1. vm_prev'[w[i]] = vm_prev[q[i]]
      BY <1>1, <1>2, <1>5, <2>2
    <3>2. i # 1 => i - 1 \in 1 .. c
      BY <1>2, <2>2
    <3> QED  BY <1>3, <1>5, <2>2, <3>1, <3>2
  <2> QED  BY <1>5, <2>1, <2>2
<1>11. c + 1 \in Nat /\ c + 1 # 0
  BY <1>2
<1>12. ListIs(w)'
  BY <1>4, <1>5, <1>6, <1>7, <1>8, <1>9, <1>10, <1>11 DEF ListIs
<1> QED  BY <1>12

\* The new area is in the list and in the tree.
LEMMA LinkVmaStep ==
  ASSUME IInv, LinkVma
  PROVE  IInv'
<1>n. PICK n : n = new.start
  OBVIOUS
<1>1. /\ pc = "walk" /\ curr = NULL /\ pc' = "insert_color"
      /\ node' = n /\ member' = member \cup {n} /\ parent' = parent /\ map_count' = map_count
      /\ UNCHANGED walkVars
      /\ vm_end' = [vm_end EXCEPT ![n] = new.end]
      /\ vm_prev' = [vm_prev EXCEPT ![n] = prev]
      /\ vm_next' = [m \in Node |-> IF m = n THEN NULL ELSE IF m = prev THEN n ELSE vm_next[m]]
      /\ mmap' = IF prev = NULL THEN n ELSE mmap
      /\ tree' = IF link.parent = NULL THEN [T!Forget(tree, n) EXCEPT !.root = n]
                 ELSE T!SetParent(T!SetChild(T!Forget(tree, n), link.side, link.parent, n),
                                  n, link.parent)
  BY <1>n DEF LinkVma
<1>2. NewArea /\ n \in Node /\ new.end % PAGE = 0 /\ new.end \in Addr
  BY <1>1, <1>n DEF IInv, NewArea
<1>3. PICK q : /\ ListIs(q) /\ Count = map_count
               /\ prev = IF Count = 0 THEN NULL ELSE q[Count]
               /\ link = IF Count = 0 THEN AtRoot ELSE [parent |-> prev, side |-> "right"]
               /\ \A i \in 1 .. Count : q[i] < new.start
  BY <1>1, WalkedAll
<1>4. \E w : ListIs(w)'
  BY <1>2, <1>3, LinkList
<1>5. Node \subseteq Nat /\ NULL \notin Node /\ member \subseteq Node
  BY TreeAssumption, TreeFacts DEF IInv
<1>6. \A m \in member : m < n
  BY <1>n, <1>3 DEF ListIs
<1>7. n \notin member
  BY <1>2, <1>5, <1>6
<1>8. P!Linking(n)
  <2>1. TreePc = "idle" /\ TreePc' = "insert_color"
    BY <1>1 DEF TreePc
  <2> QED  BY <1>1, <1>7, <2>1 DEF P!Linking
<1>9. PICK sub : P!Shape(tree, member, sub)
  BY TreeFacts DEF IInv
<1>10. ASSUME Count = 0 PROVE P!IInv'
  <2>1. member = {}
    BY <1>3, <1>10 DEF ListIs
  <2>2. tree.root = NULL
    BY <1>9, <2>1, TreeAssumption, P!RootAll
  <2>3. tree' = [P!Forget(tree, n) EXCEPT !.root = n]
    BY <1>1, <1>3, <1>10, SameWrites DEF AtRoot
  <2> QED  BY <1>2, <1>8, <2>2, <2>3, TreeAssumption, P!LinkRootStep DEF IInv
<1>11. ASSUME Count # 0 PROVE P!IInv'
  <2>1. Count \in 1 .. Count
    BY <1>3, <1>11 DEF ListIs
  <2>2. prev = q[Count] /\ prev \in member
    BY <1>3, <1>11, <2>1 DEF ListIs
  <2>3. ASSUME NEW m \in member PROVE m <= prev
    <3>1. PICK i \in 1 .. Count : q[i] = m
      BY <1>3 DEF ListIs
    <3>2. i = Count \/ i < Count
      BY <2>1
    <3> QED  BY <1>3, <1>5, <2>1, <2>2, <3>1, <3>2 DEF ListIs
  <2>4. P!PlaceFor(tree, member, sub, n, tree.root, prev, "right") /\ tree.root # NULL
    BY <1>2, <1>6, <1>9, <2>2, <2>3, LastPlace
  <2>5. link.parent = prev /\ link.side = "right" /\ prev # NULL
    BY <1>3, <1>5, <1>11, <2>2
  <2>6. tree' = P!SetParent(P!SetChild(P!Forget(tree, n), "right", prev, n), n, prev)
    BY <1>1, <2>5, SameWrites
  <2> QED  BY <1>2, <1>8, <1>9, <2>4, <2>6, TreeAssumption, P!LinkPlaceStep DEF IInv
<1>12. P!IInv'
  BY <1>10, <1>11
<1>13. Fields'
  <2>1. /\ vm_end' \in [Node -> Addr] /\ vm_prev' \in [Node -> Ptr] /\ vm_next' \in [Node -> Ptr]
        /\ mmap' \in Ptr
    BY <1>1, <1>2 DEF IInv, Fields, Ptr
  <2>2. \A m \in member' : vm_end'[m] % PAGE = 0
    BY <1>1, <1>2, <1>5, <1>7 DEF IInv, Fields
  <2> QED  BY <1>1, <2>1, <2>2 DEF IInv, Fields, walkVars
<1> QED  BY <1>1, <1>4, <1>12, <1>13 DEF IInv

-----------------------------------------------------------------------------
(* The invariant holds.                                                    *)

\* A new address space, without areas, has the invariant.
LEMMA InitIInv == Init => IInv
<1> SUFFICES ASSUME Init PROVE IInv
  OBVIOUS
<1>1. /\ tree = T!EmptyTree /\ pc = "idle" /\ node = NULL /\ parent = NULL /\ member = {}
      /\ mmap = NULL /\ map_count = 0
      /\ vm_next = Fresh.ptrs /\ vm_prev = Fresh.ptrs /\ vm_end = Fresh.ends
      /\ new = NULL /\ curr = NULL /\ prev = NULL /\ link = AtRoot
  BY DEF Init, T!Init
<1>2. P!IInv
  BY <1>1, FreshIs DEF Fresh, TreePc
<1>3. ListIs(<<>>)
  BY <1>1 DEF ListIs, Count
<1>4. Fields
  BY <1>1, ZeroIsAddr DEF Fields, Fresh, Ptr
<1> QED  BY <1>1, <1>2, <1>3, <1>4 DEF IInv

\* Every step of vmm_create_vma and vmm_destroy_address_space keeps it.
LEMMA StepIInv == IInv /\ [Next]_vars => IInv'
<1> SUFFICES ASSUME IInv, [Next]_vars PROVE IInv'
  OBVIOUS
<1>1. CASE InsertVma
  BY <1>1, WalkOnStep, WalkBackStep, WalkEndStep, LinkVmaStep, InsertColorStep DEF InsertVma
<1>2. CASE UNCHANGED vars
  <2>1. /\ UNCHANGED treeVars /\ UNCHANGED listVars /\ UNCHANGED walkVars /\ pc' = pc
    BY <1>2 DEF vars
  <2>2. P!IInv /\ P!IInv'
    BY <2>1, TreeSame DEF IInv, TreePc
  <2>3. Count' = Count /\ Fields' /\ NewArea' = NewArea
    BY <2>1 DEF Count, Fields, NewArea, IInv, treeVars, listVars, walkVars
  <2>4. PICK q : ListIs(q) /\ (pc = "walk" => \E k \in 0 .. Count : Passed(q, k))
    BY DEF IInv
  <2>5. ListIs(q)'
    BY <2>1, <2>3, <2>4, ListSame DEF treeVars, listVars
  <2>6. \A k : Passed(q, k) => Passed(q, k)'
    BY <2>1, <2>3 DEF Passed, walkVars
  <2> QED  BY <2>1, <2>2, <2>3, <2>4, <2>5, <2>6 DEF IInv
<1> QED  BY <1>1, <1>2, CreateStep, DestroyStep DEF Next

\* However areas are created and address spaces destroyed, the tree is whole, the
\* list has the areas in order, and a walk that comes to the end of the list has
\* noted the place in the tree.
THEOREM InvariantHolds == Spec => []IInv
<1>1. Init => IInv
  BY InitIInv
<1>2. IInv /\ [Next]_vars => IInv'
  BY StepIInv
<1> QED  BY <1>1, <1>2, PTL DEF Spec

\* The fields have their types, and every area in the address space ends on a
\* page, also where the sum of start and length wraps.
THEOREM TypeCorrect == Spec => []TypeOK
<1>1. IInv => TypeOK
  BY TreeIsKept DEF IInv, Fields, TypeOK
<1> QED  BY <1>1, InvariantHolds, PTL

\* The place that vmm_insert_vma finds in the list is the right one in the tree:
\* linking there never breaks it.
THEOREM TreeAlwaysKept == Spec => []TreeKept
<1>1. IInv => TreeKept
  BY TreeIsKept DEF IInv
<1> QED  BY <1>1, InvariantHolds, PTL

-----------------------------------------------------------------------------
(* The list and the tree.                                                  *)

\* Of two lists of the same nodes in order, the one begins like the other.
LEMMA SameBeginning ==
  ASSUME NEW a, NEW b, NEW S, P!Lists(a, S), P!Lists(b, S)
  PROVE  \A i \in 1 .. Len(a) : i \in 1 .. Len(b) /\ a[i] = b[i]
<1>1. PICK m, n : m = Len(a) /\ n = Len(b) /\ m \in Nat /\ n \in Nat
  <2>1. Len(a) \in Nat /\ Len(b) \in Nat
    BY DEF P!Lists
  <2> QED  BY <2>1
<1>2. /\ \A i \in 1 .. m : a[i] \in S /\ a[i] \in Int
      /\ \A i \in 1 .. n : b[i] \in S /\ b[i] \in Int
      /\ \A x \in S : (\E i \in 1 .. m : a[i] = x) /\ (\E i \in 1 .. n : b[i] = x)
      /\ \A i, j \in 1 .. m : i < j => a[i] < a[j]
      /\ \A i, j \in 1 .. n : i < j => b[i] < b[j]
  <2>1. \A i \in 1 .. m : a[i] \in Node
    BY <1>1 DEF P!Lists
  <2>2. \A i \in 1 .. n : b[i] \in Node
    BY <1>1 DEF P!Lists
  <2>3. Node \subseteq Int
    BY TreeAssumption
  <2> QED  BY <1>1, <2>1, <2>2, <2>3 DEF P!Lists
<1> DEFINE F == {i \in 1 .. m : ~(i \in 1 .. n /\ a[i] = b[i])}
<1>3. ASSUME F # {} PROVE FALSE
  <2>1. F \in SUBSET Nat
    BY <1>1
  <2>2. PICK i \in F : \A j \in F : i <= j
    BY <1>3, <2>1, LeastNat
  <2>3. /\ i \in 1 .. m /\ ~(i \in 1 .. n /\ a[i] = b[i])
        /\ \A j \in 1 .. m : j < i => j \in 1 .. n /\ a[j] = b[j]
    BY <1>1, <2>2
  <2> HIDE DEF F
  <2>4. PICK l \in 1 .. n : b[l] = a[i]
    BY <1>2, <2>3
  <2>5. CASE l < i
    <3>1. l \in 1 .. m
      BY <1>1, <2>3, <2>5
    <3> QED  BY <1>2, <2>3, <2>4, <2>5, <3>1
  <2>6. CASE i < l
    <3>1. i \in 1 .. n
      BY <1>1, <2>3, <2>6
    <3>2. PICK j \in 1 .. m : a[j] = b[i]
      BY <1>2, <3>1
    <3>3. a[j] < a[i]
      BY <1>2, <2>4, <2>6, <3>1, <3>2
    <3>4. j < i
      BY SMTT(30), <1>1, <1>2, <2>3, <3>3
    <3> QED  BY <1>2, <2>3, <3>1, <3>2, <3>4
  <2> QED  BY <1>1, <2>3, <2>4, <2>5, <2>6
<1> QED  BY <1>1, <1>3

\* There is only one list of a set of nodes in order.
LEMMA OneList ==
  ASSUME NEW a, NEW b, NEW S, P!Lists(a, S), P!Lists(b, S)
  PROVE  a = b
<1>1. a \in Seq(Node) /\ b \in Seq(Node)
  BY DEF P!Lists
<1>2. /\ \A i \in 1 .. Len(a) : i \in 1 .. Len(b) /\ a[i] = b[i]
      /\ \A i \in 1 .. Len(b) : i \in 1 .. Len(a)
  BY SameBeginning
<1>3. Len(a) \in Nat /\ Len(b) \in Nat
  BY <1>1
<1>4. Len(a) = Len(b)
  <2>1. Len(a) # 0 => Len(a) <= Len(b)
    BY <1>2, <1>3
  <2>2. Len(b) # 0 => Len(b) <= Len(a)
    BY <1>2, <1>3
  <2> QED  BY <1>3, <2>1, <2>2
<1> QED  BY <1>1, <1>2, <1>4

\* The list is no longer than there are nodes.
LEMMA CountBound ==
  ASSUME NEW q, ListIs(q)
  PROVE  Count \in Nat /\ Cardinality(Node) \in Nat /\ Count <= Cardinality(Node)
<1>1. /\ Count \in Nat /\ q \in [1 .. Count -> Node]
      /\ \A i, j \in 1 .. Count : i < j => q[i] < q[j]
  BY DEF ListIs
<1>2. Node \subseteq Nat /\ IsFiniteSet(Node)
  BY TreeAssumption
<1>3. q \in Injection(1 .. Count, Node)
  <2>1. ASSUME NEW i \in 1 .. Count, NEW j \in 1 .. Count, q[i] = q[j] PROVE i = j
    <3>1. q[i] \in Nat /\ q[j] \in Nat
      BY <1>1, <1>2
    <3>2. ~(i < j) /\ ~(j < i)
      BY <1>1, <2>1, <3>1
    <3> QED  BY <1>1, <3>2
  <2> QED  BY <1>1, <2>1 DEF Injection, IsInjective
<1>4. Cardinality(1 .. Count) <= Cardinality(Node)
  BY <1>2, <1>3, FS_Injection
<1>5. Cardinality(1 .. Count) = Count
  BY <1>1, FS_Interval
<1> QED  BY <1>1, <1>2, <1>4, <1>5, FS_CardinalityType

\* What vm_next leads through is the list of the areas in order.
LEMMA ListListsMembers ==
  ASSUME NEW q, ListIs(q), vm_next \in [Node -> Ptr]
  PROVE  P!Lists(List, member)
<1> DEFINE N == Cardinality(Node)
           A == [Ptr -> Seq(Node)]
           a == [n \in Ptr |-> <<>>]
           f == [r \in A |-> [n \in Ptr |-> IF n = NULL THEN <<>> ELSE <<n>> \o r[vm_next[n]]]]
           Row(g, k) == [n \in Ptr |-> IF n = NULL \/ k = 0 THEN <<>>
                                       ELSE <<n>> \o g[k - 1][vm_next[n]]]
           Eq(g) == g = [k \in 0 .. N |-> Row(g, k)]
           go == CHOOSE g : Eq(g)
<1>1. List = go[N][mmap]
  BY DEF List
<1>2. N \in Nat /\ NULL \notin Node /\ NULL \in Ptr /\ \A n \in Ptr : n # NULL => vm_next[n] \in Ptr
  <2>1. N \in Nat
    BY CountBound
  <2> QED  BY <2>1, TreeAssumption DEF Ptr
<1>3. a \in A /\ f \in [A -> A]
  <2>1. a \in A
    OBVIOUS
  <2>2. ASSUME NEW r \in A, NEW n \in Ptr, n # NULL PROVE <<n>> \o r[vm_next[n]] \in Seq(Node)
    <3>1. r[vm_next[n]] \in Seq(Node)
      BY <1>2, <2>2
    <3>2. <<n>> \in Seq(Node)
      BY <2>2 DEF Ptr
    <3> QED  BY <3>1, <3>2
  <2>3. ASSUME NEW r \in A
        PROVE  [n \in Ptr |-> IF n = NULL THEN <<>> ELSE <<n>> \o r[vm_next[n]]] \in A
    BY <2>2
  <2> HIDE DEF A
  <2> QED  BY <2>1, <2>3
<1>4. PICK g : /\ g \in [0 .. N -> A]
               /\ \A k \in 0 .. N : g[k] = IF k = 0 THEN a ELSE f[g[k - 1]]
  <2> HIDE DEF N, A, a, f
  <2>1. \E g : RowsOf(A, a, f, N, g)
    BY <1>2, <1>3, Iterates
  <2> QED  BY <2>1 DEF RowsOf
<1>5. Eq(g)
  <2>1. ASSUME NEW k \in 0 .. N PROVE g[k] = Row(g, k)
    <3>1. CASE k = 0
      BY <1>4, <3>1
    <3>2. CASE k # 0
      <4>1. k - 1 \in 0 .. N
        BY <1>2, <3>2
      <4>2. g[k - 1] \in A /\ g[k] = f[g[k - 1]]
        BY <1>4, <3>2, <4>1
      <4>3. f[g[k - 1]] = [n \in Ptr |-> IF n = NULL THEN <<>>
                                         ELSE <<n>> \o g[k - 1][vm_next[n]]]
        BY <4>2
      <4> HIDE DEF f
      <4> QED  BY <3>2, <4>2, <4>3
    <3> QED  BY <3>1, <3>2
  <2> HIDE DEF Row
  <2> QED  BY <1>4, <2>1
<1>6. Eq(go)
  <2> HIDE DEF Eq
  <2> QED  BY <1>5
<1>7. \A k \in 0 .. N, n \in Ptr :
        go[k][n] = IF n = NULL \/ k = 0 THEN <<>> ELSE <<n>> \o go[k - 1][vm_next[n]]
  <2> HIDE DEF go, N
  <2>1. go = [k \in 0 .. N |-> Row(go, k)]
    BY <1>6
  <2>2. ASSUME NEW k \in 0 .. N PROVE go[k] = Row(go, k)
    BY <2>1
  <2> QED  BY <2>2
<1>8. Count \in Nat /\ Count <= N
  BY CountBound
<1> HIDE DEF go, N, A, a, f, Eq, Row
<1>9. P!Lists(<<>>, {})
  BY DEF P!Lists
<1>c. PICK c : c = Count
  OBVIOUS
<1> DEFINE I == 1 .. c
           From(i) == {q[j] : j \in i .. c}
           G == {i \in I : \A k \in 0 .. N : k > c - i => P!Lists(go[k][q[i]], From(i))}
           rank == [i \in I |-> c - i]
<1>10. /\ c \in Nat /\ c <= N /\ q \in [I -> Node] /\ Node \subseteq Nat
       /\ \A i, j \in I : i < j => q[i] < q[j]
       /\ \A i \in I : vm_next[q[i]] = IF i = c THEN NULL ELSE q[i + 1]
       /\ member = From(1)
       /\ mmap = IF c = 0 THEN NULL ELSE q[1]
  <2>1. Node \subseteq Nat
    BY TreeAssumption
  <2> QED  BY <1>8, <1>c, <2>1 DEF ListIs
<1>11. ASSUME NEW i \in I, i # c => i + 1 \in G PROVE i \in G
  <2> SUFFICES ASSUME NEW k \in 0 .. N, k > c - i PROVE P!Lists(go[k][q[i]], From(i))
    OBVIOUS
  <2>1. q[i] \in Node /\ q[i] # NULL /\ q[i] \in Ptr /\ k # 0 /\ k - 1 \in 0 .. N
    BY <1>2, <1>10 DEF Ptr
  <2> DEFINE L == <<q[i]>>
             S == {q[i]}
             Z == go[k - 1][vm_next[q[i]]]
             V == From(i + 1)
  <2>2. go[k][q[i]] = L \o Z
    BY <1>7, <2>1
  <2>3. P!Lists(L, S)
    BY <2>1 DEF P!Lists
  <2>4. P!Lists(Z, V)
    <3>1. CASE i = c
      <4>1. V = {}
        BY <1>10, <3>1
      <4>2. Z = <<>>
        BY <1>2, <1>7, <1>10, <2>1, <3>1
      <4> QED  BY <1>9, <4>1, <4>2
    <3>2. CASE i # c
      <4>1. vm_next[q[i]] = q[i + 1] /\ k - 1 > c - (i + 1)
        BY <1>10, <3>2
      <4>2. i + 1 \in G
        BY <1>11, <3>2
      <4>3. P!Lists(go[k - 1][q[i + 1]], V)
        BY <2>1, <4>1, <4>2
      <4> QED  BY <4>1, <4>3
    <3> QED  BY <3>1, <3>2
  <2>5. \A x \in S, y \in V : x < y
    <3>1. \A j \in (i + 1) .. c : j \in I /\ i < j
      BY <1>10
    <3> QED  BY <1>10, <3>1
  <2>6. S \cup V = From(i)
    <3>1. \A j \in i .. c : j = i \/ j \in (i + 1) .. c
      BY <1>10
    <3>2. i \in i .. c /\ \A j \in (i + 1) .. c : j \in i .. c
      BY <1>10
    <3> QED  BY <3>1, <3>2
  <2> HIDE DEF L, S, Z, V
  <2>7. P!Lists(L \o Z, S \cup V)
    BY ONLY <2>3, <2>4, <2>5, TreeAssumption, P!ListsJoined
  <2> QED  BY <2>2, <2>6, <2>7
<1>12. \A i \in I : i \in G
  <2>1. rank \in [I -> Nat]
    BY <1>10
  <2>2. ASSUME NEW i \in I, \A j \in I : rank[j] < rank[i] => j \in G PROVE i \in G
    <3>1. i # c => i + 1 \in I /\ rank[i + 1] < rank[i]
      BY <1>10
    <3> QED  BY <1>11, <2>2, <3>1
  <2> HIDE DEF G, rank, I
  <2> QED  BY <2>1, <2>2, ByRank
<1>13. CASE c = 0
  <2>1. member = {}
    BY <1>10, <1>13
  <2>2. mmap = NULL /\ NULL \in Ptr /\ N \in 0 .. N
    BY <1>2, <1>10, <1>13
  <2>3. go[N][mmap] = <<>>
    BY <1>7, <2>2
  <2> QED  BY <1>1, <1>9, <2>1, <2>3
<1>14. CASE c # 0
  <2>1. 1 \in I /\ N \in 0 .. N /\ N > c - 1
    BY <1>2, <1>10, <1>14
  <2>2. P!Lists(go[N][q[1]], From(1))
    BY <1>12, <2>1
  <2> QED  BY <1>1, <1>10, <1>14, <2>2
<1> QED  BY <1>13, <1>14

\* The list is that of the invariant, and it is what a walk of the tree meets.
LEMMA ListIsThat ==
  ASSUME NEW q, ListIs(q), vm_next \in [Node -> Ptr], P!IInv
  PROVE  List = q /\ Len(q) = Count /\ DOMAIN q = 1 .. Count /\ List = R!InOrder
<1>1. Count \in Nat /\ q \in [1 .. Count -> Node]
  BY DEF ListIs
<1>2. q \in Seq(Node) /\ Len(q) = Count
  BY <1>1
<1>3. P!Lists(q, member)
  BY <1>2 DEF P!Lists, ListIs
<1>4. P!Lists(List, member)
  BY ListListsMembers
<1>5. P!Lists(P!InOrder, member)
  BY TreeAssumption, P!InOrderIs DEF P!IInv
<1> QED  BY <1>1, <1>2, <1>3, <1>4, <1>5, OneList, SameInOrder

\* Between calls the list and the tree hold the same areas in the same order,
\* vm_prev undoes vm_next, and map_count counts the areas.
THEOREM ListAlwaysMatchesTree == Spec => []ListMatchesTree
<1>1. ASSUME IInv PROVE ListMatchesTree
  <2> SUFFICES ASSUME pc = "idle"
               PROVE  /\ List = R!InOrder /\ map_count = Len(List)
                      /\ \A i \in DOMAIN List :
                           vm_prev[List[i]] = IF i = 1 THEN NULL ELSE List[i - 1]
    BY DEF ListMatchesTree
  <2>1. PICK q : ListIs(q)
    BY <1>1 DEF IInv
  <2>2. vm_next \in [Node -> Ptr] /\ P!IInv /\ map_count \in Nat
    BY <1>1 DEF IInv, Fields
  <2>3. List = q /\ Len(q) = Count /\ DOMAIN q = 1 .. Count /\ List = R!InOrder
    BY <2>1, <2>2, ListIsThat
  <2>4. Count = map_count
    BY <2>2 DEF Count
  <2> QED  BY <2>1, <2>3, <2>4 DEF ListIs
<1> QED  BY <1>1, InvariantHolds, PTL

-----------------------------------------------------------------------------
(* The search in the tree.                                                 *)

\* Where vmm_find_vma goes on from n, and whether it stays there.
Onward(addr, n) == IF addr < n THEN "left" ELSE "right"
Found(addr, n)  == ~(addr < n) /\ ~(addr >= vm_end[n])

\* What a search for addr that begins at n gives, if g is the search.
Searches(g, addr) ==
  g = [n \in Ptr |-> IF n = NULL THEN NULL
                     ELSE IF addr < n THEN g[tree.child.left[n]]
                     ELSE IF addr >= vm_end[n] THEN g[tree.child.right[n]]
                     ELSE n]

\* The search ends, wherever it begins.
LEMMA SearchEnds ==
  ASSUME NEW sub, P!Shape(tree, member, sub), NEW addr \in Int
  PROVE  \E g : Searches(g, addr)
<1>1. /\ \A n \in Node, s \in P!Side : tree.child[s][n] \in Ptr
      /\ \A n \in Node, s \in P!Side : tree.child[s][n] # NULL => n \in member
      /\ "left" \in P!Side /\ "right" \in P!Side /\ NULL \notin Node
  <2>1. tree \in P!TreeType
    BY TreeAssumption, P!ShapeTypes
  <2>2. \A n \in Node, s \in P!Side : tree.child[s][n] \in Ptr
    BY <2>1 DEF P!TreeType, P!Ptr, Ptr
  <2>3. \A n \in Node, s \in P!Side : tree.child[s][n] # NULL => n \in member
    BY DEF P!Shape
  <2> QED  BY <2>2, <2>3, TreeAssumption DEF P!Side
<1>2. PICK none : none \notin Ptr
  BY NoSetContainsEverything
<1> DEFINE N == P!Cardinality(Node)
           Stays(n) == n = NULL \/ Found(addr, n) \/ tree.child[Onward(addr, n)][n] = NULL
           next == [n \in Ptr |-> IF Stays(n) THEN none ELSE tree.child[Onward(addr, n)][n]]
           val  == [n \in Ptr |-> IF n # NULL /\ Found(addr, n) THEN n ELSE NULL]
           rank == [n \in Ptr |-> P!Cardinality(sub[n])]
<1>3. /\ N \in Nat /\ rank \in [Ptr -> 0 .. N]
      /\ \A n \in member, s \in P!Side :
           P!Cardinality(sub[tree.child[s][n]]) < P!Cardinality(sub[n])
  <2>1. /\ N \in Nat
        /\ \A x \in P!Ptr : P!Cardinality(sub[x]) \in 0 .. N
        /\ \A n \in member, s \in P!Side :
             P!Cardinality(sub[tree.child[s][n]]) < P!Cardinality(sub[n])
    BY TreeAssumption, P!Sizes
  <2> HIDE DEF N
  <2> QED  BY <2>1 DEF P!Ptr, Ptr
<1> HIDE DEF N
<1>4. \A n : Onward(addr, n) \in P!Side
  BY <1>1 DEF Onward
<1>5. next \in [Ptr -> Ptr \cup {none}]
  BY <1>1, <1>4 DEF Ptr
<1>6. ASSUME NEW n \in Ptr, next[n] # none PROVE rank[next[n]] < rank[n]
  <2>1. ~Stays(n) /\ next[n] = tree.child[Onward(addr, n)][n]
    BY <1>6
  <2>2. n \in Node /\ tree.child[Onward(addr, n)][n] # NULL
    BY <2>1 DEF Ptr
  <2>3. n \in member /\ next[n] \in Ptr
    BY <1>1, <1>4, <2>1, <2>2
  <2> HIDE DEF next
  <2> QED  BY <1>3, <1>4, <2>1, <2>3
<1>7. PICK g : g = [n \in Ptr |-> IF next[n] = none THEN val[n] ELSE g[next[n]]]
  <2> HIDE DEF next, rank, val
  <2>1. \A n \in Ptr : next[n] # none => rank[next[n]] < rank[n]
    BY <1>6
  <2>2. \E g : g = [n \in Ptr |-> IF next[n] = none THEN val[n] ELSE g[next[n]]]
    BY ONLY SMTT(30), <1>2, <1>3, <1>5, <2>1, TailRecursion
  <2> QED  BY <2>2
<1>8. \A n \in Ptr : g[n] = IF Stays(n) THEN val[n] ELSE g[tree.child[Onward(addr, n)][n]]
  <2>1. ASSUME NEW n \in Ptr
        PROVE  g[n] = IF Stays(n) THEN val[n] ELSE g[tree.child[Onward(addr, n)][n]]
    <3>1. g[n] = IF next[n] = none THEN val[n] ELSE g[next[n]]
      <4> HIDE DEF next, val
      <4> QED  BY <1>7
    <3>2. ~Stays(n) => tree.child[Onward(addr, n)][n] \in Ptr
      BY <1>1, <1>4 DEF Ptr
    <3>3. next[n] = IF Stays(n) THEN none ELSE tree.child[Onward(addr, n)][n]
      OBVIOUS
    <3> HIDE DEF next, val, Stays
    <3> QED  BY <1>2, <3>1, <3>2, <3>3
  <2> QED  BY <2>1
<1>9. NULL \in Ptr /\ g[NULL] = NULL
  BY <1>8 DEF Ptr
<1>10. ASSUME NEW n \in Ptr, n # NULL
       PROVE  g[n] = IF Found(addr, n) THEN n ELSE g[tree.child[Onward(addr, n)][n]]
  BY <1>8, <1>9, <1>10
<1>11. Searches(g, addr)
  <2>1. ASSUME NEW n \in Ptr
        PROVE  g[n] = IF n = NULL THEN NULL
                      ELSE IF addr < n THEN g[tree.child.left[n]]
                      ELSE IF addr >= vm_end[n] THEN g[tree.child.right[n]]
                      ELSE n
    BY <1>9, <1>10 DEF Found, Onward
  <2>2. g = [n \in Ptr |-> g[n]]
    BY <1>7
  <2> QED  BY <2>1, <2>2, Zenon DEF Searches
<1> QED  BY <1>11

\* What is right for a search from n down: an area that contains addr or, if no
\* two areas overlap, nothing because there is none.
Right(v, addr, S) ==
  IF v = NULL THEN Disjoint => \A m \in S : ~Contains(m, addr)
  ELSE v \in S /\ Contains(v, addr)

\* The search from any node down is right.
LEMMA SearchIsRight ==
  ASSUME NEW sub, P!Shape(tree, member, sub), NEW addr \in Int, NEW g, Searches(g, addr),
         vm_end \in [Node -> Addr]
  PROVE  Right(g[tree.root], addr, member)
<1> DEFINE G == {n \in member : Right(g[n], addr, sub[n])}
<1>1. "left" \in P!Side /\ "right" \in P!Side /\ P!Other("left") = "right"
  BY DEF P!Side, P!Other
<1>2. /\ member \subseteq Node /\ Node \subseteq Nat /\ NULL \notin Node /\ sub[NULL] = {}
      /\ \A n \in member : n \in Ptr /\ vm_end[n] \in Nat
      /\ \A n \in Ptr : g[n] = IF n = NULL THEN NULL
                               ELSE IF addr < n THEN g[tree.child.left[n]]
                               ELSE IF addr >= vm_end[n] THEN g[tree.child.right[n]]
                               ELSE n
      /\ g[NULL] = NULL
  <2>1. member \subseteq Node /\ sub[NULL] = {}
    BY DEF P!Shape
  <2>2. \A n \in Ptr : g[n] = IF n = NULL THEN NULL
                               ELSE IF addr < n THEN g[tree.child.left[n]]
                               ELSE IF addr >= vm_end[n] THEN g[tree.child.right[n]]
                               ELSE n
    BY DEF Searches
  <2>3. Node \subseteq Nat /\ NULL \notin Node
    BY TreeAssumption
  <2>4. \A n \in member : n \in Ptr /\ vm_end[n] \in Nat
    <3>1. Addr \subseteq Nat
      BY AddressAssumption DEF Addr
    <3> QED  BY ONLY <2>1, <3>1, vm_end \in [Node -> Addr] DEF Ptr
  <2>5. g[NULL] = NULL
    BY ONLY <2>2 DEF Ptr
  <2> QED  BY ONLY <2>1, <2>2, <2>3, <2>4, <2>5
<1>3. Right(g[NULL], addr, sub[NULL])
  BY <1>2 DEF Right
<1>4. ASSUME NEW n \in member,
             \A s \in P!Side : tree.child[s][n] # NULL => tree.child[s][n] \in G
      PROVE  n \in G
  <2> DEFINE l == tree.child["left"][n]
             r == tree.child["right"][n]
  <2>1. /\ sub[n] = {n} \cup sub[l] \cup sub[r]
        /\ \A m \in sub[l] : m < n
        /\ \A m \in sub[r] : n < m
    <3>1. sub[n] = {n} \cup sub[l] \cup sub[r]
      BY <1>1, TreeAssumption, P!Subtree
    <3>2. \A s \in P!Side : \A m \in sub[tree.child[s][n]] : P!Beyond(s, m, n)
      BY DEF P!Shape
    <3> QED  BY <1>1, <3>1, <3>2 DEF P!Beyond
  <2>2. Right(g[l], addr, sub[l]) /\ Right(g[r], addr, sub[r])
    BY <1>1, <1>3, <1>4
  <2>3. \A m \in sub[n] : m \in member /\ m \in Nat /\ vm_end[m] \in Nat
    BY <1>2, TreeAssumption, P!Closed
  <2>4. n \in Nat /\ vm_end[n] \in Nat /\ n \in Ptr /\ n # NULL
    BY <1>2
  <2>5. g[n] = IF addr < n THEN g[l] ELSE IF addr >= vm_end[n] THEN g[r] ELSE n
    BY <1>2, <2>4
  <2> HIDE DEF l, r
  <2>6. CASE addr < n
    <3>1. \A m \in {n} \cup sub[r] : ~Contains(m, addr)
      BY <2>1, <2>3, <2>4, <2>6 DEF Contains
    <3>2. g[n] = g[l]
      BY <2>5, <2>6
    <3> QED  BY <2>1, <2>2, <3>1, <3>2 DEF Right
  <2>7. CASE ~(addr < n) /\ addr >= vm_end[n]
    <3>1. ASSUME Disjoint, NEW m \in {n} \cup sub[l] PROVE ~Contains(m, addr)
      <4>1. CASE m = n
        BY <2>4, <2>7, <4>1 DEF Contains
      <4>2. CASE m \in sub[l]
        <5>1. m < n /\ m \in member /\ m \in Nat /\ vm_end[m] \in Nat
          BY <2>1, <2>3, <4>2
        <5>2. vm_end[m] <= n
          BY <3>1, <5>1 DEF Disjoint
        <5> QED  BY <2>4, <2>7, <5>1, <5>2 DEF Contains
      <4> QED  BY <4>1, <4>2
    <3>2. g[n] = g[r]
      BY <2>5, <2>7
    <3> QED  BY <2>1, <2>2, <3>1, <3>2 DEF Right
  <2>8. CASE ~(addr < n) /\ ~(addr >= vm_end[n])
    <3>1. g[n] = n /\ n \in sub[n]
      BY <2>1, <2>5, <2>8
    <3>2. Contains(n, addr)
      BY <2>4, <2>8 DEF Contains
    <3> QED  BY <2>4, <3>1, <3>2 DEF Right
  <2> QED  BY <2>6, <2>7, <2>8
<1> HIDE DEF G
<1>5. \A n \in member : n \in G
  BY ONLY <1>4, P!Shape(tree, member, sub), TreeAssumption, P!FromBelow
<1>6. CASE tree.root = NULL
  <2>1. member = {}
    BY <1>6, TreeAssumption, P!RootAll
  <2> QED  BY <1>2, <1>3, <1>6, <2>1
<1>7. CASE tree.root # NULL
  <2>1. tree.root \in member /\ sub[tree.root] = member
    BY <1>7, TreeAssumption, P!RootAll
  <2> QED  BY <1>5, <2>1 DEF G
<1> QED  BY <1>6, <1>7

\* What vmm_find_vma finds contains the address, and while no two areas overlap
\* it finds nothing only when no area contains the address.
THEOREM AlwaysFindsContaining == Spec => []FindsContaining
<1>1. ASSUME IInv PROVE FindsContaining
  <2> SUFFICES ASSUME pc = "idle", NEW addr \in Addr
               PROVE  Right(vmm_find_vma(addr), addr, member)
    BY DEF FindsContaining, Right
  <2>1. addr \in Int
    BY DEF Addr
  <2>2. vm_end \in [Node -> Addr] /\ P!IInv
    BY <1>1 DEF IInv, Fields
  <2>3. PICK sub : P!Shape(tree, member, sub)
    BY <2>2, TreeFacts
  <2> DEFINE g == CHOOSE g : Searches(g, addr)
  <2>4. Searches(g, addr)
    BY <2>1, <2>3, SearchEnds
  <2>5. vmm_find_vma(addr) = g[tree.root]
    BY DEF vmm_find_vma, Searches
  <2> HIDE DEF g
  <2> QED  BY <2>1, <2>2, <2>3, <2>4, <2>5, SearchIsRight
<1> QED  BY <1>1, InvariantHolds, PTL
=============================================================================
