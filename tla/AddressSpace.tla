---------------------------- MODULE AddressSpace ----------------------------
(***************************************************************************)
(* The areas of an address space, vmm_production.c.  Each vm_area_t is in  *)
(* two structures at once: the list that begins at mmap and the red-black  *)
(* tree mm_rb.  vmm_insert_vma looks for the place in both by walking the  *)
(* list, one element at a time; vmm_find_vma searches the tree.  An area   *)
(* is named by the page its vm_start is on.  Addresses are WORD small      *)
(* numbers, PAGE of them to a page, and arithmetic on them wraps.          *)
(*                                                                         *)
(* vmm_insert_vma takes no lock: an address space has one caller at a      *)
(* time.                                                                   *)
(***************************************************************************)
EXTENDS Integers, Sequences, FiniteSets

CONSTANTS NULL,
          PAGE,             \* VMM_PAGE_SIZE
          WORD,             \* the values of a uint64_t
          Starts, Lengths   \* the arguments vmm_create_vma is called with

Addr == 0 .. WORD - 1

ASSUME AddressAssumption ==
  /\ PAGE \in Nat \ {0}
  /\ WORD \in Nat \ {0} /\ WORD % PAGE = 0
  /\ Starts \subseteq Addr /\ Lengths \subseteq Addr
  /\ NULL \notin Int

VARIABLES tree, pc, node, parent, member,  \* mm_rb, as in RbTree
          mmap, vm_next, vm_prev,          \* the list
          vm_end,                          \* where each area ends
          map_count,
          new,                             \* the area being created
          curr, prev, link                 \* the cursor of vmm_insert_vma

treeVars == <<tree, node, parent, member>>
listVars == <<mmap, vm_next, vm_prev, vm_end, map_count>>
walkVars == <<new, curr, prev, link>>
vars == <<treeVars, pc, listVars, walkVars>>

vmm_page_align(addr) == addr - (addr % PAGE)

Node == {vmm_page_align(a) : a \in Starts}
Ptr  == Node \cup {NULL}

T == INSTANCE RbTree

\* The tree as rbtree.c sees it: it is left alone while a call walks the list.
TreePc == IF pc \in {"walk", "fault"} THEN "idle" ELSE pc
R == INSTANCE RbTree WITH pc <- TreePc

\* vmm_create_address_space: no areas.
Fresh ==
  [tree |-> T!EmptyTree, member |-> {}, mmap |-> NULL, map_count |-> 0,
   ptrs |-> [n \in Node |-> NULL], ends |-> [n \in Node |-> 0]]

\* Where rb_link and rb_parent point at first: at the root, below nothing.
AtRoot == [parent |-> NULL, side |-> "root"]

Init ==
  /\ T!Init
  /\ mmap = NULL /\ map_count = 0
  /\ vm_next = Fresh.ptrs /\ vm_prev = Fresh.ptrs /\ vm_end = Fresh.ends
  /\ new = NULL /\ curr = NULL /\ prev = NULL /\ link = AtRoot

-----------------------------------------------------------------------------
\* Faulty variant: the end is not rounded.
vmm_create_vma_Unaligned(start, len) ==
  /\ pc = "idle"
  /\ len # 0
  /\ new' = [start |-> vmm_page_align(start), end |-> (start + len) % WORD]
  /\ pc' = "walk"
  /\ curr' = mmap /\ prev' = NULL /\ link' = AtRoot
  /\ UNCHANGED <<treeVars, listVars>>

\* The sum is a uint64_t and is not checked: an area up to the last address has
\* the end 0, and one that would go beyond ends before it starts.
vmm_create_vma(start, len) ==
  /\ pc = "idle"
  /\ len # 0
  /\ new' = [start |-> vmm_page_align(start),
             end   |-> vmm_page_align((start + len + PAGE - 1) % WORD)]
  /\ pc' = "walk"
  /\ curr' = mmap /\ prev' = NULL /\ link' = AtRoot
  /\ UNCHANGED <<treeVars, listVars>>

\* Faulty variant: the walk does not note where it is in the tree.
WalkOn_NoLink ==
  /\ pc = "walk" /\ curr # NULL
  /\ new.start > curr
  /\ prev' = curr /\ curr' = vm_next[curr]
  /\ UNCHANGED <<treeVars, pc, listVars, new, link>>

\* Faulty variant: prev stays behind.
WalkOn_StalePrev ==
  /\ pc = "walk" /\ curr # NULL
  /\ new.start > curr
  /\ link' = [parent |-> curr, side |-> "right"]
  /\ prev' = IF prev = NULL THEN curr ELSE prev
  /\ curr' = vm_next[curr]
  /\ UNCHANGED <<treeVars, pc, listVars, new>>

\* The area goes after this one.
WalkOn ==
  /\ pc = "walk" /\ curr # NULL
  /\ new.start > curr
  /\ link' = [parent |-> curr, side |-> "right"]
  /\ prev' = curr /\ curr' = vm_next[curr]
  /\ UNCHANGED <<treeVars, pc, listVars, new>>

\* The area goes before this one: the walk returns to what follows prev,
\* which is this one again.
WalkBack ==
  /\ pc = "walk" /\ curr # NULL /\ prev # NULL
  /\ new.start < curr
  /\ link' = [parent |-> curr, side |-> "left"]
  /\ curr' = vm_next[prev]
  /\ UNCHANGED <<treeVars, pc, listVars, new, prev>>

\* Before the first one there is no prev: its vm_next is a field of NULL, and
\* what follows is undefined.
WalkFault ==
  /\ pc = "walk" /\ curr # NULL /\ prev = NULL
  /\ new.start < curr
  /\ pc' = "fault"
  /\ UNCHANGED <<treeVars, listVars, walkVars>>

\* -EEXIST: vmm_create_vma frees the area and returns NULL.
WalkExists ==
  /\ pc = "walk" /\ curr # NULL
  /\ new.start = curr
  /\ pc' = "idle"
  /\ new' = NULL /\ curr' = NULL /\ prev' = NULL /\ link' = AtRoot
  /\ UNCHANGED <<treeVars, listVars>>

\* At the end of the list the area is linked into list and tree.
LinkVma ==
  /\ pc = "walk" /\ curr = NULL
  /\ LET n == new.start
         t == T!Forget(tree, n)
     IN  /\ vm_end' = [vm_end EXCEPT ![n] = new.end]
         /\ vm_prev' = [vm_prev EXCEPT ![n] = prev]
         /\ vm_next' = [m \in Node |-> IF m = n THEN NULL
                                       ELSE IF m = prev THEN n ELSE vm_next[m]]
         /\ mmap' = IF prev = NULL THEN n ELSE mmap
         /\ tree' = IF link.parent = NULL THEN [t EXCEPT !.root = n]
                    ELSE T!SetParent(T!SetChild(t, link.side, link.parent, n),
                                     n, link.parent)
         /\ node' = n /\ member' = member \cup {n}
  /\ pc' = "insert_color"
  /\ UNCHANGED <<parent, map_count, walkVars>>

rb_insert_color ==
  \/ T!InsertTurn /\ UNCHANGED <<listVars, walkVars>>
  \/ /\ T!InsertDone
     /\ map_count' = map_count + 1
     /\ new' = NULL /\ curr' = NULL /\ prev' = NULL /\ link' = AtRoot
     /\ UNCHANGED <<mmap, vm_next, vm_prev, vm_end>>

\* The list is walked and every area freed, then the address space itself; the
\* next one begins afresh.
vmm_destroy_address_space ==
  /\ pc = "idle" /\ mmap # NULL
  /\ tree' = Fresh.tree /\ member' = Fresh.member
  /\ mmap' = Fresh.mmap /\ map_count' = Fresh.map_count
  /\ vm_next' = Fresh.ptrs /\ vm_prev' = Fresh.ptrs /\ vm_end' = Fresh.ends
  /\ UNCHANGED <<pc, node, parent, walkVars>>

-----------------------------------------------------------------------------
(* The area that contains an address, as the tree search finds it.         *)

\* Faulty variant: the end of an area counts as inside.
vmm_find_vma_EndInside(addr) ==
  LET search[n \in Ptr] ==
        IF n = NULL THEN NULL
        ELSE IF addr < n THEN search[tree.child.left[n]]
        ELSE IF addr > vm_end[n] THEN search[tree.child.right[n]]
        ELSE n
  IN  search[tree.root]

vmm_find_vma(addr) ==
  LET search[n \in Ptr] ==
        IF n = NULL THEN NULL
        ELSE IF addr < n THEN search[tree.child.left[n]]
        ELSE IF addr >= vm_end[n] THEN search[tree.child.right[n]]
        ELSE n
  IN  search[tree.root]

-----------------------------------------------------------------------------
InsertVma == WalkOn \/ WalkBack \/ WalkFault \/ WalkExists \/ LinkVma \/ rb_insert_color

Next ==
  \/ \E start \in Starts, len \in Lengths : vmm_create_vma(start, len)
  \/ InsertVma
  \/ vmm_destroy_address_space

Spec     == Init /\ [][Next]_vars
\* A call that has begun runs on.
FairSpec == Spec /\ WF_vars(InsertVma)

-----------------------------------------------------------------------------
\* Besides the types: every area ends on a page, also where the sum wraps.
TypeOK ==
  /\ R!TypeOK /\ pc \in {"idle", "walk", "fault", "insert_color"}
  /\ \A n \in member : vm_end[n] % PAGE = 0
  /\ mmap \in Ptr /\ curr \in Ptr /\ prev \in Ptr
  /\ vm_next \in [Node -> Ptr] /\ vm_prev \in [Node -> Ptr]
  /\ vm_end \in [Node -> Addr] /\ map_count \in Nat
  /\ new \in [start : Node, end : Addr] \cup {NULL}
  /\ link \in [parent : Node, side : T!Side] \cup {AtRoot}

\* The list, as vm_next leads through it.
List ==
  LET go[k \in 0 .. Cardinality(Node)] == [n \in Ptr |->
        IF n = NULL \/ k = 0 THEN <<>> ELSE <<n>> \o go[k - 1][vm_next[n]]]
  IN  go[Cardinality(Node)][mmap]

\* Between calls the list and the tree hold the same areas in the same order,
\* vm_prev undoes vm_next, and map_count counts them: the place found in the
\* list was the right one in the tree as well.
ListMatchesTree ==
  pc = "idle" =>
    /\ List = R!InOrder
    /\ map_count = Len(List)
    /\ \A i \in DOMAIN List :
         vm_prev[List[i]] = IF i = 1 THEN NULL ELSE List[i - 1]

\* Linking at the place the list walk found never breaks the tree: it keeps its
\* nodes, their order, its pointers and its balance, at every turn.
TreeKept == R!HoldsMembers /\ R!LinksAgree /\ R!RedRule /\ R!Balanced

Contains(n, addr) == n <= addr /\ addr < vm_end[n]
Disjoint == \A m, n \in member : m < n => vm_end[m] <= n

\* What vmm_find_vma finds contains the address, and while no two areas overlap
\* it finds nothing only when no area contains the address.
FindsContaining ==
  pc = "idle" =>
    \A addr \in Addr :
      LET v == vmm_find_vma(addr)
      IN  IF v = NULL THEN Disjoint => \A n \in member : ~Contains(n, addr)
          ELSE v \in member /\ Contains(v, addr)

\* vmm_create_vma returns, with the new area or with NULL, unless the walk has
\* followed a NULL pointer and the machine has stopped.
CreateReturns == (pc = "walk") ~> (pc \in {"idle", "fault"})
=============================================================================
