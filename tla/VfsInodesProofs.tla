-------------------------- MODULE VfsInodesProofs --------------------------
(***************************************************************************)
(* For any number of files, inodes and numbers: references are counted     *)
(* exactly, an open file keeps the inode it asked for, the chains never    *)
(* lead to a dying inode and no inode is lost.                             *)
(***************************************************************************)
EXTENDS VfsInodes, FiniteSetTheorems, TLAPS

USE VfsInodesAssumption

\* An inode has finitely many holders, so that their number is one.
LEMMA HoldersFinite ==
  ASSUME NEW i PROVE IsFiniteSet(Holders(i)) /\ Cardinality(Holders(i)) \in Nat
<1>1. Holders(i) \subseteq File
  BY DEF Holders
<1>2. IsFiniteSet(Holders(i))
  BY <1>1, FS_Subset
<1> QED
  BY <1>2, FS_CardinalityType

\* A count of 1 means one holder.
LEMMA LastHolder ==
  ASSUME RefsExact, NEW i \in Inode, NEW f \in Holders(i)
  PROVE  /\ ref[i] > 0
         /\ ref[i] = 1 => Holders(i) = {f}
<1>1. ref[i] = Cardinality(Holders(i)) /\ ref[i] \in Nat
  BY HoldersFinite DEF RefsExact
<1>2. ref[i] # 0
  BY <1>1, HoldersFinite, FS_EmptySet
<1>3. ASSUME ref[i] = 1 PROVE Holders(i) = {f}
  <2>1. /\ IsFiniteSet(Holders(i) \ {f})
        /\ Cardinality(Holders(i) \ {f}) = Cardinality(Holders(i)) - 1
    BY HoldersFinite, FS_RemoveElement
  <2>2. Cardinality(Holders(i) \ {f}) = 0
    BY <1>1, <1>3, <2>1
  <2>3. Holders(i) \ {f} = {}
    BY <2>1, <2>2, FS_EmptySet
  <2> QED
    BY <2>3
<1> QED
  BY <1>1, <1>2, <1>3

\* A new holder f of inode i, and every other inode's holders as they were.
LEMMA TakeRef ==
  ASSUME RefsExact, TypeOK, NEW i \in Inode, NEW f \in File,
         f \notin Holders(i),
         Holders(i)' = Holders(i) \cup {f},
         \A j \in Inode \ {i} : Holders(j)' = Holders(j),
         ref' = [ref EXCEPT ![i] = @ + 1]
  PROVE  RefsExact'
<1>1. Cardinality(Holders(i) \cup {f}) = Cardinality(Holders(i)) + 1
  BY HoldersFinite, FS_AddElement
<1>2. ref'[i] = Cardinality(Holders(i)')
  BY <1>1 DEF RefsExact, TypeOK
<1>3. ASSUME NEW j \in Inode, j # i PROVE ref'[j] = Cardinality(Holders(j)')
  BY <1>3 DEF RefsExact, TypeOK
<1> QED
  BY <1>2, <1>3 DEF RefsExact

\* A holder f of inode i less.
LEMMA DropRef ==
  ASSUME RefsExact, TypeOK, NEW i \in Inode, NEW f \in File,
         f \in Holders(i),
         Holders(i)' = Holders(i) \ {f},
         \A j \in Inode \ {i} : Holders(j)' = Holders(j),
         ref' = [ref EXCEPT ![i] = @ - 1]
  PROVE  RefsExact'
<1>1. Cardinality(Holders(i) \ {f}) = Cardinality(Holders(i)) - 1
  BY HoldersFinite, FS_RemoveElement
<1>2. ref'[i] = Cardinality(Holders(i)')
  BY <1>1 DEF RefsExact, TypeOK
<1>3. ASSUME NEW j \in Inode, j # i PROVE ref'[j] = Cardinality(Holders(j)')
  BY <1>3 DEF RefsExact, TypeOK
<1> QED
  BY <1>2, <1>3 DEF RefsExact

\* The same holders and the same counts.
LEMMA KeepRefs ==
  ASSUME RefsExact, \A j \in Inode : Holders(j)' = Holders(j), ref' = ref
  PROVE  RefsExact'
BY DEF RefsExact

\* Nothing is open and nothing allocated.
LEMMA InitIInv == Init => IInv
<1> SUFFICES ASSUME Init PROVE IInv
  OBVIOUS
<1>1. \A i \in Inode : Holders(i) = {}
  BY DEF Init, Holders
<1>2. RefsExact
  BY <1>1, FS_EmptySet DEF Init, RefsExact
<1> QED
  BY <1>2 DEF Init, IInv, TypeOK, HeldLive, CachedHeld, NoLeak, DestroyAlone

LEMMA StepIInv == IInv /\ [Next]_vars => IInv'
<1> SUFFICES ASSUME IInv, [Next]_vars PROVE IInv'
  OBVIOUS
<1> USE DEF IInv
<1>1. ASSUME NEW f \in File, NEW k \in Key, GetMiss(f, k) PROVE IInv'
  <2> USE DEF GetMiss, Goto
  <2>1. TypeOK'
    BY <1>1 DEF TypeOK
  <2>2. RefsExact'
    BY <1>1, KeepRefs DEF Holders, TypeOK
  <2>3. HeldLive' /\ CachedHeld' /\ NoLeak' /\ DestroyAlone'
    BY <1>1 DEF TypeOK, HeldLive, CachedHeld, NoLeak, DestroyAlone
  <2> QED
    BY <2>1, <2>2, <2>3
<1>2. ASSUME NEW f \in File, NEW k \in Key, NEW i \in Inode, GetHit(f, k, i)
      PROVE  IInv'
  <2> USE DEF GetHit, Goto
  <2>1. TypeOK'
    BY <1>2 DEF TypeOK
  <2>2. RefsExact'
    <3>1. f \notin Holders(i) /\ Holders(i)' = Holders(i) \cup {f}
      BY <1>2 DEF Holders, TypeOK
    <3>2. \A j \in Inode \ {i} : Holders(j)' = Holders(j)
      BY <1>2 DEF Holders, TypeOK
    <3> QED
      BY <1>2, <3>1, <3>2, TakeRef
  <2>3. HeldLive' /\ CachedHeld' /\ NoLeak' /\ DestroyAlone'
    BY <1>2 DEF TypeOK, HeldLive, CachedHeld, NoLeak, DestroyAlone
  <2> QED
    BY <2>1, <2>2, <2>3
<1>3. ASSUME NEW f \in File, NEW i \in Inode, AllocInode(f, i) PROVE IInv'
  <2> USE DEF AllocInode, vfs_alloc_inode, Goto
  <2>1. TypeOK'
    BY <1>3 DEF TypeOK
  <2>2. Holders(i) = {} /\ ref[i] = 0
    <3>1. Holders(i) = {}
      BY <1>3 DEF Holders, HeldLive
    <3> QED
      BY <3>1, FS_EmptySet DEF RefsExact
  <2>3. RefsExact'
    <3>1. Holders(i)' = Holders(i) \cup {f}
      BY <1>3 DEF Holders, TypeOK
    <3>2. \A j \in Inode \ {i} : Holders(j)' = Holders(j)
      BY <1>3 DEF Holders, TypeOK
    <3>3. ref' = [ref EXCEPT ![i] = @ + 1]
      BY <1>3, <2>2 DEF TypeOK
    <3> QED
      BY <2>2, <3>1, <3>2, <3>3, TakeRef
  <2>4. HeldLive' /\ CachedHeld' /\ NoLeak' /\ DestroyAlone'
    BY <1>3 DEF TypeOK, HeldLive, CachedHeld, NoLeak, DestroyAlone
  <2> QED
    BY <2>1, <2>3, <2>4
<1>4. ASSUME NEW f \in File, AllocFails(f) PROVE IInv'
  <2> USE DEF AllocFails, Forget, Goto
  <2>1. TypeOK'
    BY <1>4 DEF TypeOK
  <2>2. RefsExact'
    BY <1>4, KeepRefs DEF Holders, TypeOK
  <2>3. HeldLive' /\ CachedHeld' /\ NoLeak' /\ DestroyAlone'
    BY <1>4 DEF TypeOK, HeldLive, CachedHeld, NoLeak, DestroyAlone
  <2> QED
    BY <2>1, <2>2, <2>3
<1>5. ASSUME NEW f \in File, Insert(f) PROVE IInv'
  <2> USE DEF Insert, Goto
  <2>1. TypeOK'
    BY <1>5 DEF TypeOK
  <2>2. RefsExact'
    BY <1>5, KeepRefs DEF Holders, TypeOK
  <2>3. CachedHeld'
    <3>1. f \in Holders(ptr[f]) /\ ptr[f] \in Inode
      BY <1>5 DEF Holders, TypeOK
    <3>2. ref[ptr[f]] > 0
      BY <3>1, LastHolder
    <3> QED
      BY <1>5, <3>2 DEF CachedHeld, HeldLive
  <2>4. HeldLive' /\ NoLeak' /\ DestroyAlone'
    BY <1>5 DEF TypeOK, HeldLive, NoLeak, DestroyAlone
  <2> QED
    BY <2>1, <2>2, <2>3, <2>4
<1>6. ASSUME NEW f \in File, PutShared(f) PROVE IInv'
  <2> USE DEF PutShared, Forget, Goto
  <2>1. PICK i \in Inode : i = ptr[f] /\ f \in Holders(i)
    BY <1>6 DEF Holders, TypeOK
  <2>2. ref[i] > 1
    BY <1>6, <2>1, LastHolder DEF TypeOK
  <2>3. TypeOK'
    <3>1. ref[i] - 1 \in Nat
      BY <2>2 DEF TypeOK
    <3>2. ref' \in [Inode -> Nat]
      BY <1>6, <2>1, <3>1 DEF TypeOK
    <3> QED
      BY <1>6, <3>2 DEF TypeOK
  <2>4. RefsExact'
    <3>1. Holders(i)' = Holders(i) \ {f}
      BY <1>6, <2>1 DEF Holders, TypeOK
    <3>2. \A j \in Inode \ {i} : Holders(j)' = Holders(j)
      BY <1>6, <2>1 DEF Holders, TypeOK
    <3> QED
      <4>1. ref' = [ref EXCEPT ![i] = @ - 1]
        BY <1>6, <2>1
      <4> QED
        BY <2>1, <3>1, <3>2, <4>1, DropRef
  <2>5. NoLeak'
    <3>1. PICK g \in Holders(i) : g # f
      <4>1. ASSUME Holders(i) = {f} PROVE FALSE
        <5>1. Cardinality(Holders(i)) = 1
          BY <4>1, FS_Singleton
        <5> QED
          BY <2>2, <5>1 DEF RefsExact
      <4> QED
        BY <2>1, <4>1
    <3>2. g \in File /\ ptr'[g] = i
      BY <1>6, <2>1, <3>1 DEF Holders, TypeOK
    <3> QED
      BY <1>6, <2>1, <3>2 DEF NoLeak, TypeOK
  <2>6. HeldLive' /\ CachedHeld' /\ DestroyAlone'
    BY <1>6, <2>1, <2>2 DEF TypeOK, HeldLive, CachedHeld, DestroyAlone
  <2> QED
    BY <2>3, <2>4, <2>5, <2>6
<1>7. ASSUME NEW f \in File, PutLast(f) PROVE IInv'
  <2> USE DEF PutLast, Goto
  <2>1. PICK i \in Inode : i = ptr[f] /\ f \in Holders(i)
    BY <1>7 DEF Holders, TypeOK
  <2>2. Holders(i) = {f}
    BY <1>7, <2>1, LastHolder
  <2>3. TypeOK'
    BY <1>7, <2>1 DEF TypeOK
  <2>4. RefsExact'
    <3>1. Holders(i)' = Holders(i) \ {f}
      BY <1>7, <2>1 DEF Holders, TypeOK
    <3>2. \A j \in Inode \ {i} : Holders(j)' = Holders(j)
      BY <1>7, <2>1 DEF Holders, TypeOK
    <3>3. ref' = [ref EXCEPT ![i] = @ - 1]
      BY <1>7, <2>1 DEF TypeOK
    <3> QED
      BY <2>1, <3>1, <3>2, <3>3, DropRef
  <2>5. \A g \in File \ {f} : ptr[g] # ptr[f]
    BY <1>7, <2>1, <2>2 DEF Holders, TypeOK, DestroyAlone
  <2>6. HeldLive' /\ CachedHeld' /\ NoLeak'
    BY <1>7, <2>1 DEF TypeOK, HeldLive, CachedHeld, NoLeak
  <2>7. DestroyAlone'
    BY <1>7, <2>1, <2>5 DEF TypeOK, HeldLive, DestroyAlone
  <2> QED
    BY <2>3, <2>4, <2>6, <2>7
<1>8. ASSUME NEW f \in File, DestroyInode(f) PROVE IInv'
  <2> USE DEF DestroyInode, Forget, Goto
  <2>1. TypeOK'
    BY <1>8 DEF TypeOK
  <2>2. RefsExact'
    BY <1>8, KeepRefs DEF Holders, TypeOK
  <2>3. HeldLive' /\ CachedHeld' /\ NoLeak' /\ DestroyAlone'
    BY <1>8 DEF TypeOK, HeldLive, CachedHeld, NoLeak, DestroyAlone
  <2> QED
    BY <2>1, <2>2, <2>3
<1>9. CASE UNCHANGED vars
  <2>1. RefsExact'
    BY <1>9 DEF vars, RefsExact, Holders
  <2> QED
    BY <1>9, <2>1 DEF vars, TypeOK, HeldLive, CachedHeld, NoLeak, DestroyAlone
<1> QED
  BY <1>1, <1>2, <1>3, <1>4, <1>5, <1>6, <1>7, <1>8, <1>9 DEF Next

\* The inductive invariant of vfs_get_inode and vfs_put_inode: a thread that
\* destroys an inode is alone with it.
THEOREM VfsInodesInvariant == Spec => []IInv
BY InitIInv, StepIInv, PTL DEF Spec

\* vfs_get_inode and vfs_put_inode: ref_count is the number of files that hold
\* the inode, whatever the order of their sections.
THEOREM InodeRefsExact == Spec => []RefsExact
<1>1. IInv => RefsExact
  BY DEF IInv
<1> QED
  BY VfsInodesInvariant, <1>1, PTL

\* What vfs_get_inode returned stays allocated, under the same number, until
\* the file that asked puts it.
THEOREM OpenFileKeepsInode == Spec => []HeldLive
<1>1. IInv => HeldLive
  BY DEF IInv
<1> QED
  BY VfsInodesInvariant, <1>1, PTL

\* The chains vfs_get_inode searches hold only inodes that are referenced:
\* vfs_put_inode unlinks before it destroys.
THEOREM ChainsHoldReferenced == Spec => []CachedHeld
<1>1. IInv => CachedHeld
  BY DEF IInv
<1> QED
  BY VfsInodesInvariant, <1>1, PTL

\* vfs_put_inode loses no inode, also when two misses inserted the same one.
THEOREM InodesNotLost == Spec => []NoLeak
<1>1. IInv => NoLeak
  BY DEF IInv
<1> QED
  BY VfsInodesInvariant, <1>1, PTL

\* The states of vfs_get_inode and vfs_put_inode keep their types; ref_count
\* never goes below zero.
THEOREM VfsInodesTypeCorrect == Spec => []TypeOK
<1>1. IInv => TypeOK
  BY DEF IInv
<1> QED
  BY VfsInodesInvariant, <1>1, PTL
=============================================================================
