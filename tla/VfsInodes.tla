----------------------------- MODULE VfsInodes -----------------------------
(***************************************************************************)
(* The inode cache of the virtual file system, kernel/fs/vfs_production.c: *)
(* open files that take and drop references on cached inodes.              *)
(*                                                                         *)
(* A section between HAL_IRQ_SAVE and HAL_IRQ_RESTORE is one step, since   *)
(* one CPU runs; between two sections any other thread may run.            *)
(* vfs_get_inode is two sections, the search and the insertion, with the   *)
(* file system's alloc_inode between them; vfs_put_inode is one section    *)
(* and then the destruction.  A file is the actor: it stands for the       *)
(* thread that opens or closes it.  An inode is an address, which the next *)
(* allocation may return again once it was freed.                          *)
(*                                                                         *)
(* alloc_inode is the hook that vfs_production.h:479 declares.  fat32 and  *)
(* ext4 leave it NULL, "To be implemented", so with them every open takes  *)
(* AllocFails; the module is about the cache with a file system that has   *)
(* the hook.                                                               *)
(***************************************************************************)
EXTENDS Naturals, FiniteSets

CONSTANTS File,    \* file structures, each with the thread working on it
          Inode,   \* addresses an inode can have
          Key,     \* the pairs of superblock and inode number asked for
          NULL

ASSUME VfsInodesAssumption ==
  /\ IsFiniteSet(File)
  /\ NULL \notin Inode \cup Key

VARIABLES at,      \* where each file's thread is
          want,    \* the superblock and number it asked for
          ptr,     \* file->inode, or the inode the thread has in hand
          live,    \* the inodes that are allocated
          ref,     \* inode->ref_count
          key,     \* inode->sb and inode->ino
          cached   \* the inodes linked in inode_hash_table

vars == <<at, want, ptr, live, ref, key, cached>>

Init ==
  /\ at   = [f \in File |-> "closed"]
  /\ want = [f \in File |-> NULL]
  /\ ptr  = [f \in File |-> NULL]
  /\ live = {} /\ cached = {}
  /\ ref  = [i \in Inode |-> 0]
  /\ key  = [i \in Inode |-> NULL]

Goto(f, from, to) == at[f] = from /\ at' = [at EXCEPT ![f] = to]

\* Back to an unused file structure.
Forget(f) ==
  /\ want' = [want EXCEPT ![f] = NULL]
  /\ ptr'  = [ptr EXCEPT ![f] = NULL]

-----------------------------------------------------------------------------
(* vfs_get_inode.  The chains hold what is cached; which of two inodes     *)
(* with the same key a search meets first is left open.                    *)

\* Faulty variant: the hit is used without a reference of its own.
GetHit_NoRef(f, k, i) ==
  /\ i \in cached /\ key[i] = k
  /\ Goto(f, "closed", "open")
  /\ want' = [want EXCEPT ![f] = k]
  /\ ptr'  = [ptr EXCEPT ![f] = i]
  /\ UNCHANGED <<live, ref, key, cached>>

\* The reference is taken inside the section that searches.
GetHit(f, k, i) ==
  /\ i \in cached /\ key[i] = k
  /\ Goto(f, "closed", "open")
  /\ want' = [want EXCEPT ![f] = k]
  /\ ptr'  = [ptr EXCEPT ![f] = i]
  /\ ref'  = [ref EXCEPT ![i] = @ + 1]
  /\ UNCHANGED <<live, key, cached>>

GetMiss(f, k) ==
  /\ \A i \in cached : key[i] # k
  /\ Goto(f, "closed", "alloc")
  /\ want' = [want EXCEPT ![f] = k]
  /\ UNCHANGED <<ptr, live, ref, key, cached>>

\* An object with one reference and, until vfs_get_inode stores it, no number.
vfs_alloc_inode(i) ==
  /\ i \notin live
  /\ live' = live \cup {i}
  /\ ref'  = [ref EXCEPT ![i] = 1]

\* Faulty variant: the number is not stored.
AllocInode_Unnumbered(f, i) ==
  /\ Goto(f, "alloc", "insert")
  /\ vfs_alloc_inode(i)
  /\ key' = [key EXCEPT ![i] = NULL]
  /\ ptr' = [ptr EXCEPT ![f] = i]
  /\ UNCHANGED <<want, cached>>

\* The superblock's alloc_inode returns what vfs_alloc_inode makes, and
\* vfs_get_inode numbers it.
AllocInode(f, i) ==
  /\ Goto(f, "alloc", "insert")
  /\ vfs_alloc_inode(i)
  /\ key' = [key EXCEPT ![i] = want[f]]
  /\ ptr' = [ptr EXCEPT ![f] = i]
  /\ UNCHANGED <<want, cached>>

\* Memory is short, or the superblock has no alloc_inode: the open fails.
AllocFails(f) ==
  /\ Goto(f, "alloc", "closed")
  /\ Forget(f)
  /\ UNCHANGED <<live, ref, key, cached>>

\* The second section: the chain is not searched again.
Insert(f) ==
  /\ Goto(f, "insert", "open")
  /\ cached' = cached \cup {ptr[f]}
  /\ UNCHANGED <<want, ptr, live, ref, key>>

-----------------------------------------------------------------------------
(* vfs_free_file: vfs_put_inode drops the reference and, with the last     *)
(* one, unlinks the inode in the same section.  It is destroyed after the  *)
(* section.                                                                *)

PutShared(f) ==
  /\ Goto(f, "open", "closed")
  /\ ref[ptr[f]] # 1
  /\ ref' = [ref EXCEPT ![ptr[f]] = @ - 1]
  /\ Forget(f)
  /\ UNCHANGED <<live, key, cached>>

\* Faulty variants: the last reference leaves the inode in its chain; the
\* destruction is left to the chain's cleanup.
PutLast_KeepsLinked(f) ==
  /\ Goto(f, "open", "destroy")
  /\ ref[ptr[f]] = 1
  /\ ref' = [ref EXCEPT ![ptr[f]] = 0]
  /\ UNCHANGED <<want, ptr, live, key, cached>>

PutLast_NoDestroy(f) ==
  /\ Goto(f, "open", "closed")
  /\ ref[ptr[f]] = 1
  /\ ref' = [ref EXCEPT ![ptr[f]] = 0]
  /\ cached' = cached \ {ptr[f]}
  /\ Forget(f)
  /\ UNCHANGED <<live, key>>

PutLast(f) ==
  /\ Goto(f, "open", "destroy")
  /\ ref[ptr[f]] = 1
  /\ ref' = [ref EXCEPT ![ptr[f]] = 0]
  /\ cached' = cached \ {ptr[f]}
  /\ UNCHANGED <<want, ptr, live, key>>

\* destroy_inode, or vfs_free_inode where the file system has none.
DestroyInode(f) ==
  /\ Goto(f, "destroy", "closed")
  /\ live' = live \ {ptr[f]}
  /\ Forget(f)
  /\ UNCHANGED <<ref, key, cached>>

-----------------------------------------------------------------------------
Next ==
  \E f \in File :
    \/ \E k \in Key : GetMiss(f, k) \/ \E i \in Inode : GetHit(f, k, i)
    \/ \E i \in Inode : AllocInode(f, i)
    \/ AllocFails(f) \/ Insert(f)
    \/ PutShared(f) \/ PutLast(f) \/ DestroyInode(f)

Spec == Init /\ [][Next]_vars

-----------------------------------------------------------------------------
\* The files whose reference the inode counts.
Holders(i) == {f \in File : at[f] \in {"insert", "open"} /\ ptr[f] = i}

\* Types, and the exact places where a thread has an inode in hand.
TypeOK ==
  /\ at \in [File -> {"closed", "alloc", "insert", "open", "destroy"}]
  /\ want \in [File -> Key \cup {NULL}]
  /\ ptr \in [File -> Inode \cup {NULL}]
  /\ \A f \in File : (ptr[f] = NULL) <=> at[f] \in {"closed", "alloc"}
  /\ live \subseteq Inode /\ cached \subseteq Inode
  /\ ref \in [Inode -> Nat]
  /\ key \in [Inode -> Key \cup {NULL}]

\* vfs_get_inode and vfs_put_inode count exactly: ref_count of every inode is
\* the number of files that hold it, with any number of threads between the
\* two sections of an open.
RefsExact == \A i \in Inode : ref[i] = Cardinality(Holders(i))

\* An open file's inode is allocated and still the one it asked for: no close
\* frees an inode another file holds or is about to hold, and an address that
\* was reused never shows through an old file.
HeldLive ==
  \A f \in File : at[f] \in {"insert", "open"} =>
                    ptr[f] \in live /\ key[ptr[f]] = want[f]

\* What a search of the chains can meet is allocated and referenced: the last
\* put unlinks before it destroys, so no open revives a dying inode.
CachedHeld == \A i \in cached : i \in live /\ ref[i] > 0

\* No leak: every allocated inode is in the hands of a file, so closing all
\* files frees all inodes, also when two opens of one number both inserted.
NoLeak == \A i \in live : \E f \in File : ptr[f] = i

\* The strengthening: a thread that destroys an inode is alone with it.
DestroyAlone ==
  \A f \in File : at[f] = "destroy" =>
    /\ ptr[f] \in live /\ ptr[f] \notin cached
    /\ \A g \in File \ {f} : ptr[g] # ptr[f]

IInv == TypeOK /\ RefsExact /\ HeldLive /\ CachedHeld /\ NoLeak /\ DestroyAlone
=============================================================================
