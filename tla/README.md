# RaeenOS kernel core: TLA+ models, TLC runs and TLAPS proofs

RaeenOS is a hobby operating system in C. This project models parts of its
kernel in TLA+, checks the models with TLC on small instances, and proves the
most important results with TLAPS for every instance. The models are written
from the source; `PROJECT.json` maps every definition to the lines it stands
for.

## 1. Inventory

What the repository holds, the state each part keeps, what it does, and what
would make it right. `build_exclude*/` and `build_cmake/` hold copies and
generated files and are left aside, as are firmware headers and assets.

| Component | State | Operations | Hard part | Right when |
|---|---|---|---|---|
| Message queue, `kernel/ipc/message_queue.c` | ring of 16 messages, head, tail, count, spinlock | create, destroy, send, receive | several CPUs; early returns under the lock; destroy frees the object after releasing its lock | it is a bounded FIFO; the lock comes free |
| Spinlock, rwlock, semaphore, `kernel/sync.c` | lock words and counters | lock, trylock, unlock, wait, trywait, post, getvalue | test, load and store of plain counters; retry loops | a writer is alone; no permit is lost; a free lock is taken |
| Mutex, `kernel/sync.c` | lock word, owner, recursion count | lock, trylock, unlock | ownership test outside any lock | mutual exclusion |
| Red-black tree, `rbtree.c` | nodes with parent/colour word and two children | link, insert fix-up, erase, erase fix-up, replace, first, last, next, prev | pointer surgery over long histories | order, colours, balance, parent links; fix-ups end |
| Address space, `vmm_production.c` | list and tree of areas, page tables | create/destroy space, create/insert/find area, fault, copy on write | two structures linked through one walk | list and tree agree; an address's area is found; every call returns |
| Scheduler, `kernel/scheduler.c` | per-CPU MLFQ, gaming and real-time queues | tick, pick, enqueue, dequeue, block, wake, ageing, balancing | pick dequeues; queues touched without their lock | a runnable task is in exactly one queue or running |
| Processes, `kernel/process/process.c` | process table, circular ready queues, process lock, saved stacks | create, exit, cleanup, schedule, signal | context switch under a lock; initial stack frame must match `switch.asm` | a process resumes where it stopped; zombies do not run |
| Pipes, wait queues, IPC semaphores | ring, wait lists | read, write, wait, signal, wake | sleep/wake races; stale wait entries | no lost wake-up, no admission without a permit |
| Shared memory, `kernel/ipc/shared_memory.c` | 32 slots, reference counts | create, attach, detach, destroy | use after free, identifiers that run out | a segment lives while attached |
| Inode cache, `kernel/fs/vfs_production.c` | hash chains of inodes, reference counts, file structures | get, put, allocate, destroy | search and insertion in two critical sections; destruction after the section that unlinks | counts are exact; an open file's inode is alive; none is lost |
| Buffer cache, `kernel/fs/buffer_cache.c` | hash chains, LRU list, dirty list, reference counts | get, put, read, mark dirty, write, sync, evict | three lists over the same buffers; test and removal in different sections | the lists agree; no buffer in use is freed; a sync writes everything |
| File locks, `kernel/fs/vfs_file_locks.c` | per-file lists of read, write and waiting locks, global list, pool | request, release, wake, query | check and grant in two critical sections; one link field in five lists | no two conflicting locks are granted |
| File events, `kernel/fs/vfs_events.c` | watches with event queues | add/remove watch, post | callbacks under the watcher lock | events in order |
| NVMe, `storage/nvme_driver.c` | submission and completion rings, phase, identifiers | submit, poll with timeout | late completions, 16-bit identifiers | a call returns the status of its own command |
| Kernel heap, `kernel/memory.c` | list of blocks laid out in page frames, heap lock | kmalloc, kfree, with split, coalescing and expansion | headers inside the memory they manage; rounding near the largest size; recursion under the lock | blocks tile the frames; a caller's memory is its own; every call returns |
| Other allocators, `pmm_production.c`, `slab_allocator.c`, `heap_production.c` | bitmaps, slabs, free lists | allocate, free | double use after partial failure | no object is handed out twice |
| Network, `kernel/net/` | connections, ARP and DHCP tables | TCP state machine, send, receive | retransmission, ring limits | bytes in order |
| Drivers, HAL, boot, system calls, security, UI, virtualization, compatibility, runtimes | tables and device registers | initialisation, dispatch, drawing | little protocol | see `PROJECT.json` |

How they interact: the message queue, rwlock and semaphore all rest on a
test-and-set spinlock; file locks use the rwlock; fat32 and ext4 read and
write through the buffer cache; file structures hold inodes of the inode cache,
once a file system supplies `alloc_inode`, which fat32 and ext4 leave to be
implemented; the address space keeps its areas in the red-black tree (and places
them through the list); nearly every
component allocates from the kernel heap; pipes and IPC
semaphores put processes to sleep through the process table and wake them
through wait queues; the timer interrupt (`kernel/timer.c:13`) enters `schedule()`
of `kernel/process/process.c`, and nothing enters the tick of
`kernel/scheduler.c`.

`PROJECT.json` lists the hazards, each at its line, with the properties that
would catch it; a hazard in a part that is not modelled yet says so.

## 2. Modules and the code

| Module | Models | Notes |
|---|---|---|
| `MessageQueue` | `kernel/ipc/message_queue.c` | one action per memory access another CPU can observe: test, copy, index, count, release. A thread is in `pc`, its argument in `req`, the message it received in `msg`. A destroy may come at any time; a call whose queue it frees is `dangling` and has no further step |
| `BoundedFifo` | abstract specification | what callers are promised: a queue that takes and gives messages atomically between a call and its return; closing it takes the result from the calls that are under way |
| `MessageQueueProofs` | proofs | section 5 |
| `Sync` | rwlock and semaphore of `kernel/sync.c` | all operations share the shape lock / test / load / store / unlock; a blocking operation that is refused goes back to lock. `hold`, `taken` and `posted` record what callers got |
| `SyncProofs` | proofs | section 5 |
| `Mutex` | mutex of `kernel/sync.c` | `current_tid` is the constant 1, as in the code |
| `RbTree` | `rbtree.c` | nodes are numbers and are their own keys; each turn of a fix-up loop is one action, left and right are one case by symmetry (the code writes both). `kernel/sync.c:348-390` has stubs of the same names (`rb_first` gives the root, `rb_next` gives NULL), which no definition stands for; which of the two a build links is not decided here |
| `RbTreeProofs`, `Induction` | proofs | section 5; `Induction` holds the facts about numbers and recursive functions they need |
| `AddressSpace` | area handling of `vmm_production.c` | instantiates `RbTree`; the walk of `vmm_insert_vma` is one action per step. Addresses are `0 .. WORD - 1` and sums wrap, as in a `uint64_t` |
| `AddressSpaceProofs` | proofs | section 5; instantiates `RbTreeProofs` |
| `KernelHeap` | `kmalloc`, `kfree` of `kernel/memory.c` | `heap` maps the address of each header to its fields; a turn of a list walk is one action, the walk to the end of the list in an expansion is part of that action because it runs under the lock and changes nothing. `live` records what callers got |
| `KernelHeapProofs` | proofs | section 5 |
| `VfsInodes` | inode cache of `kernel/fs/vfs_production.c` | `at` is where the thread of each file is in `vfs_get_inode` or `vfs_put_inode`, `ptr` the inode it has; inodes are addresses that are used again. The chains are the set `cached`. `alloc_inode` is a hook that no file system in the tree supplies yet, and nothing calls `vfs_get_inode` yet: the module says what the cache will do for a file system that does |
| `VfsInodesProofs` | proofs | section 5 |
| `BufferCache` | `kernel/fs/buffer_cache.c` | a list is a record of head, tail and the two pointers of every buffer, changed as the code changes them; a critical section, or the code between two, is one action. `used` records the order of the gets, `held` what callers got. An eviction frees at most `EvictMax` buffers, 16 in the code. `Overlap` says whether calls of different threads interleave |
| `BufferCacheProofs` | proofs | section 5 |
| `FileLocks` | `kernel/fs/vfs_file_locks.c` | one `next` pointer for the five kinds of list, as in the code; request is one action, release one for the removals, one for each waiter and one for the return to the pool |
| `MC*` | instances | constants for TLC |

Operators whose names have a suffix after an underscore, and whose comment
begins "Faulty variant", are not part of any specification. Each is what a
definition would be with a plausible bug; with it in place of the definition TLC
finds the property violated (`mutants` in `PROJECT.json`), which shows that the
property depends on that code.

Abstractions: a message is a model value; identifiers and names that are only
printed are left out; interrupts are not masked or taken inside the modelled
operations; memory is sequentially consistent (the lock operations are x86
locked instructions). A section between `HAL_IRQ_SAVE` and `HAL_IRQ_RESTORE` is
one step, because only one CPU is ever started. Blocks of the buffer cache hash
to one bucket; block contents, the up-to-date flag and the state word, which
only decide whether a read has work to do, are left open. The colour and the parent of a tree node, packed in one
word by the code, are two functions. Page protection and flags of an area do
not matter to where it is linked and are left out.

## 3. Runs

| Run | Instance | Shows |
|---|---|---|
| `message_queue` | 2 threads, 2 messages, ring of 3 | with a destroy at any time, and up to the first use of freed memory: ring indices agree under the lock, the lock comes free or the queue is freed, and every execution is one of `BoundedFifo` |
| `sync` | 3 threads with different programs, 1 initial and 2 maximal permits, 3 posts | writers are alone, lock words tell the holders, permits are conserved and bounded, and a free rwlock is taken by somebody who wants it |
| `mutex` (violation) | 2 threads | two threads in the critical section: `mutex_lock` takes every caller for the owner |
| `rbtree` | 10 nodes, every order of insertions, erasures and replacements | the tree keeps its nodes, order, links, colours and balance at each turn, `rb_next`/`rb_prev` walk it in order, and each fix-up turn climbs |
| `address_space` | 6 starts, 4 lengths, page of 2, 16 addresses | list and tree hold the same areas, the tree stays balanced although its insertion point comes from the list, what the search finds contains the address, and areas that do not overlap are found |
| `kernel_heap` | 2 threads, 2 frames of 12 bytes, header of 2, sizes of 5 bits: one that fits twice, one that splits, one larger than a frame, one that wraps | blocks tile the frames, a caller's block is its own and large enough unless rounding wrapped, nothing leaks, free neighbours are merged, `kfree` ends |
| `kmalloc_returns` (violation) | 1 thread | the recursive call of an expanding `kmalloc` waits for the lock its caller holds |
| `create_returns` (violation) | as `address_space` | `vmm_create_vma` never returns for an area that belongs between two others |
| `vfs_inodes` | 4 files, 3 inode addresses, 2 numbers, symmetric | references are exact, an open file's inode is alive and the one it asked for, the chains hold no dying inode, none is lost, although two opens of one number may insert two inodes |
| `buffer_cache` | 3 buffers, 4 blocks on 2 devices, 2 users, evictions of at most 2, calls one after another | the three lists stay whole, no head is lost, a buffer in use is not freed, eviction takes the one used longest ago, a sync leaves nothing dirty |
| `buffer_cache_overlap` (violation) | 2 buffers, calls overlap | eviction frees a buffer another thread has just got |
| `file_locks` (violation) | 2 processes, 2 files, pool of 3 locks, one range, calls one after another | a writer is granted a lock beside a reader whose lock fell off its list |

Bounds. Three slots are the fewest in which head, tail and an inner slot
differ, and the two threads wrap the ring many times; the theorem removes the
bound. Three threads let a reader, a writer and a poller all meet; `MaxPosts`
stops the ghost counter `posted` and is past `SemMax`, so the refused post
happens. Ten nodes are the fewest for which an insertion's fix-up climbs twice;
every fix-up case of insertion and erasure occurs below that. The areas of the
address space include touching, overlapping and unaligned ones, a length of
zero, which the code refuses, and ends that wrap to 0 and past it.

The heap's frames do not touch and hold up to three blocks, enough for a merge
on both sides of a freed block; the theorem removes the bound.

Four files are two that open one number at once, one that closes and one that
holds; three addresses let a freed one come back; the theorems remove the
bound. Four blocks for three buffers make eviction necessary, and three is the
fewest for which a list has an inner element; an `EvictMax` of 2 is reached with
a buffer left over, so that the limit of the loop matters. The range of `file_locks` avoids
the offsets 0 and length 0, at which the overlap test has troubles of its own,
so that what the run shows is due to the lists.

Deadlock is checked except in `address_space`, where the machine has stopped
after the walk follows a NULL pointer, and in `kernel_heap`, where it stops in
the same way after a failed `memory_init`, and where nobody gets the lock any
more once an expansion has waited for itself.

Fairness. `MessageQueue` and `Sync` assume weak fairness of each thread inside a
call: kernel threads that spin or hold a spinlock keep running. Nothing obliges
a thread to begin a call, and no fairness between competitors for a lock word
is assumed, because the test-and-set lock gives none; hence progress is stated
for "somebody" and a single thread may starve. `AddressSpace` and
`KernelHeap` assume that a call that has begun runs on.

## 4. Disagreements with the repository's own claims

* `mutex`: `kernel/sync.c:128` makes every thread thread 1, so the recursion
  test of `mutex_lock` lets a second thread in. The file calls its primitives
  thread-safe (line 5).
* `create_returns`: `vmm_production.c:391` steps back to the element it is at.
  Areas can be appended, or refused for an equal start; an area that belongs
  before another sends the walk into an endless loop, or through a NULL `prev`.
  The header documents a return value (`kernel/vmm_production.h:388`).

* `kmalloc_returns`: `kernel/memory.c:87` calls `kmalloc` before releasing
  `heap_lock`. The comment on that line says it "will eventually find space or
  fail"; it spins for ever, and so does every later `kmalloc` and `kfree`. The
  heap therefore never works with more than its first frame.

* `buffer_cache_overlap`: `kernel/fs/buffer_cache.c:646` tests the reference
  count before the section that takes the buffer out of its chain. A get that
  hits in between returns a buffer that is then freed. The comment above the
  test says "Don't evict if referenced or dirty".
* `file_locks`: `kernel/fs/vfs_file_locks.c:362` links a granted lock into the
  global list through the pointer that already links it into its file's list,
  so the list of a file runs on into locks of other files. Process 1 locks file
  A for reading, then B, then A again, and releases the last two: the head of
  A's read list is now a freed lock, the first read lock is on no list of A, and
  process 2 is granted a write lock on the same bytes. The header promises
  "POSIX-compliant byte-range locks" (`kernel/fs/vfs_file_locks.h:7`).

## 5. Proofs

All proofs are checked by `tlapm` with its SMT, Zenon and LS4 backends.

`MessageQueueProofs`, for any threads, messages and ring size at least 1:

* `QueueSafe`: the inductive invariant is the conjunction of `TypeOK`,
  `LockExclusion` (at most one thread is under the lock, and the lock word says
  so), `RingConsistent` (tail is head plus count around the ring, corrected for
  the two places inside send and receive where an index has moved and the count
  has not) and `CallState` (a thread inside a call and not dangling has a queue
  that exists; a request matches the code its thread runs). Each needs the
  others: the ring is right because of the lock, the lock because a queue is
  created only when every thread is outside a call or dangling.
* `QueueImplementsFifo`: under the mapping in `MessageQueue` every step is a
  step of `BoundedFifo` or leaves the abstract state alone.

These hold of every run up to its first use of freed memory. The code lets that
happen (`message_queue.c:37-39` releases the lock and then frees the object,
whoever waits), so nothing here says that it does not: a caller has to keep
destroy apart from the other calls.

`SyncProofs`, for any finite set of threads, any programs, counts and maximum:

* `RwLockSafe` and `SemaphoreSafe`: the inductive invariant adds to the four
  checked invariants that `wait_lock` excludes (`LockHeld`), that what a thread
  tested still holds when it stores (`Tested`), that what it loaded is still the
  counter's value (`Loaded`), and that a thread holds what its pending
  operation supposes (`HoldsForOp`).
* `SyncTypeCorrect`: the words stay in range.

`KernelHeapProofs`, for any threads, sizes, header, frame size and word, and any
frames that do not overlap:

* `HeapSafe`: the inductive invariant adds to the five checked invariants that
  one thread at a time is between taking and leaving the lock (`Exclusive`),
  that until an expansion has locked the heap for ever all blocks lie in one
  frame, each ending where its successor begins (`OneFrame`), that the
  coalescing walk leaves nothing to merge behind it and a search finds nothing
  to merge (`Walked`), and that a pointer on its way to `kfree` is nobody else's
  (`Returning`). Splitting rests on the rest of a block being no header yet,
  which follows from `Tiles`; merging on the successor being where the block
  ends, which needs `OneFrame`: neighbours in the list that lie in different
  frames would be merged into a block that is not there.

`VfsInodesProofs`, for any finite set of files and any inodes and numbers:

* `InodeRefsExact`, `OpenFileKeepsInode`, `ChainsHoldReferenced`,
  `InodesNotLost`, `VfsInodesTypeCorrect`: the inductive invariant `IInv` is the
  conjunction of the five checked invariants and `DestroyAlone`, that a thread
  which destroys an inode is the only one with a pointer to it. The argument
  turns on the count: a count of 1 means one holder (`LastHolder`), so the last
  put leaves nobody behind; any other count means that a holder remains, so a
  put that does not destroy loses nothing.

`BufferCacheProofs`, for any finite set of threads and any buffers, blocks and
devices, and any limit on an eviction, under the hypothesis `~Overlap`: calls come
one after another. The code does not enforce this (it protects only its short
sections, and the timer preempts between them), so these are results about
callers that do; that a buffer in use is not freed is the one the run
`buffer_cache_overlap` shows to fail without it, and it is not claimed as a
theorem:

* `NoHeadLost`, `ListsAgree`, `TypesHold`, `EvictionInOrder`,
  `SyncIsComplete`. The inductive invariant `IInv` describes each of the three
  linked lists by a sequence without repetition (`Chain`): head and tail are its
  ends and the two pointers of a buffer lead to its neighbours, so that putting
  a buffer in front and cutting one out are operations on the sequence
  (`PushChain`, `CutChain`). The sequence of the LRU list is `used`, the order of
  the gets, which is why eviction follows that order; those of the other two are
  hidden. Besides, the invariant says at which place of each routine a buffer is
  on one list and not yet, or no longer, on another (`Hashed`, `Private`), that a
  reference count is the number of holders (`RefInv`), and that while a sync runs
  every dirty buffer of its device lies ahead of the cursor (`DirtyInv`).
  `ReachedChain` connects the search of `buffer_cache_get`, which follows
  pointers, with the members of the sequence.

`RbTreeProofs`, for any finite set of nodes, at every turn of every fix-up loop
and not only between calls:

* `InvariantHolds`. No property of `RbTree` is inductive by itself: a rotation is
  only right on a whole tree, and whether a tree is whole is a question about
  what can be reached. `IInv` therefore says that two ghosts exist. `sub` gives
  the nodes from each node down; `Shape` ties it to the pointers node by node
  (a node's set is the node and the sets of its children; what is below a side
  lies on that side of the key; child and parent agree; nodes outside the tree
  point nowhere). `h` gives black heights; `Heights` ties them to the children,
  with one black node owed on the side at which `__rb_erase_color` stands.
  `RedsApart` excuses from the red rule the node at the cursor of
  `rb_insert_color`, or the child that an erasure moved up and its children, and `Cursor`
  says where the cursor may be.
* The lemmas follow the code. What each pointer assignment of a rotation does is
  worked out once (`Rotated`), and then what a rotation does to shape, heights
  and red nodes; each case of the two loops is one or two rotations with colour
  changes. Linking rests on the search ending at a free place whose order fits
  (`DescendIs`), `rb_replace_node` on a renaming of the nodes (`Renamed`), and
  `rb_erase` on cutting out a node with at most one child (`CutOut`) followed,
  when there are two children, by renaming the victim to its neighbour.
* `TypeCorrect`, `LinksAlwaysAgree` and `RedRuleHolds` follow from `IInv` at once.
* `AlwaysBalanced` and `MembersHeld` are about recursive functions,
  `BlackHeight` and `InOrder`. A function defined by rows (row `k` from row
  `k - 1`) or by a walk that goes down in rank is shown to exist and to satisfy
  its equation (`Iterates`, `TailRecursion` in `Induction`); what it yields
  follows by induction on the size of a subtree (`FromBelow`), which rests on
  the least number of a set (`LeastNat`) and needs no induction rule with an
  operator parameter.
* `WalksAlwaysInOrder`: `rb_first` and `rb_last` are the least and greatest
  members and `rb_next` and `rb_prev` the neighbours in order. A walk down one
  side ends at the farthest node (`LastOn`), and a climb stops at the first
  ancestor from whose other side it comes (`NextTo`).
* `FixupsClimb`: the level of a node is the number of nodes on its way up, a
  cardinality, and each turn of a loop makes it smaller, or makes the sibling
  black and the next turn the last but one.

`AddressSpaceProofs`, for any page size, any word size that is a multiple of it, any
start addresses and lengths in a word, and a `NULL` that is not an address:

* `InvariantHolds`. A call of `vmm_insert_vma` leaves the tree alone while it walks
  the list, so `TreePc`, which reads "walk" and "fault" as "idle", shows the tree as
  `rbtree.c` sees it; for that tree `IInv` contains the invariant of `RbTreeProofs`.
  The steps of the fix-up and a fresh address space are taken from there
  (`SameTurn`, `SameDone`, `FreshIs`). The list is described by a sequence
  (`ListIs`): the areas in increasing order, linked in both directions, as many as
  `map_count` and the one that is being linked. A walk has passed a beginning of
  the list, all of it below the new area (`Passed`).
* Why the place that the list gives is right in the tree: a walk that meets an area
  above the new one never completes (it loops, or follows a NULL pointer; run
  `create_returns`), so a call that links anything has passed all areas, and has
  noted the right side of the last one. That side is free, and the new area sorts
  there from every node above (`LastPlace`). The tree's own proof needs only a place
  that fits, wherever it comes from (`LinkPlaceStep`). A repaired walk, which could
  link in the middle of the list, would need another argument here, and
  the invariant says exactly what it would have to keep.
* `TypeCorrect` and `TreeAlwaysKept` follow from `IInv`; that every area ends on a
  page, also where the sum of start and length wraps, rests on the arithmetic of
  `vmm_page_align` and on a word being a whole number of pages (`AreaOnPages`).
* `ListAlwaysMatchesTree`: the recursive function `List` yields the areas in order
  (`ListListsMembers`, from the end of the list backwards), the walk of the tree
  does (`InOrderIs`), and there is only one list of a set in order (`OneList`).
* `AlwaysFindsContaining`: the search of `vmm_find_vma` ends because it goes down
  (`SearchEnds`), and from every node down it is right (`SearchIsRight`). What it
  finds contains the address, whatever areas there are. That it finds one needs
  areas that do not overlap: those to the left of one that ends before the address
  then end before it too. The code lets areas overlap (`vmm_production.c:396`).

So every property of these seven modules is proved, except those about liveness and
`HeldNotFreed`, which is checked for calls that do not overlap only; those that
are conjuncts of `QueueSafe`, `RwLockSafe`, `SemaphoreSafe` and `HeapSafe` and
not named above have a theorem of their own as well (`QueueLockExclusion`,
`SemaphoreBounded`, `HeapLiveKept` and so on).

Only model-checked: the liveness properties (`LockReleased`, `RwProgress`,
`FreeEnds`), which are out of the prover's reach, and `HeldNotFreed`. The properties that fail, of
the mutex, the file locks, the address space, the heap and overlapping calls of
the buffer cache, have runs that show it.

## 6. Not modelled

Masking of interrupts by the irqsave locks of `kernel/sync.c`; page tables,
faults and copy on write (initialisation fails on its first mapping, so the
handlers are never reached). Of the modelled files: invalidation of a device,
the write-back thread and the shutdown of the buffer cache, which nothing calls
or starts; overlapping calls of the file locks; mounts, paths and directory
entries of `vfs_production.c`.

Much of the repository has no behaviour of its own that a model could be held
against. `kernel/scheduler.c` is complete, but nothing calls its tick, promotion
or demotion. `kernel/ipc/ipc_advanced.c` uses types that exist nowhere. In
`pmm_production.c` pages are not freed before initialisation ends, so the buddy
lists stay empty and the slab on top of them cannot start. The NVMe driver calls
a queue set-up that is not in the tree. The event queues of `vfs_events.c` need
a delivery mode no function sets. Drawing, device registers, string handling and
logging stay out. `PROJECT.json` gives the reason for every component, and its
hazards name what was seen in these parts.

## 7. Plan

1. `Process` with pipes, wait queues and IPC semaphores: sleeping and waking,
   and the initial stack frame against `switch.asm`.
2. `Nvme`: the admin ring, its phase and the polling timeout.
3. `SharedMemory`: identifiers and reference counts.
4. Overlapping calls in `FileLocks`, once its lists have pointers of their own.
5. Proofs: for `FileLocks`, what does hold of it (a lock that is granted is on one
   list, and its memory comes back once); for the buffer cache, what remains true
   when calls overlap.
