----------------------------- MODULE KernelHeap -----------------------------
(***************************************************************************)
(* The kernel heap of kernel/memory.c: kmalloc and kfree over a singly     *)
(* linked list of blocks that lie one after the other in page frames,      *)
(* first fit, splitting on allocation and coalescing on release, all under *)
(* heap_lock.  A turn of each list walk is one step.                       *)
(*                                                                         *)
(* heap is the list as it lies in memory: the headers by their address.    *)
(* live records what callers have got and not given back; a caller frees   *)
(* only that, and only once.                                               *)
(***************************************************************************)
EXTENDS Integers

CONSTANTS Thread,
          Frames,            \* addresses of the frames pmm_alloc_frame may give
          PMM_FRAME_SIZE,
          HEADER,            \* sizeof(heap_block_t)
          WORD,              \* 2^w for a size_t of w bits
          Sizes,             \* the sizes callers ask for
          NULL

ASSUME HeapAssumption ==
  /\ HEADER \in Nat \ {0} /\ PMM_FRAME_SIZE \in Nat /\ PMM_FRAME_SIZE > HEADER
  /\ WORD \in Nat /\ WORD > PMM_FRAME_SIZE
  /\ Frames \subseteq Nat \ {0}
  /\ \A f, g \in Frames : f < g => f + PMM_FRAME_SIZE <= g
  /\ Sizes \subseteq 1 .. WORD - 1
  /\ NULL \notin Nat

VARIABLES heap,        \* header address |-> [next, size, free]
          heap_start, heap_lock,
          frames,      \* the frames the heap has got
          pc, arg,     \* each thread's place, and its size or pointer
          current,     \* the walk of the thread that has the lock
          live         \* pointer |-> the size that was asked for

vars == <<heap, heap_start, heap_lock, frames, pc, arg, current, live>>

Blocks == DOMAIN heap

\* The first address after a block, and after its frame.
End(b)      == b + HEADER + heap[b].size
FrameEnd(f) == f + PMM_FRAME_SIZE

Goto(t, from, to) == pc[t] = from /\ pc' = [pc EXCEPT ![t] = to]

-----------------------------------------------------------------------------
\* A frame as one free block.
FreeFrame == [next |-> NULL, size |-> PMM_FRAME_SIZE - HEADER, free |-> TRUE]

\* memory_init has run.  Without a frame it returns all the same.
Init ==
  /\ \/ /\ heap_start \in Frames
        /\ heap = [b \in {heap_start} |-> FreeFrame]
        /\ frames = {heap_start}
     \/ heap_start = NULL /\ heap = <<>> /\ frames = {}
  /\ heap_lock = FALSE
  /\ pc  = [t \in Thread |-> "idle"]
  /\ arg = [t \in Thread |-> 0]
  /\ current = NULL
  /\ live = <<>>

-----------------------------------------------------------------------------
(* kmalloc                                                                 *)

kmalloc(t, size) ==
  /\ Goto(t, "idle", "malloc_lock")
  /\ arg' = [arg EXCEPT ![t] = size]
  /\ UNCHANGED <<heap, heap_start, heap_lock, frames, current, live>>

\* Faulty variant: the size is not rounded up.
Aligned_Truncates(size) == size - (size % HEADER)

\* The size rounded up to a multiple of the header, as a size_t.
Aligned(size) ==
  IF size % HEADER = 0 THEN size
  ELSE (size + (HEADER - (size % HEADER))) % WORD

MallocLock(t) ==
  /\ Goto(t, "malloc_lock", "scan")
  /\ ~heap_lock /\ heap_lock' = TRUE
  /\ current' = heap_start
  /\ UNCHANGED <<heap, heap_start, frames, arg, live>>

Fits(b, size) == heap[b].free /\ heap[b].size >= size

\* Faulty variant: a block that just fits is split too.
Splits_Always(b, size) == TRUE

Splits(b, size) == heap[b].size > size + HEADER

Scan(t) ==
  /\ Goto(t, "scan", "scan")
  /\ current # NULL
  /\ ~Fits(current, Aligned(arg[t]))
  /\ current' = heap[current].next
  /\ UNCHANGED <<heap, heap_start, heap_lock, frames, arg, live>>

\* Faulty variant: the header of the rest is not taken off its size.
Carve_NoHeader(b, size) ==
  LET rest == b + HEADER + size
  IN  [c \in Blocks \cup {rest} |->
         IF c = b THEN [next |-> rest, size |-> size, free |-> FALSE]
         ELSE IF c = rest THEN [next |-> heap[b].next,
                                size |-> heap[b].size - size, free |-> TRUE]
         ELSE heap[c]]

\* The block keeps size bytes; the rest becomes a free block after it.
Carve(b, size) ==
  LET rest == b + HEADER + size
  IN  [c \in Blocks \cup {rest} |->
         IF c = b THEN [next |-> rest, size |-> size, free |-> FALSE]
         ELSE IF c = rest THEN [next |-> heap[b].next,
                                size |-> heap[b].size - size - HEADER,
                                free |-> TRUE]
         ELSE heap[c]]

Take(t) ==
  /\ Goto(t, "scan", "idle")
  /\ current # NULL
  /\ LET size == Aligned(arg[t])
     IN  /\ Fits(current, size)
         /\ heap' = IF Splits(current, size) THEN Carve(current, size)
                    ELSE [heap EXCEPT ![current].free = FALSE]
  /\ heap_lock' = FALSE
  /\ live' = [p \in DOMAIN live \cup {current + HEADER} |->
                IF p = current + HEADER THEN arg[t] ELSE live[p]]
  /\ current' = NULL
  /\ arg' = [arg EXCEPT ![t] = 0]
  /\ UNCHANGED <<heap_start, frames>>

\* No block fits and there is no frame: kmalloc returns NULL.
OutOfMemory(t) ==
  /\ Goto(t, "scan", "idle")
  /\ current = NULL
  /\ heap_lock' = FALSE
  /\ arg' = [arg EXCEPT ![t] = 0]
  /\ UNCHANGED <<heap, heap_start, frames, current, live>>

\* A new frame goes to the end of the list.  Then kmalloc calls itself for the
\* aligned size, still holding heap_lock.
Expand(t, f) ==
  /\ Goto(t, "scan", "malloc_lock")
  /\ current = NULL /\ heap_start # NULL
  /\ f \in Frames \ frames
  /\ frames' = frames \cup {f}
  /\ heap' = [b \in Blocks \cup {f} |->
                IF b = f THEN FreeFrame
                ELSE IF heap[b].next = NULL THEN [heap[b] EXCEPT !.next = f]
                ELSE heap[b]]
  /\ arg' = [arg EXCEPT ![t] = Aligned(@)]
  /\ UNCHANGED <<heap_start, heap_lock, current, live>>

\* With no list to append to, the walk to its end starts at NULL.
ExpandFault(t) ==
  /\ Goto(t, "scan", "fault")
  /\ current = NULL /\ heap_start = NULL
  /\ Frames \ frames # {}
  /\ UNCHANGED <<heap, heap_start, heap_lock, frames, arg, current, live>>

-----------------------------------------------------------------------------
(* kfree                                                                   *)

kfree(t, ptr) ==
  /\ Goto(t, "idle", "free_lock")
  /\ ptr \in DOMAIN live
  /\ live' = [p \in DOMAIN live \ {ptr} |-> live[p]]
  /\ arg' = [arg EXCEPT ![t] = ptr]
  /\ UNCHANGED <<heap, heap_start, heap_lock, frames, current>>

\* Faulty variant: the block after the pointer's is marked.
FreeLock_WrongBlock(t) ==
  /\ Goto(t, "free_lock", "coalesce")
  /\ ~heap_lock /\ heap_lock' = TRUE
  /\ LET b == arg[t] - HEADER
         n == IF heap[b].next = NULL THEN b ELSE heap[b].next
     IN  heap' = [heap EXCEPT ![n].free = TRUE]
  /\ current' = heap_start
  /\ UNCHANGED <<heap_start, frames, arg, live>>

FreeLock(t) ==
  /\ Goto(t, "free_lock", "coalesce")
  /\ ~heap_lock /\ heap_lock' = TRUE
  /\ heap' = [heap EXCEPT ![arg[t] - HEADER].free = TRUE]
  /\ current' = heap_start
  /\ UNCHANGED <<heap_start, frames, arg, live>>

\* The walk stands at a block with a successor.
More == current # NULL /\ heap[current].next # NULL

BothFree(b) == heap[b].free /\ heap[heap[b].next].free

\* Faulty variant: the walk moves on past a merged block.
Merge_MovesOn(t) ==
  /\ Goto(t, "coalesce", "coalesce")
  /\ More /\ BothFree(current)
  /\ LET n == heap[current].next
     IN  /\ heap' = [b \in Blocks \ {n} |->
                       IF b = current
                       THEN [next |-> heap[n].next, free |-> TRUE,
                             size |-> heap[b].size + heap[n].size + HEADER]
                       ELSE heap[b]]
         /\ current' = heap[n].next
  /\ UNCHANGED <<heap_start, heap_lock, frames, arg, live>>

\* Faulty variant: the merged block stays in the list.
Merge_NotUnlinked(t) ==
  /\ Goto(t, "coalesce", "coalesce")
  /\ More /\ BothFree(current)
  /\ UNCHANGED <<heap, heap_start, heap_lock, frames, arg, current, live>>

Merge(t) ==
  /\ Goto(t, "coalesce", "coalesce")
  /\ More /\ BothFree(current)
  /\ LET n == heap[current].next
     IN  heap' = [b \in Blocks \ {n} |->
                    IF b = current
                    THEN [next |-> heap[n].next, free |-> TRUE,
                          size |-> heap[b].size + heap[n].size + HEADER]
                    ELSE heap[b]]
  /\ UNCHANGED <<heap_start, heap_lock, frames, arg, current, live>>

MoveOn(t) ==
  /\ Goto(t, "coalesce", "coalesce")
  /\ More /\ ~BothFree(current)
  /\ current' = heap[current].next
  /\ UNCHANGED <<heap, heap_start, heap_lock, frames, arg, live>>

FreeDone(t) ==
  /\ Goto(t, "coalesce", "idle")
  /\ ~More
  /\ heap_lock' = FALSE
  /\ current' = NULL
  /\ arg' = [arg EXCEPT ![t] = 0]
  /\ UNCHANGED <<heap, heap_start, frames, live>>

-----------------------------------------------------------------------------
Step(t) ==
  \/ MallocLock(t) \/ Scan(t) \/ Take(t) \/ OutOfMemory(t)
  \/ (\E f \in Frames : Expand(t, f)) \/ ExpandFault(t)
  \/ FreeLock(t) \/ Merge(t) \/ MoveOn(t) \/ FreeDone(t)

Next ==
  \E t \in Thread :
    \/ Step(t)
    \/ \E size \in Sizes : kmalloc(t, size)
    \/ \E ptr \in DOMAIN live : kfree(t, ptr)

Spec == Init /\ [][Next]_vars

\* A thread inside a call runs on.
FairSpec == Spec /\ \A t \in Thread : WF_vars(Step(t))

-----------------------------------------------------------------------------
Places == {"idle", "malloc_lock", "scan", "free_lock", "coalesce", "fault"}

\* Besides the types: no block is larger than a frame allows, none negative.
TypeOK ==
  /\ frames \subseteq Frames
  /\ heap_start \in frames \cup {NULL}
  /\ Blocks \subseteq Nat
  /\ \A b \in Blocks : heap[b] \in [next : Blocks \cup {NULL}, free : BOOLEAN,
                                    size : 0 .. PMM_FRAME_SIZE - HEADER]
  /\ heap_lock \in BOOLEAN
  /\ pc \in [Thread -> Places]
  /\ arg \in [Thread -> Nat]
  /\ current \in Blocks \cup {NULL}
  /\ DOMAIN live \subseteq Nat

\* The blocks tile the frames: each frame begins with a block, a block is
\* followed by the next one where it ends unless its frame ends there, and no
\* two overlap.  Splitting and coalescing neither lose memory nor hand the
\* same memory out twice.
Tiles ==
  /\ frames \subseteq Blocks
  /\ \A b \in Blocks :
       \/ heap[b].next = End(b)
       \/ /\ heap[b].next \in frames \cup {NULL}
          /\ \E f \in frames : End(b) = FrameEnd(f)
  /\ \A b, c \in Blocks : b < c => End(b) <= c

\* What a caller has got and not given back is a block of its own that nobody
\* else can be given, and large enough, unless rounding the size up passed the
\* largest size_t.
LiveKept ==
  \A p \in DOMAIN live :
    /\ p - HEADER \in Blocks
    /\ ~heap[p - HEADER].free
    /\ live[p] <= WORD - HEADER => heap[p - HEADER].size >= live[p]

\* Nothing leaks: a block in use is somebody's, or on its way back.
InUseIsOwned ==
  \A b \in Blocks : ~heap[b].free =>
    \/ b + HEADER \in DOMAIN live
    \/ \E t \in Thread : pc[t] = "free_lock" /\ arg[t] = b + HEADER

\* Between calls no two neighbours are free: what can be allocated at once is
\* as large as the memory between two used blocks.
Coalesced ==
  ~heap_lock => \A b \in Blocks :
    heap[b].next # NULL => ~BothFree(b)

\* kfree ends: the coalescing walk reaches the end of the list.
FreeEnds == \A t \in Thread : pc[t] = "coalesce" ~> pc[t] = "idle"

\* kmalloc ends, with memory or without, unless the machine stops at NULL.
KmallocReturns ==
  \A t \in Thread : pc[t] = "malloc_lock" ~> pc[t] \in {"idle", "fault"}
=============================================================================
