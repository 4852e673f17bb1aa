-------------------------- MODULE KernelHeapProofs --------------------------
(***************************************************************************)
(* For any threads, frames, sizes and word: the blocks of the kernel heap  *)
(* tile its frames, what a caller holds is its own and large enough, and   *)
(* nothing leaks or stays split.                                           *)
(***************************************************************************)
EXTENDS KernelHeap, TLAPS

USE HeapAssumption

Inside == {"scan", "coalesce", "fault"}

\* One thread at a time is between taking the lock and leaving it.
Exclusive ==
  /\ \A t \in Thread : pc[t] \in Inside => heap_lock
  /\ \A t, u \in Thread : pc[t] \in Inside /\ pc[u] \in Inside => t = u

\* The heap has one frame, unless an expansion has left it locked for ever.
Open == ~heap_lock \/ \E t \in Thread : pc[t] \in Inside

\* The block ends where its successor begins, or with the frame.
Linked(b) ==
  /\ heap_start <= b /\ End(b) <= FrameEnd(heap_start)
  /\ \/ heap[b].next = End(b)
     \/ heap[b].next = NULL /\ End(b) = FrameEnd(heap_start)

OneFrame ==
  Open => /\ heap_start = NULL => Blocks = {} /\ frames = {}
          /\ heap_start # NULL => frames = {heap_start}
          /\ \A b \in Blocks : Linked(b)

\* A block that should have been merged with its successor.
Loose(b) == heap[b].next # NULL /\ BothFree(b)

\* The walk of kfree has left nothing to merge behind it.
Walked ==
  \A t \in Thread :
    /\ pc[t] = "coalesce" => /\ current \in Blocks
                             /\ \A b \in Blocks : b < current => ~Loose(b)
    /\ pc[t] = "scan" => \A b \in Blocks : ~Loose(b)

\* A pointer on its way to kfree is nobody else's, and its block is in use.
Returning ==
  /\ \A t \in Thread : pc[t] = "free_lock" =>
       /\ arg[t] - HEADER \in Blocks /\ ~heap[arg[t] - HEADER].free
       /\ arg[t] \notin DOMAIN live
  /\ \A t, u \in Thread :
       pc[t] = "free_lock" /\ pc[u] = "free_lock" /\ arg[t] = arg[u] => t = u

IInv ==
  /\ TypeOK /\ Exclusive /\ OneFrame /\ Tiles
  /\ LiveKept /\ InUseIsOwned /\ Coalesced /\ Walked /\ Returning

\* The fields of a block and what they can be.
LEMMA BlockFields ==
  ASSUME TypeOK, NEW b \in Blocks
  PROVE  /\ b \in Nat /\ b # NULL
         /\ heap[b].next \in Blocks \cup {NULL}
         /\ heap[b].free \in BOOLEAN
         /\ heap[b].size \in Nat /\ heap[b].size <= PMM_FRAME_SIZE - HEADER
         /\ End(b) \in Nat /\ End(b) > b
BY DEF TypeOK, End

\* Rounding up gives a size_t, and not less than was asked for unless it wraps.
LEMMA AlignedSize ==
  ASSUME NEW n \in Nat
  PROVE  /\ Aligned(n) \in Nat
         /\ n <= WORD - HEADER => Aligned(n) >= n
<1>1. n % HEADER \in 0 .. HEADER - 1
  OBVIOUS
<1>2. CASE n % HEADER = 0
  BY <1>2 DEF Aligned
<1>3. CASE n % HEADER # 0
  <2> DEFINE m == n + (HEADER - (n % HEADER))
  <2>1. m \in Nat /\ m >= n /\ (n <= WORD - HEADER => m < WORD)
    BY <1>1, <1>3
  <2>2. Aligned(n) = m % WORD
    BY <1>3 DEF Aligned
  <2> HIDE DEF m
  <2>3. m % WORD \in 0 .. WORD - 1 /\ (m < WORD => m % WORD = m)
    BY <2>1
  <2> QED
    BY <2>1, <2>2, <2>3
<1> QED
  BY <1>2, <1>3

\* memory_init leaves one free block, or no heap at all.
LEMMA InitIInv == Init => IInv
<1> SUFFICES ASSUME Init PROVE IInv
  OBVIOUS
<1>0. \A t \in Thread : pc[t] = "idle"
  BY DEF Init
<1>1. CASE heap_start \in Frames /\ heap = [b \in {heap_start} |-> FreeFrame]
           /\ frames = {heap_start}
  <2>1. /\ Blocks = {heap_start} /\ heap_start \in Nat /\ heap_start # NULL
        /\ heap[heap_start].next = NULL /\ heap[heap_start].free = TRUE
        /\ heap[heap_start].size = PMM_FRAME_SIZE - HEADER
    BY <1>1 DEF Blocks, FreeFrame
  <2>2. End(heap_start) = FrameEnd(heap_start) /\ FrameEnd(heap_start) \in Nat
    BY <2>1 DEF End, FrameEnd
  <2>3. DOMAIN live = {}
    BY DEF Init
  <2>4. TypeOK
    <3>1. \A b \in Blocks : heap[b] \in [next : Blocks \cup {NULL}, free : BOOLEAN,
                                         size : 0 .. PMM_FRAME_SIZE - HEADER]
      BY <1>1, <2>1 DEF FreeFrame
    <3>2. pc \in [Thread -> Places] /\ arg \in [Thread -> Nat]
      BY DEF Init, Places
    <3>3. heap_lock \in BOOLEAN
      BY DEF Init
    <3> QED
      BY <1>1, <2>1, <2>3, <3>1, <3>2, <3>3 DEF TypeOK, Init
  <2>5. Exclusive /\ Walked /\ Returning
    BY <1>0 DEF Exclusive, Walked, Returning, Inside
  <2>6. OneFrame
    BY <1>1, <2>1, <2>2 DEF OneFrame, Linked
  <2>7. Tiles
    BY <1>1, <2>1, <2>2 DEF Tiles
  <2>8. LiveKept /\ InUseIsOwned /\ Coalesced
    BY <2>1, <2>3 DEF LiveKept, InUseIsOwned, Coalesced
  <2> QED
    BY <2>4, <2>5, <2>6, <2>7, <2>8 DEF IInv
<1>2. CASE heap_start = NULL /\ heap = <<>> /\ frames = {}
  <2>1. Blocks = {} /\ DOMAIN live = {}
    BY <1>2 DEF Blocks, Init
  <2>2. TypeOK
    <3>1. heap_lock \in BOOLEAN
      BY DEF Init
    <3> QED
      BY <1>2, <2>1, <3>1 DEF TypeOK, Init, Places
  <2> QED
    BY <1>0, <1>2, <2>1, <2>2
       DEF IInv, Exclusive, Walked, Returning, Inside, OneFrame, Tiles,
           LiveKept, InUseIsOwned, Coalesced
<1> QED
  BY <1>1, <1>2 DEF Init

\* While the heap does not change, its shape and what callers own stay right.
LEMMA Unchanged ==
  ASSUME IInv, UNCHANGED <<heap, heap_start, frames, live>>
  PROVE  /\ Tiles' /\ LiveKept'
         /\ (Open' => Open) => OneFrame'
         /\ Blocks' = Blocks
         /\ \A b : Loose(b)' <=> Loose(b)
<1>1. Blocks' = Blocks
  BY DEF Blocks
<1>2. Tiles' /\ LiveKept'
  BY <1>1 DEF IInv, Tiles, LiveKept, End, FrameEnd
<1>3. \A b : Loose(b)' <=> Loose(b)
  BY DEF Loose, BothFree
<1>4. \A b : Linked(b) => Linked(b)'
  BY DEF Linked, End, FrameEnd
<1>5. (Open' => Open) => OneFrame'
  BY <1>1, <1>4 DEF IInv, OneFrame
<1> QED
  BY <1>1, <1>2, <1>3, <1>5

\* kmalloc begins.
LEMMA KmallocStep ==
  ASSUME IInv, NEW t \in Thread, NEW size \in Sizes, kmalloc(t, size)
  PROVE  IInv'
<1>0. /\ UNCHANGED <<heap, heap_start, frames, live>>
      /\ UNCHANGED <<heap_lock, current>>
      /\ pc[t] = "idle" /\ pc' = [pc EXCEPT ![t] = "malloc_lock"]
      /\ arg' = [arg EXCEPT ![t] = size]
  BY DEF kmalloc, Goto
<1>p. pc \in [Thread -> Places] /\ arg \in [Thread -> Nat] /\ size \in Nat
  BY DEF IInv, TypeOK
<1>1. TypeOK'
  BY <1>0, <1>p, Unchanged DEF IInv, TypeOK, Places
<1>2. Exclusive' /\ Returning'
  BY <1>0, <1>p, Unchanged DEF IInv, Exclusive, Returning, Inside
<1>3. Open' => Open
  BY <1>0, <1>p DEF Open, Inside
<1>5. InUseIsOwned'
  BY <1>0, <1>p, Unchanged DEF IInv, InUseIsOwned
<1>6. Coalesced'
  BY <1>0, Unchanged DEF IInv, Coalesced, Loose
<1>7. Walked'
  <2>1. \A u \in Thread : pc'[u] \in Inside => pc'[u] = pc[u]
    BY <1>0, <1>p DEF Inside
  <2> QED
    BY <1>0, <2>1, Unchanged DEF IInv, Walked, Inside
<1> QED
  BY <1>0, <1>1, <1>2, <1>3, <1>5, <1>6, <1>7, Unchanged DEF IInv

\* The types of the parts that belong to threads.
LEMMA ThreadTypes ==
  ASSUME IInv
  PROVE  pc \in [Thread -> Places] /\ arg \in [Thread -> Nat]
         /\ heap_start \in Blocks \cup {NULL}
BY DEF IInv, TypeOK, Tiles

\* kmalloc takes the lock.
LEMMA MallocLockStep ==
  ASSUME IInv, NEW t \in Thread, MallocLock(t)
  PROVE  IInv'
<1>0. /\ UNCHANGED <<heap, heap_start, frames, live>> /\ arg' = arg
      /\ pc[t] = "malloc_lock" /\ pc' = [pc EXCEPT ![t] = "scan"]
      /\ ~heap_lock /\ heap_lock' = TRUE /\ current' = heap_start
  BY DEF MallocLock, Goto
<1>1. TypeOK'
  BY <1>0, ThreadTypes, Unchanged DEF IInv, TypeOK, Places
<1>2. Exclusive' /\ Returning'
  BY <1>0, ThreadTypes, Unchanged DEF IInv, Exclusive, Returning, Inside
<1>3. Open' => Open
  BY <1>0 DEF Open
<1>5. InUseIsOwned'
  BY <1>0, ThreadTypes, Unchanged DEF IInv, InUseIsOwned
<1>6. Coalesced'
  BY <1>0 DEF Coalesced
<1>7. Walked'
  <2>1. \A u \in Thread : pc'[u] \in Inside => u = t
    BY <1>0, ThreadTypes DEF IInv, Exclusive, Inside
  <2>2. \A b \in Blocks : ~Loose(b)
    BY <1>0 DEF IInv, Coalesced, Loose
  <2> QED
    BY <1>0, <2>1, <2>2, ThreadTypes, Unchanged DEF Walked, Inside
<1> QED
  BY <1>0, <1>1, <1>2, <1>3, <1>5, <1>6, <1>7, Unchanged DEF IInv

\* kmalloc passes a block that does not do.
LEMMA ScanStep ==
  ASSUME IInv, NEW t \in Thread, Scan(t)
  PROVE  IInv'
<1>0. /\ UNCHANGED <<heap, heap_start, frames, live>>
      /\ arg' = arg /\ heap_lock' = heap_lock
      /\ pc[t] = "scan" /\ pc' = [pc EXCEPT ![t] = "scan"]
      /\ current # NULL /\ current' = heap[current].next
  BY DEF Scan, Goto
<1>p. pc' = pc
  BY <1>0, ThreadTypes
<1>1. TypeOK'
  <2>1. current' \in Blocks \cup {NULL}
    BY <1>0 DEF IInv, TypeOK
  <2> QED
    BY <1>0, <1>p, <2>1, Unchanged DEF IInv, TypeOK
<1>2. Exclusive' /\ Returning'
  BY <1>0, <1>p, Unchanged DEF IInv, Exclusive, Returning, Inside
<1>3. Open' => Open
  BY <1>0, <1>p DEF Open
<1>5. InUseIsOwned'
  BY <1>0, <1>p, Unchanged DEF IInv, InUseIsOwned
<1>6. Coalesced'
  BY <1>0, Unchanged DEF IInv, Coalesced, Loose
<1>7. Walked'
  <2>1. \A u \in Thread : pc[u] # "coalesce"
    BY <1>0 DEF IInv, Exclusive, Inside
  <2> QED
    BY <1>0, <1>p, <2>1, Unchanged DEF IInv, Walked
<1> QED
  BY <1>0, <1>1, <1>2, <1>3, <1>5, <1>6, <1>7, Unchanged DEF IInv

\* kmalloc gives up, or finds no list to append to.
LEMMA GiveUpStep ==
  ASSUME IInv, NEW t \in Thread, OutOfMemory(t) \/ ExpandFault(t)
  PROVE  IInv'
<1>0. /\ UNCHANGED <<heap, heap_start, frames, live, current>>
      /\ pc[t] = "scan"
      /\ arg' \in {arg, [arg EXCEPT ![t] = 0]}
      /\ \/ pc' = [pc EXCEPT ![t] = "idle"] /\ heap_lock' = FALSE
         \/ pc' = [pc EXCEPT ![t] = "fault"] /\ heap_lock' = heap_lock
  <2>1. CASE OutOfMemory(t)
    BY <2>1 DEF OutOfMemory, Goto, IInv, TypeOK
  <2>2. CASE ExpandFault(t)
    BY <2>2 DEF ExpandFault, Goto, IInv, TypeOK
  <2> QED
    BY <2>1, <2>2
<1>p. \A u \in Thread \ {t} : pc'[u] = pc[u] /\ arg'[u] = arg[u]
  BY <1>0, ThreadTypes
<1>q. pc'[t] \in {"idle", "fault"} /\ heap_lock
      /\ (pc'[t] = "fault" => heap_lock')
      /\ pc' \in [Thread -> Places] /\ arg' \in [Thread -> Nat]
      /\ heap_lock' \in BOOLEAN
  <2>1. heap_lock
    BY <1>0 DEF IInv, Exclusive, Inside
  <2>2. heap_lock' \in BOOLEAN
    BY <1>0 DEF IInv, TypeOK
  <2>3. pc' \in [Thread -> Places] /\ arg' \in [Thread -> Nat]
        /\ pc'[t] \in {"idle", "fault"}
    BY <1>0, ThreadTypes DEF Places
  <2>4. pc'[t] = "fault" => heap_lock' = heap_lock
    BY <1>0, ThreadTypes
  <2> QED
    BY <2>1, <2>2, <2>3, <2>4
<1>r. \A u \in Thread : pc[u] \in Inside => u = t
  BY <1>0 DEF IInv, Exclusive, Inside
<1>1. TypeOK'
  BY <1>0, <1>q, Unchanged DEF IInv, TypeOK
<1>2. Exclusive' /\ Returning'
  BY <1>0, <1>p, <1>q, <1>r, Unchanged DEF IInv, Exclusive, Returning, Inside
<1>3. Open
  BY <1>0 DEF Open, Inside
<1>5. InUseIsOwned'
  BY <1>0, <1>p, Unchanged DEF IInv, InUseIsOwned
<1>6. Coalesced'
  BY <1>0, Unchanged DEF IInv, Coalesced, Walked, Loose
<1>7. Walked'
  BY <1>p, <1>q, <1>r DEF Walked, Inside
<1> QED
  BY <1>0, <1>1, <1>2, <1>3, <1>5, <1>6, <1>7, Unchanged DEF IInv

\* Between two neighbours of the one frame there is nothing.
LEMMA Neighbours ==
  ASSUME IInv, Open, NEW b \in Blocks
  PROVE  /\ heap[b].next # NULL => /\ heap[b].next = End(b)
                                   /\ heap[b].next \in Blocks
                                   /\ b < heap[b].next
         /\ heap[b].next = NULL => /\ End(b) = FrameEnd(heap_start)
                                   /\ \A c \in Blocks : c <= b
         /\ \A c \in Blocks : b < c => heap[b].next # NULL /\ heap[b].next <= c
         /\ heap_start \in Nat /\ FrameEnd(heap_start) \in Nat
<1>0. TypeOK /\ Linked(b) /\ heap_start # NULL /\ heap_start \in Nat
  BY DEF IInv, OneFrame, TypeOK
<1>1. FrameEnd(heap_start) \in Nat
  BY <1>0 DEF FrameEnd
<1>2. heap[b].next # NULL => /\ heap[b].next = End(b)
                             /\ heap[b].next \in Blocks
                             /\ b < heap[b].next
  BY <1>0, BlockFields DEF Linked
<1>3. ASSUME heap[b].next = NULL, NEW c \in Blocks PROVE c <= b
  <2>1. End(b) = FrameEnd(heap_start)
    BY <1>0, <1>3, BlockFields DEF Linked
  <2>2. End(c) <= FrameEnd(heap_start) /\ End(c) > c
        /\ End(c) \in Nat /\ c \in Nat /\ b \in Nat
    BY <1>0, <1>3, BlockFields DEF IInv, OneFrame, Linked
  <2>3. b < c => End(b) <= c
    BY <1>3 DEF IInv, Tiles
  <2> QED
    BY <1>1, <2>1, <2>2, <2>3
<1>4. heap[b].next = NULL => End(b) = FrameEnd(heap_start)
  BY <1>0, BlockFields DEF Linked
<1>5. ASSUME NEW c \in Blocks, b < c
      PROVE  heap[b].next # NULL /\ heap[b].next <= c
  <2>1. c \in Nat /\ b \in Nat /\ End(b) <= c
    BY <1>0, <1>5, BlockFields DEF IInv, Tiles
  <2>2. heap[b].next # NULL
    BY <1>3, <1>5, <2>1
  <2> QED
    BY <1>2, <2>1, <2>2
<1> QED
  BY <1>0, <1>1, <1>2, <1>3, <1>4, <1>5

\* kfree's walk moves on: nothing to merge is left behind.
LEMMA MoveOnStep ==
  ASSUME IInv, NEW t \in Thread, MoveOn(t)
  PROVE  IInv'
<1>0. /\ UNCHANGED <<heap, heap_start, frames, live>>
      /\ arg' = arg /\ heap_lock' = heap_lock
      /\ pc[t] = "coalesce" /\ pc' = [pc EXCEPT ![t] = "coalesce"]
      /\ heap[current].next # NULL /\ ~BothFree(current)
      /\ current' = heap[current].next
  BY DEF MoveOn, Goto, More
<1>p. pc' = pc
  BY <1>0, ThreadTypes
<1>c. current \in Blocks /\ Open
  BY <1>0 DEF IInv, Walked, Open, Inside
<1>n. /\ current' \in Blocks /\ current' \in Nat /\ current \in Nat
      /\ \A b \in Blocks : b < current' => b <= current
  <2>1. /\ current' \in Blocks
        /\ \A c \in Blocks : current < c => current' <= c
    BY <1>0, <1>c, Neighbours
  <2>2. Blocks \subseteq Nat
    BY DEF IInv, TypeOK
  <2> QED
    BY <1>c, <2>1, <2>2
<1>1. TypeOK'
  BY <1>0, <1>p, <1>n, Unchanged DEF IInv, TypeOK
<1>2. Exclusive' /\ Returning'
  BY <1>0, <1>p, Unchanged DEF IInv, Exclusive, Returning, Inside
<1>3. Open' => Open
  BY <1>c
<1>5. InUseIsOwned'
  BY <1>0, <1>p, Unchanged DEF IInv, InUseIsOwned
<1>6. Coalesced'
  BY <1>0, Unchanged DEF IInv, Coalesced, Loose
<1>7. Walked'
  <2>1. \A u \in Thread : pc[u] # "scan"
    BY <1>0 DEF IInv, Exclusive, Inside
  <2>2. ASSUME NEW b \in Blocks, b < current' PROVE ~Loose(b)
    <3>1. b \in Nat /\ b <= current
      BY <1>n, <2>2 DEF IInv, TypeOK
    <3>2. CASE b = current
      BY <1>0, <3>2 DEF Loose
    <3>3. CASE b < current
      BY <1>0, <3>3, <2>2 DEF IInv, Walked
    <3> QED
      BY <1>n, <3>1, <3>2, <3>3
  <2> QED
    BY <1>0, <1>p, <1>n, <2>1, <2>2, Unchanged DEF Walked
<1> QED
  BY <1>0, <1>1, <1>2, <1>3, <1>5, <1>6, <1>7, Unchanged DEF IInv

\* kfree's walk has come to the end: nothing is left to merge.
LEMMA FreeDoneStep ==
  ASSUME IInv, NEW t \in Thread, FreeDone(t)
  PROVE  IInv'
<1>0. /\ UNCHANGED <<heap, heap_start, frames, live>>
      /\ pc[t] = "coalesce" /\ pc' = [pc EXCEPT ![t] = "idle"]
      /\ ~(current # NULL /\ heap[current].next # NULL)
      /\ current' = NULL /\ heap_lock' = FALSE
      /\ arg' = [arg EXCEPT ![t] = 0]
  BY DEF FreeDone, Goto, More
<1>c. current \in Blocks /\ current # NULL /\ heap[current].next = NULL /\ Open
  BY <1>0 DEF IInv, Walked, Open, Inside, TypeOK
<1>r. \A u \in Thread : pc'[u] \notin Inside
  BY <1>0, ThreadTypes DEF IInv, Exclusive, Inside
<1>1. TypeOK'
  BY <1>0, ThreadTypes, Unchanged DEF IInv, TypeOK, Places
<1>2. Exclusive' /\ Returning'
  BY <1>0, <1>r, ThreadTypes, Unchanged DEF IInv, Exclusive, Returning
<1>5. InUseIsOwned'
  BY <1>0, ThreadTypes, Unchanged DEF IInv, InUseIsOwned
<1>6. Coalesced'
  <2>1. ASSUME NEW b \in Blocks PROVE ~Loose(b)
    <3>1. b <= current /\ b \in Nat /\ current \in Nat
      BY <1>c, Neighbours DEF IInv, TypeOK
    <3>2. b < current => ~Loose(b)
      BY <1>0 DEF IInv, Walked
    <3>3. b = current => ~Loose(b)
      BY <1>c DEF Loose
    <3> QED
      BY <3>1, <3>2, <3>3
  <2> QED
    BY <1>0, <2>1, Unchanged DEF Coalesced, Loose
<1>7. Walked'
  BY <1>r DEF Walked, Inside
<1> QED
  BY <1>0, <1>1, <1>2, <1>c, <1>5, <1>6, <1>7, Unchanged DEF IInv

\* kfree begins: the pointer is no longer the caller's.
LEMMA KfreeStep ==
  ASSUME IInv, NEW t \in Thread, NEW ptr \in DOMAIN live, kfree(t, ptr)
  PROVE  IInv'
<1>0. /\ UNCHANGED <<heap, heap_start, frames, heap_lock, current>>
      /\ pc[t] = "idle" /\ pc' = [pc EXCEPT ![t] = "free_lock"]
      /\ arg' = [arg EXCEPT ![t] = ptr]
      /\ live' = [p \in DOMAIN live \ {ptr} |-> live[p]]
  BY DEF kfree, Goto
<1>l. /\ DOMAIN live' = DOMAIN live \ {ptr} /\ ptr \in Nat
      /\ \A p \in DOMAIN live' : live'[p] = live[p]
  BY <1>0 DEF IInv, TypeOK
<1>b. Blocks' = Blocks /\ (\A b : Loose(b)' <=> Loose(b))
  BY <1>0 DEF Blocks, Loose, BothFree
<1>p. \A u \in Thread \ {t} : pc'[u] = pc[u] /\ arg'[u] = arg[u]
  BY <1>0, ThreadTypes
<1>q. pc'[t] = "free_lock" /\ arg'[t] = ptr
  BY <1>0, ThreadTypes
<1>1. TypeOK'
  BY <1>0, <1>l, <1>b, ThreadTypes DEF IInv, TypeOK, Places
<1>2. Exclusive'
  BY <1>0, ThreadTypes DEF IInv, Exclusive, Inside
<1>3. OneFrame'
  <2>1. Open' => Open
    BY <1>0, ThreadTypes DEF Open, Inside
  <2>2. \A b : Linked(b) => Linked(b)'
    BY <1>0 DEF Linked, End, FrameEnd
  <2> QED
    BY <1>0, <1>b, <2>1, <2>2 DEF IInv, OneFrame
<1>4. Tiles'
  BY <1>0, <1>b DEF IInv, Tiles, End, FrameEnd
<1>5. LiveKept'
  BY <1>0, <1>l, <1>b DEF IInv, LiveKept
<1>6. InUseIsOwned'
  <2> SUFFICES ASSUME NEW b \in Blocks, ~heap[b].free
               PROVE  \/ b + HEADER \in DOMAIN live'
                      \/ \E u \in Thread : pc'[u] = "free_lock"
                                           /\ arg'[u] = b + HEADER
    BY <1>0, <1>b DEF InUseIsOwned
  <2>1. CASE b + HEADER \in DOMAIN live
    BY <1>l, <1>q, <2>1
  <2>2. CASE \E u \in Thread : pc[u] = "free_lock" /\ arg[u] = b + HEADER
    BY <1>0, <1>p, <2>2
  <2> QED
    BY <2>1, <2>2 DEF IInv, InUseIsOwned
<1>7. Coalesced'
  BY <1>0, <1>b DEF IInv, Coalesced, Loose
<1>8. Walked'
  BY <1>0, <1>b, <1>p, <1>q DEF IInv, Walked
<1>9. Returning'
  <2>1. ASSUME NEW u \in Thread, pc'[u] = "free_lock"
        PROVE  /\ arg'[u] - HEADER \in Blocks /\ ~heap[arg'[u] - HEADER].free
               /\ arg'[u] \notin DOMAIN live'
    <3>1. CASE u = t
      BY <1>l, <1>q, <3>1 DEF IInv, LiveKept
    <3>2. CASE u # t
      BY <1>l, <1>p, <3>2, <2>1 DEF IInv, Returning
    <3> QED
      BY <3>1, <3>2
  <2>2. ASSUME NEW u \in Thread \ {t}, pc[u] = "free_lock" PROVE arg[u] # ptr
    BY <2>2 DEF IInv, Returning
  <2>3. ASSUME NEW u \in Thread, NEW v \in Thread,
               pc'[u] = "free_lock", pc'[v] = "free_lock", arg'[u] = arg'[v]
        PROVE  u = v
    <3>1. CASE u # t /\ v # t
      BY <1>p, <3>1, <2>3 DEF IInv, Returning
    <3>2. CASE u = t \/ v = t
      BY <1>p, <1>q, <2>2, <2>3, <3>2
    <3> QED
      BY <3>1, <3>2
  <2> QED
    BY <1>0, <1>b, <2>1, <2>3 DEF Returning
<1> QED
  BY <1>1, <1>2, <1>3, <1>4, <1>5, <1>6, <1>7, <1>8, <1>9 DEF IInv

\* kfree takes the lock and marks its block.
LEMMA FreeLockStep ==
  ASSUME IInv, NEW t \in Thread, FreeLock(t)
  PROVE  IInv'
<1> DEFINE x == arg[t] - HEADER
<1>0. /\ UNCHANGED <<heap_start, frames, live>> /\ arg' = arg
      /\ pc[t] = "free_lock" /\ pc' = [pc EXCEPT ![t] = "coalesce"]
      /\ ~heap_lock /\ heap_lock' = TRUE /\ current' = heap_start
      /\ heap' = [heap EXCEPT ![x].free = TRUE]
  BY DEF FreeLock, Goto
<1>x. x \in Blocks /\ arg[t] \notin DOMAIN live /\ arg[t] \in Nat
  BY <1>0, ThreadTypes DEF IInv, Returning
<1>h. /\ Blocks' = Blocks
      /\ \A b \in Blocks : /\ heap'[b].next = heap[b].next
                           /\ heap'[b].size = heap[b].size
                           /\ b # x => heap'[b] = heap[b]
      /\ heap'[x].free = TRUE
      /\ \A b \in Blocks : heap'[b] \in [next : Blocks \cup {NULL}, free : BOOLEAN,
                                         size : 0 .. PMM_FRAME_SIZE - HEADER]
  BY <1>0, <1>x DEF Blocks, IInv, TypeOK
<1> HIDE DEF x
<1>e. \A b \in Blocks : End(b)' = End(b)
  BY <1>h DEF End
<1>p. \A u \in Thread \ {t} : pc'[u] = pc[u]
  BY <1>0, ThreadTypes
<1>q. pc'[t] = "coalesce" /\ \A u \in Thread : pc'[u] \in Inside => u = t
  BY <1>0, ThreadTypes DEF IInv, Exclusive, Inside
<1>o. Open
  BY <1>0 DEF Open
<1>1. TypeOK'
  BY <1>0, <1>h, ThreadTypes DEF IInv, TypeOK, Places
<1>2. Exclusive'
  BY <1>0, <1>q DEF Exclusive
<1>3. OneFrame'
  <2>1. \A b \in Blocks : Linked(b)'
    BY <1>0, <1>h, <1>e, <1>o DEF IInv, OneFrame, Linked, FrameEnd
  <2> QED
    BY <1>0, <1>h, <1>o, <2>1 DEF IInv, OneFrame
<1>4. Tiles'
  BY <1>0, <1>h, <1>e DEF IInv, Tiles, FrameEnd
<1>5. LiveKept'
  <2> SUFFICES ASSUME NEW p \in DOMAIN live
               PROVE  /\ p - HEADER \in Blocks
                      /\ ~heap'[p - HEADER].free
                      /\ live[p] <= WORD - HEADER => heap'[p - HEADER].size >= live[p]
    BY <1>0, <1>h DEF LiveKept
  <2>1. p - HEADER # x
    BY <1>x DEF x, IInv, TypeOK
  <2> QED
    BY <1>h, <2>1 DEF IInv, LiveKept
<1>6. InUseIsOwned'
  <2> SUFFICES ASSUME NEW b \in Blocks, ~heap'[b].free
               PROVE  \/ b + HEADER \in DOMAIN live
                      \/ \E u \in Thread : pc'[u] = "free_lock"
                                           /\ arg[u] = b + HEADER
    BY <1>0, <1>h DEF InUseIsOwned
  <2>1. b # x /\ b \in Nat
    BY <1>h DEF IInv, TypeOK
  <2>2. ~heap[b].free
    BY <1>h, <2>1
  <2>3. arg[t] # b + HEADER
    BY <1>x, <2>1 DEF x
  <2> QED
    BY <1>p, <2>2, <2>3 DEF IInv, InUseIsOwned
<1>7. Coalesced'
  BY <1>0 DEF Coalesced
<1>8. Walked'
  <2>1. heap_start # NULL /\ heap_start \in Blocks
    BY <1>x, <1>o, ThreadTypes DEF IInv, OneFrame
  <2>2. \A b \in Blocks : ~(b < heap_start)
    <3>1. \A b \in Blocks : heap_start <= b /\ b \in Nat /\ heap_start \in Nat
      BY <1>o, <2>1 DEF IInv, OneFrame, Linked, TypeOK
    <3> QED
      BY <3>1
  <2> QED
    BY <1>0, <1>h, <1>q, <2>1, <2>2 DEF Walked, Inside
<1>9. Returning'
  <2>1. ASSUME NEW u \in Thread, pc'[u] = "free_lock"
        PROVE  /\ arg[u] - HEADER \in Blocks /\ ~heap'[arg[u] - HEADER].free
               /\ arg[u] \notin DOMAIN live
    <3>1. u # t /\ pc[u] = "free_lock"
      BY <1>p, <1>q, <2>1
    <3>2. arg[u] # arg[t] /\ arg[u] \in Nat
      BY <1>0, <3>1, ThreadTypes DEF IInv, Returning
    <3>3. arg[u] - HEADER # x
      BY <1>x, <3>2 DEF x
    <3> QED
      BY <1>h, <3>1, <3>3 DEF IInv, Returning
  <2>2. \A u \in Thread : pc'[u] = "free_lock" => pc[u] = "free_lock"
    BY <1>p, <1>q
  <2> QED
    BY <1>0, <1>h, <2>1, <2>2 DEF IInv, Returning
<1> QED
  BY <1>1, <1>2, <1>3, <1>4, <1>5, <1>6, <1>7, <1>8, <1>9 DEF IInv

\* An expansion appends a frame and leaves the heap locked.
LEMMA ExpandStep ==
  ASSUME IInv, NEW t \in Thread, NEW f \in Frames, Expand(t, f)
  PROVE  IInv'
<1>0. /\ UNCHANGED <<heap_start, heap_lock, current, live>>
      /\ pc[t] = "scan" /\ pc' = [pc EXCEPT ![t] = "malloc_lock"]
      /\ heap_start # NULL /\ f \notin frames /\ frames' = frames \cup {f}
      /\ arg' = [arg EXCEPT ![t] = Aligned(arg[t])]
      /\ heap' = [b \in Blocks \cup {f} |->
                    IF b = f THEN FreeFrame
                    ELSE IF heap[b].next = NULL THEN [heap[b] EXCEPT !.next = f]
                    ELSE heap[b]]
  BY DEF Expand, Goto
<1>o. Open /\ heap_lock
  BY <1>0 DEF Open, IInv, Exclusive, Inside
<1>f. /\ f \in Nat /\ frames = {heap_start} /\ heap_start \in Frames
      /\ heap_start \in Nat
  BY <1>0, <1>o DEF IInv, OneFrame, TypeOK
<1>g. /\ FrameEnd(f) \in Nat /\ FrameEnd(heap_start) \in Nat
      /\ FrameEnd(f) <= heap_start \/ FrameEnd(heap_start) <= f
  BY <1>0, <1>f DEF FrameEnd
<1>s. ASSUME NEW b \in Blocks
      PROVE  /\ b \in Nat /\ End(b) \in Nat /\ b # f
             /\ FrameEnd(f) <= b \/ End(b) <= f
    <2>1. /\ heap_start <= b /\ End(b) <= FrameEnd(heap_start)
          /\ b \in Nat /\ End(b) \in Nat /\ End(b) > b
      BY <1>o, <1>s, BlockFields DEF IInv, OneFrame, Linked
    <2>2. FrameEnd(f) > f
      BY <1>f DEF FrameEnd
    <2> QED
      BY <2>1, <2>2, <1>f, <1>g
<1>h. /\ Blocks' = Blocks \cup {f}
      /\ heap'[f] = FreeFrame
      /\ \A b \in Blocks : /\ heap'[b].size = heap[b].size
                           /\ heap'[b].free = heap[b].free
                           /\ heap'[b].next = IF heap[b].next = NULL THEN f
                                              ELSE heap[b].next
      /\ \A b \in Blocks : heap'[b] \in [next : Blocks \cup {f}, free : BOOLEAN,
                                         size : 0 .. PMM_FRAME_SIZE - HEADER]
  <2>1. Blocks' = Blocks \cup {f} /\ heap'[f] = FreeFrame
    BY <1>0 DEF Blocks
  <2>2. ASSUME NEW b \in Blocks
        PROVE  /\ heap'[b].size = heap[b].size
               /\ heap'[b].free = heap[b].free
               /\ heap'[b].next = IF heap[b].next = NULL THEN f
                                  ELSE heap[b].next
               /\ heap'[b] \in [next : Blocks \cup {f}, free : BOOLEAN,
                                size : 0 .. PMM_FRAME_SIZE - HEADER]
    <3>1. heap'[b] = IF heap[b].next = NULL THEN [heap[b] EXCEPT !.next = f]
                     ELSE heap[b]
      BY <1>0, <1>s
    <3>2. heap[b] \in [next : Blocks \cup {NULL}, free : BOOLEAN,
                       size : 0 .. PMM_FRAME_SIZE - HEADER]
      BY DEF IInv, TypeOK
    <3> QED
      BY <3>1, <3>2
  <2> QED
    BY <2>1, <2>2
<1>e. /\ \A b \in Blocks : End(b)' = End(b)
      /\ End(f)' = FrameEnd(f)
  BY <1>f, <1>h DEF End, FrameEnd, FreeFrame
<1>p. \A u \in Thread \ {t} : pc'[u] = pc[u] /\ arg'[u] = arg[u]
  BY <1>0, ThreadTypes
<1>q. pc'[t] = "malloc_lock" /\ \A u \in Thread : pc'[u] \notin Inside
  BY <1>0, ThreadTypes DEF IInv, Exclusive, Inside
<1>1. TypeOK'
  <2>1. arg' \in [Thread -> Nat] /\ pc' \in [Thread -> Places]
    BY <1>0, ThreadTypes, AlignedSize DEF Places
  <2>2. FreeFrame \in [next : {NULL}, free : BOOLEAN,
                       size : 0 .. PMM_FRAME_SIZE - HEADER]
    BY DEF FreeFrame
  <2>3. \A b \in Blocks' : heap'[b] \in
           [next : Blocks' \cup {NULL}, free : BOOLEAN,
            size : 0 .. PMM_FRAME_SIZE - HEADER]
    BY <1>h, <2>2
  <2>4. /\ frames' \subseteq Frames /\ heap_start' \in frames' \cup {NULL}
        /\ Blocks' \subseteq Nat /\ current' \in Blocks' \cup {NULL}
        /\ DOMAIN live' \subseteq Nat
    BY <1>0, <1>f, <1>h DEF IInv, TypeOK
  <2>5. heap_lock' \in BOOLEAN
    BY <1>0 DEF IInv, TypeOK
  <2> QED
    BY <2>1, <2>3, <2>4, <2>5 DEF TypeOK
<1>2. Exclusive' /\ Walked'
  BY <1>q DEF Exclusive, Walked, Inside
<1>3. OneFrame' /\ Coalesced'
  BY <1>0, <1>o, <1>q DEF OneFrame, Open, Coalesced
<1>4. Tiles'
  <2>1. frames' \subseteq Blocks'
    BY <1>0, <1>h DEF IInv, Tiles
  <2>2. ASSUME NEW b \in Blocks'
        PROVE  \/ heap'[b].next = End(b)'
               \/ /\ heap'[b].next \in frames' \cup {NULL}
                  /\ \E g \in frames' : End(b)' = FrameEnd(g)
    <3>1. CASE b = f
      BY <1>0, <1>e, <1>h, <3>1 DEF FreeFrame
    <3>2. CASE b \in Blocks /\ heap[b].next = NULL
      BY <1>0, <1>e, <1>f, <1>h, <1>o, <3>2, Neighbours
    <3>3. CASE b \in Blocks /\ heap[b].next # NULL
      BY <1>e, <1>h, <1>o, <3>3, Neighbours
    <3> QED
      BY <1>h, <3>1, <3>2, <3>3
  <2>3. ASSUME NEW b \in Blocks', NEW c \in Blocks', b < c
        PROVE  End(b)' <= c
    <3>1. CASE b \in Blocks /\ c \in Blocks
      BY <1>e, <2>3, <3>1 DEF IInv, Tiles
    <3>2. CASE b = f /\ c \in Blocks
      <4>1. FrameEnd(f) <= c \/ End(c) <= f
        BY <1>s, <3>2
      <4>2. End(c) > c /\ End(c) \in Nat /\ c \in Nat
        BY <3>2, BlockFields DEF IInv
      <4> QED
        BY <1>e, <1>f, <1>g, <2>3, <3>2, <4>1, <4>2
    <3>3. CASE b \in Blocks /\ c = f
      <4>1. FrameEnd(f) <= b \/ End(b) <= f
        BY <1>s, <3>3
      <4>2. FrameEnd(f) > f /\ b \in Nat
        BY <1>f, <1>s, <3>3 DEF FrameEnd
      <4> QED
        BY <1>e, <1>f, <1>g, <2>3, <3>3, <4>1, <4>2
    <3> QED
      BY <1>f, <1>h, <2>3, <3>1, <3>2, <3>3
  <2>4. \A g : FrameEnd(g)' = FrameEnd(g)
    BY DEF FrameEnd
  <2> QED
    BY <2>1, <2>2, <2>3, <2>4 DEF Tiles
<1>5. LiveKept'
  BY <1>0, <1>h, <1>s DEF IInv, LiveKept
<1>6. InUseIsOwned'
  <2> SUFFICES ASSUME NEW b \in Blocks', ~heap'[b].free
               PROVE  \/ b + HEADER \in DOMAIN live
                      \/ \E u \in Thread : pc'[u] = "free_lock"
                                           /\ arg'[u] = b + HEADER
    BY <1>0 DEF InUseIsOwned
  <2>1. b \in Blocks /\ ~heap[b].free
    BY <1>h DEF FreeFrame
  <2> QED
    BY <1>0, <1>p, <2>1 DEF IInv, InUseIsOwned
<1>7. Returning'
  BY <1>0, <1>h, <1>p, <1>q DEF IInv, Returning
<1> QED
  BY <1>1, <1>2, <1>3, <1>4, <1>5, <1>6, <1>7 DEF IInv

\* kfree merges a block with its successor.
LEMMA MergeStep ==
  ASSUME IInv, NEW t \in Thread, Merge(t)
  PROVE  IInv'
<1> DEFINE n == heap[current].next
<1>0. /\ UNCHANGED <<heap_start, heap_lock, frames, arg, current, live>>
      /\ pc[t] = "coalesce" /\ pc' = [pc EXCEPT ![t] = "coalesce"]
      /\ current # NULL /\ n # NULL /\ heap[current].free /\ heap[n].free
      /\ heap' = [b \in Blocks \ {n} |->
                    IF b = current
                    THEN [next |-> heap[n].next, free |-> TRUE,
                          size |-> heap[b].size + heap[n].size + HEADER]
                    ELSE heap[b]]
  BY DEF Merge, Goto, More, BothFree
<1>p. pc' = pc
  BY <1>0, ThreadTypes
<1>c. current \in Blocks /\ Open /\ heap_lock
  BY <1>0 DEF IInv, Walked, Exclusive, Open, Inside
<1>n. /\ n \in Blocks /\ n = End(current) /\ current < n
      /\ \A c \in Blocks : current < c => n <= c
      /\ heap_start \in Nat /\ FrameEnd(heap_start) \in Nat
  BY <1>0, <1>c, Neighbours
<1>t. TypeOK /\ current \in Nat /\ n \in Nat /\ Blocks \subseteq Nat
  BY <1>c, <1>n DEF IInv, TypeOK
<1>h. /\ Blocks' = Blocks \ {n} /\ current \in Blocks'
      /\ heap'[current].next = heap[n].next /\ heap'[current].free = TRUE
      /\ heap'[current].size = heap[current].size + heap[n].size + HEADER
      /\ \A b \in Blocks' \ {current} : heap'[b] = heap[b]
  BY <1>0, <1>c, <1>n, <1>t DEF Blocks
<1>u. \A b \in Blocks \ {current} : heap[b].next # n
  <2> SUFFICES ASSUME NEW b \in Blocks, b # current, heap[b].next = n
               PROVE  FALSE
    OBVIOUS
  <2>1. n = End(b) /\ b \in Nat /\ End(b) > b /\ End(b) \in Nat
    BY <1>c, <1>n, <1>t, Neighbours, BlockFields
  <2>2. b < current => End(b) <= current
    BY <1>c DEF IInv, Tiles
  <2>3. current < b => n <= b
    BY <1>n
  <2> QED
    BY <1>n, <1>t, <2>1, <2>2, <2>3
<1>m. heap[n].next # n
  BY <1>c, <1>n, <1>t, Neighbours
<1> HIDE DEF n
<1>e. /\ \A b \in {current} : End(b)' = End(n)
      /\ \A b \in Blocks' \ {current} : End(b)' = End(b)
  <2>1. /\ heap[current].size \in Nat /\ heap[n].size \in Nat
        /\ n = current + HEADER + heap[current].size
    BY <1>c, <1>n, <1>t, BlockFields DEF End
  <2>2. \A b \in {current} : End(b)' = current + HEADER + heap'[current].size
    BY DEF End
  <2>3. End(n) = n + HEADER + heap[n].size
    BY DEF End
  <2>4. \A b \in {current} : End(b)' = End(n)
    BY <1>h, <1>t, <2>1, <2>2, <2>3
  <2>5. \A b \in Blocks' \ {current} : End(b)' = End(b)
    BY <1>h DEF End
  <2> QED
    BY <2>4, <2>5
<1>g. \A b : FrameEnd(b)' = FrameEnd(b)
  BY DEF FrameEnd
<1>k. ASSUME NEW b \in Blocks, ~heap[b].free
      PROVE  b \in Blocks' /\ b # current /\ heap'[b] = heap[b]
  BY <1>0, <1>h, <1>k DEF n
<1>1. TypeOK'
  <2>1. heap'[current].size \in 0 .. PMM_FRAME_SIZE - HEADER
    <3>1. heap_start <= current /\ End(n) <= FrameEnd(heap_start) /\ End(n) \in Nat
      BY <1>c, <1>n, <1>t, BlockFields DEF IInv, OneFrame, Linked
    <3>2. End(n) = current + HEADER + heap'[current].size
      <4>1. \A b \in {current} : End(b)' = current + HEADER + heap'[current].size
        BY DEF End
      <4> QED
        BY <1>e, <4>1
    <3>3. heap'[current].size \in Nat
      BY <1>c, <1>h, <1>n, <1>t, BlockFields
    <3>4. FrameEnd(heap_start) = heap_start + PMM_FRAME_SIZE
      BY DEF FrameEnd
    <3> QED
      BY <1>n, <1>t, <3>1, <3>2, <3>3, <3>4
  <2>2. heap'[current].next \in Blocks' \cup {NULL}
    BY <1>h, <1>m, <1>n, <1>t, BlockFields
  <2>3. heap'[current] \in [next : Blocks' \cup {NULL}, free : BOOLEAN,
                            size : 0 .. PMM_FRAME_SIZE - HEADER]
    <3> DEFINE size == heap[current].size + heap[n].size + HEADER
    <3>1. heap'[current] = [next |-> heap[n].next, free |-> TRUE, size |-> size]
      BY <1>0, <1>h DEF n
    <3>2. size \in 0 .. PMM_FRAME_SIZE - HEADER
          /\ heap[n].next \in Blocks' \cup {NULL}
      BY <1>h, <2>1, <2>2
    <3> HIDE DEF size
    <3> QED
      BY <3>1, <3>2
  <2>4. ASSUME NEW b \in Blocks' \ {current}
        PROVE  heap'[b] \in [next : Blocks' \cup {NULL}, free : BOOLEAN,
                             size : 0 .. PMM_FRAME_SIZE - HEADER]
    <3>1. heap[b] \in [next : Blocks \cup {NULL}, free : BOOLEAN,
                       size : 0 .. PMM_FRAME_SIZE - HEADER]
      BY <1>h, <1>t DEF TypeOK
    <3>2. heap[b].next # n /\ heap'[b] = heap[b]
      BY <1>h, <1>u
    <3> QED
      BY <1>h, <3>1, <3>2
  <2>5. current' \in Blocks' \cup {NULL} /\ Blocks' \subseteq Nat
    BY <1>0, <1>h, <1>t
  <2>6. heap_lock' \in BOOLEAN
    BY <1>0 DEF IInv, TypeOK
  <2>7. /\ frames' \subseteq Frames /\ heap_start' \in frames' \cup {NULL}
        /\ pc' \in [Thread -> Places] /\ arg' \in [Thread -> Nat]
        /\ DOMAIN live' \subseteq Nat
    BY <1>0, <1>p DEF IInv, TypeOK
  <2> QED
    BY <2>3, <2>4, <2>5, <2>6, <2>7 DEF TypeOK
<1>2. Exclusive'
  BY <1>0, <1>p DEF IInv, Exclusive
<1>l. ASSUME NEW b \in Blocks'
      PROVE  /\ heap_start <= b /\ End(b)' <= FrameEnd(heap_start)
             /\ \/ heap'[b].next = End(b)'
                \/ heap'[b].next = NULL /\ End(b)' = FrameEnd(heap_start)
  <2>1. CASE b = current
    <3>1. heap_start <= current
      BY <1>c DEF IInv, OneFrame, Linked
    <3>2. /\ End(n) <= FrameEnd(heap_start)
          /\ \/ heap[n].next = End(n)
             \/ heap[n].next = NULL /\ End(n) = FrameEnd(heap_start)
      BY <1>c, <1>n DEF IInv, OneFrame, Linked
    <3> QED
      BY <1>e, <1>h, <2>1, <3>1, <3>2
  <2>2. CASE b # current
    <3>1. Linked(b)
      BY <1>c, <1>h DEF IInv, OneFrame
    <3> QED
      BY <1>e, <1>h, <2>2, <3>1 DEF Linked
  <2> QED
    BY <2>1, <2>2
<1>f. heap_start # NULL /\ frames = {heap_start} /\ heap_start \in Blocks'
  <2>1. heap_start # NULL /\ frames = {heap_start} /\ heap_start <= current
    BY <1>c DEF IInv, OneFrame, Linked
  <2>2. heap_start \in Blocks /\ heap_start # n
    BY <1>n, <1>t, <2>1, ThreadTypes
  <2> QED
    BY <1>h, <2>1, <2>2
<1>3. OneFrame'
  BY <1>0, <1>f, <1>g, <1>l DEF OneFrame, Linked
<1>4. Tiles'
  <2>1. ASSUME NEW b \in Blocks', NEW c \in Blocks', b < c
        PROVE  End(b)' <= c
    <3>1. b \in Blocks /\ c \in Blocks /\ c # n /\ c \in Nat /\ b \in Nat
      BY <1>h, <1>t
    <3>2. CASE b = current
      <4>1. n < c
        BY <1>n, <1>t, <2>1, <3>1, <3>2
      <4>2. End(n) <= c
        BY <1>n, <3>1, <4>1 DEF IInv, Tiles
      <4> QED
        BY <1>e, <3>2, <4>2
    <3>3. CASE b # current
      BY <1>e, <2>1, <3>1, <3>3 DEF IInv, Tiles
    <3> QED
      BY <3>2, <3>3
  <2>2. frames' \subseteq Blocks'
    BY <1>0, <1>f
  <2>3. \A b \in Blocks' :
          \/ heap'[b].next = End(b)'
          \/ /\ heap'[b].next \in frames' \cup {NULL}
             /\ \E f \in frames' : End(b)' = FrameEnd(f)'
    BY <1>0, <1>f, <1>g, <1>l
  <2> QED
    BY <2>1, <2>2, <2>3 DEF Tiles
<1>5. LiveKept'
  BY <1>0, <1>k DEF IInv, LiveKept
<1>6. InUseIsOwned'
  <2> SUFFICES ASSUME NEW b \in Blocks', ~heap'[b].free
               PROVE  \/ b + HEADER \in DOMAIN live
                      \/ \E u \in Thread : pc[u] = "free_lock"
                                           /\ arg[u] = b + HEADER
    BY <1>0, <1>p DEF InUseIsOwned
  <2>1. b \in Blocks /\ ~heap[b].free
    BY <1>h
  <2> QED
    BY <2>1 DEF IInv, InUseIsOwned
<1>7. Coalesced'
  BY <1>0, <1>c DEF Coalesced
<1>8. Walked'
  <2>1. \A u \in Thread : pc[u] # "scan"
    BY <1>0 DEF IInv, Exclusive, Inside
  <2>2. ASSUME NEW b \in Blocks', b < current PROVE ~Loose(b)'
    <3> SUFFICES ASSUME heap'[b].next # NULL, heap'[b].free,
                        heap'[heap'[b].next].free
                 PROVE  FALSE
      BY DEF Loose, BothFree
    <3>1. b \in Blocks /\ b # current /\ b \in Nat /\ heap'[b] = heap[b]
      BY <1>h, <1>t, <2>2
    <3>2. ~Loose(b)
      BY <1>0, <2>2, <3>1 DEF IInv, Walked
    <3>3. ~heap[heap[b].next].free
      BY <3>1, <3>2 DEF Loose, BothFree
    <3>4. heap[b].next \in Blocks
      BY <1>t, <3>1, BlockFields
    <3>5. heap'[heap[b].next] = heap[heap[b].next]
      BY <1>k, <3>3, <3>4
    <3> QED
      BY <3>1, <3>3, <3>5
  <2> QED
    BY <1>0, <1>h, <1>p, <2>1, <2>2 DEF Walked
<1>9. Returning'
  <2>1. ASSUME NEW u \in Thread, pc[u] = "free_lock"
        PROVE  /\ arg[u] - HEADER \in Blocks'
               /\ ~heap'[arg[u] - HEADER].free /\ arg[u] \notin DOMAIN live
    <3>1. /\ arg[u] - HEADER \in Blocks /\ ~heap[arg[u] - HEADER].free
          /\ arg[u] \notin DOMAIN live
      BY <2>1 DEF IInv, Returning
    <3> QED
      BY <1>k, <3>1
  <2>2. \A u, v \in Thread :
          pc[u] = "free_lock" /\ pc[v] = "free_lock" /\ arg[u] = arg[v] => u = v
    BY DEF IInv, Returning
  <2> QED
    BY <1>0, <1>p, <2>1, <2>2 DEF Returning
<1> QED
  BY <1>1, <1>2, <1>3, <1>4, <1>5, <1>6, <1>7, <1>8, <1>9 DEF IInv

\* What taking a block of at least need bytes leaves of the list: the taken
\* block is in use, the others are as they were, a new one is free.
Taken(c, need) ==
  /\ Blocks \subseteq Blocks' /\ Blocks' \subseteq Nat
  /\ heap'[c].free = FALSE /\ heap'[c].size >= need
  /\ \A b \in Blocks \ {c} : heap'[b] = heap[b]
  /\ \A b \in Blocks' \ Blocks : heap'[b].free
  /\ \A b \in Blocks' :
       /\ heap'[b] \in [next : Blocks' \cup {NULL}, free : BOOLEAN,
                        size : 0 .. PMM_FRAME_SIZE - HEADER]
       /\ heap_start <= b /\ End(b)' <= FrameEnd(heap_start)
       /\ \/ heap'[b].next = End(b)'
          \/ heap'[b].next = NULL /\ End(b)' = FrameEnd(heap_start)
       /\ ~Loose(b)'
  /\ \A b, d \in Blocks' : b < d => End(b)' <= d

\* A block that does not leave room for another is taken whole.
LEMMA TakeWhole ==
  ASSUME IInv, Open, NEW c \in Blocks, NEW need \in Nat,
         \A b \in Blocks : ~Loose(b),
         Fits(c, need), heap' = [heap EXCEPT ![c].free = FALSE]
  PROVE  Taken(c, need)
<1>t. TypeOK /\ Blocks \subseteq Nat
  BY DEF IInv, TypeOK
<1>h. /\ Blocks' = Blocks
      /\ heap'[c].free = FALSE
      /\ \A b \in Blocks \ {c} : heap'[b] = heap[b]
      /\ \A b \in Blocks : /\ heap'[b].next = heap[b].next
                           /\ heap'[b].size = heap[b].size
                           /\ heap'[b] \in [next : Blocks \cup {NULL}, free : BOOLEAN,
                                            size : 0 .. PMM_FRAME_SIZE - HEADER]
  <2>1. Blocks' = Blocks /\ heap'[c] = [heap[c] EXCEPT !.free = FALSE]
        /\ \A b \in Blocks \ {c} : heap'[b] = heap[b]
    BY DEF Blocks
  <2>2. \A b \in Blocks : heap[b] \in [next : Blocks \cup {NULL}, free : BOOLEAN,
                                       size : 0 .. PMM_FRAME_SIZE - HEADER]
    BY <1>t DEF TypeOK
  <2>3. /\ heap'[c].free = FALSE /\ heap'[c].next = heap[c].next
        /\ heap'[c].size = heap[c].size
        /\ heap'[c] \in [next : Blocks \cup {NULL}, free : BOOLEAN,
                         size : 0 .. PMM_FRAME_SIZE - HEADER]
    <3>1. heap[c] \in [next : Blocks \cup {NULL}, free : BOOLEAN,
                       size : 0 .. PMM_FRAME_SIZE - HEADER]
      BY <2>2
    <3>2. heap'[c] = [heap[c] EXCEPT !.free = FALSE]
      BY <2>1
    <3>3. heap'[c].free = FALSE /\ heap'[c].next = heap[c].next
          /\ heap'[c].size = heap[c].size
      BY <3>1, <3>2
    <3> QED
      BY <3>1, <3>2, <3>3
  <2> QED
    BY <2>1, <2>2, <2>3
<1>e. \A b \in Blocks : End(b)' = End(b)
  BY <1>h DEF End
<1>1. \A b \in Blocks : /\ heap_start <= b /\ End(b)' <= FrameEnd(heap_start)
                        /\ \/ heap'[b].next = End(b)'
                           \/ heap'[b].next = NULL /\ End(b)' = FrameEnd(heap_start)
  BY <1>e, <1>h DEF IInv, OneFrame, Linked
<1>2. \A b, d \in Blocks : b < d => End(b)' <= d
  BY <1>e DEF IInv, Tiles
<1>3. ASSUME NEW b \in Blocks PROVE ~Loose(b)'
  <2>1. \A d \in Blocks : heap'[d].free => heap[d].free
    BY <1>h
  <2>2. heap[b].next \in Blocks \cup {NULL} /\ ~Loose(b)
    BY <1>t, BlockFields
  <2> QED
    BY <1>h, <2>1, <2>2 DEF Loose, BothFree
<1>4. heap'[c].size >= need
  BY <1>h DEF Fits
<1> QED
  BY <1>h, <1>t, <1>1, <1>2, <1>3, <1>4 DEF Taken

\* A larger one is split: the rest becomes a free block of its own.
LEMMA TakeSplit ==
  ASSUME IInv, Open, NEW c \in Blocks, NEW need \in Nat,
         \A b \in Blocks : ~Loose(b),
         Fits(c, need), Splits(c, need), heap' = Carve(c, need)
  PROVE  Taken(c, need)
<1> DEFINE rest == c + HEADER + need
<1>t. TypeOK /\ Blocks \subseteq Nat /\ c \in Nat /\ heap[c].size \in Nat
      /\ heap[c].size <= PMM_FRAME_SIZE - HEADER
      /\ heap[c].size > need + HEADER /\ heap[c].free
      /\ End(c) = c + HEADER + heap[c].size
  <2>1. TypeOK
    BY DEF IInv
  <2> QED
    BY <2>1, BlockFields DEF TypeOK, Splits, Fits, End
<1>r. rest \in Nat /\ c < rest /\ rest + HEADER < End(c) /\ End(c) \in Nat
  BY <1>t
<1>d. /\ \A b \in Blocks : c < b => End(c) <= b
      /\ \A b \in Blocks : b < c => End(b) <= c
  BY DEF IInv, Tiles
<1>o. rest \notin Blocks
  BY <1>d, <1>r, <1>t
<1>h. /\ Blocks' = Blocks \cup {rest}
      /\ heap'[c] = [next |-> rest, size |-> need, free |-> FALSE]
      /\ heap'[rest] = [next |-> heap[c].next, free |-> TRUE,
                        size |-> heap[c].size - need - HEADER]
      /\ \A b \in Blocks \ {c} : heap'[b] = heap[b]
  <2>1. heap' = [b \in Blocks \cup {rest} |->
                   IF b = c THEN [next |-> rest, size |-> need, free |-> FALSE]
                   ELSE IF b = rest THEN [next |-> heap[c].next,
                                          size |-> heap[c].size - need - HEADER,
                                          free |-> TRUE]
                   ELSE heap[b]]
    BY DEF Carve
  <2> HIDE DEF rest
  <2>2. rest # c
    BY <1>o
  <2> QED
    BY <1>o, <2>1, <2>2 DEF Blocks
<1>e. /\ End(c)' = rest /\ End(rest)' = End(c)
      /\ \A b \in Blocks \ {c} : End(b)' = End(b)
  BY <1>h, <1>t DEF End
<1>n. heap[c].next \in Blocks \cup {NULL} /\ heap[c].next # c
      /\ heap_start \in Nat /\ FrameEnd(heap_start) \in Nat
  BY <1>t, Neighbours, BlockFields
<1> HIDE DEF rest
<1>1. ASSUME NEW b \in Blocks'
      PROVE  heap'[b] \in [next : Blocks' \cup {NULL}, free : BOOLEAN,
                           size : 0 .. PMM_FRAME_SIZE - HEADER]
  <2>1. CASE b = c
    <3>1. need \in 0 .. PMM_FRAME_SIZE - HEADER
      BY <1>t
    <3>2. heap'[b] = [next |-> rest, size |-> need, free |-> FALSE]
          /\ rest \in Blocks'
      BY <1>h, <2>1
    <3> QED
      BY <3>1, <3>2
  <2>2. CASE b = rest
    <3> DEFINE size == heap[c].size - need - HEADER
    <3>1. size \in 0 .. PMM_FRAME_SIZE - HEADER
      BY <1>t
    <3>2. heap'[b] = [next |-> heap[c].next, free |-> TRUE, size |-> size]
          /\ heap[c].next \in Blocks' \cup {NULL}
      BY <1>h, <1>n, <2>2
    <3> HIDE DEF size
    <3> QED
      BY <3>1, <3>2
  <2>3. CASE b \in Blocks \ {c}
    <3>1. heap[b] \in [next : Blocks \cup {NULL}, free : BOOLEAN,
                       size : 0 .. PMM_FRAME_SIZE - HEADER]
      BY <1>t, <2>3 DEF TypeOK
    <3> QED
      BY <1>h, <2>3, <3>1
  <2> QED
    BY <1>h, <2>1, <2>2, <2>3
<1>l. \A b \in Blocks : /\ heap_start <= b /\ End(b) <= FrameEnd(heap_start)
                        /\ \/ heap[b].next = End(b)
                           \/ heap[b].next = NULL /\ End(b) = FrameEnd(heap_start)
  BY DEF IInv, OneFrame, Linked
<1>2. ASSUME NEW b \in Blocks'
      PROVE  /\ heap_start <= b /\ End(b)' <= FrameEnd(heap_start)
             /\ \/ heap'[b].next = End(b)'
                \/ heap'[b].next = NULL /\ End(b)' = FrameEnd(heap_start)
  <2>0. /\ heap_start <= c /\ End(c) <= FrameEnd(heap_start)
        /\ \/ heap[c].next = End(c)
           \/ heap[c].next = NULL /\ End(c) = FrameEnd(heap_start)
    BY DEF IInv, OneFrame, Linked
  <2>1. CASE b = c
    BY <1>e, <1>h, <1>n, <1>r, <1>t, <2>0, <2>1
  <2>2. CASE b = rest
    BY <1>e, <1>h, <1>n, <1>r, <1>t, <2>0, <2>2
  <2>3. CASE b \in Blocks \ {c}
    BY <1>e, <1>h, <1>l, <2>3
  <2> QED
    BY <1>h, <2>1, <2>2, <2>3
<1>3. ASSUME NEW b \in Blocks', NEW d \in Blocks', b < d
      PROVE  End(b)' <= d
  <2>1. CASE b = c /\ d = rest
    BY <1>e, <1>r, <2>1
  <2>2. CASE b = c /\ d \in Blocks
    <3>1. c < d /\ d \in Nat
      BY <1>t, <1>3, <2>2
    <3>2. End(c) <= d
      BY <1>d, <2>2, <3>1
    <3>3. rest <= d
      BY <1>r, <3>1, <3>2
    <3> QED
      BY <1>e, <2>2, <3>3
  <2>3. CASE b = rest /\ d \in Blocks
    <3>1. c < d
      BY <1>r, <1>t, <1>3, <2>3
    <3>2. End(c) <= d
      BY <1>d, <2>3, <3>1
    <3> QED
      BY <1>e, <2>3, <3>2
  <2>4. CASE b \in Blocks \ {c} /\ d = rest
    <3>1. b \in Nat /\ End(b) \in Nat
      BY <1>t, <2>4, BlockFields
    <3>2. b < c
      BY <1>d, <1>r, <1>t, <1>3, <2>4, <3>1
    <3>3. End(b) <= c
      BY <1>d, <2>4, <3>2
    <3> QED
      BY <1>e, <1>r, <1>t, <2>4, <3>1, <3>3
  <2>5. CASE b \in Blocks \ {c} /\ d \in Blocks
    BY <1>e, <1>3, <2>5 DEF IInv, Tiles
  <2>6. ~(b = rest /\ d = rest)
    BY <1>r, <1>3
  <2> QED
    BY <1>h, <2>1, <2>2, <2>3, <2>4, <2>5, <2>6
<1>4. ASSUME NEW b \in Blocks' PROVE ~Loose(b)'
  <2> SUFFICES ASSUME heap'[b].next # NULL, heap'[b].free,
                      heap'[heap'[b].next].free
               PROVE  FALSE
    BY DEF Loose, BothFree
  <2>0. heap'[c].free = FALSE
    BY <1>h
  <2>1. CASE b = rest
    <3>1. heap'[b].next = heap[c].next
      BY <1>h, <2>1
    <3>2. heap[c].next \in Blocks \ {c}
      BY <1>n, <3>1
    <3>3. ~heap[heap[c].next].free
      BY <1>t, <3>1 DEF Loose, BothFree
    <3> QED
      BY <1>h, <3>1, <3>2, <3>3
  <2>2. CASE b \in Blocks \ {c}
    <3>1. heap'[b] = heap[b]
      BY <1>h, <2>2
    <3>2. heap[b].next \in Blocks
      BY <1>t, <2>2, <3>1, BlockFields
    <3>3. ~heap[heap[b].next].free
      BY <2>2, <3>1 DEF Loose, BothFree
    <3> QED
      BY <1>h, <2>0, <3>1, <3>2, <3>3
  <2> QED
    BY <1>h, <2>0, <2>1, <2>2
<1>5. /\ Blocks \subseteq Blocks' /\ Blocks' \subseteq Nat
      /\ heap'[c].free = FALSE /\ heap'[c].size >= need
      /\ \A b \in Blocks' \ Blocks : heap'[b].free
  BY <1>h, <1>r, <1>t
<1> QED
  BY <1>h, <1>1, <1>2, <1>3, <1>4, <1>5 DEF Taken

\* kmalloc takes the first block that does.
LEMMA TakeStep ==
  ASSUME IInv, NEW t \in Thread, Take(t)
  PROVE  IInv'
<1> DEFINE need == Aligned(arg[t])
           ptr  == current + HEADER
<1>0. /\ UNCHANGED <<heap_start, frames>>
      /\ pc[t] = "scan" /\ pc' = [pc EXCEPT ![t] = "idle"]
      /\ current # NULL /\ current' = NULL /\ heap_lock' = FALSE
      /\ arg' = [arg EXCEPT ![t] = 0]
      /\ Fits(current, need)
      /\ heap' = IF Splits(current, need) THEN Carve(current, need)
                 ELSE [heap EXCEPT ![current].free = FALSE]
      /\ live' = [p \in DOMAIN live \cup {ptr} |->
                    IF p = ptr THEN arg[t] ELSE live[p]]
  BY DEF Take, Goto
<1>c. current \in Blocks /\ Open /\ current \in Nat /\ Blocks \subseteq Nat
      /\ heap[current].free
  BY <1>0 DEF IInv, TypeOK, Open, Inside, Fits
<1>a. /\ arg[t] \in Nat /\ need \in Nat
      /\ arg[t] <= WORD - HEADER => need >= arg[t]
  BY ThreadTypes, AlignedSize
<1>w. \A b \in Blocks : ~Loose(b)
  BY <1>0 DEF IInv, Walked
<1> HIDE DEF need
<1>k. Taken(current, need)
  <2>1. CASE Splits(current, need)
    <3>1. heap' = Carve(current, need)
      BY <1>0, <2>1
    <3> QED
      BY <1>0, <1>a, <1>c, <1>w, <2>1, <3>1, TakeSplit
  <2>2. CASE ~Splits(current, need)
    <3>1. heap' = [heap EXCEPT ![current].free = FALSE]
      BY <1>0, <2>2
    <3> QED
      BY <1>0, <1>a, <1>c, <1>w, <3>1, TakeWhole
  <2> QED
    BY <2>1, <2>2
<1>h. /\ Blocks \subseteq Blocks' /\ Blocks' \subseteq Nat
      /\ heap'[current].free = FALSE /\ heap'[current].size >= need
      /\ \A b \in Blocks \ {current} : heap'[b] = heap[b]
      /\ \A b \in Blocks' \ Blocks : heap'[b].free
      /\ \A b \in Blocks' :
           heap'[b] \in [next : Blocks' \cup {NULL}, free : BOOLEAN,
                         size : 0 .. PMM_FRAME_SIZE - HEADER]
      /\ \A b \in Blocks' : ~Loose(b)'
      /\ \A b, d \in Blocks' : b < d => End(b)' <= d
  BY <1>k DEF Taken
<1>l. \A b \in Blocks' :
        /\ heap_start <= b /\ End(b)' <= FrameEnd(heap_start)
        /\ \/ heap'[b].next = End(b)'
           \/ heap'[b].next = NULL /\ End(b)' = FrameEnd(heap_start)
  BY <1>k DEF Taken
<1>g. \A b : FrameEnd(b)' = FrameEnd(b)
  BY DEF FrameEnd
<1>f. heap_start # NULL /\ frames = {heap_start} /\ heap_start \in Blocks'
  BY <1>c, <1>h, ThreadTypes DEF IInv, OneFrame
<1>p. \A u \in Thread \ {t} : pc'[u] = pc[u] /\ arg'[u] = arg[u]
  BY <1>0, ThreadTypes
<1>q. pc'[t] = "idle" /\ \A u \in Thread : pc'[u] \notin Inside
  BY <1>0, ThreadTypes DEF IInv, Exclusive, Inside
<1>v. /\ DOMAIN live' = DOMAIN live \cup {ptr}
      /\ live'[ptr] = arg[t]
      /\ \A p \in DOMAIN live \ {ptr} : live'[p] = live[p]
      /\ ptr \in Nat /\ ptr - HEADER = current
  BY <1>0, <1>c
<1> HIDE DEF ptr
<1>1. TypeOK'
  <2>1. arg' \in [Thread -> Nat] /\ pc' \in [Thread -> Places]
    BY <1>0, ThreadTypes DEF Places
  <2>2. heap_lock' \in BOOLEAN /\ current' = NULL
    BY <1>0
  <2>3. DOMAIN live' \subseteq Nat
    BY <1>v DEF IInv, TypeOK
  <2>4. frames' \subseteq Frames /\ heap_start' \in frames' \cup {NULL}
    BY <1>0 DEF IInv, TypeOK
  <2> QED
    BY <1>h, <2>1, <2>2, <2>3, <2>4 DEF TypeOK
<1>2. Exclusive' /\ Walked'
  BY <1>q DEF Exclusive, Walked, Inside
<1>3. OneFrame'
  BY <1>0, <1>f, <1>g, <1>l DEF OneFrame, Linked
<1>4. Tiles'
  <2>1. frames' \subseteq Blocks'
    BY <1>0, <1>f
  <2>2. \A b \in Blocks' :
          \/ heap'[b].next = End(b)'
          \/ /\ heap'[b].next \in frames' \cup {NULL}
             /\ \E f \in frames' : End(b)' = FrameEnd(f)'
    BY <1>0, <1>f, <1>g, <1>l
  <2> QED
    BY <1>h, <2>1, <2>2 DEF Tiles
<1>5. LiveKept'
  <2> SUFFICES ASSUME NEW p \in DOMAIN live'
               PROVE  /\ p - HEADER \in Blocks' /\ ~heap'[p - HEADER].free
                      /\ live'[p] <= WORD - HEADER =>
                           heap'[p - HEADER].size >= live'[p]
    BY DEF LiveKept
  <2>1. CASE p = ptr
    <3>1. p - HEADER = current /\ live'[p] = arg[t]
      BY <1>v, <2>1
    <3>2. heap'[current].size \in Nat
      BY <1>c, <1>h
    <3> QED
      BY <1>a, <1>c, <1>h, <3>1, <3>2
  <2>2. CASE p # ptr
    <3>1. p \in DOMAIN live /\ live'[p] = live[p]
      BY <1>v, <2>2
    <3>2. /\ p - HEADER \in Blocks /\ ~heap[p - HEADER].free
          /\ live[p] <= WORD - HEADER => heap[p - HEADER].size >= live[p]
      BY <3>1 DEF IInv, LiveKept
    <3>3. p - HEADER # current
      BY <1>c, <3>2
    <3>4. heap'[p - HEADER] = heap[p - HEADER]
      BY <1>h, <3>2, <3>3
    <3> QED
      BY <1>h, <3>1, <3>2, <3>4
  <2> QED
    BY <2>1, <2>2
<1>6. InUseIsOwned'
  <2> SUFFICES ASSUME NEW b \in Blocks', ~heap'[b].free
               PROVE  \/ b + HEADER \in DOMAIN live'
                      \/ \E u \in Thread : pc'[u] = "free_lock"
                                           /\ arg'[u] = b + HEADER
    BY DEF InUseIsOwned
  <2>1. CASE b = current
    BY <1>v, <2>1 DEF ptr
  <2>2. CASE b # current
    <3>1. b \in Blocks /\ ~heap[b].free
      BY <1>h, <2>2
    <3> QED
      BY <1>0, <1>p, <1>v, <3>1 DEF IInv, InUseIsOwned
  <2> QED
    BY <2>1, <2>2
<1>7. Coalesced'
  BY <1>h DEF Coalesced, Loose
<1>8. Returning'
  <2>1. ASSUME NEW u \in Thread, pc'[u] = "free_lock"
        PROVE  /\ arg'[u] - HEADER \in Blocks' /\ ~heap'[arg'[u] - HEADER].free
               /\ arg'[u] \notin DOMAIN live'
               /\ pc[u] = "free_lock" /\ arg'[u] = arg[u]
    <3>1. u # t /\ pc[u] = "free_lock" /\ arg'[u] = arg[u]
      BY <1>p, <1>q, <2>1
    <3>2. /\ arg[u] - HEADER \in Blocks /\ ~heap[arg[u] - HEADER].free
          /\ arg[u] \notin DOMAIN live
      BY <3>1 DEF IInv, Returning
    <3>3. arg[u] - HEADER # current
      BY <1>c, <3>2
    <3>4. arg[u] # ptr
      BY <1>v, <3>3
    <3> QED
      BY <1>h, <1>v, <3>1, <3>2, <3>3, <3>4
  <2> QED
    BY <2>1 DEF IInv, Returning
<1> QED
  BY <1>1, <1>2, <1>3, <1>4, <1>5, <1>6, <1>7, <1>8 DEF IInv

\* A step of kmalloc or kfree keeps the invariant, and so does stuttering.
LEMMA NextIInv == IInv /\ [Next]_vars => IInv'
<1> SUFFICES ASSUME IInv, [Next]_vars PROVE IInv'
  OBVIOUS
<1>1. CASE UNCHANGED vars
  BY <1>1 DEF vars, IInv, TypeOK, Exclusive, OneFrame, Open, Linked, Tiles,
              LiveKept, InUseIsOwned, Coalesced, Walked, Loose, BothFree,
              Returning, Blocks, End, FrameEnd
<1>2. CASE Next
  <2> PICK t \in Thread :
        \/ Step(t)
        \/ \E size \in Sizes : kmalloc(t, size)
        \/ \E ptr \in DOMAIN live : kfree(t, ptr)
    BY <1>2 DEF Next
  <2>1. CASE \E size \in Sizes : kmalloc(t, size)
    BY <2>1, KmallocStep
  <2>2. CASE \E ptr \in DOMAIN live : kfree(t, ptr)
    BY <2>2, KfreeStep
  <2>3. CASE Step(t)
    BY <2>3, MallocLockStep, ScanStep, TakeStep, GiveUpStep, ExpandStep,
       FreeLockStep, MergeStep, MoveOnStep, FreeDoneStep DEF Step
  <2> QED
    BY <2>1, <2>2, <2>3
<1> QED
  BY <1>1, <1>2

\* kmalloc and kfree keep the heap whole: whatever threads allocate and free,
\* the blocks tile the frames, a caller's memory is its own and large enough,
\* no block in use is lost, and with the lock free no two neighbours are free.
THEOREM HeapSafe ==
  Spec => [](TypeOK /\ Tiles /\ LiveKept /\ InUseIsOwned /\ Coalesced)
<1>1. Spec => []IInv
  BY InitIInv, NextIInv, PTL DEF Spec
<1>2. IInv => TypeOK /\ Tiles /\ LiveKept /\ InUseIsOwned /\ Coalesced
  BY DEF IInv
<1> QED
  BY <1>1, <1>2, PTL

\* kmalloc and kfree keep sizes, links and places in their ranges.
THEOREM HeapTypeCorrect == Spec => []TypeOK
BY HeapSafe, PTL

\* What kmalloc returned stays an allocated block of the size asked for until
\* kfree, whatever other threads split and merge.
THEOREM HeapLiveKept == Spec => []LiveKept
BY HeapSafe, PTL

\* A block in use is some caller's, or on its way back through kfree.
THEOREM HeapNoneLost == Spec => []InUseIsOwned
BY HeapSafe, PTL

\* With heap_lock free, kfree has left no two free neighbours.
THEOREM HeapCoalesced == Spec => []Coalesced
BY HeapSafe, PTL
=============================================================================
