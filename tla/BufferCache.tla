---------------------------- MODULE BufferCache ----------------------------
(***************************************************************************)
(* The block buffer cache, kernel/fs/buffer_cache.c, as fat32 and ext4 use *)
(* it: get, read, mark dirty, write, put and sync of a device, with        *)
(* eviction when no head can be allocated.                                 *)
(*                                                                         *)
(* A section between HAL_IRQ_SAVE and HAL_IRQ_RESTORE is one step, and so  *)
(* is the code between two sections.  The doubly linked lists are kept     *)
(* pointer by pointer.  Blocks all hash to one bucket, the case in which a *)
(* chain is longer than one: buckets share no pointers.  A buffer head is  *)
(* an address, used again after it was freed.                              *)
(*                                                                         *)
(* With Overlap any thread may run between two steps of a call; without,   *)
(* a call starts only when none is under way.                              *)
(***************************************************************************)
EXTENDS Naturals, FiniteSets, Sequences, SequencesExt

CONSTANTS Thread,
          Buf,       \* the buffer heads memory has room for
          Device,
          All,       \* the device number 0, with which sync takes them all
          Block,     \* pairs of a device and a block number
          EvictMax,  \* how many buffers one eviction frees at most, 16
          Overlap,   \* whether calls of different threads overlap
          NULL

ASSUME BufferCacheAssumption ==
  /\ IsFiniteSet(Buf) /\ Overlap \in BOOLEAN
  /\ EvictMax \in Nat \ {0}
  /\ \A k \in Block : k[1] \in Device
  /\ NULL \notin Buf \cup Device \cup Block \cup {All}
  /\ All \notin Device

VARIABLES heap,      \* the heads that are allocated
          spare,     \* buffer_free_list, which never has more than one head
          id,        \* device_id and block_num
          ref,       \* ref_count
          flags,     \* "dirty", "locked"
          hash, lru, dirty,   \* the chain of the bucket and the two lists
          pc,        \* where each thread is
          bh,        \* the buffer it works on
          saved,     \* the neighbour a walk goes on with
          arg,       \* the block it asked for, or the device it syncs
          evicted,   \* how many buffers its eviction has freed
          held,      \* the buffer it has got and not yet put
          used       \* history: the cached buffers, last got first

heads  == <<heap, spare, id, ref, flags>>
lists  == <<hash, lru, dirty>>
locals == <<bh, saved, arg, evicted>>
vars   == <<heads, lists, pc, locals, held, used>>

-----------------------------------------------------------------------------
(* The lists.  The chain has no tail pointer in the code; the field of the *)
(* record is not read.                                                     *)

Empty == [head |-> NULL, tail |-> NULL,
          next |-> [b \in Buf |-> NULL], prev |-> [b \in Buf |-> NULL]]

PushFront(l, b) ==
  [head |-> b,
   tail |-> IF l.head = NULL THEN b ELSE l.tail,
   next |-> [l.next EXCEPT ![b] = l.head],
   prev |-> [x \in Buf |-> IF x = l.head THEN b
                           ELSE IF x = b THEN NULL ELSE l.prev[x]]]

\* Faulty variant: the neighbour after b keeps its back pointer.
Unlink_OneWay(l, b) ==
  LET p == l.prev[b]
      n == l.next[b]
  IN [head |-> IF p = NULL THEN n ELSE l.head,
      tail |-> IF n = NULL THEN p ELSE l.tail,
      next |-> [x \in Buf |-> IF x = p THEN n ELSE l.next[x]],
      prev |-> l.prev]

Unlink(l, b) ==
  LET p == l.prev[b]
      n == l.next[b]
  IN [head |-> IF p = NULL THEN n ELSE l.head,
      tail |-> IF n = NULL THEN p ELSE l.tail,
      next |-> [x \in Buf |-> IF x = p THEN n ELSE l.next[x]],
      prev |-> [x \in Buf |-> IF x = n THEN p ELSE l.prev[x]]]

Clear(l, b) == [l EXCEPT !.next[b] = NULL, !.prev[b] = NULL]

Delete(l, b) == Clear(Unlink(l, b), b)

\* buffer_lru_touch.
Touch(b) == lru' = PushFront(Delete(lru, b), b)

\* The members of a list in order, when its pointers agree.
IsChain(l, s) ==
  LET n == Len(s) IN
  /\ l.head = IF n = 0 THEN NULL ELSE s[1]
  /\ l.tail = IF n = 0 THEN NULL ELSE s[n]
  /\ \A k \in 1 .. n :
       /\ l.next[s[k]] = IF k = n THEN NULL ELSE s[k + 1]
       /\ l.prev[s[k]] = IF k = 1 THEN NULL ELSE s[k - 1]

-----------------------------------------------------------------------------
\* buffer_cache_init: each turn of the pre-allocation takes back the head the
\* turn before put on the free list, so one is left, or none.
Init ==
  /\ spare \in Buf \cup {NULL}
  /\ heap  = {spare} \ {NULL}
  /\ id    = [b \in Buf |-> NULL]
  /\ ref   = [b \in Buf |-> 0]
  /\ flags = [b \in Buf |-> {}]
  /\ hash = Empty /\ lru = Empty /\ dirty = Empty
  /\ pc = [t \in Thread |-> "idle"]
  /\ bh = [t \in Thread |-> NULL] /\ saved = [t \in Thread |-> NULL]
  /\ arg = [t \in Thread |-> NULL] /\ evicted = [t \in Thread |-> 0]
  /\ held = [t \in Thread |-> NULL] /\ used = <<>>

MayCall(t) ==
  /\ pc[t] = "idle"
  /\ Overlap \/ \A u \in Thread : pc[u] = "idle"

Goto(t, from, to) == pc[t] = from /\ pc' = [pc EXCEPT ![t] = to]

\* The call ends and its locals are gone.
Return(t) ==
  /\ pc' = [pc EXCEPT ![t] = "idle"]
  /\ bh' = [bh EXCEPT ![t] = NULL] /\ saved' = [saved EXCEPT ![t] = NULL]
  /\ arg' = [arg EXCEPT ![t] = NULL]
  /\ evicted' = [evicted EXCEPT ![t] = 0]

-----------------------------------------------------------------------------
(* buffer_cache_get.                                                       *)

\* The buffers a walk of the chain meets: the least set that has its head and,
\* with a buffer, the one its pointer leads to.
Reached(l) ==
  {b \in Buf : \A S \in SUBSET Buf :
     /\ l.head \in S \cup {NULL}
     /\ \A x \in S : l.next[x] \in S \cup {NULL}
     => b \in S}

Found(k) == {b \in Reached(hash) : id[b] = k}

Without(b) ==
  LET at == {k \in DOMAIN used : used[k] = b}
  IN  IF at = {} THEN used ELSE RemoveAt(used, CHOOSE k \in at : TRUE)

\* Faulty variant: a hit is not moved to the front of the LRU list.
GetHit_NoTouch(t, k) ==
  /\ MayCall(t) /\ held[t] = NULL
  /\ \E b \in Found(k) :
       /\ ref'  = [ref EXCEPT ![b] = @ + 1]
       /\ held' = [held EXCEPT ![t] = b]
       /\ used' = <<b>> \o Without(b)
  /\ UNCHANGED <<heap, spare, id, flags, lists, pc, locals>>

GetHit(t, k) ==
  /\ MayCall(t) /\ held[t] = NULL
  /\ \E b \in Found(k) :
       /\ ref'  = [ref EXCEPT ![b] = @ + 1]
       /\ held' = [held EXCEPT ![t] = b]
       /\ used' = <<b>> \o Without(b)
       /\ Touch(b)
  /\ UNCHANGED <<heap, spare, id, flags, hash, dirty, pc, locals>>

GetMiss(t, k) ==
  /\ MayCall(t) /\ held[t] = NULL
  /\ Found(k) = {}
  /\ Goto(t, "idle", "alloc")
  /\ arg' = [arg EXCEPT ![t] = k]
  /\ UNCHANGED <<heads, lists, bh, saved, evicted, held, used>>

\* Faulty variant: the new head has no reference yet.
AllocHead_NoRef(t, b) ==
  /\ IF spare = NULL THEN b \notin heap ELSE b = spare
  /\ Goto(t, "alloc", "data")
  /\ heap'  = heap \cup {b}
  /\ spare' = NULL
  /\ ref'   = [ref EXCEPT ![b] = 0]
  /\ id'    = [id EXCEPT ![b] = NULL]
  /\ flags' = [flags EXCEPT ![b] = {}]
  /\ hash' = Clear(hash, b) /\ lru' = Clear(lru, b) /\ dirty' = Clear(dirty, b)
  /\ bh' = [bh EXCEPT ![t] = b]
  /\ UNCHANGED <<saved, arg, evicted, held, used>>

\* buffer_alloc_head: the head comes from the free list or from kmalloc, and
\* is cleared.
AllocHead(t, b) ==
  /\ IF spare = NULL THEN b \notin heap ELSE b = spare
  /\ Goto(t, "alloc", "data")
  /\ heap'  = heap \cup {b}
  /\ spare' = NULL
  /\ ref'   = [ref EXCEPT ![b] = 1]
  /\ id'    = [id EXCEPT ![b] = NULL]
  /\ flags' = [flags EXCEPT ![b] = {}]
  /\ hash' = Clear(hash, b) /\ lru' = Clear(lru, b) /\ dirty' = Clear(dirty, b)
  /\ bh' = [bh EXCEPT ![t] = b]
  /\ UNCHANGED <<saved, arg, evicted, held, used>>

\* No memory for a head: evict once, from the tail of the LRU list, and fail
\* the second time.
AllocFull(t) ==
  /\ pc[t] = "alloc"
  /\ spare = NULL /\ heap = Buf
  /\ IF evicted[t] > 0 THEN Return(t)
     ELSE /\ Goto(t, "alloc", "evict")
          /\ bh' = [bh EXCEPT ![t] = lru.tail]
          /\ UNCHANGED <<saved, arg, evicted>>
  /\ UNCHANGED <<heads, lists, held, used>>

\* The data block: it may not fit, and then the head is given back.
AllocData(t) ==
  /\ Goto(t, "data", "insert")
  /\ id' = [id EXCEPT ![bh[t]] = arg[t]]
  /\ UNCHANGED <<heap, spare, ref, flags, lists, locals, held, used>>

DataFails(t) ==
  /\ pc[t] = "data"
  /\ heap' = heap \ {bh[t]}
  /\ Return(t)
  /\ UNCHANGED <<spare, id, ref, flags, lists, held, used>>

\* The chain is not searched again before the insertion.
InsertHash(t) ==
  /\ Goto(t, "insert", "add")
  /\ hash' = PushFront(hash, bh[t])
  /\ UNCHANGED <<heads, lru, dirty, locals, held, used>>

AddLru(t) ==
  /\ pc[t] = "add"
  /\ lru'  = PushFront(lru, bh[t])
  /\ used' = <<bh[t]>> \o used
  /\ held' = [held EXCEPT ![t] = bh[t]]
  /\ Return(t)
  /\ UNCHANGED <<heads, hash, dirty>>

-----------------------------------------------------------------------------
(* buffer_evict_lru, from the tail towards the head, until it has freed    *)
(* EvictMax buffers.                                                       *)

\* Faulty variant: only dirty buffers are spared.
Evictable_Referenced(b) == "dirty" \notin flags[b]

Evictable(b) == ref[b] = 0 /\ "dirty" \notin flags[b]

EvictTest(t) ==
  LET b == bh[t] IN
  /\ pc[t] = "evict" /\ b # NULL /\ evicted[t] < EvictMax
  /\ saved' = [saved EXCEPT ![t] = lru.prev[b]]
  /\ IF Evictable(b)
     THEN Goto(t, "evict", "unhash") /\ UNCHANGED bh
     ELSE bh' = [bh EXCEPT ![t] = lru.prev[b]] /\ UNCHANGED pc
  /\ UNCHANGED <<heads, lists, arg, evicted, held, used>>

EvictUnhash(t) ==
  /\ Goto(t, "unhash", "unlru")
  /\ hash' = Unlink(hash, bh[t])
  /\ UNCHANGED <<heads, lru, dirty, locals, held, used>>

EvictUnlru(t) ==
  /\ Goto(t, "unlru", "free")
  /\ lru'  = Delete(lru, bh[t])
  /\ used' = Without(bh[t])
  /\ UNCHANGED <<heads, hash, dirty, locals, held>>

\* Faulty variant: the head is taken off the lists and not freed.
EvictFree_Lost(t) ==
  /\ Goto(t, "free", "evict")
  /\ bh' = [bh EXCEPT ![t] = saved[t]]
  /\ evicted' = [evicted EXCEPT ![t] = @ + 1]
  /\ UNCHANGED <<heads, lists, saved, arg, held, used>>

EvictFree(t) ==
  /\ Goto(t, "free", "evict")
  /\ heap' = heap \ {bh[t]}
  /\ bh' = [bh EXCEPT ![t] = saved[t]]
  /\ evicted' = [evicted EXCEPT ![t] = @ + 1]
  /\ UNCHANGED <<spare, id, ref, flags, lists, saved, arg, held, used>>

\* Back in buffer_cache_get: try again, or return NULL.
EvictEnd(t) ==
  /\ pc[t] = "evict" /\ (bh[t] = NULL \/ evicted[t] = EvictMax)
  /\ IF evicted[t] > 0
     THEN /\ Goto(t, "evict", "alloc")
          /\ bh' = [bh EXCEPT ![t] = NULL]
          /\ UNCHANGED <<saved, arg, evicted>>
     ELSE Return(t)
  /\ UNCHANGED <<heads, lists, held, used>>

-----------------------------------------------------------------------------
\* buffer_cache_put: the buffer stays in the cache.
Put(t) ==
  /\ MayCall(t) /\ held[t] # NULL
  /\ ref'  = [ref EXCEPT ![held[t]] = @ - 1]
  /\ held' = [held EXCEPT ![t] = NULL]
  /\ UNCHANGED <<heap, spare, id, flags, lists, pc, locals, used>>

\* The state word and the up-to-date flag only tell buffer_cache_read whether
\* there is anything to read, and are left open.
Lock(b) ==
  /\ "locked" \notin flags[b]
  /\ flags' = [flags EXCEPT ![b] = @ \cup {"locked"}]

\* buffer_cache_read: a locked buffer is refused.
Read(t) ==
  /\ MayCall(t) /\ held[t] # NULL
  /\ Goto(t, "idle", "reading")
  /\ Lock(held[t])
  /\ UNCHANGED <<heap, spare, id, ref, lists, locals, held, used>>

ReadDone(t) ==
  /\ Goto(t, "reading", "idle")
  /\ flags' = [flags EXCEPT ![held[t]] = @ \ {"locked"}]
  /\ UNCHANGED <<heap, spare, id, ref, lists, locals, held, used>>

\* buffer_cache_mark_dirty, whose test of the flag buffer_dirty_add repeats in
\* its section.
MarkDirty(t) ==
  /\ MayCall(t) /\ held[t] # NULL
  /\ "dirty" \notin flags[held[t]]
  /\ dirty' = PushFront(dirty, held[t])
  /\ flags' = [flags EXCEPT ![held[t]] = @ \cup {"dirty"}]
  /\ UNCHANGED <<heap, spare, id, ref, hash, lru, pc, locals, held, used>>

-----------------------------------------------------------------------------
(* buffer_cache_write, of the buffer a thread holds or of one sync meets.  *)

Write(t) ==
  /\ MayCall(t) /\ held[t] # NULL
  /\ Goto(t, "idle", "write")
  /\ Lock(held[t])
  /\ bh' = [bh EXCEPT ![t] = held[t]]
  /\ UNCHANGED <<heap, spare, id, ref, lists, saved, arg, evicted, held, used>>

\* buffer_dirty_remove, once the data is out.
WriteOut(t) ==
  LET b == bh[t] IN
  /\ Goto(t, "write", "written")
  /\ flags' = [flags EXCEPT ![b] = @ \ {"dirty"}]
  /\ dirty' = IF "dirty" \in flags[b] THEN Delete(dirty, b) ELSE dirty
  /\ UNCHANGED <<heap, spare, id, ref, hash, lru, locals, held, used>>

\* Sync, which has a device or all of them for argument, goes on with the
\* next buffer.
WriteDone(t) ==
  /\ pc[t] = "written"
  /\ flags' = [flags EXCEPT ![bh[t]] = @ \ {"locked"}]
  /\ IF arg[t] = NULL THEN Return(t)
     ELSE /\ Goto(t, "written", "sync")
          /\ bh' = [bh EXCEPT ![t] = saved[t]]
          /\ UNCHANGED <<saved, arg, evicted>>
  /\ UNCHANGED <<heap, spare, id, ref, lists, held, used>>

-----------------------------------------------------------------------------
(* buffer_cache_sync_device: d is a device or All.                         *)

Sync(t, d) ==
  /\ MayCall(t)
  /\ Goto(t, "idle", "sync")
  /\ arg' = [arg EXCEPT ![t] = d]
  /\ bh'  = [bh EXCEPT ![t] = dirty.head]
  /\ UNCHANGED <<heads, lists, saved, evicted, held, used>>

Matches(d, b) == d = All \/ id[b][1] = d

\* Faulty variant: the pointer is read after the write has cleared it.
SyncNext_Late(t) == NULL

SyncNext(t) == dirty.next[bh[t]]

SyncWrite(t) ==
  LET b == bh[t] IN
  /\ pc[t] = "sync" /\ b # NULL /\ Matches(arg[t], b)
  /\ Goto(t, "sync", "write")
  /\ Lock(b)
  /\ saved' = [saved EXCEPT ![t] = SyncNext(t)]
  /\ UNCHANGED <<heap, spare, id, ref, lists, bh, arg, evicted, held, used>>

\* A buffer of another device, or one that is locked.
SyncSkip(t) ==
  LET b == bh[t] IN
  /\ pc[t] = "sync" /\ b # NULL
  /\ Matches(arg[t], b) => "locked" \in flags[b]
  /\ bh' = [bh EXCEPT ![t] = SyncNext(t)]
  /\ UNCHANGED <<heads, lists, pc, saved, arg, evicted, held, used>>

SyncEnd(t) ==
  /\ pc[t] = "sync" /\ bh[t] = NULL
  /\ Return(t)
  /\ UNCHANGED <<heads, lists, held, used>>

-----------------------------------------------------------------------------
Call(t) ==
  \/ \E k \in Block : GetHit(t, k) \/ GetMiss(t, k)
  \/ Put(t) \/ Read(t) \/ MarkDirty(t) \/ Write(t)
  \/ \E d \in Device \cup {All} : Sync(t, d)

Step(t) ==
  \/ \E b \in Buf : AllocHead(t, b)
  \/ AllocFull(t) \/ AllocData(t) \/ DataFails(t) \/ InsertHash(t) \/ AddLru(t)
  \/ EvictTest(t) \/ EvictUnhash(t) \/ EvictUnlru(t) \/ EvictFree(t)
  \/ EvictEnd(t)
  \/ ReadDone(t) \/ WriteOut(t) \/ WriteDone(t)
  \/ SyncWrite(t) \/ SyncSkip(t) \/ SyncEnd(t)

Next == \E t \in Thread : Call(t) \/ Step(t)

Spec == Init /\ [][Next]_vars

-----------------------------------------------------------------------------
ListOf(B) == [head : B, tail : B, next : [Buf -> B], prev : [Buf -> B]]

TypeOK ==
  LET B == Buf \cup {NULL} IN
  /\ heap \subseteq Buf
  /\ spare \in heap \cup {NULL}
  /\ id \in [Buf -> Block \cup {NULL}]
  /\ ref \in [Buf -> Nat]
  /\ flags \in [Buf -> SUBSET {"dirty", "locked"}]
  /\ {hash, lru, dirty} \subseteq ListOf(B)
  /\ pc \in [Thread -> {"idle", "alloc", "data", "insert", "add", "evict",
                        "unhash", "unlru", "free", "reading", "write",
                        "written", "sync"}]
  /\ bh \in [Thread -> B] /\ saved \in [Thread -> B] /\ held \in [Thread -> B]
  /\ arg \in [Thread -> Block \cup Device \cup {All, NULL}]
  /\ evicted \in [Thread -> 0 .. EvictMax] /\ used \in Seq(Buf)

Quiet == \A t \in Thread : pc[t] = "idle"

Linked(l, S) == \E s \in SetToSeqs(S) : IsChain(l, s)

\* Between calls the pointers of get, eviction, mark dirty and write agree:
\* the LRU list has the cached buffers in the order of their last use, the
\* chain has the same ones, one for each block, and the dirty list exactly
\* those that are marked.
ListsSound ==
  Quiet =>
    /\ Linked(hash, Range(used)) /\ IsChain(lru, used)
    /\ \A b, c \in Range(used) : id[b] = id[c] => b = c
    /\ Linked(dirty, {b \in Range(used) : "dirty" \in flags[b]})

\* Between calls every allocated head is cached or spare: neither eviction nor
\* a failed buffer_cache_get loses one.
NoneLost == Quiet => heap = Range(used) \cup ({spare} \ {NULL})

\* "Don't evict if referenced or dirty" (line 645): a buffer a thread has got
\* and not put is allocated.
HeldNotFreed == \A t \in Thread : held[t] # NULL => held[t] \in heap

\* buffer_evict_lru frees in the order of use: of the buffers that are neither
\* referenced nor dirty it takes the one got longest ago.
EvictsOldest ==
  [][\A t \in Thread : pc[t] = "evict" /\ pc'[t] = "unhash" =>
       \A j, k \in DOMAIN used :
         bh[t] = used[j] /\ j < k => ~Evictable(used[k])]_vars

\* When buffer_cache_sync_device returns, no buffer of the device is dirty:
\* removing the one just written does not end or derail the walk.
SyncWritesAll ==
  [][\A t \in Thread : pc[t] = "sync" /\ pc'[t] = "idle" =>
       \A b \in heap : id[b] # NULL /\ Matches(arg[t], b)
                         => "dirty" \notin flags[b]]_vars
=============================================================================
