----------------------------- MODULE FileLocks -----------------------------
(***************************************************************************)
(* Byte-range locks on files, kernel/fs/vfs_file_locks.c: request, release *)
(* and the waking of waiters.                                              *)
(*                                                                         *)
(* A lock has one next_waiter pointer.  The read list, the write list and  *)
(* the wait queue of its file, the global list and the free list of the    *)
(* pool are all linked through it, so the model keeps one memory of heads  *)
(* and pointers.  A lock that was freed keeps what was written in it.      *)
(*                                                                         *)
(* Calls do not overlap: one is under way at a time.  Owners release the   *)
(* locks they were granted.  The pool has a lock for every request.        *)
(***************************************************************************)
EXTENDS Naturals, FiniteSets, Sequences, SequencesExt

CONSTANTS Pool,     \* the sequence of locks in lock_pool
          Owner,    \* processes
          File,     \* files, each with its lock manager
          Ranges,   \* pairs of an offset and a length
          Word,     \* the number of offsets: 2^64 in the code
          NULL

Lock == Range(Pool)
Type == {"read", "write"}

VARIABLES mem,      \* [head, next, prev]: the lists, next_waiter, prev_waiter
          lock,     \* owner, file, type and range written in each lock
          st,       \* "free", "granted" or "blocked"
          waking,   \* the lock whose release is under way
          waiter    \* how far wake_lock_waiters has got

vars == <<mem, lock, st, waking, waiter>>

Global == <<"global", NULL>>
Free   == <<"free", NULL>>
Heads  == (Type \cup {"wait"}) \X File \cup {Global, Free}

-----------------------------------------------------------------------------
(* Lists.  A walk that meets a cycle does not end.                         *)

Nodes(m, h) ==
  LET node[n \in 1 .. Len(Pool) + 1] ==
        IF n = 1 THEN m.head[h]
        ELSE IF node[n - 1] = NULL THEN NULL ELSE m.next[node[n - 1]]
  IN node

Reached(m, h) == Range(Nodes(m, h)) \ {NULL}
Ends(m, h)    == NULL \in Range(Nodes(m, h))

Push(m, h, l) ==
  [m EXCEPT !.next[l] = m.head[h], !.head[h] = l]

\* The pointer to l on the list, if it is there, goes past it.
Unlink(m, h, l) ==
  IF m.head[h] = l THEN [m EXCEPT !.head[h] = m.next[l]]
  ELSE LET Before == {p \in Reached(m, h) : m.next[p] = l}
       IN [m EXCEPT !.next = [p \in Lock |->
             IF p \in Before THEN m.next[l] ELSE m.next[p]]]

-----------------------------------------------------------------------------
(* Conflicts.                                                              *)

End(r) == (r[1] + r[2] + Word - 1) % Word

vfs_locks_overlap(start1, end1, start2, end2) ==
  LET Eof(e) == IF e = 0 THEN Word - 1 ELSE e
  IN ~(Eof(end1) < start2 \/ Eof(end2) < start1)

locks_conflict(a, b) ==
  /\ a.owner # b.owner
  /\ vfs_locks_overlap(a.range[1], End(a.range), b.range[1], End(b.range))
  /\ ~(a.type = "read" /\ b.type = "read")

\* A walk of one of the lists of a's file meets a lock that excludes it.
Meets(m, t, a) ==
  \E c \in Reached(m, <<t, a.file>>) : locks_conflict(a, lock'[c])

\* The write list is walked only when the walk of the read list has ended
\* without a conflict.
Conflicts(m, a) ==
  \/ Meets(m, "read", a)
  \/ Ends(m, <<"read", a.file>>) /\ Meets(m, "write", a)

WalksEnd(m, f) == \A t \in Type : Ends(m, <<t, f>>)

\* grant_lock: pushed on its file's list, then on the global one.
Granted(m, l) ==
  Push(Push(m, <<lock'[l].type, lock'[l].file>>, l), Global, l)

\* queue_lock_waiter: all priorities are 0, so a waiter goes to the end.
Queued(m, h, l) ==
  IF m.head[h] = NULL THEN [m EXCEPT !.head[h] = l]
  ELSE LET last == CHOOSE p \in Reached(m, h) : m.next[p] = NULL
       IN [m EXCEPT !.next[last] = l, !.prev[l] = last]

-----------------------------------------------------------------------------
Init ==
  /\ mem = [head |-> [h \in Heads |-> IF h = Free THEN Pool[1] ELSE NULL],
            next |-> [l \in Lock |->
                        LET k == CHOOSE k \in DOMAIN Pool : Pool[k] = l
                        IN IF k = Len(Pool) THEN NULL ELSE Pool[k + 1]],
            prev |-> [l \in Lock |-> NULL]]
  /\ lock = [l \in Lock |-> [owner |-> NULL, file |-> NULL, type |-> "none",
                             range |-> <<0, 0>>]]
  /\ st = [l \in Lock |-> "free"]
  /\ waking = NULL /\ waiter = NULL

\* The first lock of the pool, cleared.
Allocated(l) ==
  [mem EXCEPT !.head[Free] = mem.next[l], !.next[l] = NULL, !.prev[l] = NULL]

\* vfs_lock_request.
Request(r, l) ==
  /\ waking = NULL
  /\ l = mem.head[Free] /\ l # NULL
  /\ lock' = [lock EXCEPT ![l] = r]
  /\ LET m == Allocated(l) IN
     \/ /\ ~Conflicts(m, r) /\ WalksEnd(m, r.file)
        /\ mem' = Granted(m, l)
        /\ st' = [st EXCEPT ![l] = "granted"]
     \/ /\ Conflicts(m, r) /\ Ends(m, <<"wait", r.file>>)
        /\ mem' = Queued(m, <<"wait", r.file>>, l)
        /\ st' = [st EXCEPT ![l] = "blocked"]
  /\ UNCHANGED <<waking, waiter>>

\* The same with VFS_LOCK_FLAG_NONBLOCK, when the lock is refused: it goes
\* back to the pool.
RequestRefused(r, l) ==
  /\ waking = NULL
  /\ l = mem.head[Free] /\ l # NULL
  /\ lock' = [lock EXCEPT ![l] = r]
  /\ Conflicts(Allocated(l), r)
  /\ mem' = Push(Allocated(l), Free, l)
  /\ UNCHANGED <<st, waking, waiter>>

\* vfs_lock_release: off its file's list, then off the global one.
Release(l) ==
  LET h == <<lock[l].type, lock[l].file>>
      m == Unlink(mem, h, l)
  IN /\ waking = NULL /\ st[l] = "granted"
     /\ l \in Reached(mem, h) \/ Ends(mem, h)
     /\ l \in Reached(m, Global) \/ Ends(m, Global)
     /\ mem' = Unlink(m, Global, l)
     /\ st' = [st EXCEPT ![l] = "free"]
     /\ waking' = l
     /\ waiter' = m.head[<<"wait", lock[l].file>>]
     /\ UNCHANGED lock

\* wake_lock_waiters: a waiter that can be granted is taken off the queue,
\* after which the search starts again.
Wake ==
  LET w == waiter
      h == <<"wait", lock[waking].file>>
      p == mem.prev[w]
      n == mem.next[w]
      m == [head |-> IF p = NULL THEN [mem.head EXCEPT ![h] = n] ELSE mem.head,
            next |-> [x \in Lock |-> IF x = p THEN n ELSE mem.next[x]],
            prev |-> [x \in Lock |-> IF x = n THEN p ELSE mem.prev[x]]]
  IN /\ waking # NULL /\ w # NULL
     /\ UNCHANGED <<lock, waking>>
     /\ \/ /\ ~Conflicts(mem, lock[w]) /\ WalksEnd(mem, lock[w].file)
           /\ mem' = Granted(m, w)
           /\ st' = [st EXCEPT ![w] = "granted"]
           /\ waiter' = m.head[h]
        \/ /\ Conflicts(mem, lock[w])
           /\ waiter' = n
           /\ UNCHANGED <<mem, st>>

ReleaseEnds ==
  /\ waking # NULL /\ waiter = NULL
  /\ mem' = Push(mem, Free, waking)
  /\ waking' = NULL
  /\ UNCHANGED <<lock, st, waiter>>

Next ==
  \/ \E o \in Owner, f \in File, t \in Type, g \in Ranges, l \in Lock :
       LET r == [owner |-> o, file |-> f, type |-> t, range |-> g]
       IN Request(r, l) \/ RequestRefused(r, l)
  \/ \E l \in Lock : Release(l)
  \/ Wake \/ ReleaseEnds

Spec == Init /\ [][Next]_vars

-----------------------------------------------------------------------------
\* The bytes a request asks for: a length of 0 is up to the end of the file.
Bytes(r) == r[1] .. (IF r[2] = 0 THEN Word - 1 ELSE r[1] + r[2] - 1)

\* "POSIX-compliant byte-range locks": two granted locks of different owners
\* on common bytes of one file are both read locks.
ConflictFree ==
  \A a, b \in {l \in Lock : st[l] = "granted"} :
    /\ lock[a].file = lock[b].file /\ lock[a].owner # lock[b].owner
    /\ Bytes(lock[a].range) \cap Bytes(lock[b].range) # {}
    => lock[a].type = "read" /\ lock[b].type = "read"
=============================================================================
