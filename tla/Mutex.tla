------------------------------- MODULE Mutex -------------------------------
(***************************************************************************)
(* The recursive mutex of kernel/sync.c.  locked is taken by a compare and *)
(* swap; owner_tid and recursion_count are plain words, read and written   *)
(* without a lock.  All three operations compare owner_tid with the same   *)
(* constant, current_tid = 1, for every thread that calls them.            *)
(***************************************************************************)
EXTENDS Integers

CONSTANTS Thread,
          MaxDepth     \* bound: how deep a thread nests its locks

VARIABLES locked, owner_tid, recursion_count,
          at,          \* each thread's place in an operation
          depth        \* how many locks the thread has that it has not undone

vars == <<locked, owner_tid, recursion_count, at, depth>>

current_tid(t) == 1

Goto(t, from, to) == at[t] = from /\ at' = [at EXCEPT ![t] = to]
Taken(t)  == depth' = [depth EXCEPT ![t] = @ + 1]
Undone(t) == depth' = [depth EXCEPT ![t] = @ - 1]

Init ==
  /\ locked = 0 /\ owner_tid = 0 /\ recursion_count = 0
  /\ at = [t \in Thread |-> "idle"]
  /\ depth = [t \in Thread |-> 0]

\* mutex_lock looks at the owner before it tries, and mutex_trylock again.
mutex_lock(t) ==
  /\ depth[t] < MaxDepth
  /\ \/ /\ owner_tid = current_tid(t)
        /\ Goto(t, "idle", "idle")
        /\ recursion_count' = recursion_count + 1
        /\ Taken(t)
     \/ /\ owner_tid # current_tid(t)
        /\ Goto(t, "idle", "lock")
        /\ UNCHANGED <<recursion_count, depth>>
  /\ UNCHANGED <<locked, owner_tid>>

\* A call of mutex_trylock from outside gives up where mutex_lock spins.
mutex_trylock(t) ==
  /\ depth[t] < MaxDepth
  /\ Goto(t, "idle", "try")
  /\ UNCHANGED <<locked, owner_tid, recursion_count, depth>>

TryRecursive(t) ==
  /\ at[t] \in {"lock", "try"}
  /\ owner_tid = current_tid(t)
  /\ Goto(t, at[t], "idle")
  /\ recursion_count' = recursion_count + 1
  /\ Taken(t)
  /\ UNCHANGED <<locked, owner_tid>>

TryTest(t) ==
  /\ owner_tid # current_tid(t)
  /\ Goto(t, "lock", "lock cas") \/ Goto(t, "try", "try cas")
  /\ UNCHANGED <<locked, owner_tid, recursion_count, depth>>

CompareAndSwap(t) ==
  /\ at[t] \in {"lock cas", "try cas"}
  /\ locked' = 1
  /\ Goto(t, at[t], IF locked = 0 THEN "own"
                    ELSE IF at[t] = "lock cas" THEN "lock" ELSE "idle")
  /\ UNCHANGED <<owner_tid, recursion_count, depth>>

SetOwner(t) ==
  /\ Goto(t, "own", "idle")
  /\ owner_tid' = current_tid(t)
  /\ Taken(t)
  /\ UNCHANGED <<locked, recursion_count>>

\* A thread unlocks what it has locked.
mutex_unlock(t) ==
  /\ depth[t] > 0
  /\ \/ /\ owner_tid # current_tid(t)
        /\ Goto(t, "idle", "idle")
        /\ Undone(t)
        /\ UNCHANGED recursion_count
     \/ /\ owner_tid = current_tid(t)
        /\ recursion_count > 0
        /\ Goto(t, "idle", "idle")
        /\ Undone(t)
        /\ recursion_count' = recursion_count - 1
     \/ /\ owner_tid = current_tid(t)
        /\ recursion_count = 0
        /\ Goto(t, "idle", "disown")
        /\ UNCHANGED <<depth, recursion_count>>
  /\ UNCHANGED <<locked, owner_tid>>

ClearOwner(t) ==
  /\ Goto(t, "disown", "release")
  /\ owner_tid' = 0
  /\ UNCHANGED <<locked, recursion_count, depth>>

Release(t) ==
  /\ Goto(t, "release", "idle")
  /\ locked' = 0
  /\ Undone(t)
  /\ UNCHANGED <<owner_tid, recursion_count>>

Next ==
  \E t \in Thread :
    \/ mutex_lock(t) \/ mutex_trylock(t) \/ TryRecursive(t) \/ TryTest(t)
    \/ CompareAndSwap(t) \/ SetOwner(t)
    \/ mutex_unlock(t) \/ ClearOwner(t) \/ Release(t)

Spec == Init /\ [][Next]_vars

\* At most one thread is between its lock and its unlock.
MutualExclusion ==
  \A t, u \in Thread : depth[t] > 0 /\ depth[u] > 0 => t = u
=============================================================================
