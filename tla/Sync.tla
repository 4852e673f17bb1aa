-------------------------------- MODULE Sync --------------------------------
(***************************************************************************)
(* The read-write lock and the counting semaphore of kernel/sync.c.  Both  *)
(* keep plain counters behind a test-and-set spinlock, wait_lock, and both *)
(* "block" by retrying their try operation for ever.  A test, a load and a *)
(* store of a counter are separate steps: only wait_lock joins them.       *)
(*                                                                         *)
(* Threads share one read-write lock and one semaphore, and may hold the   *)
(* one while they wait for the other.  Program says which operations each  *)
(* thread uses.  A thread unlocks what it has locked, and takes the        *)
(* read-write lock once at a time.                                         *)
(***************************************************************************)
EXTENDS Integers, FiniteSets

CONSTANTS Thread,
          Program,     \* the operations each thread calls
          SemInit,     \* semaphore_init's count
          SemMax,      \* and its max_count
          MaxPosts     \* bound: posts that take effect before the last is called

ReadTake  == {"read_lock", "read_trylock"}
WriteTake == {"write_lock", "write_trylock"}
SemTake   == {"semaphore_wait", "semaphore_trywait"}
Blocking  == {"read_lock", "write_lock", "semaphore_wait"}
RwOps  == ReadTake \cup WriteTake \cup {"read_unlock", "write_unlock"}
SemOps == SemTake \cup {"semaphore_post", "semaphore_getvalue"}
Ops    == RwOps \cup SemOps

ASSUME SyncAssumption ==
  /\ IsFiniteSet(Thread)
  /\ Program \in [Thread -> SUBSET Ops]
  /\ SemMax \in Nat \ {0} /\ SemInit \in 0 .. SemMax
  /\ MaxPosts \in Nat

VARIABLES readers, writer,   \* rwlock_t
          count,             \* semaphore_t
          wait_lock,         \* [rw, sem]: the wait_lock of each
          op, at,            \* each thread's operation and place in it
          win,               \* its test succeeded
          reg,               \* the counter value it has loaded
          hold,              \* "none", "read" or "write": what it has taken
          taken, posted      \* permits handed out and posts that counted

rwlock == <<readers, writer, hold>>
sem    == <<count, taken, posted>>
vars   == <<readers, writer, count, wait_lock, op, at, win, reg, hold, taken,
            posted>>

Lock(o) == IF o \in RwOps THEN "rw" ELSE "sem"
Inside  == {"test", "load", "store", "unlock"}

Goto(t, from, to) == at[t] = from /\ at' = [at EXCEPT ![t] = to]

-----------------------------------------------------------------------------
Init ==
  /\ readers = 0 /\ writer = 0
  /\ count = SemInit
  /\ wait_lock = [l \in {"rw", "sem"} |-> FALSE]
  /\ op   = [t \in Thread |-> "semaphore_getvalue"]
  /\ at   = [t \in Thread |-> "idle"]
  /\ win  = [t \in Thread |-> FALSE]
  /\ reg  = [t \in Thread |-> 0]
  /\ hold = [t \in Thread |-> "none"]
  /\ taken = 0 /\ posted = 0

\* What a thread may call: an unlock for what it holds, a lock when it holds
\* nothing, semaphore operations at any time (posts up to the bound).
MayCall(t, o) ==
  /\ o \in Program[t]
  /\ o = "semaphore_post" => posted < MaxPosts
  /\ o \in ReadTake \cup WriteTake => hold[t] = "none"
  /\ o = "read_unlock"  => hold[t] = "read"
  /\ o = "write_unlock" => hold[t] = "write"

\* Faulty variant: the operation starts without taking wait_lock.
Call_Unlocked(t, o) ==
  /\ MayCall(t, o)
  /\ Goto(t, "idle", "test")
  /\ op' = [op EXCEPT ![t] = o]
  /\ UNCHANGED <<rwlock, sem, wait_lock, win, reg>>

Call(t, o) ==
  /\ MayCall(t, o)
  /\ Goto(t, "idle", "lock")
  /\ op' = [op EXCEPT ![t] = o]
  /\ UNCHANGED <<rwlock, sem, wait_lock, win, reg>>

spin_lock(t) ==
  /\ ~wait_lock[Lock(op[t])]
  /\ Goto(t, "lock", "test")
  /\ wait_lock' = [wait_lock EXCEPT ![Lock(op[t])] = TRUE]
  /\ UNCHANGED <<rwlock, sem, op, win, reg>>

\* A blocking operation that was refused pauses and tries again.
spin_unlock(t) ==
  /\ Goto(t, "unlock",
          IF op[t] \in Blocking /\ ~win[t] THEN "lock" ELSE "idle")
  /\ wait_lock' = [wait_lock EXCEPT ![Lock(op[t])] = FALSE]
  /\ win' = [win EXCEPT ![t] = FALSE]
  /\ UNCHANGED <<rwlock, sem, op, reg>>

-----------------------------------------------------------------------------
(* The condition each operation tests under wait_lock.                     *)

\* Faulty variants: a writer ignores the readers; a post may pass the maximum.
CanWrite_IgnoresReaders == writer = 0
CanPost_OffByOne        == count <= SemMax

CanRead  == writer = 0
CanWrite == readers = 0 /\ writer = 0
CanTake  == count > 0
CanPost  == count < SemMax

Permitted(o) ==
  CASE o \in ReadTake         -> CanRead
    [] o \in WriteTake        -> CanWrite
    [] o \in SemTake          -> CanTake
    [] o = "semaphore_post"   -> CanPost
    [] o = "read_unlock"      -> readers > 0
    [] OTHER                  -> TRUE

\* The writer word is stored without being read first; the others are loaded.
Test(t) ==
  /\ Goto(t, "test",
          IF ~Permitted(op[t]) THEN "unlock"
          ELSE IF op[t] \in WriteTake \cup {"write_unlock"} THEN "store"
          ELSE "load")
  /\ win' = [win EXCEPT ![t] = Permitted(op[t])]
  /\ UNCHANGED <<rwlock, sem, wait_lock, op, reg>>

\* The counter an operation reads.
Counter(o) == IF o \in RwOps THEN readers ELSE count

Load(t) ==
  /\ Goto(t, "load", "store")
  /\ reg' = [reg EXCEPT ![t] = Counter(op[t])]
  /\ UNCHANGED <<rwlock, sem, wait_lock, op, win>>

-----------------------------------------------------------------------------
(* The store that ends each operation.                                     *)

Store(t) ==
  /\ Goto(t, "store", "unlock")
  /\ reg' = [reg EXCEPT ![t] = 0]
  /\ UNCHANGED <<wait_lock, op, win>>

read_trylock(t) ==
  /\ op[t] \in ReadTake
  /\ Store(t)
  /\ readers' = reg[t] + 1
  /\ hold' = [hold EXCEPT ![t] = "read"]
  /\ UNCHANGED <<writer, sem>>

read_unlock(t) ==
  /\ op[t] = "read_unlock"
  /\ Store(t)
  /\ readers' = reg[t] - 1
  /\ hold' = [hold EXCEPT ![t] = "none"]
  /\ UNCHANGED <<writer, sem>>

write_trylock(t) ==
  /\ op[t] \in WriteTake
  /\ Store(t)
  /\ writer' = 1
  /\ hold' = [hold EXCEPT ![t] = "write"]
  /\ UNCHANGED <<readers, sem>>

\* Faulty variant: the writer word is not cleared.
write_unlock_Forgets(t) ==
  /\ op[t] = "write_unlock"
  /\ Store(t)
  /\ hold' = [hold EXCEPT ![t] = "none"]
  /\ UNCHANGED <<readers, writer, sem>>

write_unlock(t) ==
  /\ op[t] = "write_unlock"
  /\ Store(t)
  /\ writer' = 0
  /\ hold' = [hold EXCEPT ![t] = "none"]
  /\ UNCHANGED <<readers, sem>>

semaphore_trywait(t) ==
  /\ op[t] \in SemTake
  /\ Store(t)
  /\ count' = reg[t] - 1
  /\ taken' = taken + 1
  /\ UNCHANGED <<rwlock, posted>>

semaphore_post(t) ==
  /\ op[t] = "semaphore_post"
  /\ Store(t)
  /\ count' = reg[t] + 1
  /\ posted' = posted + 1
  /\ UNCHANGED <<rwlock, taken>>

semaphore_getvalue(t) ==
  /\ op[t] = "semaphore_getvalue"
  /\ Store(t)
  /\ UNCHANGED <<rwlock, sem>>

-----------------------------------------------------------------------------
Step(t) ==
  \/ spin_lock(t) \/ Test(t) \/ Load(t)
  \/ read_trylock(t) \/ read_unlock(t)
  \/ write_trylock(t) \/ write_unlock(t)
  \/ semaphore_trywait(t) \/ semaphore_post(t) \/ semaphore_getvalue(t)
  \/ spin_unlock(t)

Next == \E t \in Thread : Step(t) \/ \E o \in Ops : Call(t, o)

\* A thread inside an operation keeps running; nothing obliges it to call one,
\* and nothing arbitrates between threads that spin on the same lock word.
Fairness == \A t \in Thread : WF_vars(Step(t))

Spec     == Init /\ [][Next]_vars
FairSpec == Spec /\ Fairness

-----------------------------------------------------------------------------
TypeOK ==
  /\ readers \in Nat /\ writer \in {0, 1}
  /\ count \in Int
  /\ wait_lock \in [{"rw", "sem"} -> BOOLEAN]
  /\ op   \in [Thread -> Ops]
  /\ at   \in [Thread -> {"idle", "lock"} \cup Inside]
  /\ win  \in [Thread -> BOOLEAN]
  /\ reg  \in [Thread -> Int]
  /\ hold \in [Thread -> {"none", "read", "write"}]
  /\ taken \in Nat /\ posted \in Nat

Readers == {t \in Thread : hold[t] = "read"}

\* A writer is alone: while a thread has the write lock no other thread has
\* the lock in any mode, from the store that took it to the store that gives
\* it back.
RwExclusion ==
  \A t, u \in Thread : hold[t] = "write" /\ u # t => hold[u] = "none"

\* The two words of the lock tell who holds it: readers counts the readers,
\* writer is set exactly while there is a writer.
RwAccounting ==
  /\ readers = Cardinality(Readers)
  /\ writer = 1 <=> \E t \in Thread : hold[t] = "write"

\* No permit is lost or invented: what the semaphore has left and what it has
\* handed out add up to what it began with and what was posted.
SemConserved == count + taken = SemInit + posted

\* The count never goes below zero nor above max_count, so threads that were
\* admitted are never more than permits existed.
SemBounded == 0 <= count /\ count <= SemMax

\* If a thread spins for the read-write lock and nobody holds it, somebody
\* gets it: the retry loops do not keep each other out.
RwProgress ==
  (/\ \A t \in Thread : hold[t] = "none"
   /\ \E t \in Thread : op[t] \in {"read_lock", "write_lock"} /\ at[t] # "idle")
  ~> (\E t \in Thread : hold[t] # "none")
=============================================================================
