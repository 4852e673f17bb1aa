----------------------------- MODULE SyncProofs -----------------------------
(***************************************************************************)
(* For any number of threads running any mix of the operations: a writer   *)
(* is alone, the words of the read-write lock tell who holds it, and the   *)
(* semaphore neither loses nor invents a permit.                           *)
(***************************************************************************)
EXTENDS Sync, FiniteSetTheorems, TLAPS

USE SyncAssumption

WriteOps == WriteTake \cup {"write_unlock"}

\* One thread at a time is inside the operations of each wait_lock.
LockHeld ==
  /\ \A t \in Thread : at[t] \in Inside => wait_lock[Lock(op[t])]
  /\ \A t, u \in Thread :
        /\ at[t] \in Inside /\ at[u] \in Inside
        /\ Lock(op[t]) = Lock(op[u])
        => t = u

\* Between its test and its store, what a thread tested is still so.
Tested ==
  \A t \in Thread : at[t] \in {"load", "store"} => win[t] /\ Permitted(op[t])

\* What it loaded is still the value of the counter when it stores.
Loaded ==
  \A t \in Thread : at[t] = "store" /\ op[t] \notin WriteOps
                      => reg[t] = Counter(op[t])

\* Until its operation has taken effect a thread holds what it held when it
\* called: nothing for a lock operation, the lock for its unlock.
Pending(t) == \/ at[t] \in {"lock", "test", "load", "store"}
              \/ at[t] = "unlock" /\ ~win[t]

HoldsForOp ==
  \A t \in Thread : Pending(t) =>
    /\ op[t] \in ReadTake \cup WriteTake => hold[t] = "none"
    /\ op[t] = "read_unlock"  => hold[t] = "read"
    /\ op[t] = "write_unlock" => hold[t] = "write"

IInv ==
  /\ TypeOK /\ LockHeld /\ Tested /\ Loaded /\ HoldsForOp
  /\ RwExclusion /\ RwAccounting /\ SemConserved /\ SemBounded

\* The set of readers is finite, so that its size is a number.
LEMMA ReadersFinite ==
  IsFiniteSet(Readers) /\ Cardinality(Readers) \in Nat
<1>1. Readers \subseteq Thread
  BY DEF Readers
<1>2. IsFiniteSet(Readers)
  BY <1>1, FS_Subset
<1> QED
  BY <1>2, FS_CardinalityType

\* Nothing is held and nobody has called.
LEMMA InitIInv == Init => IInv
<1> SUFFICES ASSUME Init PROVE IInv
  OBVIOUS
<1>1. TypeOK
  <2>1. /\ wait_lock \in [{"rw", "sem"} -> BOOLEAN]
        /\ win \in [Thread -> BOOLEAN]
    BY DEF Init
  <2>2. /\ op \in [Thread -> Ops]
        /\ at \in [Thread -> {"idle", "lock"} \cup Inside]
        /\ reg \in [Thread -> Int]
        /\ hold \in [Thread -> {"none", "read", "write"}]
    BY DEF Init, Ops, SemOps
  <2> QED
    BY <2>1, <2>2 DEF Init, TypeOK
<1>2. LockHeld /\ Tested /\ Loaded /\ HoldsForOp /\ RwExclusion
  BY DEF Init, LockHeld, Tested, Loaded, HoldsForOp, Pending, RwExclusion,
         Inside
<1>3. RwAccounting
  <2>1. Readers = {}
    BY DEF Init, Readers
  <2>2. Cardinality(Readers) = 0
    BY <2>1, FS_EmptySet
  <2> QED
    BY <2>2 DEF Init, RwAccounting
<1>4. SemConserved /\ SemBounded
  BY DEF Init, SemConserved, SemBounded
<1> QED
  BY <1>1, <1>2, <1>3, <1>4 DEF IInv

\* The store of any operation, without what it stores.
Stores(t) ==
  \/ read_trylock(t) \/ read_unlock(t) \/ write_trylock(t) \/ write_unlock(t)
  \/ semaphore_trywait(t) \/ semaphore_post(t) \/ semaphore_getvalue(t)

\* A step of the system is one of these, by some thread, or changes nothing.
LEMMA NextCases ==
  ASSUME [Next]_vars
  PROVE  \/ \E t \in Thread, o \in Ops : Call(t, o)
         \/ \E t \in Thread : spin_lock(t) \/ Test(t) \/ Load(t)
                              \/ Stores(t) \/ spin_unlock(t)
         \/ UNCHANGED vars
BY DEF Next, Step, Stores

\* Every operation name belongs to one of the two locks.
LEMMA LockType == \A o \in Ops : Lock(o) \in {"rw", "sem"}
BY DEF Lock

\* The outcome of a test is a truth value.
LEMMA PermittedType ==
  ASSUME TypeOK PROVE \A o : Permitted(o) \in BOOLEAN
<1> TAKE o
<1>1. (writer = 0) \in BOOLEAN /\ (readers = 0 /\ writer = 0) \in BOOLEAN
  OBVIOUS
<1>2. (count > 0) \in BOOLEAN /\ (count < SemMax) \in BOOLEAN
      /\ (readers > 0) \in BOOLEAN
  BY DEF TypeOK
<1> QED
  BY <1>1, <1>2, Zenon DEF Permitted, CanRead, CanWrite, CanTake, CanPost

\* The condition of the two lock operations.
LEMMA PermittedRw ==
  /\ \A o \in ReadTake : Permitted(o) = CanRead
  /\ \A o \in WriteTake : Permitted(o) = CanWrite
BY DEF Permitted, ReadTake, WriteTake, SemTake

\* No step takes a word or a place out of its range.
LEMMA TypeStep == IInv /\ [Next]_vars => TypeOK'
<1> SUFFICES ASSUME IInv, [Next]_vars PROVE TypeOK'
  OBVIOUS
<1> USE DEF IInv, TypeOK, Goto, rwlock, sem, Inside
<1>1. ASSUME NEW t \in Thread, NEW o \in Ops, Call(t, o) PROVE TypeOK'
  BY <1>1 DEF Call
<1>2. ASSUME NEW t \in Thread, spin_lock(t) PROVE TypeOK'
  <2>1. wait_lock' \in [{"rw", "sem"} -> BOOLEAN]
    BY <1>2 DEF spin_lock
  <2> QED
    BY <1>2, <2>1 DEF spin_lock
<1>3. ASSUME NEW t \in Thread, Test(t) PROVE TypeOK'
  <2>1. Permitted(op[t]) \in BOOLEAN
    BY PermittedType
  <2>2. win' \in [Thread -> BOOLEAN]
    BY <1>3, <2>1 DEF Test
  <2> QED
    BY <1>3, <2>2 DEF Test
<1>4. ASSUME NEW t \in Thread, Load(t) PROVE TypeOK'
  BY <1>4 DEF Load, Counter
<1>5. ASSUME NEW t \in Thread, Stores(t) PROVE TypeOK'
  <2> USE DEF Store
  <2>1. CASE read_trylock(t)
    BY <2>1 DEF read_trylock, Loaded, Counter, WriteOps, WriteTake, ReadTake, RwOps
  <2>2. CASE read_unlock(t)
    BY <2>2 DEF read_unlock, Loaded, Counter, WriteOps, WriteTake, RwOps, Tested, Permitted, ReadTake, SemTake
  <2>3. CASE write_trylock(t)
    BY <2>3 DEF write_trylock
  <2>4. CASE write_unlock(t)
    BY <2>4 DEF write_unlock
  <2>5. CASE semaphore_trywait(t)
    BY <2>5 DEF semaphore_trywait
  <2>6. CASE semaphore_post(t)
    BY <2>6 DEF semaphore_post
  <2>7. CASE semaphore_getvalue(t)
    BY <2>7 DEF semaphore_getvalue
  <2> QED
    BY <1>5, <2>1, <2>2, <2>3, <2>4, <2>5, <2>6, <2>7 DEF Stores
<1>6. ASSUME NEW t \in Thread, spin_unlock(t) PROVE TypeOK'
  <2>1. /\ wait_lock' \in [{"rw", "sem"} -> BOOLEAN]
        /\ win' \in [Thread -> BOOLEAN]
    BY <1>6 DEF spin_unlock
  <2> QED
    BY <1>6, <2>1 DEF spin_unlock
<1>7. CASE UNCHANGED vars
  BY <1>7 DEF vars
<1> QED
  BY <1>1, <1>2, <1>3, <1>4, <1>5, <1>6, <1>7, NextCases

\* wait_lock excludes: only the thread that set it is inside.
LEMMA LockStep == IInv /\ [Next]_vars => LockHeld'
<1> SUFFICES ASSUME IInv, [Next]_vars PROVE LockHeld'
  OBVIOUS
<1> USE LockType DEF IInv, TypeOK, Goto, Inside, LockHeld
<1>1. ASSUME NEW t \in Thread, NEW o \in Ops, Call(t, o) PROVE LockHeld'
  BY <1>1 DEF Call
<1>2. ASSUME NEW t \in Thread, spin_lock(t) PROVE LockHeld'
  BY <1>2 DEF spin_lock
<1>3. ASSUME NEW t \in Thread, Test(t) PROVE LockHeld'
  BY <1>3 DEF Test
<1>4. ASSUME NEW t \in Thread, Load(t) PROVE LockHeld'
  BY <1>4 DEF Load
<1>5. ASSUME NEW t \in Thread, Stores(t) PROVE LockHeld'
  <2>1. Store(t)
    BY <1>5 DEF Stores, read_trylock, read_unlock, write_trylock,
                write_unlock, semaphore_trywait, semaphore_post,
                semaphore_getvalue
  <2> QED
    BY <2>1 DEF Store
<1>6. ASSUME NEW t \in Thread, spin_unlock(t) PROVE LockHeld'
  BY <1>6 DEF spin_unlock
<1>7. CASE UNCHANGED vars
  BY <1>7 DEF vars
<1> QED
  BY <1>1, <1>2, <1>3, <1>4, <1>5, <1>6, <1>7, NextCases

\* What an operation tests and reads belongs to the data its lock guards.
LEMMA Frame ==
  ASSUME NEW o \in Ops,
         IF Lock(o) = "rw" THEN UNCHANGED <<readers, writer>>
                           ELSE UNCHANGED count
  PROVE  Permitted(o)' = Permitted(o) /\ Counter(o)' = Counter(o)
<1>1. CASE o \in RwOps
  BY <1>1 DEF Lock, Permitted, Counter, CanRead, CanWrite, RwOps,
              ReadTake, WriteTake, SemTake
<1>2. CASE o \notin RwOps
  BY <1>2 DEF Lock, Permitted, Counter, CanTake, CanPost, RwOps,
              ReadTake, WriteTake, SemTake
<1> QED
  BY <1>1, <1>2

\* A store changes only the data that the lock its thread has taken guards.
LEMMA StoreFrame ==
  ASSUME NEW t \in Thread, Stores(t)
  PROVE  /\ Store(t)
         /\ IF Lock(op[t]) = "rw" THEN UNCHANGED count
                                  ELSE UNCHANGED <<readers, writer>>
BY DEF Stores, read_trylock, read_unlock, write_trylock, write_unlock,
       semaphore_trywait, semaphore_post, semaphore_getvalue, Lock, RwOps,
       SemTake, ReadTake, WriteTake, rwlock, sem

\* A test still holds at the store: whoever could change its outcome needs
\* the lock that the thread has.
LEMMA TestedStep == IInv /\ [Next]_vars => Tested' /\ Loaded'
<1> SUFFICES ASSUME IInv, [Next]_vars PROVE Tested' /\ Loaded'
  OBVIOUS
<1> USE DEF IInv, TypeOK, Goto
<1> DEFINE Fine(u) ==
      /\ at[u] \in {"load", "store"} => win[u] /\ Permitted(op[u])
      /\ at[u] = "store" /\ op[u] \notin WriteOps => reg[u] = Counter(op[u])
<1>0. \A u \in Thread : Fine(u)
  BY DEF Tested, Loaded
<1> SUFFICES ASSUME NEW u \in Thread PROVE Fine(u)'
  BY DEF Tested, Loaded
<1>f. ASSUME UNCHANGED <<readers, writer, count>>
      PROVE  op'[u] = op[u] => Permitted(op[u])' = Permitted(op[u])
  BY <1>f DEF Permitted, CanRead, CanWrite, CanTake, CanPost
<1>g. ASSUME UNCHANGED <<readers, writer, count>>
      PROVE  op'[u] = op[u] => Counter(op[u])' = Counter(op[u])
  BY <1>g DEF Counter
<1>1. ASSUME NEW t \in Thread, NEW o \in Ops, Call(t, o) PROVE Fine(u)'
  BY <1>1, <1>0, <1>f, <1>g DEF Call, rwlock, sem
<1>2. ASSUME NEW t \in Thread, spin_lock(t) PROVE Fine(u)'
  BY <1>2, <1>0, <1>f, <1>g DEF spin_lock, rwlock, sem
<1>3. ASSUME NEW t \in Thread, Test(t) PROVE Fine(u)'
  <2>1. Permitted(op[t]) \in BOOLEAN
    BY PermittedType
  <2> QED
    BY <1>3, <1>0, <1>f, <1>g, <2>1 DEF Test, rwlock, sem, WriteOps
<1>4. ASSUME NEW t \in Thread, Load(t) PROVE Fine(u)'
  BY <1>4, <1>0, <1>f, <1>g DEF Load, rwlock, sem
<1>5. ASSUME NEW t \in Thread, Stores(t) PROVE Fine(u)'
  <2>1. Store(t)
    BY <1>5, StoreFrame
  <2>2. CASE u = t
    BY <2>1, <2>2 DEF Store
  <2>3. CASE u # t /\ at[u] \in {"load", "store"}
    <3>1. Lock(op[u]) # Lock(op[t])
      BY <2>1, <2>3 DEF LockHeld, Store, Inside
    <3>2. IF Lock(op[u]) = "rw" THEN UNCHANGED <<readers, writer>>
                                ELSE UNCHANGED count
      BY <3>1, <1>5, StoreFrame, LockType
    <3>3. op[u] \in Ops
      OBVIOUS
    <3>4. Permitted(op[u])' = Permitted(op[u]) /\ Counter(op[u])' = Counter(op[u])
      BY <3>2, <3>3, <2>1, Frame DEF Store
    <3> QED
      BY <3>4, <2>1, <2>3, <1>0 DEF Store
  <2>4. CASE u # t /\ at[u] \notin {"load", "store"}
    BY <2>1, <2>4 DEF Store
  <2> QED
    BY <2>2, <2>3, <2>4
<1>6. ASSUME NEW t \in Thread, spin_unlock(t) PROVE Fine(u)'
  BY <1>6, <1>0, <1>f, <1>g DEF spin_unlock, rwlock, sem
<1>7. CASE UNCHANGED vars
  BY <1>7, <1>0, <1>f, <1>g DEF vars
<1> QED
  BY <1>1, <1>2, <1>3, <1>4, <1>5, <1>6, <1>7, NextCases

\* A thread's hold changes only when its own operation takes effect.
LEMMA HoldsStep == IInv /\ [Next]_vars => HoldsForOp'
<1> SUFFICES ASSUME IInv, [Next]_vars PROVE HoldsForOp'
  OBVIOUS
<1> USE DEF IInv, TypeOK, Goto, HoldsForOp, Pending
<1>1. ASSUME NEW t \in Thread, NEW o \in Ops, Call(t, o) PROVE HoldsForOp'
  BY <1>1 DEF Call, MayCall, rwlock
<1>2. ASSUME NEW t \in Thread, spin_lock(t) PROVE HoldsForOp'
  BY <1>2 DEF spin_lock, rwlock
<1>3. ASSUME NEW t \in Thread, Test(t) PROVE HoldsForOp'
  BY <1>3 DEF Test, rwlock
<1>4. ASSUME NEW t \in Thread, Load(t) PROVE HoldsForOp'
  BY <1>4 DEF Load, rwlock
<1>5. ASSUME NEW t \in Thread, Stores(t) PROVE HoldsForOp'
  <2>1. Store(t)
    BY <1>5, StoreFrame
  <2>2. win[t]
    BY <2>1 DEF Store, Tested
  <2>3. \A u \in Thread \ {t} : hold'[u] = hold[u]
    BY <1>5 DEF Stores, read_trylock, read_unlock, write_trylock,
                write_unlock, semaphore_trywait, semaphore_post,
                semaphore_getvalue, rwlock
  <2> QED
    BY <2>1, <2>2, <2>3 DEF Store
<1>6. ASSUME NEW t \in Thread, spin_unlock(t) PROVE HoldsForOp'
  BY <1>6 DEF spin_unlock, rwlock
<1>7. CASE UNCHANGED vars
  BY <1>7 DEF vars
<1> QED
  BY <1>1, <1>2, <1>3, <1>4, <1>5, <1>6, <1>7, NextCases

\* When the lock words say the lock is free of writers, or of readers, it is.
LEMMA WordsTell ==
  ASSUME IInv
  PROVE  /\ writer = 0 => \A t \in Thread : hold[t] # "write"
         /\ readers = 0 => \A t \in Thread : hold[t] # "read"
<1>1. writer = 0 => \A t \in Thread : hold[t] # "write"
  BY DEF IInv, RwAccounting
<1>2. ASSUME readers = 0 PROVE \A t \in Thread : hold[t] # "read"
  <2>1. Cardinality(Readers) = 0
    BY <1>2 DEF IInv, RwAccounting
  <2>2. Readers = {}
    BY <2>1, ReadersFinite, FS_EmptySet
  <2> QED
    BY <2>2 DEF Readers
<1> QED
  BY <1>1, <1>2

\* The read-write lock: exclusion and the meaning of its two words.
LEMMA RwStep == IInv /\ [Next]_vars => RwExclusion' /\ RwAccounting'
<1> SUFFICES ASSUME IInv, [Next]_vars PROVE RwExclusion' /\ RwAccounting'
  OBVIOUS
<1> USE DEF IInv, TypeOK, Goto
<1>0. ASSUME UNCHANGED rwlock PROVE RwExclusion' /\ RwAccounting'
  BY <1>0 DEF rwlock, RwExclusion, RwAccounting, Readers
<1>1. ASSUME NEW t \in Thread, read_trylock(t)
      PROVE  RwExclusion' /\ RwAccounting'
  <2>1. writer = 0 /\ reg[t] = readers /\ hold[t] = "none"
    <3>1. at[t] = "store" /\ op[t] \in ReadTake
      BY <1>1 DEF read_trylock, Store
    <3>2. Permitted(op[t])
      BY <3>1 DEF Tested
    <3>3. reg[t] = Counter(op[t])
      BY <3>1 DEF Loaded, WriteOps, WriteTake, ReadTake
    <3>4. hold[t] = "none"
      BY <3>1 DEF HoldsForOp, Pending
    <3>5. writer = 0
      BY <3>1, <3>2, PermittedRw DEF CanRead
    <3> QED
      BY <3>1, <3>3, <3>4, <3>5 DEF Counter, RwOps
  <2>2. \A u \in Thread : hold[u] # "write"
    BY <2>1, WordsTell
  <2>3. Readers' = Readers \cup {t} /\ t \notin Readers
    BY <1>1, <2>1 DEF read_trylock, Readers
  <2>4. Cardinality(Readers') = Cardinality(Readers) + 1
    BY <2>3, ReadersFinite, FS_AddElement
  <2>5. readers' = readers + 1 /\ writer' = 0
        /\ hold' = [hold EXCEPT ![t] = "read"]
    BY <1>1, <2>1 DEF read_trylock
  <2>6. RwExclusion'
    BY <2>2, <2>5 DEF RwExclusion
  <2>7. readers' = Cardinality(Readers)'
    BY <2>4, <2>5 DEF RwAccounting
  <2>8. writer' = 1 <=> \E u \in Thread : hold'[u] = "write"
    BY <2>2, <2>5
  <2> QED
    BY <2>6, <2>7, <2>8 DEF RwAccounting
<1>2. ASSUME NEW t \in Thread, read_unlock(t)
      PROVE  RwExclusion' /\ RwAccounting'
  <2>1. reg[t] = readers /\ hold[t] = "read"
    <3>1. at[t] = "store" /\ op[t] = "read_unlock"
      BY <1>2 DEF read_unlock, Store
    <3>2. reg[t] = Counter(op[t])
      BY <3>1 DEF Loaded, WriteOps, WriteTake
    <3>3. hold[t] = "read"
      BY <3>1 DEF HoldsForOp, Pending
    <3> QED
      BY <3>1, <3>2, <3>3 DEF Counter, RwOps
  <2>2. Readers' = Readers \ {t} /\ t \in Readers
    BY <1>2, <2>1 DEF read_unlock, Readers
  <2>3. Cardinality(Readers') = Cardinality(Readers) - 1
    BY <2>2, ReadersFinite, FS_RemoveElement
  <2>4. readers' = readers - 1 /\ writer' = writer
        /\ hold' = [hold EXCEPT ![t] = "none"]
    BY <1>2, <2>1 DEF read_unlock
  <2>5. RwExclusion'
    BY <2>4 DEF RwExclusion
  <2>6. readers' = Cardinality(Readers)'
    BY <2>3, <2>4 DEF RwAccounting
  <2>7. writer' = 1 <=> \E u \in Thread : hold'[u] = "write"
    <3>1. writer = 1 <=> \E u \in Thread : hold[u] = "write"
      BY DEF RwAccounting
    <3>2. \A u \in Thread : hold'[u] = "write" <=> hold[u] = "write"
      BY <2>1, <2>4
    <3> QED
      BY <3>1, <3>2, <2>4
  <2> QED
    BY <2>5, <2>6, <2>7 DEF RwAccounting
<1>3. ASSUME NEW t \in Thread, write_trylock(t)
      PROVE  RwExclusion' /\ RwAccounting'
  <2>1. writer = 0 /\ readers = 0
    <3>1. at[t] = "store" /\ op[t] \in WriteTake
      BY <1>3 DEF write_trylock, Store
    <3>2. Permitted(op[t])
      BY <3>1 DEF Tested
    <3> QED
      BY <3>1, <3>2, PermittedRw DEF CanWrite
  <2>2. \A u \in Thread : hold[u] = "none"
    BY <2>1, WordsTell
  <2>3. readers' = 0 /\ writer' = 1 /\ hold' = [hold EXCEPT ![t] = "write"]
    BY <1>3, <2>1 DEF write_trylock
  <2>4. RwExclusion'
    BY <2>2, <2>3 DEF RwExclusion
  <2>5. Readers' = Readers
    BY <2>2, <2>3 DEF Readers
  <2>6. readers' = Cardinality(Readers)'
    BY <2>1, <2>3, <2>5 DEF RwAccounting
  <2>7. writer' = 1 <=> \E u \in Thread : hold'[u] = "write"
    BY <2>3
  <2> QED
    BY <2>4, <2>6, <2>7 DEF RwAccounting
<1>4. ASSUME NEW t \in Thread, write_unlock(t)
      PROVE  RwExclusion' /\ RwAccounting'
  <2>1. hold[t] = "write"
    BY <1>4 DEF write_unlock, Store, HoldsForOp, Pending
  <2>2. \A u \in Thread : u # t => hold[u] = "none"
    BY <2>1 DEF RwExclusion
  <2>3. readers' = readers /\ writer' = 0 /\ hold' = [hold EXCEPT ![t] = "none"]
    BY <1>4 DEF write_unlock
  <2>4. RwExclusion'
    BY <2>2, <2>3 DEF RwExclusion
  <2>5. Readers' = Readers
    BY <2>1, <2>3 DEF Readers
  <2>6. readers' = Cardinality(Readers)'
    BY <2>3, <2>5 DEF RwAccounting
  <2>7. writer' = 1 <=> \E u \in Thread : hold'[u] = "write"
    BY <2>2, <2>3
  <2> QED
    BY <2>4, <2>6, <2>7 DEF RwAccounting
<1>5. ASSUME NEW t \in Thread, Stores(t), Lock(op[t]) = "sem"
      PROVE  UNCHANGED rwlock
  BY <1>5 DEF Stores, read_trylock, read_unlock, write_trylock, write_unlock,
              semaphore_trywait, semaphore_post, semaphore_getvalue, Lock,
              RwOps, ReadTake, WriteTake, rwlock
<1>6. ASSUME NEW t \in Thread, Stores(t), Lock(op[t]) # "sem"
      PROVE  read_trylock(t) \/ read_unlock(t) \/ write_trylock(t) \/ write_unlock(t)
  BY <1>6 DEF Stores, semaphore_trywait, semaphore_post, semaphore_getvalue,
              Lock, RwOps, ReadTake, WriteTake, SemTake
<1>7. ASSUME NEW t \in Thread,
             \/ \E o \in Ops : Call(t, o)
             \/ spin_lock(t) \/ Test(t) \/ Load(t) \/ spin_unlock(t)
      PROVE  UNCHANGED rwlock
  BY <1>7 DEF Call, spin_lock, Test, Load, spin_unlock, rwlock
<1>8. CASE UNCHANGED vars
  BY <1>8, <1>0 DEF vars, rwlock
<1> QED
  BY <1>0, <1>1, <1>2, <1>3, <1>4, <1>5, <1>6, <1>7, <1>8, NextCases

\* The semaphore: each store moves one permit between count and its users.
LEMMA SemStep == IInv /\ [Next]_vars => SemConserved' /\ SemBounded'
<1> SUFFICES ASSUME IInv, [Next]_vars PROVE SemConserved' /\ SemBounded'
  OBVIOUS
<1> USE DEF IInv, TypeOK, Goto, SemConserved, SemBounded
<1>0. ASSUME UNCHANGED sem PROVE SemConserved' /\ SemBounded'
  BY <1>0 DEF sem
<1>1. ASSUME NEW t \in Thread, semaphore_trywait(t)
      PROVE  SemConserved' /\ SemBounded'
  <2>1. at[t] = "store" /\ op[t] \in SemTake
    BY <1>1 DEF semaphore_trywait, Store
  <2>2. Permitted(op[t]) /\ reg[t] = Counter(op[t])
    BY <2>1 DEF Tested, Loaded, WriteOps, WriteTake, SemTake
  <2>3. count > 0 /\ reg[t] = count
    BY <2>1, <2>2 DEF Permitted, CanTake, Counter, SemTake, ReadTake,
                      WriteTake, RwOps
  <2> QED
    BY <1>1, <2>3 DEF semaphore_trywait
<1>2. ASSUME NEW t \in Thread, semaphore_post(t)
      PROVE  SemConserved' /\ SemBounded'
  <2>1. at[t] = "store" /\ op[t] = "semaphore_post"
    BY <1>2 DEF semaphore_post, Store
  <2>2. Permitted(op[t]) /\ reg[t] = Counter(op[t])
    BY <2>1 DEF Tested, Loaded, WriteOps, WriteTake
  <2>3. count < SemMax /\ reg[t] = count
    BY <2>1, <2>2 DEF Permitted, CanPost, Counter, SemTake, ReadTake,
                      WriteTake, RwOps
  <2> QED
    BY <1>2, <2>3 DEF semaphore_post
<1>3. ASSUME NEW t \in Thread,
             \/ read_trylock(t) \/ read_unlock(t) \/ write_trylock(t)
             \/ write_unlock(t) \/ semaphore_getvalue(t)
      PROVE  UNCHANGED sem
  BY <1>3 DEF read_trylock, read_unlock, write_trylock, write_unlock,
              semaphore_getvalue
<1>4. ASSUME NEW t \in Thread,
             \/ \E o \in Ops : Call(t, o)
             \/ spin_lock(t) \/ Test(t) \/ Load(t) \/ spin_unlock(t)
      PROVE  UNCHANGED sem
  BY <1>4 DEF Call, spin_lock, Test, Load, spin_unlock
<1>5. CASE UNCHANGED vars
  BY <1>5, <1>0 DEF vars, sem
<1> QED
  BY <1>0, <1>1, <1>2, <1>3, <1>4, <1>5, NextCases DEF Stores

\* The whole invariant, in every state of every execution.
THEOREM SyncInvariant == Spec => []IInv
<1>1. IInv /\ [Next]_vars => IInv'
  BY TypeStep, LockStep, TestedStep, HoldsStep, RwStep, SemStep DEF IInv
<1> QED
  BY InitIInv, <1>1, PTL DEF Spec

\* read_lock, write_lock and their try and unlock operations: a writer is
\* always alone, and readers and writer tell exactly who holds the lock.
THEOREM RwLockSafe == Spec => [](RwExclusion /\ RwAccounting)
<1>1. IInv => RwExclusion /\ RwAccounting
  BY DEF IInv
<1> QED
  BY SyncInvariant, <1>1, PTL

\* semaphore_wait, trywait and post: the count stays between 0 and max_count
\* and no permit is lost to an interleaved decrement or increment.
THEOREM SemaphoreSafe == Spec => [](SemConserved /\ SemBounded)
<1>1. IInv => SemConserved /\ SemBounded
  BY DEF IInv
<1> QED
  BY SyncInvariant, <1>1, PTL

\* The words and places of read_lock, write_lock and the semaphore operations
\* stay in their ranges; in particular readers never goes below zero.
THEOREM SyncTypeCorrect == Spec => []TypeOK
<1>1. IInv => TypeOK
  BY DEF IInv
<1> QED
  BY SyncInvariant, <1>1, PTL

\* After any mix of read and write operations the readers and writer words are
\* exactly the threads that hold the lock.
THEOREM RwWordsAccount == Spec => []RwAccounting
BY RwLockSafe, PTL

\* semaphore_post never takes the count past max_count, and no wait takes it
\* below zero.
THEOREM SemaphoreBounded == Spec => []SemBounded
BY SemaphoreSafe, PTL
=============================================================================
