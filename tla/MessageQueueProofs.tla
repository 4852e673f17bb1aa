------------------------- MODULE MessageQueueProofs -------------------------
(***************************************************************************)
(* For any number of threads, any messages and any ring size: the          *)
(* spinlock excludes, the ring indices agree and the queue implements the  *)
(* bounded FIFO, up to the first use of a queue that was freed under its   *)
(* caller.                                                                 *)
(***************************************************************************)
EXTENDS MessageQueue, SequenceTheorems, TLAPS

USE QueueAssumption

\* Who is where: a thread that is inside a call, and not dangling, has a queue,
\* and its request matches the code it is in.
CallState ==
  /\ \A p \in Proc : pc[p] \notin Outside => alive
  /\ \A p \in Proc : pc[p] \in Sending \cup {"send_lock"} => req[p] \in Msg
  /\ \A p \in Proc : pc[p] \in Receiving \cup {"receive_lock"}
                        => req[p] = Receive

\* The inductive invariant: each part needs the others.  The ring is
\* consistent because one thread at a time is under the lock; the lock is
\* exclusive because nobody reinitialises it while it is held, which holds
\* because create finds every thread outside a call or dangling.
IInv == TypeOK /\ LockExclusion /\ RingConsistent /\ CallState

\* The remainder by the ring size, for every index the code forms.
LEMMA SlotValue ==
  ASSUME NEW i \in 0 .. 2 * MAX_MESSAGES_IN_QUEUE - 1
  PROVE  Slot(i) = IF i < MAX_MESSAGES_IN_QUEUE
                   THEN i ELSE i - MAX_MESSAGES_IN_QUEUE
BY DEF Slot

\* A queue that was never created satisfies every part.
LEMMA InitIInv == Init => IInv
<1> SUFFICES ASSUME Init PROVE IInv
  OBVIOUS
<1>1. TypeOK
  <2>1. messages \in [Slots -> Msg \cup {NoMsg}]
    BY DEF Init
  <2>2. 0 \in Slots /\ 0 \in 0 .. MAX_MESSAGES_IN_QUEUE
    BY DEF Slots
  <2>3. lock \in BOOLEAN /\ alive \in BOOLEAN
    BY DEF Init
  <2> QED
    BY <2>1, <2>2, <2>3 DEF Init, TypeOK, Locations, Outside
<1>2. LockExclusion
  BY DEF Init, LockExclusion, Holding, Sending, Receiving,
         Unlocking
<1>3. RingConsistent
  <2>1. Slot(0) = 0
    BY SlotValue
  <2> QED
    BY <2>1 DEF Init, RingConsistent
<1>4. CallState
  BY DEF Init, CallState, Outside, Sending, Receiving
<1> QED
  BY <1>1, <1>2, <1>3, <1>4 DEF IInv

\* No step takes an index, the count or a place out of its range.
LEMMA TypeStep == TypeOK /\ RingConsistent /\ [Next]_vars => TypeOK'
<1> SUFFICES ASSUME TypeOK, RingConsistent, [Next]_vars PROVE TypeOK'
  OBVIOUS
<1> USE DEF TypeOK, Slots, queue, Goto
<1>1. CASE msg_queue_create
  <2>1. messages' \in [Slots -> Msg \cup {NoMsg}]
    BY <1>1 DEF msg_queue_create
  <2>2. 0 \in Slots /\ 0 \in 0 .. MAX_MESSAGES_IN_QUEUE
    OBVIOUS
  <2>3. lock' \in BOOLEAN /\ alive' \in BOOLEAN
    BY <1>1 DEF msg_queue_create
  <2> QED
    BY <1>1, <2>1, <2>2, <2>3 DEF msg_queue_create
<1>2. ASSUME NEW p \in Proc, NEW m \in Msg, msg_queue_send(p, m)
      PROVE  TypeOK'
  BY <1>2 DEF msg_queue_send, Locations, Locking
<1>3. ASSUME NEW p \in Proc, msg_queue_receive(p)
      PROVE  TypeOK'
  BY <1>3 DEF msg_queue_receive, Locations, Locking
<1>4. ASSUME NEW p \in Proc, msg_queue_destroy(p)
      PROVE  TypeOK'
  BY <1>4 DEF msg_queue_destroy, Locations, Locking
<1>5. ASSUME NEW p \in Proc, Step(p)
      PROVE  TypeOK'
  <2> USE DEF Locations, Outside, Holding, Sending, Receiving, Unlocking
  <2>1. CASE spinlock_acquire(p)
    BY <2>1 DEF spinlock_acquire
  <2>2. CASE SendTest(p)
    BY <2>2 DEF SendTest
  <2>3. CASE SendCopy(p)
    BY <2>3 DEF SendCopy, RingConsistent
  <2>4. CASE SendTail(p)
    <3>1. Slot(tail + 1) \in Slots
      BY SlotValue
    <3> QED
      BY <2>4, <3>1 DEF SendTail
  <2>5. CASE SendCount(p)
    BY <2>5 DEF SendCount, RingConsistent
  <2>6. CASE ReceiveTest(p)
    BY <2>6 DEF ReceiveTest
  <2>7. CASE ReceiveCopy(p)
    BY <2>7 DEF ReceiveCopy
  <2>8. CASE ReceiveHead(p)
    <3>1. Slot(head + 1) \in Slots
      BY SlotValue
    <3> QED
      BY <2>8, <3>1 DEF ReceiveHead
  <2>9. CASE ReceiveCount(p)
    BY <2>9 DEF ReceiveCount, RingConsistent
  <2>10. CASE spinlock_release(p)
    BY <2>10 DEF spinlock_release
  <2>11. CASE DestroyFree(p)
    BY <2>11 DEF DestroyFree
  <2> QED
    BY <1>5, <2>1, <2>2, <2>3, <2>4, <2>5, <2>6, <2>7, <2>8, <2>9, <2>10,
       <2>11 DEF Step
<1>6. CASE UNCHANGED vars
  BY <1>6 DEF vars
<1> QED
  BY <1>1, <1>2, <1>3, <1>4, <1>5, <1>6 DEF Next

\* Freeing the queue leaves every thread that was inside a call dangling.
LEMMA CallStateStep == TypeOK /\ CallState /\ [Next]_vars => CallState'
<1> SUFFICES ASSUME TypeOK, CallState, [Next]_vars PROVE CallState'
  OBVIOUS
<1> USE DEF TypeOK, CallState, Outside, Sending, Receiving,
            queue, Goto
<1>1. CASE msg_queue_create
  BY <1>1 DEF msg_queue_create
<1>2. ASSUME NEW p \in Proc, NEW m \in Msg, msg_queue_send(p, m)
      PROVE  CallState'
  BY <1>2 DEF msg_queue_send
<1>3. ASSUME NEW p \in Proc, msg_queue_receive(p)
      PROVE  CallState'
  BY <1>3 DEF msg_queue_receive
<1>4. ASSUME NEW p \in Proc, msg_queue_destroy(p)
      PROVE  CallState'
  BY <1>4 DEF msg_queue_destroy
<1>5. ASSUME NEW p \in Proc, Step(p)
      PROVE  CallState'
  <2>1. CASE spinlock_acquire(p)
    BY <2>1 DEF spinlock_acquire
  <2>2. CASE SendTest(p)
    BY <2>2 DEF SendTest
  <2>3. CASE SendCopy(p)
    BY <2>3 DEF SendCopy
  <2>4. CASE SendTail(p)
    BY <2>4 DEF SendTail
  <2>5. CASE SendCount(p)
    BY <2>5 DEF SendCount
  <2>6. CASE ReceiveTest(p)
    BY <2>6 DEF ReceiveTest
  <2>7. CASE ReceiveCopy(p)
    BY <2>7 DEF ReceiveCopy
  <2>8. CASE ReceiveHead(p)
    BY <2>8 DEF ReceiveHead
  <2>9. CASE ReceiveCount(p)
    BY <2>9 DEF ReceiveCount
  <2>10. CASE spinlock_release(p)
    BY <2>10 DEF spinlock_release
  <2>11. CASE DestroyFree(p)
    BY <2>11 DEF DestroyFree
  <2> QED
    BY <1>5, <2>1, <2>2, <2>3, <2>4, <2>5, <2>6, <2>7, <2>8, <2>9, <2>10,
       <2>11 DEF Step
<1>6. CASE UNCHANGED vars
  BY <1>6 DEF vars
<1> QED
  BY <1>1, <1>2, <1>3, <1>4, <1>5, <1>6 DEF Next

\* acquire finds the lock word clear, so nobody is under the lock; release
\* clears it when its only holder leaves; create clears it for an object that
\* no thread is using.
LEMMA LockStep == TypeOK /\ LockExclusion /\ CallState /\ [Next]_vars => LockExclusion'
<1> SUFFICES ASSUME TypeOK, LockExclusion, CallState, [Next]_vars PROVE LockExclusion'
  OBVIOUS
<1> USE DEF TypeOK, LockExclusion, Holding, Sending, Receiving, Unlocking, queue, Goto
<1>1. CASE msg_queue_create
  BY <1>1 DEF msg_queue_create, CallState, Outside
<1>2. ASSUME NEW p \in Proc, NEW m \in Msg, msg_queue_send(p, m)
      PROVE  LockExclusion'
  BY <1>2 DEF msg_queue_send
<1>3. ASSUME NEW p \in Proc, msg_queue_receive(p)
      PROVE  LockExclusion'
  BY <1>3 DEF msg_queue_receive
<1>4. ASSUME NEW p \in Proc, msg_queue_destroy(p)
      PROVE  LockExclusion'
  BY <1>4 DEF msg_queue_destroy
<1>5. ASSUME NEW p \in Proc, Step(p)
      PROVE  LockExclusion'
  <2>1. CASE spinlock_acquire(p)
    <3>1. alive /\ lock' /\ alive' = alive
      BY <2>1 DEF spinlock_acquire, CallState, Outside
    <3>2. \A q \in Proc : pc[q] \notin Holding
      BY <2>1, <3>1 DEF spinlock_acquire
    <3>3. /\ pc'[p] \in Holding
          /\ \A q \in Proc : q # p => pc'[q] = pc[q]
      BY <2>1 DEF spinlock_acquire
    <3> QED
      BY <3>1, <3>2, <3>3
  <2>2. CASE SendTest(p)
    BY <2>2 DEF SendTest
  <2>3. CASE SendCopy(p)
    BY <2>3 DEF SendCopy
  <2>4. CASE SendTail(p)
    BY <2>4 DEF SendTail
  <2>5. CASE SendCount(p)
    BY <2>5 DEF SendCount
  <2>6. CASE ReceiveTest(p)
    BY <2>6 DEF ReceiveTest
  <2>7. CASE ReceiveCopy(p)
    BY <2>7 DEF ReceiveCopy
  <2>8. CASE ReceiveHead(p)
    BY <2>8 DEF ReceiveHead
  <2>9. CASE ReceiveCount(p)
    BY <2>9 DEF ReceiveCount
  <2>10. CASE spinlock_release(p)
    BY <2>10 DEF spinlock_release
  <2>11. CASE DestroyFree(p)
    BY <2>11 DEF DestroyFree
  <2> QED
    BY <1>5, <2>1, <2>2, <2>3, <2>4, <2>5, <2>6, <2>7, <2>8, <2>9, <2>10,
       <2>11 DEF Step
<1>6. CASE UNCHANGED vars
  BY <1>6 DEF vars
<1> QED
  BY <1>1, <1>2, <1>3, <1>4, <1>5, <1>6 DEF Next

\* Between acquire and release only one thread changes the ring, so what it
\* has already moved is exactly what its place in the code says.
LEMMA RingStep == IInv /\ [Next]_vars => RingConsistent'
<1> SUFFICES ASSUME IInv, [Next]_vars PROVE RingConsistent'
  OBVIOUS
<1> USE DEF IInv, TypeOK, RingConsistent, Slots, queue, Goto
<1>1. CASE msg_queue_create
  <2>1. Slot(0) = 0
    BY SlotValue
  <2> QED
    BY <1>1, <2>1 DEF msg_queue_create, CallState, Outside
<1>2. ASSUME NEW p \in Proc, NEW m \in Msg, msg_queue_send(p, m)
      PROVE  RingConsistent'
  BY <1>2 DEF msg_queue_send
<1>3. ASSUME NEW p \in Proc, msg_queue_receive(p)
      PROVE  RingConsistent'
  BY <1>3 DEF msg_queue_receive
<1>4. ASSUME NEW p \in Proc, msg_queue_destroy(p)
      PROVE  RingConsistent'
  BY <1>4 DEF msg_queue_destroy
<1>5. ASSUME NEW p \in Proc, Step(p)
      PROVE  RingConsistent'
  <2>1. CASE spinlock_acquire(p)
    BY <2>1 DEF spinlock_acquire, LockExclusion, Holding, Sending, Receiving,
         Unlocking
  <2>2. CASE SendTest(p)
    BY <2>2 DEF SendTest, LockExclusion, CallState, Holding, Sending,
       Receiving, Unlocking
  <2>3. CASE SendCopy(p)
    <3>1. \A q \in Proc : q # p => pc[q] \notin Holding /\ pc'[q] = pc[q]
      BY <2>3 DEF SendCopy, LockExclusion, Holding, Sending, Receiving,
         Unlocking
    <3>2. pc[p] = "send_copy" /\ pc'[p] = "send_tail"
      BY <2>3 DEF SendCopy
    <3>3. messages'[tail] = req[p]
      BY <2>3 DEF SendCopy
    <3> QED
      BY <2>3, <3>1, <3>2, <3>3 DEF SendCopy, Holding, Sending, Receiving, Unlocking
  <2>4. CASE SendTail(p)
    <3>1. \A q \in Proc : q # p => pc[q] \notin Holding /\ pc'[q] = pc[q]
      BY <2>4 DEF SendTail, LockExclusion, Holding, Sending, Receiving,
         Unlocking
    <3>2. pc[p] = "send_tail" /\ pc'[p] = "send_count"
      BY <2>4 DEF SendTail
    <3>3. Slot(head + count) = IF head + count < MAX_MESSAGES_IN_QUEUE
          THEN head + count ELSE head + count - MAX_MESSAGES_IN_QUEUE
      BY <3>2, SlotValue
    <3>4. Slot(head + count + 1) = IF head + count + 1 < MAX_MESSAGES_IN_QUEUE
          THEN head + count + 1 ELSE head + count + 1 - MAX_MESSAGES_IN_QUEUE
      BY <3>2, SlotValue
    <3>5. Slot(tail + 1) = IF tail + 1 < MAX_MESSAGES_IN_QUEUE
          THEN tail + 1 ELSE tail + 1 - MAX_MESSAGES_IN_QUEUE
      BY <3>2, SlotValue
    <3>6. tail = Slot(head + count)
      BY <3>1, <3>2 DEF CallState, Outside, Holding, Sending, Receiving, Unlocking
    <3>7. tail' = Slot(head + count + 1)
      BY <2>4, <3>2, <3>3, <3>4, <3>5, <3>6 DEF SendTail
    <3>8. messages[Slot(head + count)] = req[p]
      BY <3>2, <3>6
    <3> QED
      BY <2>4, <3>1, <3>2, <3>7, <3>8 DEF SendTail, Holding, Sending, Receiving, Unlocking
  <2>5. CASE SendCount(p)
    <3>1. \A q \in Proc : q # p => pc[q] \notin Holding /\ pc'[q] = pc[q]
      BY <2>5 DEF SendCount, LockExclusion, Holding, Sending, Receiving,
         Unlocking
    <3>2. pc[p] = "send_count" /\ pc'[p] = "unlock_ok"
      BY <2>5 DEF SendCount
    <3>3. head + count' = head + count + 1
      BY <2>5 DEF SendCount
    <3> QED
      BY <2>5, <3>1, <3>2, <3>3 DEF SendCount, Holding, Sending, Receiving, Unlocking
  <2>6. CASE ReceiveTest(p)
    BY <2>6 DEF ReceiveTest, LockExclusion, Holding, Sending, Receiving,
         Unlocking
  <2>7. CASE ReceiveCopy(p)
    BY <2>7 DEF ReceiveCopy
  <2>8. CASE ReceiveHead(p)
    <3>1. \A q \in Proc : q # p => pc[q] \notin Holding /\ pc'[q] = pc[q]
      BY <2>8 DEF ReceiveHead, LockExclusion, Holding, Sending, Receiving,
         Unlocking
    <3>2. pc[p] = "receive_head" /\ pc'[p] = "receive_count"
      BY <2>8 DEF ReceiveHead
    <3>3. Slot(head + count) = IF head + count < MAX_MESSAGES_IN_QUEUE
          THEN head + count ELSE head + count - MAX_MESSAGES_IN_QUEUE
      BY <3>2, SlotValue
    <3>4. Slot(head + 1) = IF head + 1 < MAX_MESSAGES_IN_QUEUE
          THEN head + 1 ELSE head + 1 - MAX_MESSAGES_IN_QUEUE
      BY <3>2, SlotValue
    <3>5. tail = Slot(head + count)
      BY <3>1, <3>2 DEF CallState, Outside, Holding, Sending, Receiving, Unlocking
    <3>6. Slot(head + 1) + count - 1 \in 0 .. 2 * MAX_MESSAGES_IN_QUEUE - 1
      BY <3>2, <3>4
    <3>7. tail = Slot(Slot(head + 1) + count - 1)
      BY <3>2, <3>3, <3>4, <3>5, <3>6, SlotValue
    <3> QED
      BY <2>8, <3>1, <3>2, <3>7 DEF ReceiveHead, Holding, Sending, Receiving, Unlocking
  <2>9. CASE ReceiveCount(p)
    <3>1. \A q \in Proc : q # p => pc[q] \notin Holding /\ pc'[q] = pc[q]
      BY <2>9 DEF ReceiveCount, LockExclusion, Holding, Sending, Receiving,
         Unlocking
    <3>2. pc[p] = "receive_count" /\ pc'[p] = "unlock_ok"
      BY <2>9 DEF ReceiveCount
    <3>3. head + count' = head + count - 1
      BY <2>9 DEF ReceiveCount
    <3> QED
      BY <2>9, <3>1, <3>2, <3>3 DEF ReceiveCount, Holding, Sending, Receiving, Unlocking
  <2>10. CASE spinlock_release(p)
    BY <2>10 DEF spinlock_release
  <2>11. CASE DestroyFree(p)
    BY <2>11 DEF DestroyFree
  <2> QED
    BY <1>5, <2>1, <2>2, <2>3, <2>4, <2>5, <2>6, <2>7, <2>8, <2>9, <2>10,
       <2>11 DEF Step
<1>6. CASE UNCHANGED vars
  BY <1>6 DEF vars
<1> QED
  BY <1>1, <1>2, <1>3, <1>4, <1>5, <1>6 DEF Next

\* The parts together are inductive.
LEMMA StepIInv == IInv /\ [Next]_vars => IInv'
BY TypeStep, CallStateStep, LockStep, RingStep DEF IInv

\* The queue of message_queue.c, used by any number of threads, always has
\* indices in range and a count between 0 and MAX_MESSAGES_IN_QUEUE; never
\* has two threads between acquire and release; and keeps head, tail and count
\* in agreement.
THEOREM QueueSafe == Spec => [](TypeOK /\ LockExclusion /\ RingConsistent)
<1>1. IInv => TypeOK /\ LockExclusion /\ RingConsistent
  BY DEF IInv
<1> QED
  BY <1>1, InitIInv, StepIInv, PTL DEF Spec

-----------------------------------------------------------------------------
(* The refinement.  First the window of the ring that holds the messages:  *)
(* it is a sequence, and what moving head or count does to it.             *)

\* The contents of the ring are a sequence of count messages.
LEMMA WindowIsSeq ==
  ASSUME NEW S, NEW ring \in [Slots -> S]
  PROVE  \A f, n \in 0 .. MAX_MESSAGES_IN_QUEUE :
           /\ Window(ring, f, n) \in Seq(S)
           /\ Len(Window(ring, f, n)) = n
           /\ \A i \in 1 .. n : Window(ring, f, n)[i] = ring[Slot(f + i - 1)]
<1> TAKE f, n \in 0 .. MAX_MESSAGES_IN_QUEUE
<1>1. \A i \in 1 .. n : f + i - 1 \in 0 .. 2 * MAX_MESSAGES_IN_QUEUE - 1
  OBVIOUS
<1>2. \A i \in 1 .. n : Slot(f + i - 1) \in Slots
  BY <1>1, SlotValue DEF Slots
<1>3. Window(ring, f, n) \in [1 .. n -> S]
  BY <1>2 DEF Window
<1> QED
  BY <1>3 DEF Window

\* Storing into the slot just past the window leaves it alone, and counting
\* the slot then appends the message: what a send does.
LEMMA WindowAppend ==
  ASSUME NEW S, NEW ring \in [Slots -> S]
  PROVE  \A f \in Slots, n \in 0 .. MAX_MESSAGES_IN_QUEUE - 1 :
           /\ \A m \in S : Window([ring EXCEPT ![Slot(f + n)] = m], f, n)
                            = Window(ring, f, n)
           /\ Window(ring, f, n + 1)
                = Append(Window(ring, f, n), ring[Slot(f + n)])
<1> TAKE f \in Slots, n \in 0 .. MAX_MESSAGES_IN_QUEUE - 1
<1>1. \A i \in 1 .. n + 1 :
        /\ Slot(f + i - 1) \in Slots
        /\ i # n + 1 => Slot(f + i - 1) # Slot(f + n)
  BY SlotValue DEF Slots
<1>2. \A m \in S :
        Window([ring EXCEPT ![Slot(f + n)] = m], f, n) = Window(ring, f, n)
  BY <1>1 DEF Window
<1>3. Window(ring, f, n + 1) = Append(Window(ring, f, n), ring[Slot(f + n)])
  <2>0. \A g, k \in 0 .. MAX_MESSAGES_IN_QUEUE :
          /\ Window(ring, g, k) \in Seq(S)
          /\ Len(Window(ring, g, k)) = k
          /\ \A i \in 1 .. k : Window(ring, g, k)[i] = ring[Slot(g + i - 1)]
    BY WindowIsSeq, ZenonT(60)
  <2>9. /\ f \in 0 .. MAX_MESSAGES_IN_QUEUE
        /\ n \in 0 .. MAX_MESSAGES_IN_QUEUE
        /\ n + 1 \in 0 .. MAX_MESSAGES_IN_QUEUE
    BY DEF Slots
  <2> DEFINE w == Window(ring, f, n)
             x == Window(ring, f, n + 1)
             e == ring[Slot(f + n)]
  <2>1. /\ w \in Seq(S) /\ Len(w) = n
        /\ \A i \in 1 .. n : w[i] = ring[Slot(f + i - 1)]
    BY <2>0, <2>9
  <2>2. /\ x \in Seq(S) /\ Len(x) = n + 1
        /\ \A i \in 1 .. n + 1 : x[i] = ring[Slot(f + i - 1)]
    BY <2>0, <2>9
  <2>3. e \in S
    BY <1>1 DEF Slots
  <2> HIDE DEF w, x
  <2>4. /\ Append(w, e) \in Seq(S) /\ Len(Append(w, e)) = n + 1
        /\ \A i \in 1 .. n + 1 : Append(w, e)[i] = IF i = n + 1 THEN e ELSE w[i]
    BY <2>1, <2>3
  <2>5. x[n + 1] = e
    BY <2>2 DEF Slots
  <2> DEFINE a == Append(w, e)
  <2> HIDE DEF e, a
  <2>6. \A i \in 1 .. n + 1 : x[i] = a[i]
    <3>1. \A i \in 1 .. n + 1 : a[i] = IF i = n + 1 THEN e ELSE w[i]
      BY <2>4 DEF a
    <3> QED
      BY <2>1, <2>2, <2>5, <3>1, SMTT(30)
  <2>7. x = a
    <3>1. a \in Seq(S) /\ Len(a) = n + 1
      BY <2>4 DEF a
    <3> QED
      BY <2>2, <2>6, <3>1, SeqEqual, SMTT(30)
  <2> QED
    BY <2>7 DEF w, x, a, e
<1> QED
  BY <1>2, <1>3

\* Dropping the first entry of the window is taking the tail, whether head is
\* moved with or without the wrap: what a receive does.
LEMMA WindowTail ==
  ASSUME NEW S, NEW ring \in [Slots -> S]
  PROVE  \A f \in Slots, n \in 1 .. MAX_MESSAGES_IN_QUEUE :
           /\ Window(ring, f, n) # <<>>
           /\ Head(Window(ring, f, n)) = ring[f]
           /\ Window(ring, f + 1, n - 1) = Tail(Window(ring, f, n))
           /\ Window(ring, Slot(f + 1), n - 1) = Window(ring, f + 1, n - 1)
<1> TAKE f \in Slots, n \in 1 .. MAX_MESSAGES_IN_QUEUE
<1>0. /\ f \in 0 .. MAX_MESSAGES_IN_QUEUE
      /\ f + 1 \in 0 .. MAX_MESSAGES_IN_QUEUE
      /\ n - 1 \in 0 .. MAX_MESSAGES_IN_QUEUE
  BY DEF Slots
<1>9. \A g, k \in 0 .. MAX_MESSAGES_IN_QUEUE :
          /\ Window(ring, g, k) \in Seq(S)
          /\ Len(Window(ring, g, k)) = k
          /\ \A i \in 1 .. k : Window(ring, g, k)[i] = ring[Slot(g + i - 1)]
  BY WindowIsSeq, ZenonT(60)
<1> DEFINE w == Window(ring, f, n)
           x == Window(ring, f + 1, n - 1)
<1>1. /\ w \in Seq(S) /\ Len(w) = n
      /\ \A i \in 1 .. n : w[i] = ring[Slot(f + i - 1)]
  BY <1>0, <1>9
<1>2. /\ x \in Seq(S) /\ Len(x) = n - 1
      /\ \A i \in 1 .. n - 1 : x[i] = ring[Slot(f + 1 + i - 1)]
  BY <1>0, <1>9
<1>3. Slot(f + 1 - 1) = f
  BY SlotValue DEF Slots
<1>4. \A i \in 1 .. n - 1 : Slot(Slot(f + 1) + i - 1) = Slot(f + 1 + i - 1)
  <2>1. Slot(f + 1) = IF f + 1 < MAX_MESSAGES_IN_QUEUE THEN f + 1 ELSE 0
    BY SlotValue DEF Slots
  <2>2. \A i \in 1 .. n - 1 :
          /\ f + 1 + i - 1 \in 0 .. 2 * MAX_MESSAGES_IN_QUEUE - 1
          /\ Slot(f + 1) + i - 1 \in 0 .. 2 * MAX_MESSAGES_IN_QUEUE - 1
    BY <2>1 DEF Slots
  <2> QED
    BY <2>1, <2>2, SlotValue DEF Slots
<1>5. Window(ring, Slot(f + 1), n - 1) = x
  BY <1>4 DEF Window
<1> HIDE DEF w, x
<1>6. w # <<>> /\ Head(w) = ring[f]
  BY <1>1, <1>3
<1>7. x = Tail(w)
  <2>1. /\ Tail(w) \in Seq(S) /\ Len(Tail(w)) = n - 1
        /\ \A i \in 1 .. n - 1 : Tail(w)[i] = w[i + 1]
    BY <1>1, <1>6, HeadTailProperties
  <2>2. \A i \in 1 .. n - 1 : w[i + 1] = x[i]
    <3>1. \A i \in 1 .. n - 1 : i + 1 \in 1 .. n /\ f + (i + 1) - 1 = f + 1 + i - 1
      BY <1>0
    <3> QED
      BY <1>1, <1>2, <3>1
  <2> QED
    BY <1>2, <2>1, <2>2, SeqEqual
<1> QED
  BY <1>5, <1>6, <1>7 DEF w, x

-----------------------------------------------------------------------------
(* What an outsider sees of one thread's step.                             *)

\* A queue that was never created looks like an empty, closed FIFO.
LEMMA FifoInit == Init => Fifo!Init
<1> SUFFICES ASSUME Init PROVE Fifo!Init
  OBVIOUS
<1>1. Contents = <<>>
  BY DEF Init, Contents
<1>2. [p \in Proc |-> Outcome(p)] = [p \in Proc |-> "idle"]
  BY DEF Init, Outcome
<1> QED
  BY <1>1, <1>2 DEF Init, Fifo!Init

\* While the thread that moves is not the one that has a message in hand, the
\* contents are the count messages from head on.
LEMMA PlainContents ==
  ASSUME alive, TypeOK,
         \A p \in Proc : pc[p] \notin {"receive_head", "receive_count"}
  PROVE  Contents = Window(messages, head, count)
BY DEF Contents, First, Consumed, TypeOK, Slots

\* A step changes the outcome of no thread but its own.
LEMMA OutcomeStep ==
  ASSUME TypeOK, NEW p \in Proc, NEW o, NEW l \in Locations,
         pc' = [pc EXCEPT ![p] = l],
         Outcome(p)' = o
  PROVE  [q \in Proc |-> Outcome(q)]' = [[q \in Proc |-> Outcome(q)] EXCEPT ![p] = o]
<1>1. \A q \in Proc \ {p} : pc'[q] = pc[q]
  BY DEF TypeOK
<1>2. \A q \in Proc \ {p} : Outcome(q)' = Outcome(q)
  BY <1>1 DEF Outcome
<1> QED
  BY <1>2

\* Every step of the queue is a step of the bounded FIFO or changes nothing
\* that a caller can see.
LEMMA FifoStep == IInv /\ IInv' /\ [Next]_vars => [Fifo!Next]_(Fifo!vars)
<1> SUFFICES ASSUME IInv, IInv', [Next]_vars
             PROVE  [Fifo!Next]_(Fifo!vars)
  OBVIOUS
<1> DEFINE res == [q \in Proc |-> Outcome(q)]
<1> USE DEF IInv, queue, Goto
<1>0. ASSUME Contents' = Contents, alive' = alive, req' = req, msg' = msg,
             res' = res
      PROVE  [Fifo!Next]_(Fifo!vars)
  BY <1>0 DEF Fifo!vars
<1>1. CASE msg_queue_create
  <2>1. alive' /\ ~alive /\ req' = req /\ msg' = msg /\ pc' = pc
    BY <1>1 DEF msg_queue_create
  <2>2. \A p \in Proc : pc[p] \in Outside
    BY <2>1 DEF CallState
  <2>3. Contents' = Window(messages', 0, 0)
    BY <1>1, <2>1, <2>2 DEF msg_queue_create, Contents, First, Consumed, Outside
  <2>4. Window(messages', 0, 0) = <<>>
    BY DEF Window
  <2>5. res' = res
    BY <2>1 DEF Outcome
  <2> QED
    BY <2>1, <2>3, <2>4, <2>5 DEF Fifo!Next, Fifo!Open
<1>2. ASSUME NEW p \in Proc, NEW r \in Msg \cup {Receive},
             NEW l \in {"send_lock", "receive_lock"},
             alive, Goto(p, "idle", l), req' = [req EXCEPT ![p] = r],
             UNCHANGED <<queue, lock, alive, msg>>
      PROVE  [Fifo!Next]_(Fifo!vars)
  <2>1. Contents' = Contents
    BY <1>2 DEF Contents, First, Consumed, TypeOK
  <2>2. res' = [res EXCEPT ![p] = "busy"]
    <3>1. Outcome(p)' = "busy"
      BY <1>2 DEF Outcome, Destroying, TypeOK
    <3> QED
      BY <1>2, <3>1, OutcomeStep DEF Locations, Locking
  <2>3. res[p] = "idle"
    BY <1>2 DEF Outcome
  <2>4. Fifo!Invoke(p, r)
    BY <1>2, <2>1, <2>2, <2>3 DEF Fifo!Invoke
  <2> QED
    BY <2>4 DEF Fifo!Next
<1>3. ASSUME NEW p \in Proc, msg_queue_destroy(p)
      PROVE  [Fifo!Next]_(Fifo!vars)
  <2>1. Contents' = Contents
    BY <1>3 DEF msg_queue_destroy, Contents, First, Consumed, TypeOK
  <2>2. res' = res
    BY <1>3 DEF msg_queue_destroy, Outcome, Destroying, TypeOK
  <2> QED
    BY <1>0, <1>3, <2>1, <2>2 DEF msg_queue_destroy
<1>4. ASSUME NEW p \in Proc, Step(p)
      PROVE  [Fifo!Next]_(Fifo!vars)
  <2> USE DEF Holding, Sending, Receiving, Unlocking, Outside
  <2>0. /\ pc[p] \notin Outside => alive
        /\ pc[p] \in Sending => req[p] \in Msg
        /\ pc[p] \in Receiving => req[p] = Receive
    BY DEF CallState
  <2>1. ASSUME pc[p] \in Holding
        PROVE  \A q \in Proc \ {p} : pc[q] \notin Holding
    BY <2>1 DEF LockExclusion
  <2>9. messages \in [Slots -> Msg \cup {NoMsg}]
    BY DEF TypeOK
  <2>2. \A f, n \in 0 .. MAX_MESSAGES_IN_QUEUE :
          /\ Window(messages, f, n) \in Seq(Msg \cup {NoMsg})
          /\ Len(Window(messages, f, n)) = n
          /\ \A i \in 1 .. n :
               Window(messages, f, n)[i] = messages[Slot(f + i - 1)]
    BY <2>9, WindowIsSeq, ZenonT(60)
  <2>10. \A f \in Slots, n \in 0 .. MAX_MESSAGES_IN_QUEUE - 1 :
           /\ \A m \in Msg \cup {NoMsg} :
                Window([messages EXCEPT ![Slot(f + n)] = m], f, n)
                  = Window(messages, f, n)
           /\ Window(messages, f, n + 1)
                = Append(Window(messages, f, n), messages[Slot(f + n)])
    BY <2>9, WindowAppend, ZenonT(60)
  <2>11. \A f \in Slots, n \in 1 .. MAX_MESSAGES_IN_QUEUE :
           /\ Window(messages, f, n) # <<>>
           /\ Head(Window(messages, f, n)) = messages[f]
           /\ Window(messages, f + 1, n - 1) = Tail(Window(messages, f, n))
           /\ Window(messages, Slot(f + 1), n - 1)
                = Window(messages, f + 1, n - 1)
    BY <2>9, WindowTail, ZenonT(60)
  <2>3. /\ head \in Slots /\ head \in 0 .. MAX_MESSAGES_IN_QUEUE
        /\ count \in 0 .. MAX_MESSAGES_IN_QUEUE
    BY DEF TypeOK, Slots
  <2>4. CASE spinlock_acquire(p)
    <3>1. Contents' = Contents
      BY <2>4 DEF spinlock_acquire, Contents, First, Consumed, TypeOK
    <3>2. res' = res
      BY <2>4 DEF spinlock_acquire, Outcome, Destroying, TypeOK
    <3> QED
      BY <1>0, <2>4, <3>1, <3>2 DEF spinlock_acquire
  <2>5. CASE SendTest(p)
    <3>1. Contents' = Contents
      BY <2>5 DEF SendTest, Contents, First, Consumed, TypeOK
    <3>2. CASE pc'[p] = "send_copy"
      <4>1. res' = res
        BY <2>5, <3>2 DEF SendTest, Outcome, Destroying, TypeOK
      <4> QED
        BY <1>0, <2>5, <3>1, <4>1 DEF SendTest
    <3>3. CASE pc'[p] = "unlock_fail"
      <4>1. pc[p] = "send_test" /\ pc' = [pc EXCEPT ![p] = "unlock_fail"]
            /\ count = MAX_MESSAGES_IN_QUEUE
        BY <2>3, <2>5, <3>3 DEF SendTest, TypeOK
      <4>2. res' = [res EXCEPT ![p] = "fail"]
        <5>1. Outcome(p)' = "fail"
          BY <3>3 DEF Outcome, Destroying
        <5> QED
          BY <2>5, <4>1, <5>1, OutcomeStep DEF SendTest, Locations
      <4>3. res[p] = "busy"
        BY <4>1 DEF Outcome, Destroying
      <4>4. Contents = Window(messages, head, count)
        BY <2>0, <2>1, <4>1, PlainContents
      <4>5. Len(Contents) = MAX_MESSAGES_IN_QUEUE
        BY <2>2, <2>3, <4>1, <4>4
      <4>6. Fifo!PutFull(p, req[p])
        BY <2>0, <2>5, <3>1, <4>1, <4>2, <4>3, <4>5
           DEF SendTest, Fifo!PutFull, Fifo!Pending
      <4> QED
        BY <2>0, <4>1, <4>6 DEF Fifo!Next
    <3> QED
      BY <2>5, <3>2, <3>3 DEF SendTest, TypeOK
  <2>6. CASE SendCopy(p)
    <3>1. /\ pc[p] = "send_copy" /\ alive
          /\ pc' = [pc EXCEPT ![p] = "send_tail"]
          /\ messages' = [messages EXCEPT ![tail] = req[p]]
      BY <2>0, <2>6 DEF SendCopy
    <3>2. Contents = Window(messages, head, count)
      BY <2>1, <3>1, PlainContents
    <3>3. Contents' = Window(messages', head, count)
      <4>1. \A q \in Proc : pc'[q] \notin {"receive_head", "receive_count"}
        BY <2>1, <3>1 DEF TypeOK
      <4> QED
        BY <2>3, <2>6, <3>1, <4>1 DEF SendCopy, Contents, First, Consumed
    <3>4. tail = Slot(head + count)
      <4>1. \A q \in Proc : pc[q] \notin {"send_count", "receive_count"}
        BY <2>1, <3>1
      <4> QED
        BY <3>1, <4>1 DEF RingConsistent
    <3>5. count \in 0 .. MAX_MESSAGES_IN_QUEUE - 1 /\ req[p] \in Msg
      BY <2>3, <3>1 DEF RingConsistent
    <3>6. res' = res
      BY <2>6 DEF SendCopy, Outcome, Destroying, TypeOK
    <3> QED
      <4>1. Window(messages', head, count) = Window(messages, head, count)
        BY <2>3, <2>10, <3>1, <3>4, <3>5
      <4> QED
        BY <1>0, <2>6, <3>2, <3>3, <3>6, <4>1 DEF SendCopy
  <2>7. CASE SendTail(p)
    <3>1. Contents' = Contents
      BY <2>7 DEF SendTail, Contents, First, Consumed, TypeOK
    <3>2. res' = res
      BY <2>7 DEF SendTail, Outcome, Destroying, TypeOK
    <3> QED
      BY <1>0, <2>7, <3>1, <3>2 DEF SendTail
  <2>8. CASE SendCount(p)
    <3>1. /\ pc[p] = "send_count" /\ alive /\ alive' = alive
          /\ pc' = [pc EXCEPT ![p] = "unlock_ok"] /\ count' = count + 1
          /\ messages' = messages /\ head' = head
          /\ req' = req /\ msg' = msg
      BY <2>0, <2>8 DEF SendCount
    <3>2. Contents = Window(messages, head, count)
      BY <2>1, <3>1, PlainContents
    <3>3. Contents' = Window(messages, head, count + 1)
      <4>1. \A q \in Proc : pc'[q] \notin {"receive_head", "receive_count"}
        BY <2>1, <3>1 DEF TypeOK
      <4> QED
        BY <2>3, <3>1, <4>1 DEF Contents, First, Consumed
    <3>4. /\ messages[Slot(head + count)] = req[p]
          /\ count \in 0 .. MAX_MESSAGES_IN_QUEUE - 1
      BY <2>3, <3>1 DEF RingConsistent
    <3>5. Window(messages, head, count + 1)
            = Append(Window(messages, head, count), messages[Slot(head + count)])
      BY <2>3, <2>10, <3>4
    <3>6. Contents' = Append(Contents, req[p])
      BY <3>2, <3>3, <3>4, <3>5
    <3>7. Len(Contents) < MAX_MESSAGES_IN_QUEUE
      BY <2>2, <2>3, <3>2, <3>4
    <3>8. res' = [res EXCEPT ![p] = "ok"]
      <4>1. Outcome(p)' = "ok"
        BY <3>1 DEF Outcome, Destroying, TypeOK
      <4> QED
        BY <3>1, <4>1, OutcomeStep DEF Locations
    <3>9. res[p] = "busy"
      BY <3>1 DEF Outcome, Destroying
    <3>10. Fifo!Put(p, req[p])
      BY <3>1, <3>6, <3>7, <3>8, <3>9 DEF Fifo!Put, Fifo!Pending
    <3> QED
      BY <2>0, <3>1, <3>10 DEF Fifo!Next
  <2>12. CASE ReceiveTest(p)
    <3>1. Contents' = Contents
      BY <2>12 DEF ReceiveTest, Contents, First, Consumed, TypeOK
    <3>2. CASE pc'[p] = "receive_copy"
      <4>1. res' = res
        BY <2>12, <3>2 DEF ReceiveTest, Outcome, Destroying, TypeOK
      <4> QED
        BY <1>0, <2>12, <3>1, <4>1 DEF ReceiveTest
    <3>3. CASE pc'[p] = "unlock_fail"
      <4>1. pc[p] = "receive_test" /\ pc' = [pc EXCEPT ![p] = "unlock_fail"]
            /\ count = 0
        BY <2>12, <3>3 DEF ReceiveTest, TypeOK
      <4>2. res' = [res EXCEPT ![p] = "fail"]
        <5>1. Outcome(p)' = "fail"
          BY <3>3 DEF Outcome, Destroying
        <5> QED
          BY <2>12, <4>1, <5>1, OutcomeStep DEF ReceiveTest, Locations
      <4>3. res[p] = "busy"
        BY <4>1 DEF Outcome, Destroying
      <4>4. Contents = Window(messages, head, count)
        BY <2>0, <2>1, <4>1, PlainContents
      <4>5. Contents = <<>>
        BY <4>1, <4>4 DEF Window
      <4>6. Fifo!GetEmpty(p)
        BY <2>0, <2>12, <3>1, <4>1, <4>2, <4>3, <4>5
           DEF ReceiveTest, Fifo!GetEmpty, Fifo!Pending
      <4> QED
        BY <4>6 DEF Fifo!Next
    <3> QED
      BY <2>12, <3>2, <3>3 DEF ReceiveTest, TypeOK
  <2>13. CASE ReceiveCopy(p)
    <3>1. /\ pc[p] = "receive_copy" /\ alive /\ alive' = alive
          /\ pc' = [pc EXCEPT ![p] = "receive_head"]
          /\ msg' = [msg EXCEPT ![p] = messages[head]]
          /\ messages' = messages /\ head' = head /\ count' = count
          /\ req' = req
      BY <2>0, <2>13 DEF ReceiveCopy
    <3>2. count \in 1 .. MAX_MESSAGES_IN_QUEUE
      BY <2>3, <3>1 DEF RingConsistent
    <3>3. Contents = Window(messages, head, count)
      BY <2>1, <3>1, PlainContents
    <3>4. Contents' = Window(messages, head + 1, count - 1)
      <4>1. pc'[p] = "receive_head"
        BY <3>1 DEF TypeOK
      <4> QED
        BY <3>1, <4>1 DEF Contents, First, Consumed
    <3>5. /\ Contents # <<>> /\ Head(Contents) = messages[head]
          /\ Contents' = Tail(Contents)
      BY <2>3, <2>11, <3>2, <3>3, <3>4
    <3>6. res' = [res EXCEPT ![p] = "ok"]
      <4>1. Outcome(p)' = "ok"
        BY <3>1 DEF Outcome, Destroying, TypeOK
      <4> QED
        BY <3>1, <4>1, OutcomeStep DEF Locations
    <3>7. res[p] = "busy"
      BY <3>1 DEF Outcome, Destroying
    <3>8. Fifo!Get(p)
      BY <2>0, <3>1, <3>5, <3>6, <3>7 DEF Fifo!Get, Fifo!Pending
    <3> QED
      BY <3>8 DEF Fifo!Next
  <2>14. CASE ReceiveHead(p)
    <3>1. /\ pc[p] = "receive_head" /\ alive /\ alive' = alive
          /\ pc' = [pc EXCEPT ![p] = "receive_count"]
          /\ head' = Slot(head + 1) /\ messages' = messages /\ count' = count
      BY <2>0, <2>14 DEF ReceiveHead
    <3>2. count \in 1 .. MAX_MESSAGES_IN_QUEUE
      BY <2>3, <3>1 DEF RingConsistent
    <3>3. Contents = Window(messages, head + 1, count - 1)
      BY <3>1 DEF Contents, First, Consumed
    <3>4. Contents' = Window(messages, Slot(head + 1), count - 1)
      <4>1. /\ pc'[p] = "receive_count"
            /\ \A q \in Proc : pc'[q] # "receive_head"
        BY <2>1, <3>1 DEF TypeOK
      <4> QED
        BY <3>1, <4>1 DEF Contents, First, Consumed
    <3>5. res' = res
      BY <2>14 DEF ReceiveHead, Outcome, Destroying, TypeOK
    <3> QED
      BY <1>0, <2>3, <2>11, <2>14, <3>2, <3>3, <3>4, <3>5 DEF ReceiveHead
  <2>15. CASE ReceiveCount(p)
    <3>1. /\ pc[p] = "receive_count" /\ alive /\ alive' = alive
          /\ pc' = [pc EXCEPT ![p] = "unlock_ok"]
          /\ head' = head /\ messages' = messages /\ count' = count - 1
      BY <2>0, <2>15 DEF ReceiveCount
    <3>2. Contents = Window(messages, head, count - 1)
      BY <2>1, <3>1 DEF Contents, First, Consumed
    <3>3. Contents' = Window(messages, head, count - 1)
      <4>1. \A q \in Proc : pc'[q] \notin {"receive_head", "receive_count"}
        BY <2>1, <3>1 DEF TypeOK
      <4> QED
        BY <2>3, <3>1, <4>1 DEF Contents, First, Consumed
    <3>4. res' = res
      BY <2>15 DEF ReceiveCount, Outcome, Destroying, TypeOK
    <3> QED
      BY <1>0, <2>15, <3>2, <3>3, <3>4 DEF ReceiveCount
  <2>16. CASE spinlock_release(p)
    <3>1. Contents' = Contents
      BY <2>16 DEF spinlock_release, Contents, First, Consumed, TypeOK
    <3>2. CASE pc[p] = "destroy_unlock"
      <4>1. res' = res
        BY <2>16, <3>2 DEF spinlock_release, Outcome, Destroying, TypeOK
      <4> QED
        BY <1>0, <2>16, <3>1, <4>1 DEF spinlock_release
    <3>3. CASE pc[p] \in {"unlock_ok", "unlock_fail"}
      <4>1. /\ pc' = [pc EXCEPT ![p] = "idle"] /\ alive /\ alive' = alive
            /\ req' = req /\ msg' = msg
        BY <2>0, <2>16, <3>3 DEF spinlock_release
      <4>2. res' = [res EXCEPT ![p] = "idle"]
        <5>1. Outcome(p)' = "idle"
          BY <4>1 DEF Outcome, TypeOK
        <5> QED
          BY <4>1, <5>1, OutcomeStep DEF Locations
      <4>3. res[p] \in {"ok", "fail"}
        BY <3>3 DEF Outcome, Destroying
      <4>4. Fifo!Return(p)
        BY <3>1, <4>1, <4>2, <4>3 DEF Fifo!Return
      <4> QED
        BY <4>4 DEF Fifo!Next
    <3> QED
      BY <2>16, <3>2, <3>3 DEF spinlock_release
  <2>17. CASE DestroyFree(p)
    <3> DEFINE L == {q \in Proc : q # p /\ pc[q] # "idle"}
    <3>1. /\ pc[p] = "destroy_free" /\ alive /\ ~alive'
          /\ \A q \in Proc : pc'[q] = IF q \in L THEN "dangling" ELSE "idle"
          /\ req' = req /\ msg' = msg
      BY <2>0, <2>17 DEF DestroyFree
    <3>2. Contents' = <<>>
      BY <3>1 DEF Contents
    <3>3. \A q \in Proc : res[q] \in {"busy", "ok", "fail"} => q \in L
      BY <3>1 DEF Outcome, Destroying
    <3>4. res' = [q \in Proc |-> IF q \in L THEN "lost" ELSE res[q]]
      BY <3>1 DEF Outcome, Destroying
    <3>5. L \in SUBSET Proc
      OBVIOUS
    <3> HIDE DEF L
    <3>6. Fifo!Close(L)
      BY <3>1, <3>2, <3>3, <3>4 DEF Fifo!Close
    <3> QED
      BY <3>5, <3>6 DEF Fifo!Next
  <2> QED
    BY <1>4, <2>4, <2>5, <2>6, <2>7, <2>8, <2>12, <2>13, <2>14, <2>15, <2>16,
       <2>17 DEF Step
<1>5. CASE UNCHANGED vars
  <2>1. Contents' = Contents /\ res' = res
    BY <1>5 DEF vars, Contents, First, Consumed, Outcome
  <2> QED
    BY <1>0, <1>5, <2>1 DEF vars
<1> QED
  BY <1>1, <1>2, <1>3, <1>4, <1>5
     DEF Next, msg_queue_send, msg_queue_receive

\* message_queue.c implements the linearizable bounded FIFO, for every set of
\* threads and messages and every ring size: each send and receive takes effect
\* in one step between its call and its return, in first-in first-out order.
THEOREM QueueImplementsFifo == Spec => ImplementsFifo
<1>1. Spec => []IInv
  BY InitIInv, StepIInv, PTL DEF Spec
<1> QED
  BY <1>1, FifoInit, FifoStep, PTL DEF Spec, ImplementsFifo, Fifo!Spec

\* msg_queue_send and msg_queue_receive keep every index and the count in range.
THEOREM QueueTypeCorrect == Spec => []TypeOK
BY QueueSafe, PTL

\* One thread at a time is between spinlock_acquire and spinlock_release.
THEOREM QueueLockExclusion == Spec => []LockExclusion
BY QueueSafe, PTL
=============================================================================
