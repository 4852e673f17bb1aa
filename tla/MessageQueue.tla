---------------------------- MODULE MessageQueue ----------------------------
(***************************************************************************)
(* The kernel message queue of kernel/ipc/message_queue.c: a ring of       *)
(* MAX_MESSAGES_IN_QUEUE messages with head, tail and count, guarded by a  *)
(* spinlock.  Each memory access of a call that another CPU could observe  *)
(* is one step, so that the lock, and nothing else, keeps calls apart.     *)
(*                                                                         *)
(* The module follows one queue object, at one heap address, through any   *)
(* number of create / destroy cycles.  Its id and name are only printed    *)
(* and are left out, as is everything debug_print shows.                   *)
(***************************************************************************)
EXTENDS Integers, Sequences

CONSTANTS Proc,                  \* the kernel threads that use the queue
          Msg,                   \* the messages they send
          NoMsg,                 \* a zeroed message
          Receive,               \* stands for the request of a receiver
          MAX_MESSAGES_IN_QUEUE

ASSUME QueueAssumption ==
  /\ MAX_MESSAGES_IN_QUEUE \in Nat \ {0}
  /\ NoMsg \notin Msg
  /\ Receive \notin Msg \cup {NoMsg}

VARIABLES messages, head, tail, count,   \* the fields of message_queue_t
          lock,      \* queue->lock.locked
          alive,     \* the object is allocated
          pc,        \* where each thread is
          req,       \* its argument: the message it sends, or Receive
          msg        \* the message_t its receive calls fill

queue == <<messages, head, tail, count>>
vars  == <<messages, head, tail, count, lock, alive, pc, req, msg>>

Slots == 0 .. MAX_MESSAGES_IN_QUEUE - 1

\* The slot an index falls on.
Slot(i) == i % MAX_MESSAGES_IN_QUEUE

-----------------------------------------------------------------------------
(* Where a thread can be.                                                  *)

Locking   == {"send_lock", "receive_lock", "destroy_lock"}
Sending   == {"send_test", "send_copy", "send_tail", "send_count"}
Receiving == {"receive_test", "receive_copy", "receive_head", "receive_count"}
Unlocking == {"unlock_ok", "unlock_fail", "destroy_unlock"}
Holding   == Sending \cup Receiving \cup Unlocking
Destroying == {"destroy_lock", "destroy_unlock", "destroy_free"}
Outside   == {"idle", "dangling"}
Locations == {"destroy_free"} \cup Outside \cup Locking \cup Holding

Goto(p, from, to) == pc[p] = from /\ pc' = [pc EXCEPT ![p] = to]

-----------------------------------------------------------------------------
(* A call begins on a queue that exists.  Nothing in the code keeps a      *)
(* destroy apart from other calls: destroy releases the lock before it     *)
(* frees the object, so a thread that spins on the lock, or that takes it  *)
(* in between, is left with a pointer to freed memory.  Such a thread is   *)
(* "dangling".  Its next step, whichever it is, uses memory that is no     *)
(* longer the queue's, and from then on nothing can be said of the kernel: *)
(* it has no step here, and what is claimed is claimed of every run up to  *)
(* its first use of freed memory.                                          *)

msg_queue_create ==
  /\ ~alive
  /\ alive'    = TRUE
  /\ messages' = [i \in Slots |-> NoMsg]
  /\ head' = 0 /\ tail' = 0 /\ count' = 0
  /\ lock' = FALSE
  /\ UNCHANGED <<pc, req, msg>>

\* Faulty variant: send forgets to take the lock.
msg_queue_send_Unlocked(p, m) ==
  /\ alive
  /\ Goto(p, "idle", "send_test")
  /\ req' = [req EXCEPT ![p] = m]
  /\ UNCHANGED <<queue, lock, alive, msg>>

msg_queue_send(p, m) ==
  /\ alive
  /\ Goto(p, "idle", "send_lock")
  /\ req' = [req EXCEPT ![p] = m]
  /\ UNCHANGED <<queue, lock, alive, msg>>

msg_queue_receive(p) ==
  /\ alive
  /\ Goto(p, "idle", "receive_lock")
  /\ req' = [req EXCEPT ![p] = Receive]
  /\ UNCHANGED <<queue, lock, alive, msg>>

msg_queue_destroy(p) ==
  /\ alive
  /\ Goto(p, "idle", "destroy_lock")
  /\ UNCHANGED <<queue, lock, alive, req, msg>>

-----------------------------------------------------------------------------
(* The spinlock: an atomic test-and-set, repeated until it finds zero.     *)

spinlock_acquire(p) ==
  /\ ~lock
  /\ lock' = TRUE
  /\ \/ Goto(p, "send_lock", "send_test")
     \/ Goto(p, "receive_lock", "receive_test")
     \/ Goto(p, "destroy_lock", "destroy_unlock")
  /\ UNCHANGED <<queue, alive, req, msg>>

\* Release and return: 0 from unlock_ok, when the message went through, -1 from
\* unlock_fail, when it did not.  destroy still has the object to free.
spinlock_release(p) ==
  /\ lock' = FALSE
  /\ \/ Goto(p, "unlock_ok", "idle")
     \/ Goto(p, "unlock_fail", "idle")
     \/ Goto(p, "destroy_unlock", "destroy_free")
  /\ UNCHANGED <<queue, alive, req, msg>>

-----------------------------------------------------------------------------
(* msg_queue_send, under the lock.                                         *)

\* Faulty variant: one message more than the ring holds is accepted.
SendTest_OffByOne(p) ==
  /\ \/ /\ count > MAX_MESSAGES_IN_QUEUE
        /\ Goto(p, "send_test", "unlock_fail")
     \/ /\ count <= MAX_MESSAGES_IN_QUEUE
        /\ Goto(p, "send_test", "send_copy")
  /\ UNCHANGED <<queue, lock, alive, req, msg>>

\* Faulty variant: the return for a full queue leaves the lock taken.
SendTest_KeepsLock(p) ==
  /\ \/ /\ count >= MAX_MESSAGES_IN_QUEUE
        /\ Goto(p, "send_test", "idle")
     \/ /\ count < MAX_MESSAGES_IN_QUEUE
        /\ Goto(p, "send_test", "send_copy")
  /\ UNCHANGED <<queue, lock, alive, req, msg>>

SendTest(p) ==
  /\ \/ /\ count >= MAX_MESSAGES_IN_QUEUE
        /\ Goto(p, "send_test", "unlock_fail")
     \/ /\ count < MAX_MESSAGES_IN_QUEUE
        /\ Goto(p, "send_test", "send_copy")
  /\ UNCHANGED <<queue, lock, alive, req, msg>>

SendCopy(p) ==
  /\ Goto(p, "send_copy", "send_tail")
  /\ messages' = [messages EXCEPT ![tail] = req[p]]
  /\ UNCHANGED <<head, tail, count, lock, alive, req, msg>>

\* Faulty variant: tail does not wrap.
SendTail_NoWrap(p) ==
  /\ Goto(p, "send_tail", "send_count")
  /\ tail' = tail + 1
  /\ UNCHANGED <<messages, head, count, lock, alive, req, msg>>

SendTail(p) ==
  /\ Goto(p, "send_tail", "send_count")
  /\ tail' = Slot(tail + 1)
  /\ UNCHANGED <<messages, head, count, lock, alive, req, msg>>

SendCount(p) ==
  /\ Goto(p, "send_count", "unlock_ok")
  /\ count' = count + 1
  /\ UNCHANGED <<messages, head, tail, lock, alive, req, msg>>

-----------------------------------------------------------------------------
(* msg_queue_receive, under the lock.                                      *)

ReceiveTest(p) ==
  /\ \/ /\ count = 0
        /\ Goto(p, "receive_test", "unlock_fail")
     \/ /\ count # 0
        /\ Goto(p, "receive_test", "receive_copy")
  /\ UNCHANGED <<queue, lock, alive, req, msg>>

\* Faulty variant: the newest message is received, not the oldest.
ReceiveCopy_Newest(p) ==
  /\ Goto(p, "receive_copy", "receive_head")
  /\ msg' = [msg EXCEPT ![p] = messages[Slot(tail + MAX_MESSAGES_IN_QUEUE - 1)]]
  /\ UNCHANGED <<queue, lock, alive, req>>

ReceiveCopy(p) ==
  /\ Goto(p, "receive_copy", "receive_head")
  /\ msg' = [msg EXCEPT ![p] = messages[head]]
  /\ UNCHANGED <<queue, lock, alive, req>>

ReceiveHead(p) ==
  /\ Goto(p, "receive_head", "receive_count")
  /\ head' = Slot(head + 1)
  /\ UNCHANGED <<messages, tail, count, lock, alive, req, msg>>

ReceiveCount(p) ==
  /\ Goto(p, "receive_count", "unlock_ok")
  /\ count' = count - 1
  /\ UNCHANGED <<messages, head, tail, lock, alive, req, msg>>

\* kfree, the last thing destroy does, whoever else is inside a call: spinning
\* on the lock, under it, or about to free the object a second time.
DestroyFree(p) ==
  /\ pc[p] = "destroy_free"
  /\ pc' = [q \in Proc |-> IF q = p THEN "idle"
                           ELSE IF pc[q] = "idle" THEN "idle" ELSE "dangling"]
  /\ alive' = FALSE
  /\ UNCHANGED <<queue, lock, req, msg>>

-----------------------------------------------------------------------------
Init ==
  /\ messages = [i \in Slots |-> NoMsg]
  /\ head = 0 /\ tail = 0 /\ count = 0
  /\ lock  = FALSE
  /\ alive = FALSE
  /\ pc  = [p \in Proc |-> "idle"]
  /\ req = [p \in Proc |-> Receive]
  /\ msg = [p \in Proc |-> NoMsg]

\* What a thread does once it has begun a call.
Step(p) ==
  \/ spinlock_acquire(p)
  \/ SendTest(p) \/ SendCopy(p) \/ SendTail(p) \/ SendCount(p)
  \/ ReceiveTest(p) \/ ReceiveCopy(p) \/ ReceiveHead(p) \/ ReceiveCount(p)
  \/ spinlock_release(p)
  \/ DestroyFree(p)

Next ==
  \/ msg_queue_create
  \/ \E p \in Proc :
       \/ \E m \in Msg : msg_queue_send(p, m)
       \/ msg_queue_receive(p)
       \/ msg_queue_destroy(p)
       \/ Step(p)

Spec == Init /\ [][Next]_vars

\* A thread inside a call keeps running: the kernel does not abandon a CPU,
\* and a spinning or lock-holding thread never blocks.
Fairness == \A p \in Proc : WF_vars(Step(p))

FairSpec == Spec /\ Fairness

-----------------------------------------------------------------------------
TypeOK ==
  /\ messages \in [Slots -> Msg \cup {NoMsg}]
  /\ head \in Slots /\ tail \in Slots /\ count \in 0 .. MAX_MESSAGES_IN_QUEUE
  /\ lock \in BOOLEAN /\ alive \in BOOLEAN
  /\ pc  \in [Proc -> Locations]
  /\ req \in [Proc -> Msg \cup {Receive}]
  /\ msg \in [Proc -> Msg \cup {NoMsg}]

\* The spinlock does its work: at most one thread is between acquire and
\* release, and the lock word of a queue is set exactly while there is one.
LockExclusion ==
  /\ \A p, q \in Proc : pc[p] \in Holding /\ pc[q] \in Holding => p = q
  /\ alive => (lock <=> \E p \in Proc : pc[p] \in Holding)

\* The three numbers of a queue's ring agree: tail is count places after head,
\* except while the thread under the lock has updated one of the two and not
\* yet the other, and the slot a sender has filled is the one that count will
\* make part of the queue.
RingConsistent ==
  /\ alive /\ (\A p \in Proc : pc[p] \notin {"send_count", "receive_count"})
        => tail = Slot(head + count)
  /\ \A p \in Proc :
       /\ pc[p] \in {"send_copy", "send_tail", "send_count"}
             => count < MAX_MESSAGES_IN_QUEUE /\ req[p] \in Msg
       /\ pc[p] = "send_tail"  => messages[tail] = req[p]
       /\ pc[p] = "send_count" => /\ tail = Slot(head + count + 1)
                                  /\ messages[Slot(head + count)] = req[p]
       /\ pc[p] \in {"receive_copy", "receive_head", "receive_count"}
             => count > 0
       /\ pc[p] = "receive_head"  => msg[p] = messages[head]
       /\ pc[p] = "receive_count" => tail = Slot(head + count - 1)

\* Every path out of a call releases the spinlock, the early returns of a full
\* and of an empty queue included, so the lock of a queue never stays taken:
\* it is released, unless the queue is freed first.
LockReleased == alive /\ lock ~> ~lock \/ ~alive

-----------------------------------------------------------------------------
(* The queue implements the bounded FIFO.  A receive takes effect when it  *)
(* copies the message out: from then on the oldest entry no longer counts, *)
(* although head, and then count, are still to be moved.  A send takes     *)
(* effect when it increments count.  A call returns when it releases the   *)
(* lock.                                                                   *)

Consumed == IF \E p \in Proc : pc[p] \in {"receive_head", "receive_count"}
            THEN 1 ELSE 0
First    == IF \E p \in Proc : pc[p] = "receive_head"
            THEN head + 1 ELSE head

\* The n messages that begin at index first of a ring, oldest first.
Window(ring, first, n) == [i \in 1 .. n |-> ring[Slot(first + i - 1)]]

Contents == IF alive THEN Window(messages, First, count - Consumed) ELSE <<>>

Outcome(p) ==
  CASE pc[p] = "dangling" -> "lost"
    [] pc[p] \in {"idle"} \cup Destroying -> "idle"
    [] pc[p] \in {"receive_head", "receive_count", "unlock_ok"} -> "ok"
    [] pc[p] = "unlock_fail" -> "fail"
    [] OTHER -> "busy"

Fifo == INSTANCE BoundedFifo
          WITH Capacity <- MAX_MESSAGES_IN_QUEUE,
               fifo <- Contents,
               open <- alive,
               res  <- [p \in Proc |-> Outcome(p)],
               got  <- msg

\* message_queue.c is a linearizable bounded FIFO for any number of threads: a
\* result a caller gets is true, and only a call that was still under way when
\* the queue was destroyed gets none.
ImplementsFifo == Fifo!Spec
=============================================================================
