---------------------------- MODULE BoundedFifo ----------------------------
(***************************************************************************)
(* What a message queue promises its callers: a linearizable FIFO of at    *)
(* most Capacity messages.  A call is invoked, takes effect in one atomic  *)
(* step at some moment before it returns, and its result tells the truth   *)
(* about that moment: a send fails only when the queue is full, a receive  *)
(* fails only when it is empty, and a receive hands over the oldest        *)
(* message.  Messages disappear unread only when the queue is destroyed,   *)
(* and a call that has not returned by then never returns a result.        *)
(***************************************************************************)
EXTENDS Naturals, Sequences

CONSTANTS Proc,      \* the callers
          Msg,       \* the messages
          NoMsg,     \* a message buffer nobody has filled yet
          Receive,   \* the request of a receiver; a sender's is its message
          Capacity   \* how many messages the queue holds

VARIABLES fifo,      \* the messages in the queue, oldest first
          open,      \* the queue exists
          req,       \* what each caller last asked for
          res,       \* "busy" from the call to its effect, then, until it
                     \* returns, "ok" or "fail"; "idle" between calls and
                     \* "lost" in a call whose queue was destroyed
          got        \* the message each caller received last

vars == <<fifo, open, req, res, got>>

Init ==
  /\ fifo = <<>>
  /\ open = FALSE
  /\ req  = [p \in Proc |-> Receive]
  /\ res  = [p \in Proc |-> "idle"]
  /\ got  = [p \in Proc |-> NoMsg]

Open ==
  /\ ~open
  /\ open' = TRUE
  /\ fifo' = <<>>
  /\ UNCHANGED <<req, res, got>>

Invoke(p, r) ==
  /\ open
  /\ res[p] = "idle"
  /\ req' = [req EXCEPT ![p] = r]
  /\ res' = [res EXCEPT ![p] = "busy"]
  /\ UNCHANGED <<fifo, open, got>>

Pending(p, r) == open /\ res[p] = "busy" /\ req[p] = r

Put(p, m) ==
  /\ Pending(p, m)
  /\ Len(fifo) < Capacity
  /\ fifo' = Append(fifo, m)
  /\ res'  = [res EXCEPT ![p] = "ok"]
  /\ UNCHANGED <<open, req, got>>

PutFull(p, m) ==
  /\ Pending(p, m)
  /\ Len(fifo) = Capacity
  /\ res' = [res EXCEPT ![p] = "fail"]
  /\ UNCHANGED <<fifo, open, req, got>>

Get(p) ==
  /\ Pending(p, Receive)
  /\ fifo # <<>>
  /\ got'  = [got EXCEPT ![p] = Head(fifo)]
  /\ fifo' = Tail(fifo)
  /\ res'  = [res EXCEPT ![p] = "ok"]
  /\ UNCHANGED <<open, req>>

GetEmpty(p) ==
  /\ Pending(p, Receive)
  /\ fifo = <<>>
  /\ res' = [res EXCEPT ![p] = "fail"]
  /\ UNCHANGED <<fifo, open, req, got>>

\* The call has taken effect and hands its result to the caller.
Return(p) ==
  /\ open
  /\ res[p] \in {"ok", "fail"}
  /\ res' = [res EXCEPT ![p] = "idle"]
  /\ UNCHANGED <<fifo, open, req, got>>

\* Destroys the queue under the callers in L: those inside a call, and those
\* that were destroying it too.
Close(L) ==
  /\ open
  /\ \A p \in Proc : res[p] \in {"busy", "ok", "fail"} => p \in L
  /\ open' = FALSE
  /\ fifo' = <<>>
  /\ res'  = [p \in Proc |-> IF p \in L THEN "lost" ELSE res[p]]
  /\ UNCHANGED <<req, got>>

Next ==
  \/ Open
  \/ \E L \in SUBSET Proc : Close(L)
  \/ \E p \in Proc :
       \/ \E r \in Msg \cup {Receive} : Invoke(p, r)
       \/ \E m \in Msg : Put(p, m) \/ PutFull(p, m)
       \/ Get(p)
       \/ GetEmpty(p)
       \/ Return(p)

Spec == Init /\ [][Next]_vars
=============================================================================
