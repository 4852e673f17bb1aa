------------------------------- MODULE MCSync -------------------------------
(* Three threads: a reader that also signals, a writer that waits for the  *)
(* semaphore while it may hold the lock, and one that only tries.          *)
EXTENDS Sync, TLC

CONSTANTS reader, both, poller

MCProgram ==
  (reader :> {"read_lock", "read_unlock", "semaphore_post"}) @@
  (both   :> {"write_lock", "write_unlock", "semaphore_wait"}) @@
  (poller :> Ops \ (Blocking \cup {"semaphore_post"}))
=============================================================================
