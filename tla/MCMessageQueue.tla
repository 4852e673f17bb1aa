--------------------------- MODULE MCMessageQueue ---------------------------
(* Two threads, two messages and a ring of three slots for TLC.            *)
EXTENDS MessageQueue
=============================================================================
