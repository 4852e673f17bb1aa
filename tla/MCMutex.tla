------------------------------ MODULE MCMutex ------------------------------
(* Two threads, each locking up to twice.                                  *)
EXTENDS Mutex
=============================================================================
