---------------------------- MODULE MCKernelHeap ----------------------------
(* Two frames of 12 bytes that do not touch, headers of 2 bytes, 5-bit     *)
(* sizes.  The sizes round to 2, 4, more than a frame holds, and past the  *)
(* largest size_t.                                                         *)
EXTENDS KernelHeap
=============================================================================
