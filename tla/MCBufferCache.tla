--------------------------- MODULE MCBufferCache ---------------------------
(* Two devices with two blocks each: one block more than the three buffers, *)
(* so that a get must evict, and an eviction that frees at most two.        *)
EXTENDS BufferCache

CONSTANTS d1, d2

MCBlock == {<<d1, 1>>, <<d1, 2>>, <<d2, 1>>, <<d2, 2>>}

Symmetry == Permutations(Thread) \cup Permutations(Buf)
=============================================================================
