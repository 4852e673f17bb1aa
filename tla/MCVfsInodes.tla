----------------------------- MODULE MCVfsInodes -----------------------------
(* Four files over two numbers and three inode addresses: two opens of one *)
(* number meet in the gap between search and insertion while the others    *)
(* open and close, and freed addresses are used again.  Files, addresses   *)
(* and numbers are interchangeable.                                        *)
EXTENDS VfsInodes, TLC

Symmetry == Permutations(File) \cup Permutations(Inode) \cup Permutations(Key)
=============================================================================
