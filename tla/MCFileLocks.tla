---------------------------- MODULE MCFileLocks ----------------------------
(* Two processes, two files and a range that avoids the special ends: the  *)
(* lists alone decide.                                                     *)
EXTENDS FileLocks

CONSTANTS l1, l2, l3

MCPool   == <<l1, l2, l3>>
MCRanges == {<<1, 2>>}

Symmetry == Permutations(Owner) \cup Permutations(File)
=============================================================================
