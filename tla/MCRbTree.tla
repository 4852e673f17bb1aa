------------------------------ MODULE MCRbTree ------------------------------
(* Ten nodes: the fewest for which an insertion's fix-up climbs twice.     *)
EXTENDS RbTree
=============================================================================
