--------------------------- MODULE MCAddressSpace ---------------------------
(* Six of the eight pages of two addresses; areas of one to three pages,   *)
(* so that some overlap, and some reach the last page and wrap.            *)
EXTENDS AddressSpace
=============================================================================
