--------------------------- MODULE MCSaleRequestLock ---------------------------
(* A small instance of SaleRequestLock for TLC.                            *)
EXTENDS SaleRequestLock, TLC

Symmetry == Permutations(Stores) \cup Permutations(Clients)
================================================================================
