---------------------------- MODULE MCSalePublish ----------------------------
(* A small instance of SalePublish for TLC.                                *)
EXTENDS SalePublish, TLC

Symmetry == Permutations(Requests) \cup Permutations(Sessions)
================================================================================
