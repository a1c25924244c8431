-------------------------- MODULE MCSaleRequestVisit --------------------------
(* A small instance of SaleRequestVisit for TLC.                           *)
EXTENDS SaleRequestVisit, TLC

StoreSymmetry == Permutations(Stores)
================================================================================
