----------------------------- MODULE MCSaleRequest -----------------------------
(* A small instance of SaleRequest for TLC: two interchangeable stores.    *)
EXTENDS SaleRequest, TLC

StoreSymmetry == Permutations(Stores)
================================================================================
