--------------------------- MODULE MCPurchaseIntent ---------------------------
(* A small instance of PurchaseIntent for TLC: a dealer with two ads, one  *)
(* place.                                                                  *)
EXTENDS PurchaseIntent

CONSTANT d1

MCOwnerOf == [a \in Ads |-> d1]
MCMatches == Intents \X Ads
===============================================================================
