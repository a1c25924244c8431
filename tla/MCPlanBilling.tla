----------------------------- MODULE MCPlanBilling -----------------------------
(* Small instances of PlanBilling for TLC: two intents, each with a plan   *)
(* and up to two charges.                                                  *)
EXTENDS PlanBilling, TLC

CONSTANTS i1, i2, a1, a2, b1, b2, basic, premium

MCIntentOf == [c \in Charges |-> IF c \in {a1, a2} THEN i1 ELSE i2]
MCPlanOf == [i \in Intents |-> IF i = i1 THEN basic ELSE premium]

Symmetry == Permutations(Workers)
================================================================================
