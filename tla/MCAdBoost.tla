------------------------------- MODULE MCAdBoost -------------------------------
(* Small instances of AdBoost for TLC: two purchases for one ad; the first *)
(* may be paid at the second attempt.                                      *)
EXTENDS AdBoost, TLC

CONSTANTS a1, i1, i2, c1, c2, d1

MCAdOf == [i \in Intents |-> a1]
MCIntentOf == [c \in Charges |-> IF c = d1 THEN i2 ELSE i1]
================================================================================
