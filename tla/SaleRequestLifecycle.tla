-------------------------- MODULE SaleRequestLifecycle --------------------------
(***************************************************************************)
(* What the rest of the platform may rely on about a sale request: the     *)
(* only moves its status makes, and that the round grows by one exactly    *)
(* when a failed negotiation is reopened.  SaleRequest implements this;    *)
(* SalePublish counts requests on top of it.                               *)
(***************************************************************************)
EXTENDS Integers

VARIABLES status, round

Cancel   == <<"receiving_offers", "cancelled">>
Accept   == <<"receiving_offers", "offer_selected">>
Reaccept == <<"handoff_failed", "offer_selected">>
Schedule == <<"offer_selected", "inspection_scheduled">>
Fail     == <<"offer_selected", "handoff_failed">>
FailLate == <<"inspection_scheduled", "handoff_failed">>
Reopen   == <<"handoff_failed", "receiving_offers">>

Moves == {Cancel, Accept, Reaccept, Schedule, Fail, FailLate, Reopen}

Init == status = "receiving_offers" /\ round = 1

Next ==
  /\ <<status, status'>> \in Moves
  /\ round' = IF <<status, status'>> = Reopen THEN round + 1 ELSE round

Spec == Init /\ [][Next]_<<status, round>>
================================================================================
