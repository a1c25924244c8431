---------------------------- MODULE SaleRequestVisit ----------------------------
(***************************************************************************)
(* Scheduling the visit of an accepted proposal, composed with the rest of *)
(* the request: the selected store publishes rounds of 1 to 3 slots, the   *)
(* owner confirms one or asks for others.  Every handler locks the row of  *)
(* sale_requests first and reads the inspection after the lock, so each is *)
(* one action, as in SaleRequest.                                          *)
(*                                                                         *)
(*   visits        sale_request_inspections, by the selection (UNIQUE      *)
(*                 selection_id), hence by the offer; slots[n] is how many *)
(*                 slots round n published, and the slot <<n, k>> is the   *)
(*                 k-th of round n                                         *)
(*   visitNotices  user_notifications of the scheduling: UNIQUE            *)
(*                 (recipient_user_id, idempotency_key), ON CONFLICT DO    *)
(*                 NOTHING                                                 *)
(*                                                                         *)
(* Of the old flow after the visit (form, final decision) nothing is left  *)
(* to model: its handlers throw before they touch a row.                   *)
(* MaxSlotRounds bounds the rounds of slots of one selection.              *)
(***************************************************************************)
EXTENDS SaleRequest

CONSTANTS SlotCounts,     \* how many slots a round may publish
          MaxSlotRounds

ASSUME SlotCountsSmall == SlotCounts \subseteq 1..3
ASSUME SlotRoundsNatural == MaxSlotRounds \in Nat

VARIABLES visits, visitNotices

visitVars == <<visits, visitNotices>>
allVars == <<vars, visitVars>>

Owner == "owner"
NoSlot == <<>>

Slot == (1..MaxSlotRounds) \X (1..3)
Visit == [status : {"awaiting_owner", "awaiting_slots", "scheduled"},
          slots : Seq(SlotCounts),
          confirmed : Slot \cup {NoSlot}]

VisitTypeOK ==
  /\ DOMAIN visits \subseteq DOMAIN offers
  /\ \A o \in DOMAIN visits : visits[o] \in Visit

(* The selection the pointer designates, through its trail row. *)
HasVisit == selected \in DOMAIN visits
SlotRound(o) == Len(visits[o].slots)           \* schedule_round
RecipientOf(o) == offers[o].store              \* the account that sent the bid

(* The keys leave out the id of the request: it is fixed here. *)
SlotsOffered(n) == <<Owner, "inspection-slots", n>>
SlotsRequested(o, n) == <<RecipientOf(o), "inspection-slots-requested", n>>
Scheduled(o, slot) == <<RecipientOf(o), "inspection-scheduled", o, slot>>

(* POST .../inspection/slots.  lockRequestForDealer only finds the request *)
(* of the selected store; the store's address is checked before.           *)
MayOfferSlots_AnyStatus == status # "cancelled"
MayOfferSlots_Failed == status \in {"offer_selected", "handoff_failed"} /\ selected \in selections
MayOfferSlots == status = "offer_selected" /\ selected \in selections

NoConfirmedSlot == HasVisit => visits[selected].confirmed = NoSlot

OfferInspectionSlots(count) ==
  LET before == IF HasVisit THEN visits[selected].slots ELSE <<>> IN
  /\ MayOfferSlots
  /\ NoConfirmedSlot
  /\ Len(before) < MaxSlotRounds
  /\ visits' = [o \in DOMAIN visits \cup {selected} |->
                  IF o = selected
                  THEN [status |-> "awaiting_owner",
                        slots |-> Append(before, count),
                        confirmed |-> NoSlot]
                  ELSE visits[o]]
  /\ visitNotices' = visitNotices \cup {SlotsOffered(Len(before) + 1)}
  /\ UNCHANGED vars

(* findCurrentSlot: the slot belongs to the published round. *)
IsPublished_AnyRound(slot) ==
  slot[1] \in DOMAIN visits[selected].slots /\ slot[2] <= visits[selected].slots[slot[1]]
IsPublished(slot) ==
  slot[1] = SlotRound(selected) /\ slot[2] <= visits[selected].slots[slot[1]]

(* POST .../inspection/confirm. *)
ConfirmInspectionSlot(slot) ==
  /\ HasVisit
  /\ visits[selected].status = "awaiting_owner"
  /\ IsPublished(slot)
  /\ visits' = [visits EXCEPT ![selected].status = "scheduled",
                              ![selected].confirmed = slot]
  /\ visitNotices' = visitNotices \cup {Scheduled(selected, slot)}
  /\ ScheduleVisit

(* POST .../inspection/request-slots: the ball goes back to the store. *)
RequestNewInspectionSlots_Unschedules ==
  /\ status \in ActiveHandoffStatuses
  /\ HasVisit
  /\ visits' = [visits EXCEPT ![selected].status = "awaiting_slots",
                              ![selected].confirmed = NoSlot]
  /\ visitNotices' = visitNotices \cup {SlotsRequested(selected, SlotRound(selected))}
  /\ status' = "offer_selected"
  /\ UNCHANGED <<round, selected, floors, offers, selections, outcomes, notices>>
RequestNewInspectionSlots ==
  /\ status = "offer_selected"
  /\ HasVisit
  /\ visits[selected].status = "awaiting_owner"
  /\ visits' = [visits EXCEPT ![selected].status = "awaiting_slots"]
  /\ visitNotices' = visitNotices \cup {SlotsRequested(selected, SlotRound(selected))}
  /\ UNCHANGED vars

(* The handlers of the request itself leave the visits alone. *)
RequestAction ==
  /\ \/ \E s \in Stores, a \in Amounts, t \in Stamps : CreateSaleOffer(s, a, t)
     \/ \E o \in DOMAIN offers : SelectSaleRequestOffer(o)
     \/ CancelMySaleRequest
     \/ ReportNoAgreement
     \/ \E f \in Amounts : OpenNewRound(f)
  /\ UNCHANGED visitVars

VisitInit ==
  /\ Init
  /\ visits = <<>>
  /\ visitNotices = {}

VisitNext ==
  \/ RequestAction
  \/ \E n \in SlotCounts : OfferInspectionSlots(n)
  \/ \E slot \in Slot : ConfirmInspectionSlot(slot)
  \/ RequestNewInspectionSlots

VisitSpec == VisitInit /\ [][VisitNext]_allVars

(***************************************************************************)
(* Properties.                                                             *)
(***************************************************************************)

(* The composed system behaves as SaleRequest, whose ScheduleVisit is the  *)
(* confirmation of a slot: what holds of SaleRequest holds here.           *)
ImplementsRequest == Spec

(* The state of the request and of the visit agree: the request says       *)
(* "scheduled" exactly when the visit of its match is, a visit left behind *)
(* belongs to a match that was closed, and no visit hangs on a selection   *)
(* that never became a match.                                              *)
ScheduleAgrees ==
  /\ status = "inspection_scheduled" <=>
       /\ status \in ActiveHandoffStatuses
       /\ HasVisit
       /\ visits[selected].status = "scheduled"
  /\ \A o \in DOMAIN visits \ {selected} : o \in outcomes
  /\ DOMAIN visits \subseteq notices

(* The confirmed slot is one of the round the owner was shown last, never  *)
(* one the store has replaced, whatever the order of "publish" and         *)
(* "confirm".                                                              *)
ConfirmedSlotIsCurrent ==
  \A o \in DOMAIN visits :
    visits[o].confirmed # NoSlot =>
      /\ visits[o].status = "scheduled"
      /\ visits[o].confirmed[1] = SlotRound(o)
      /\ visits[o].confirmed[2] <= visits[o].slots[SlotRound(o)]

(* A closed match keeps its visit as it was: reselecting another store     *)
(* starts a visit of its own and inherits neither slots nor confirmation.  *)
ClosedVisitIsHistory ==
  [][\A o \in outcomes \cap DOMAIN visits :
       o \in DOMAIN visits' /\ visits'[o] = visits[o]]_allVars

(* "Um conjunto NOVO de horarios e um evento novo e merece aviso proprio": *)
(* publishing a round of slots leaves a new notice for the owner.          *)
(* VIOLATED by the code: the key carries the request and the number of the *)
(* slot round, which restarts at 1 with the visit of a reselected store.   *)
EachSlotRoundIsNotified ==
  [][(\E n \in SlotCounts : OfferInspectionSlots(n)) => visitNotices' # visitNotices]_allVars
================================================================================
