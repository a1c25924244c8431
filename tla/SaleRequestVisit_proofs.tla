------------------------- MODULE SaleRequestVisit_proofs -------------------------
(***************************************************************************)
(* The composition with the visit implements SaleRequest, so it inherits   *)
(* what is proved there, and the visit agrees with the request.            *)
(***************************************************************************)
EXTENDS SaleRequestVisit, SaleRequest_proofs

(* The store of an active or failed match was told of the choice. *)
MatchIsNotified == status \in SelectedStatuses => selected \in notices

VInv ==
  /\ VisitTypeOK
  /\ MatchIsNotified
  /\ ScheduleAgrees
  /\ ConfirmedSlotIsCurrent

(***************************************************************************)
(* The simulation.                                                         *)
(***************************************************************************)

LEMMA VisitStepIsRequestStep == [VisitNext]_allVars => [Next]_vars
<1> SUFFICES ASSUME [VisitNext]_allVars PROVE [Next]_vars
  OBVIOUS
<1>1. CASE RequestAction
  BY <1>1 DEF RequestAction, Next
<1>2. CASE \E n \in SlotCounts : OfferInspectionSlots(n)
  BY <1>2 DEF OfferInspectionSlots
<1>3. CASE \E slot \in Slot : ConfirmInspectionSlot(slot)
  BY <1>3 DEF ConfirmInspectionSlot, Next
<1>4. CASE RequestNewInspectionSlots
  BY <1>4 DEF RequestNewInspectionSlots
<1>5. CASE UNCHANGED allVars
  BY <1>5 DEF allVars
<1> QED
  BY <1>1, <1>2, <1>3, <1>4, <1>5 DEF VisitNext

(* The composed system behaves as SaleRequest: the visit adds state, never *)
(* a move of the request that its handlers do not make.                    *)
THEOREM VisitImplementsRequest == VisitSpec => ImplementsRequest
<1>1. VisitInit => Init
  BY DEF VisitInit
<1> QED
  BY <1>1, VisitStepIsRequestStep, PTL DEF VisitSpec, ImplementsRequest, Spec

(***************************************************************************)
(* The invariant of the visit.                                             *)
(***************************************************************************)

LEMMA InitVInv == VisitInit => VInv
  BY DEF VisitInit, Init, VInv, VisitTypeOK, MatchIsNotified, ScheduleAgrees,
         ConfirmedSlotIsCurrent, HasVisit, SelectedStatuses, ActiveHandoffStatuses

(* A handler of the request leaves every visit alone and moves the pointer *)
(* only away from a closed match, and onto a proposal without a visit.     *)
LEMMA RequestKeepsVInv ==
  ASSUME IInv, VInv, RequestAction
  PROVE  VInv'
<1>0. visits' = visits /\ DOMAIN visits \subseteq DOMAIN offers /\ DOMAIN visits \subseteq notices
  BY DEF RequestAction, visitVars, VInv, VisitTypeOK, ScheduleAgrees
<1>1. ASSUME DOMAIN offers \subseteq DOMAIN offers'
      PROVE  VisitTypeOK' /\ ConfirmedSlotIsCurrent'
  BY <1>0, <1>1 DEF VInv, VisitTypeOK, ConfirmedSlotIsCurrent, SlotRound
<1>2. ASSUME NEW s \in Stores, NEW a \in Amounts, NEW t \in Stamps, CreateSaleOffer(s, a, t)
      PROVE  VInv'
  <2>1. DOMAIN offers \subseteq DOMAIN offers'
    BY <1>2 DEF CreateSaleOffer, IInv, TypeOK
  <2>2. MatchIsNotified' /\ ScheduleAgrees'
    BY <1>0, <1>2
       DEF CreateSaleOffer, VInv, MatchIsNotified, ScheduleAgrees, HasVisit
  <2> QED
    BY <1>1, <2>1, <2>2 DEF VInv
<1>3. ASSUME NEW o \in DOMAIN offers, SelectSaleRequestOffer(o)
      PROVE  VInv'
  <2>1. offers' = offers /\ outcomes' = outcomes /\ o \notin selections
    BY <1>3 DEF SelectSaleRequestOffer, MayRecord
  <2>2. CASE LeaveUnmarked
    BY <1>0, <1>1, <2>1, <2>2
       DEF LeaveUnmarked, VInv, MatchIsNotified, ScheduleAgrees, HasVisit
  <2>3. CASE MarkOfferSelected(o)
    <3>1. /\ status \in SelectableStatuses /\ status' = "offer_selected"
          /\ selected' = o /\ notices' = notices \cup {o}
      BY <2>3 DEF MarkOfferSelected
    <3>2. o \notin outcomes
      BY <2>1 DEF IInv, TypeOK
    <3>3. DOMAIN visits \subseteq outcomes
      <4>1. CASE status = "handoff_failed"
        BY <4>1 DEF IInv, MatchCoherence, VInv, ScheduleAgrees
      <4>2. CASE status = "receiving_offers"
        <5>1. selected = 0 /\ 0 \notin DOMAIN offers
          BY <4>2 DEF IInv, MatchCoherence, TypeOK, SelectedStatuses, ActiveHandoffStatuses,
                      NoOffer
        <5> QED
          BY <1>0, <5>1 DEF VInv, ScheduleAgrees
      <4> QED
        BY <3>1, <4>1, <4>2 DEF SelectableStatuses
    <3>4. ScheduleAgrees'
      BY <1>0, <2>1, <3>1, <3>2, <3>3 DEF ScheduleAgrees, HasVisit, ActiveHandoffStatuses
    <3>5. MatchIsNotified'
      BY <3>1 DEF MatchIsNotified
    <3> QED
      BY <1>1, <2>1, <3>4, <3>5 DEF VInv
  <2> QED
    BY <1>3, <2>2, <2>3 DEF SelectSaleRequestOffer
<1>4. ASSUME CancelMySaleRequest
      PROVE  VInv'
  BY <1>0, <1>1, <1>4
     DEF CancelMySaleRequest, VInv, MatchIsNotified, ScheduleAgrees, HasVisit, SelectedStatuses,
         ActiveHandoffStatuses
<1>5. ASSUME ReportNoAgreement
      PROVE  VInv'
  BY <1>0, <1>1, <1>5
     DEF ReportNoAgreement, CloseMatch, VInv, MatchIsNotified, ScheduleAgrees, HasVisit,
         SelectedStatuses, ActiveHandoffStatuses
<1>6. ASSUME NEW f \in Amounts, OpenNewRound(f)
      PROVE  VInv'
  <2>1. selected \in outcomes
    BY <1>6 DEF OpenNewRound, IInv, MatchCoherence
  <2>2. ScheduleAgrees' /\ MatchIsNotified'
    BY <1>0, <1>6, <2>1
       DEF OpenNewRound, VInv, MatchIsNotified, ScheduleAgrees, HasVisit, SelectedStatuses,
           ActiveHandoffStatuses
  <2>3. offers' = offers
    BY <1>6 DEF OpenNewRound
  <2> QED
    BY <1>1, <2>2, <2>3 DEF VInv
<1> QED
  BY <1>2, <1>3, <1>4, <1>5, <1>6 DEF RequestAction

(* A round of slots: it starts the visit of the match or replaces the      *)
(* slots nobody confirmed.                                                 *)
LEMMA OfferSlotsKeepsVInv ==
  ASSUME IInv, VInv, NEW n \in SlotCounts, OfferInspectionSlots(n)
  PROVE  VInv'
<1> DEFINE before == IF HasVisit THEN visits[selected].slots ELSE <<>>
           v == [status |-> "awaiting_owner", slots |-> Append(before, n), confirmed |-> NoSlot]
<1>1. /\ status = "offer_selected" /\ selected \in selections
      /\ UNCHANGED vars
      /\ DOMAIN visits' = DOMAIN visits \cup {selected}
      /\ visits'[selected] = v
      /\ \A o \in DOMAIN visits \ {selected} : visits'[o] = visits[o]
  BY DEF OfferInspectionSlots, MayOfferSlots
<1>2. UNCHANGED <<status, round, selected, offers, selections, outcomes, notices>>
  BY <1>1 DEF vars
<1>3. selected \in DOMAIN offers /\ selected \in notices
  BY <1>1 DEF IInv, TypeOK, VInv, MatchIsNotified, SelectedStatuses, ActiveHandoffStatuses
<1>4. v \in Visit
  <2>1. before \in Seq(SlotCounts)
    BY DEF VInv, VisitTypeOK, HasVisit, Visit
  <2>2. Append(before, n) \in Seq(SlotCounts)
    BY <2>1
  <2> QED
    BY <2>2 DEF Visit
<1>5. VisitTypeOK'
  BY <1>1, <1>2, <1>3, <1>4 DEF VInv, VisitTypeOK
<1>6. MatchIsNotified'
  BY <1>2 DEF VInv, MatchIsNotified
<1>7. ScheduleAgrees'
  BY <1>1, <1>2, <1>3 DEF VInv, ScheduleAgrees, HasVisit
<1>8. ConfirmedSlotIsCurrent'
  BY <1>1 DEF VInv, ConfirmedSlotIsCurrent, SlotRound
<1> QED
  BY <1>5, <1>6, <1>7, <1>8 DEF VInv

(* The owner's answer: the slots of the last round stand, one of them is   *)
(* confirmed or others are asked for.                                      *)
LEMMA AnswerKeepsVInv ==
  ASSUME IInv, VInv,
         (\E slot \in Slot : ConfirmInspectionSlot(slot)) \/ RequestNewInspectionSlots
  PROVE  VInv'
<1>1. ASSUME NEW slot \in Slot, ConfirmInspectionSlot(slot)
      PROVE  VInv'
  <2>1. /\ HasVisit /\ IsPublished(slot)
        /\ status' = "inspection_scheduled"
        /\ UNCHANGED <<round, selected, floors, offers, selections, outcomes, notices>>
        /\ DOMAIN visits' = DOMAIN visits
        /\ visits'[selected] = [visits[selected] EXCEPT !.status = "scheduled",
                                                        !.confirmed = slot]
        /\ \A o \in DOMAIN visits \ {selected} : visits'[o] = visits[o]
        /\ status = "offer_selected"
    BY <1>1 DEF ConfirmInspectionSlot, ScheduleVisit, HasVisit
  <2>2. visits[selected] \in Visit
    BY <2>1 DEF VInv, VisitTypeOK, HasVisit
  <2>3. /\ visits'[selected] \in Visit
        /\ visits'[selected].status = "scheduled"
        /\ visits'[selected].confirmed = slot
        /\ visits'[selected].slots = visits[selected].slots
    BY <2>1, <2>2 DEF Visit
  <2>4. VisitTypeOK'
    BY <2>1, <2>3 DEF VInv, VisitTypeOK
  <2>5. MatchIsNotified'
    BY <2>1 DEF VInv, MatchIsNotified, SelectedStatuses, ActiveHandoffStatuses
  <2>6. ScheduleAgrees'
    BY <2>1, <2>3 DEF VInv, ScheduleAgrees, HasVisit, ActiveHandoffStatuses
  <2>7. ASSUME NEW o \in DOMAIN visits', visits'[o].confirmed # NoSlot
        PROVE  /\ visits'[o].status = "scheduled"
               /\ visits'[o].confirmed[1] = SlotRound(o)'
               /\ visits'[o].confirmed[2] <= visits'[o].slots[SlotRound(o)']
    <3>1. CASE o = selected
      BY <2>1, <2>3, <3>1 DEF IsPublished, SlotRound
    <3>2. CASE o # selected
      <4>1. o \in DOMAIN visits /\ visits'[o] = visits[o]
        BY <2>1, <2>7, <3>2
      <4> QED
        BY <2>7, <4>1 DEF VInv, ConfirmedSlotIsCurrent, SlotRound
    <3> QED
      BY <3>1, <3>2
  <2> QED
    BY <2>4, <2>5, <2>6, <2>7 DEF VInv, ConfirmedSlotIsCurrent
<1>2. ASSUME RequestNewInspectionSlots
      PROVE  VInv'
  <2>1. /\ HasVisit /\ visits[selected].status = "awaiting_owner"
        /\ UNCHANGED <<status, round, selected, offers, selections, outcomes, notices>>
        /\ DOMAIN visits' = DOMAIN visits
        /\ visits'[selected] = [visits[selected] EXCEPT !.status = "awaiting_slots"]
        /\ \A o \in DOMAIN visits \ {selected} : visits'[o] = visits[o]
        /\ status = "offer_selected"
    BY <1>2 DEF RequestNewInspectionSlots, HasVisit, vars
  <2>2. visits[selected] \in Visit
    BY <2>1 DEF VInv, VisitTypeOK, HasVisit
  <2>3. visits[selected].confirmed = NoSlot
    BY <2>1 DEF VInv, ConfirmedSlotIsCurrent, HasVisit
  <2>4. /\ visits'[selected] \in Visit
        /\ visits'[selected].status = "awaiting_slots"
        /\ visits'[selected].confirmed = NoSlot
    BY <2>1, <2>2, <2>3 DEF Visit
  <2>5. VisitTypeOK' /\ MatchIsNotified'
    BY <2>1, <2>4 DEF VInv, VisitTypeOK, MatchIsNotified
  <2>6. ScheduleAgrees'
    BY <2>1, <2>4 DEF VInv, ScheduleAgrees, HasVisit
  <2>7. ASSUME NEW o \in DOMAIN visits', visits'[o].confirmed # NoSlot
        PROVE  /\ visits'[o].status = "scheduled"
               /\ visits'[o].confirmed[1] = SlotRound(o)'
               /\ visits'[o].confirmed[2] <= visits'[o].slots[SlotRound(o)']
    <3>1. o \in DOMAIN visits /\ visits'[o] = visits[o]
      BY <2>1, <2>4, <2>7
    <3> QED
      BY <2>7, <3>1 DEF VInv, ConfirmedSlotIsCurrent, SlotRound
  <2> QED
    BY <2>5, <2>6, <2>7 DEF VInv, ConfirmedSlotIsCurrent
<1> QED
  BY <1>1, <1>2

LEMMA NextVInv == IInv /\ VInv /\ [VisitNext]_allVars => VInv'
<1> SUFFICES ASSUME IInv, VInv, [VisitNext]_allVars PROVE VInv'
  OBVIOUS
<1>1. CASE VisitNext
  BY <1>1, RequestKeepsVInv, OfferSlotsKeepsVInv, AnswerKeepsVInv DEF VisitNext
<1>2. CASE UNCHANGED allVars
  BY <1>2 DEF allVars, vars, visitVars, VInv, VisitTypeOK, MatchIsNotified, ScheduleAgrees,
              ConfirmedSlotIsCurrent, HasVisit, SlotRound
<1> QED
  BY <1>1, <1>2

(* The invariant of SaleRequest and that of the visit, together. *)
THEOREM VisitInvariance == VisitSpec => [](IInv /\ VInv)
<1>1. VisitSpec => []IInv
  BY VisitImplementsRequest, Invariance, PTL DEF ImplementsRequest
<1>2. VisitSpec /\ []IInv => []VInv
  BY InitVInv, NextVInv, PTL DEF VisitSpec
<1> QED
  BY <1>1, <1>2, PTL

(* The tables of the visit keep their types: a visit hangs on a bid that   *)
(* exists, with the slots of every round published for it.                 *)
THEOREM VisitTypes == VisitSpec => []VisitTypeOK
<1>1. VInv => VisitTypeOK
  BY DEF VInv
<1> QED
  BY <1>1, VisitInvariance, PTL

(* Request and visit agree on whether a visit is scheduled, and a visit    *)
(* left behind belongs to a closed match.                                  *)
THEOREM RequestAndVisitAgree == VisitSpec => []ScheduleAgrees
<1>1. VInv => ScheduleAgrees
  BY DEF VInv
<1> QED
  BY <1>1, VisitInvariance, PTL

(* The owner never holds a confirmation of slots the store has replaced.   *)
THEOREM ConfirmationIsCurrent == VisitSpec => []ConfirmedSlotIsCurrent
<1>1. VInv => ConfirmedSlotIsCurrent
  BY DEF VInv
<1> QED
  BY <1>1, VisitInvariance, PTL

(* The visit of a closed match is never written again: the pointer of an   *)
(* active match never designates a closed one.                             *)
THEOREM ClosedVisitsStay == VisitSpec => ClosedVisitIsHistory
<1>1. IInv /\ [VisitNext]_allVars =>
        [\A o \in outcomes \cap DOMAIN visits :
           o \in DOMAIN visits' /\ visits'[o] = visits[o]]_allVars
  <2> SUFFICES ASSUME IInv, VisitNext, NEW o \in outcomes \cap DOMAIN visits
               PROVE  o \in DOMAIN visits' /\ visits'[o] = visits[o]
    OBVIOUS
  <2>1. CASE RequestAction
    BY <2>1 DEF RequestAction, visitVars
  <2>2. CASE ~RequestAction
    <3>1. status = "offer_selected"
      BY <2>2 DEF VisitNext, OfferInspectionSlots, MayOfferSlots, ConfirmInspectionSlot,
                  ScheduleVisit, RequestNewInspectionSlots
    <3>2. o # selected
      BY <3>1 DEF IInv, MatchCoherence, ActiveHandoffStatuses
    <3> QED
      BY <2>2, <3>2 DEF VisitNext, OfferInspectionSlots, ConfirmInspectionSlot,
                        RequestNewInspectionSlots
  <2> QED
    BY <2>1, <2>2
<1> QED
  BY <1>1, VisitInvariance, PTL DEF VisitSpec, ClosedVisitIsHistory
================================================================================
