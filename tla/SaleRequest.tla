------------------------------ MODULE SaleRequest ------------------------------
(***************************************************************************)
(* One published request of "venda seu carro para lojas": the owner        *)
(* publishes a car, the stores of the city bid in rounds, the owner        *)
(* accepts one current bid, the two sides talk outside the platform, and   *)
(* the owner may report that they did not agree, accept another bid of     *)
(* the round or open a new round with a new floor.                         *)
(*                                                                         *)
(* Every write handler of src/src/modules/sale-requests locks the row of   *)
(* sale_requests first (SELECT ... FOR UPDATE) and reads and writes the    *)
(* other tables under that lock, so each handler is ONE action here.       *)
(* SaleRequestLock justifies this atomicity statement by statement.        *)
(* withTransaction COMMITS whenever the handler returns, also when it      *)
(* returns {ok: false}; only an exception rolls back.  A handler that      *)
(* refuses before its first write is a stuttering step and has no action.  *)
(*                                                                         *)
(* Variables are the rows of this request:                                 *)
(*   status, round, selected   sale_requests.status,                       *)
(*                             .current_round_number, .selected_offer_id   *)
(*   floors      sale_request_rounds: floors[n] is the floor of round n    *)
(*   offers      sale_request_offers, append-only: the index is the id     *)
(*   selections  sale_request_offer_selections; UNIQUE (request, offer)    *)
(*               lets the offer name its row                               *)
(*   outcomes    sale_request_handoff_outcomes, by the selection it closes *)
(*   notices     user_notifications with the key                           *)
(*               sale-request:{id}:offer-selected:{offer}, by that offer   *)
(* Money is in cents, as toCents compares it.  The bounds of TLC are       *)
(* MaxOffers and MaxRounds.                                                *)
(***************************************************************************)
EXTENDS Integers, Sequences

CONSTANTS Stores,     \* advertisers of the request's city
          Amounts,    \* amounts a store may bid and an owner may ask
          Stamps,     \* transaction start times
          MaxOffers, MaxRounds

ASSUME AmountsPositive == Amounts \subseteq Nat \ {0}
ASSUME StampsNatural == Stamps \subseteq Nat
ASSUME BoundsNatural == MaxOffers \in Nat /\ MaxRounds \in Nat

VARIABLES status, round, selected, floors, offers, selections, outcomes, notices

vars == <<status, round, selected, floors, offers, selections, outcomes, notices>>

NoOffer == 0    \* selected_offer_id IS NULL
NoFloor == 0    \* minimum_accepted_price IS NULL: a request older than the floor

Offer == [store : Stores, round : Nat \ {0}, amount : Amounts, created : Stamps]

(* The statuses that still have a writer. *)
SelectableStatuses == {"receiving_offers", "handoff_failed"}
ActiveHandoffStatuses == {"offer_selected", "inspection_scheduled"}
SelectedStatuses == ActiveHandoffStatuses \cup {"handoff_failed"}
Statuses == SelectableStatuses \cup ActiveHandoffStatuses \cup {"cancelled"}

TypeOK ==
  /\ status \in Statuses
  /\ round \in Nat \ {0}
  /\ selected \in Nat
  /\ floors \in Seq(Amounts \cup {NoFloor})
  /\ offers \in Seq(Offer)
  /\ selections \subseteq DOMAIN offers
  /\ outcomes \subseteq selections
  /\ notices \subseteq DOMAIN offers

(***************************************************************************)
(* What the handlers read.                                                 *)
(***************************************************************************)

(* The bids of the open round (getCurrentRound, then round_id in WHERE). *)
RoundOffers == {o \in DOMAIN offers : offers[o].round = round}

(* ORDER BY created_at DESC, id DESC inside one store and one round. *)
Supersedes(p, o) ==
  /\ offers[p].store = offers[o].store
  /\ offers[p].round = offers[o].round
  /\ \/ offers[p].created > offers[o].created
     \/ offers[p].created = offers[o].created /\ p > o

(* o is the proposal its store currently stands for: the most RECENT one. *)
IsCurrent(o) == \A p \in DOMAIN offers : ~Supersedes(p, o)

(* The two barriers: the floor for the first bid, the leader afterwards. *)
Leads_NoFloor(amount) == \A o \in RoundOffers : amount > offers[o].amount
Leads(amount) ==
  /\ RoundOffers = {} => amount >= floors[round]
  /\ \A o \in RoundOffers : amount > offers[o].amount

AcceptsOffers_Always == status # "cancelled"
AcceptsOffers == status = "receiving_offers"

(***************************************************************************)
(* The handlers.                                                           *)
(***************************************************************************)

(* POST /offers.  created_at DEFAULT NOW() is the START of the bidder's    *)
(* transaction, taken before it waits for the row lock: a bid that waited  *)
(* carries an older stamp than one that overtook it, so any unused stamp   *)
(* is possible.                                                            *)
CreateSaleOffer(s, amount, stamp) ==
  /\ AcceptsOffers
  /\ Leads(amount)
  /\ \A o \in DOMAIN offers : offers[o].created # stamp
  /\ Len(offers) < MaxOffers
  /\ offers' = Append(offers, [store |-> s, round |-> round,
                               amount |-> amount, created |-> stamp])
  /\ UNCHANGED <<status, round, selected, floors, selections, outcomes, notices>>

(* Steps 3 to 7 of selectSaleRequestOffer, read under the lock. *)
MaySelect(o) ==
  /\ status \notin {"cancelled", "offer_selected"}
  /\ o \in RoundOffers
  /\ IsCurrent(o)

(* Step 8, insertOfferSelection: ON CONFLICT (request, offer) DO NOTHING,  *)
(* and a second row of one store in one round breaks another UNIQUE: the   *)
(* handler throws and everything is rolled back.                           *)
MayRecord_Again(o) == TRUE
MayRecord(o) ==
  /\ o \notin selections
  /\ \A p \in selections : \/ offers[p].store # offers[o].store
                           \/ offers[p].round # offers[o].round

(* Steps 9 and 10: markOfferSelected and the store's notice. *)
MarkOfferSelected(o) ==
  /\ status \in SelectableStatuses
  /\ status' = "offer_selected"
  /\ selected' = o
  /\ notices' = notices \cup {o}

(* markOfferSelected matched no row: the handler RETURNS {ok: false}, so   *)
(* the row inserted in step 8 is committed.                                *)
LeaveUnmarked ==
  /\ status \notin SelectableStatuses
  /\ UNCHANGED <<status, selected, notices>>

SelectSaleRequestOffer(o) ==
  /\ MaySelect(o)
  /\ MayRecord(o)
  /\ selections' = selections \cup {o}
  /\ MarkOfferSelected(o) \/ LeaveUnmarked
  /\ UNCHANGED <<round, floors, offers, outcomes>>

(* One UPDATE ... WHERE status = 'receiving_offers'. *)
CancelMySaleRequest_Failed ==
  /\ status \in SelectableStatuses
  /\ status' = "cancelled"
  /\ UNCHANGED <<round, selected, floors, offers, selections, outcomes, notices>>
CancelMySaleRequest ==
  /\ status = "receiving_offers"
  /\ status' = "cancelled"
  /\ UNCHANGED <<round, selected, floors, offers, selections, outcomes, notices>>

(* "Nao houve acordo": the outcome and the status move together. *)
CloseMatch_Nothing == {}
CloseMatch_Round == RoundOffers
CloseMatch == {selected}
ReportNoAgreement ==
  /\ status \in ActiveHandoffStatuses
  /\ selected \in selections        \* getCurrentSelection
  /\ selected \notin outcomes       \* insertOutcome, ON CONFLICT DO NOTHING
  /\ outcomes' = outcomes \cup CloseMatch
  /\ status' = "handoff_failed"
  /\ UNCHANGED <<round, selected, floors, offers, selections, notices>>

(* A new round: its row, the pointer, the status and the selection. *)
NextRound_Same == round
NextRound == round + 1
OpenNewRound(floor) ==
  /\ status = "handoff_failed"
  /\ round + 1 \notin DOMAIN floors  \* insertRound, ON CONFLICT DO NOTHING
  /\ round < MaxRounds
  /\ floors' = Append(floors, floor)
  /\ round' = NextRound
  /\ status' = "receiving_offers"
  /\ selected' = NoOffer
  /\ UNCHANGED <<offers, selections, outcomes, notices>>

(* What confirmInspectionSlot does to the rows of this module; its guards  *)
(* on the visit are in SaleRequestVisit.                                   *)
ScheduleVisit ==
  /\ status = "offer_selected"
  /\ status' = "inspection_scheduled"
  /\ UNCHANGED <<round, selected, floors, offers, selections, outcomes, notices>>

(* createSaleRequest leaves the request open in round 1, with its floor;   *)
(* migration 060 gave the older requests a round 1 without floor.          *)
Init ==
  /\ status = "receiving_offers"
  /\ round = 1
  /\ selected = NoOffer
  /\ floors \in {<<f>> : f \in Amounts \cup {NoFloor}}
  /\ offers = <<>>
  /\ selections = {}
  /\ outcomes = {}
  /\ notices = {}

Next ==
  \/ \E s \in Stores, a \in Amounts, t \in Stamps : CreateSaleOffer(s, a, t)
  \/ \E o \in DOMAIN offers : SelectSaleRequestOffer(o)
  \/ CancelMySaleRequest
  \/ ReportNoAgreement
  \/ \E f \in Amounts : OpenNewRound(f)
  \/ ScheduleVisit

Spec == Init /\ [][Next]_vars

(* The handlers make no other move than those of SaleRequestLifecycle, and *)
(* the round grows by one exactly when a failed match is reopened: a       *)
(* cancelled request is final, and a matched one is never cancelled.       *)
Lifecycle == INSTANCE SaleRequestLifecycle
ImplementsLifecycle == Lifecycle!Spec

(***************************************************************************)
(* Safety.                                                                 *)
(***************************************************************************)

(* Status, pointer, trail, outcomes and rounds tell one story: an active   *)
(* match points to a trail row without outcome, a failed one to a closed   *)
(* row, an open or cancelled request to nothing, and the open round is the *)
(* last row of sale_request_rounds.  So the branches the handlers call     *)
(* "inexprimivel" (no selection, outcome already there, round already      *)
(* there) are never taken and the owner is never stuck in a match.         *)
MatchCoherence ==
  /\ status \in ActiveHandoffStatuses => selected \in selections \ outcomes
  /\ status = "handoff_failed" => selected \in outcomes
  /\ status \notin SelectedStatuses => selected = NoOffer
  /\ Len(floors) = round

(* The accepted proposal is, for as long as the match lasts or is shown as *)
(* failed, a proposal of the open round and the latest word of its store:  *)
(* no bid slips in behind the owner's choice.                              *)
SelectedIsCurrent ==
  status \in SelectedStatuses => selected \in RoundOffers /\ IsCurrent(selected)

(* While a request is open to bids, or was cancelled, its open round holds *)
(* no selection: accepting closes the round for good, and a cancellation   *)
(* never throws away a match of the round it closes.                       *)
NoMatchInOpenRound ==
  status \notin SelectedStatuses =>
    \A o \in selections : offers[o].round < round

(* UNIQUE (request, advertiser, round) is not the target of the insert's   *)
(* ON CONFLICT: breaking it would be a 500.  No selection ever does, since *)
(* the trail holds at most one proposal of a store per round.              *)
OneSelectionPerStoreAndRound ==
  \A o \in DOMAIN offers :
    MaySelect(o) /\ o \notin selections => MayRecord(o)

(* Every bid of a round reaches its floor, although only the first one is  *)
(* compared with it, and bids of a round rise strictly in id order.        *)
AuctionRises ==
  /\ \A o \in DOMAIN offers : /\ offers[o].round \in DOMAIN floors
                              /\ offers[o].amount >= floors[offers[o].round]
  /\ \A p, o \in DOMAIN offers :
       p < o /\ offers[p].round = offers[o].round => offers[p].amount < offers[o].amount

(* A proposal whose match failed is never accepted again, in any round:    *)
(* the same offer cannot be accepted twice.                                *)
FailedMatchNeverReturns ==
  [][selected' \in outcomes => selected' = selected]_vars

(* "Nunca uma sem a outra": a selection is recorded exactly when its store *)
(* is told.  VIOLATED by the code: in inspection_scheduled the handler     *)
(* passes its checks, inserts the selection, finds the status not          *)
(* selectable and returns, and the transaction commits.  Nothing else      *)
(* breaks it (theorem SilenceNeedsAVisit).                                 *)
SelectionIffNotice == selections = notices

(* The latest proposal of a store is its highest one ("hoje as duas        *)
(* coincidem").  VIOLATED by the code: created_at is the start of the      *)
(* transaction, so of two racing bids of one store the one that got the    *)
(* lock last, and bids more, can carry the older stamp.  Nothing else      *)
(* breaks it (theorem LatestBidIsHighest).                                 *)
LatestIsHighest ==
  \A p, o \in DOMAIN offers :
    Supersedes(p, o) => offers[p].amount > offers[o].amount
================================================================================
