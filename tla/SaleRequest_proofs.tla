--------------------------- MODULE SaleRequest_proofs ---------------------------
(***************************************************************************)
(* The safety of SaleRequest for every set of stores, amounts and stamps   *)
(* and for every bound; then what a store is told of its match, and the    *)
(* conditions under which the two broken promises of the module hold.      *)
(***************************************************************************)
EXTENDS SaleRequest, TLAPS

(* What Append does to a sequence, in the form the steps use it.           *)
LEMMA AppendFacts ==
  ASSUME NEW S, NEW seq \in Seq(S), NEW e \in S
  PROVE  /\ Append(seq, e) \in Seq(S)
         /\ Len(Append(seq, e)) = Len(seq) + 1
         /\ DOMAIN seq = 1..Len(seq)
         /\ DOMAIN Append(seq, e) = DOMAIN seq \cup {Len(seq) + 1}
         /\ \A i \in DOMAIN seq : Append(seq, e)[i] = seq[i]
         /\ Append(seq, e)[Len(seq) + 1] = e
         /\ Len(seq) \in Nat
         /\ Len(seq) + 1 \notin DOMAIN seq
  OBVIOUS

(* The proposals ever accepted are the latest of their store in their      *)
(* round.  With SelectedIsCurrent this is the strengthening that makes the *)
(* safety properties inductive.                                            *)
SelectionsAreCurrent == \A o \in selections : IsCurrent(o)

(* No bid belongs to a round that is not open yet. *)
OffersOfOpenedRounds == \A o \in DOMAIN offers : offers[o].round <= round

IInv ==
  /\ TypeOK
  /\ MatchCoherence
  /\ OffersOfOpenedRounds
  /\ SelectionsAreCurrent
  /\ SelectedIsCurrent
  /\ NoMatchInOpenRound
  /\ AuctionRises

LEMMA InitIInv == Init => IInv
<1> SUFFICES ASSUME Init PROVE IInv
  OBVIOUS
<1> USE DEF Init
<1>1. TypeOK
  <2>1. PICK f \in Amounts \cup {NoFloor} : floors = <<f>>
    OBVIOUS
  <2>2. floors \in Seq(Amounts \cup {NoFloor})
    BY <2>1
  <2>3. offers \in Seq(Offer) /\ selections = {} /\ outcomes = {} /\ notices = {}
    OBVIOUS
  <2>4. status \in Statuses /\ round \in Nat \ {0} /\ selected \in Nat
    BY DEF Statuses, SelectableStatuses, NoOffer
  <2> QED
    BY <2>2, <2>3, <2>4 DEF TypeOK
<1>2. MatchCoherence
  BY DEF MatchCoherence, ActiveHandoffStatuses, NoOffer
<1>3. OffersOfOpenedRounds /\ SelectionsAreCurrent /\ AuctionRises
  BY DEF OffersOfOpenedRounds, SelectionsAreCurrent, AuctionRises
<1>4. SelectedIsCurrent /\ NoMatchInOpenRound
  BY DEF SelectedIsCurrent, NoMatchInOpenRound, SelectedStatuses, ActiveHandoffStatuses
<1> QED
  BY <1>1, <1>2, <1>3, <1>4 DEF IInv

(* A bid: only the offers grow, by one offer of the open round. *)
LEMMA BidKeepsIInv ==
  ASSUME IInv, NEW s \in Stores, NEW a \in Amounts, NEW t \in Stamps,
         CreateSaleOffer(s, a, t)
  PROVE  IInv'
<1> DEFINE e == [store |-> s, round |-> round, amount |-> a, created |-> t]
           new == Len(offers) + 1
<1>0. /\ status = "receiving_offers"
      /\ offers' = Append(offers, e)
      /\ UNCHANGED <<status, round, selected, floors, selections, outcomes, notices>>
  BY DEF CreateSaleOffer, AcceptsOffers
<1>1. e \in Offer
  BY DEF IInv, TypeOK, Offer
<1>2. /\ offers' \in Seq(Offer)
      /\ DOMAIN offers = 1..Len(offers)
      /\ DOMAIN offers' = DOMAIN offers \cup {new}
      /\ \A i \in DOMAIN offers : offers'[i] = offers[i]
      /\ offers'[new] = e
      /\ new \in Nat \ {0}
      /\ new \notin DOMAIN offers
      /\ \A i \in DOMAIN offers : i < new
  <2>1. offers \in Seq(Offer)
    BY DEF IInv, TypeOK
  <2> HIDE DEF e
  <2> QED
    BY <1>0, <1>1, <2>1, AppendFacts
<1>3. \A i \in DOMAIN offers : offers[i] \in Offer
  BY DEF IInv, TypeOK
<1>4. TypeOK'
  BY <1>0, <1>2 DEF IInv, TypeOK
<1>5. MatchCoherence'
  BY <1>0 DEF IInv, MatchCoherence
<1>6. OffersOfOpenedRounds'
  BY <1>0, <1>2 DEF IInv, OffersOfOpenedRounds, TypeOK
<1>7. \A o \in selections : offers[o].round < round
  BY <1>0 DEF IInv, NoMatchInOpenRound, SelectedStatuses, ActiveHandoffStatuses
<1>8. SelectionsAreCurrent'
  <2> SUFFICES ASSUME NEW o \in selections, NEW p \in DOMAIN offers'
               PROVE  ~Supersedes(p, o)'
    BY <1>0 DEF SelectionsAreCurrent, IsCurrent
  <2>0. o \in DOMAIN offers /\ offers'[o] = offers[o]
    BY <1>2 DEF IInv, TypeOK
  <2>1. CASE p = new
    <3>1. offers'[p].round = round /\ offers[o].round < round /\ round \in Nat
      BY <1>2, <1>7, <2>1 DEF IInv, TypeOK
    <3>2. offers[o].round \in Nat
      BY <1>3, <2>0 DEF Offer
    <3> QED
      BY <2>0, <3>1, <3>2 DEF Supersedes
  <2>2. CASE p \in DOMAIN offers
    BY <1>2, <2>0, <2>2 DEF IInv, SelectionsAreCurrent, IsCurrent, Supersedes
  <2> QED
    BY <1>2, <2>1, <2>2
<1>9. SelectedIsCurrent'
  BY <1>0 DEF SelectedIsCurrent, SelectedStatuses, ActiveHandoffStatuses
<1>10. NoMatchInOpenRound'
  BY <1>0, <1>2, <1>7 DEF NoMatchInOpenRound, IInv, TypeOK
<1>11. AuctionRises'
  <2>1. round \in DOMAIN floors /\ floors[round] \in Nat
    <3>1. /\ floors \in Seq(Amounts \cup {NoFloor})
          /\ Len(floors) = round
          /\ round \in Nat \ {0}
      BY DEF IInv, MatchCoherence, TypeOK
    <3>2. round \in DOMAIN floors
      BY <3>1
    <3>3. floors[round] \in Amounts \cup {NoFloor}
      BY <3>1, <3>2
    <3>4. Amounts \cup {NoFloor} \subseteq Nat
      BY AmountsPositive DEF NoFloor
    <3> QED
      BY <3>2, <3>3, <3>4
  <2>2. a >= floors[round]
    <3>1. CASE RoundOffers = {}
      BY <3>1 DEF CreateSaleOffer, Leads
    <3>2. CASE RoundOffers # {}
      <4>1. PICK o \in RoundOffers : TRUE
        BY <3>2
      <4>2. offers[o].amount >= floors[round] /\ a > offers[o].amount
        BY <4>1 DEF IInv, AuctionRises, RoundOffers, CreateSaleOffer, Leads
      <4>3. offers[o].amount \in Nat /\ a \in Nat
        BY <1>3, <4>1, AmountsPositive DEF RoundOffers, Offer
      <4> QED
        BY <2>1, <4>2, <4>3
    <3> QED
      BY <3>1, <3>2
  <2>3. ASSUME NEW o \in DOMAIN offers'
        PROVE  /\ offers'[o].round \in DOMAIN floors
               /\ offers'[o].amount >= floors[offers'[o].round]
    <3>1. CASE o = new
      BY <1>2, <2>1, <2>2, <3>1
    <3>2. CASE o \in DOMAIN offers
      BY <1>2, <3>2 DEF IInv, AuctionRises
    <3> QED
      BY <1>2, <3>1, <3>2
  <2>4. ASSUME NEW p \in DOMAIN offers', NEW o \in DOMAIN offers',
               p < o, offers'[p].round = offers'[o].round
        PROVE  offers'[p].amount < offers'[o].amount
    <3>1. CASE o = new
      <4>1. p \in DOMAIN offers /\ offers'[p] = offers[p]
        BY <1>2, <2>4, <3>1
      <4>2. p \in RoundOffers
        BY <1>2, <2>4, <3>1, <4>1 DEF RoundOffers
      <4>3. a > offers[p].amount
        BY <4>2 DEF CreateSaleOffer, Leads
      <4>4. offers[p].amount \in Nat /\ a \in Nat
        BY <1>3, <4>1, AmountsPositive DEF Offer
      <4> QED
        BY <1>2, <3>1, <4>1, <4>3, <4>4
    <3>2. CASE o \in DOMAIN offers
      <4>1. p \in DOMAIN offers
        BY <1>2, <2>4, <3>2
      <4> QED
        BY <1>2, <2>4, <3>2, <4>1 DEF IInv, AuctionRises
    <3> QED
      BY <1>2, <3>1, <3>2
  <2> QED
    BY <1>0, <2>3, <2>4 DEF AuctionRises
<1> QED
  BY <1>4, <1>5, <1>6, <1>8, <1>9, <1>10, <1>11 DEF IInv

(* A selection: it marks the request, or leaves only its trail row. *)
LEMMA SelectKeepsIInv ==
  ASSUME IInv, NEW o \in DOMAIN offers, SelectSaleRequestOffer(o)
  PROVE  IInv'
<1>0. /\ o \in RoundOffers /\ IsCurrent(o) /\ o \notin selections
      /\ status \notin {"cancelled", "offer_selected"}
      /\ selections' = selections \cup {o}
      /\ UNCHANGED <<round, floors, offers, outcomes>>
  BY DEF SelectSaleRequestOffer, MaySelect, MayRecord
<1>1. CASE MarkOfferSelected(o)
  <2>0. status' = "offer_selected" /\ selected' = o /\ notices' = notices \cup {o}
    BY <1>1 DEF MarkOfferSelected
  <2>1. TypeOK'
    <3>1. o \in Nat
      BY DEF IInv, TypeOK
    <3> QED
      BY <1>0, <2>0, <3>1 DEF IInv, TypeOK, Statuses, ActiveHandoffStatuses
  <2>2. MatchCoherence'
    BY <1>0, <2>0 DEF IInv, MatchCoherence, TypeOK, SelectedStatuses, ActiveHandoffStatuses
  <2>3. SelectedIsCurrent'
    BY <1>0, <2>0 DEF SelectedIsCurrent, RoundOffers, IsCurrent, Supersedes
  <2>4. NoMatchInOpenRound'
    BY <2>0 DEF NoMatchInOpenRound, SelectedStatuses, ActiveHandoffStatuses
  <2> QED
    BY <1>0, <2>1, <2>2, <2>3, <2>4
       DEF IInv, OffersOfOpenedRounds, SelectionsAreCurrent, AuctionRises, IsCurrent, Supersedes
<1>2. CASE LeaveUnmarked
  <2>0. status = "inspection_scheduled" /\ UNCHANGED <<status, selected, notices>>
    BY <1>0, <1>2 DEF LeaveUnmarked, IInv, TypeOK, Statuses, SelectableStatuses,
                      ActiveHandoffStatuses
  <2>1. TypeOK'
    BY <1>0, <2>0 DEF IInv, TypeOK
  <2>2. MatchCoherence'
    BY <1>0, <2>0 DEF IInv, MatchCoherence, SelectedStatuses, ActiveHandoffStatuses
  <2>3. SelectedIsCurrent'
    BY <1>0, <2>0 DEF IInv, SelectedIsCurrent, RoundOffers, IsCurrent, Supersedes
  <2>4. NoMatchInOpenRound'
    BY <2>0 DEF NoMatchInOpenRound, SelectedStatuses, ActiveHandoffStatuses
  <2> QED
    BY <1>0, <2>1, <2>2, <2>3, <2>4
       DEF IInv, OffersOfOpenedRounds, SelectionsAreCurrent, AuctionRises, IsCurrent, Supersedes
<1> QED
  BY <1>1, <1>2 DEF SelectSaleRequestOffer

(* A new round: the bids and selections so far belong to earlier rounds. *)
LEMMA RoundKeepsIInv ==
  ASSUME IInv, NEW f \in Amounts, OpenNewRound(f)
  PROVE  IInv'
<1>0. /\ status = "handoff_failed"
      /\ floors' = Append(floors, f)
      /\ round' = round + 1
      /\ status' = "receiving_offers"
      /\ selected' = NoOffer
      /\ UNCHANGED <<offers, selections, outcomes, notices>>
  BY DEF OpenNewRound, NextRound
<1>1. /\ floors' \in Seq(Amounts \cup {NoFloor})
      /\ Len(floors') = Len(floors) + 1
      /\ DOMAIN floors' = DOMAIN floors \cup {Len(floors) + 1}
      /\ \A i \in DOMAIN floors : floors'[i] = floors[i]
  <2>1. floors \in Seq(Amounts \cup {NoFloor}) /\ f \in Amounts \cup {NoFloor}
    BY DEF IInv, TypeOK
  <2> QED
    BY <1>0, <2>1, AppendFacts
<1>2. \A o \in DOMAIN offers : offers[o] \in Offer
  BY DEF IInv, TypeOK
<1>3. TypeOK'
  BY <1>0, <1>1 DEF IInv, TypeOK, Statuses, SelectableStatuses, NoOffer
<1>4. MatchCoherence'
  BY <1>0, <1>1 DEF IInv, MatchCoherence, TypeOK, ActiveHandoffStatuses
<1>5. OffersOfOpenedRounds'
  BY <1>0, <1>2 DEF IInv, OffersOfOpenedRounds, TypeOK, Offer
<1>6. SelectionsAreCurrent'
  BY <1>0 DEF IInv, SelectionsAreCurrent, IsCurrent, Supersedes
<1>7. SelectedIsCurrent'
  BY <1>0 DEF SelectedIsCurrent, SelectedStatuses, ActiveHandoffStatuses
<1>8. NoMatchInOpenRound'
  BY <1>0, <1>2 DEF IInv, NoMatchInOpenRound, OffersOfOpenedRounds, TypeOK, Offer
<1>9. AuctionRises'
  BY <1>0, <1>1 DEF IInv, AuctionRises
<1> QED
  BY <1>3, <1>4, <1>5, <1>6, <1>7, <1>8, <1>9 DEF IInv

(* The handlers that only move the status, and the outcome with it. *)
LEMMA StatusMovesKeepIInv ==
  ASSUME IInv, CancelMySaleRequest \/ ReportNoAgreement \/ ScheduleVisit
  PROVE  IInv'
<1>0. UNCHANGED <<round, selected, floors, offers, selections, notices>>
  BY DEF CancelMySaleRequest, ReportNoAgreement, ScheduleVisit
<1>1. OffersOfOpenedRounds' /\ SelectionsAreCurrent' /\ AuctionRises'
  BY <1>0 DEF IInv, OffersOfOpenedRounds, SelectionsAreCurrent, AuctionRises, IsCurrent,
              Supersedes
<1>2. TypeOK'
  BY <1>0 DEF IInv, TypeOK, CancelMySaleRequest, ReportNoAgreement, ScheduleVisit, CloseMatch,
              Statuses, SelectableStatuses, ActiveHandoffStatuses
<1>3. MatchCoherence'
  BY <1>0 DEF IInv, MatchCoherence, CancelMySaleRequest, ReportNoAgreement, ScheduleVisit,
              CloseMatch, SelectedStatuses, ActiveHandoffStatuses
<1>4. SelectedIsCurrent'
  <2>1. CASE CancelMySaleRequest
    BY <2>1 DEF SelectedIsCurrent, CancelMySaleRequest, SelectedStatuses, ActiveHandoffStatuses
  <2>2. CASE ReportNoAgreement \/ ScheduleVisit
    <3>1. selected \in RoundOffers /\ IsCurrent(selected)
      BY <2>2 DEF IInv, SelectedIsCurrent, ReportNoAgreement, ScheduleVisit, SelectedStatuses,
                  ActiveHandoffStatuses
    <3> QED
      BY <1>0, <3>1 DEF SelectedIsCurrent, RoundOffers, IsCurrent, Supersedes
  <2> QED
    BY <2>1, <2>2
<1>5. NoMatchInOpenRound'
  BY <1>0 DEF IInv, NoMatchInOpenRound, CancelMySaleRequest, ReportNoAgreement, ScheduleVisit,
              SelectedStatuses, ActiveHandoffStatuses
<1> QED
  BY <1>1, <1>2, <1>3, <1>4, <1>5 DEF IInv

LEMMA NextIInv == IInv /\ [Next]_vars => IInv'
<1> SUFFICES ASSUME IInv, [Next]_vars PROVE IInv'
  OBVIOUS
<1>1. CASE \E s \in Stores, a \in Amounts, t \in Stamps : CreateSaleOffer(s, a, t)
  BY <1>1, BidKeepsIInv
<1>2. CASE \E o \in DOMAIN offers : SelectSaleRequestOffer(o)
  BY <1>2, SelectKeepsIInv
<1>3. CASE CancelMySaleRequest \/ ReportNoAgreement \/ ScheduleVisit
  BY <1>3, StatusMovesKeepIInv
<1>4. CASE \E f \in Amounts : OpenNewRound(f)
  BY <1>4, RoundKeepsIInv
<1>5. CASE UNCHANGED vars
  BY <1>5 DEF vars, IInv, TypeOK, MatchCoherence, OffersOfOpenedRounds, SelectionsAreCurrent,
              SelectedIsCurrent, NoMatchInOpenRound, AuctionRises, IsCurrent, Supersedes,
              RoundOffers
<1> QED
  BY <1>1, <1>2, <1>3, <1>4, <1>5 DEF Next

(* The inductive invariant holds in every reachable state of one request.  *)
THEOREM Invariance == Spec => []IInv
  BY InitIInv, NextIInv, PTL DEF Spec

(* The rows of one request keep their types: the trail names offers that   *)
(* exist and an outcome closes a row of the trail.                         *)
THEOREM TypeCorrectness == Spec => []TypeOK
<1>1. IInv => TypeOK
  BY DEF IInv
<1> QED
  BY <1>1, Invariance, PTL

(* Status, pointer, trail, outcomes and rounds tell one story, so the      *)
(* branches the handlers call "inexprimivel" are never taken.              *)
THEOREM MatchesAreCoherent == Spec => []MatchCoherence
<1>1. IInv => MatchCoherence
  BY DEF IInv
<1> QED
  BY <1>1, Invariance, PTL

(* The accepted proposal is a proposal of the open round and the latest    *)
(* word of its store, for any number of racing stores.                     *)
THEOREM AcceptedProposalIsCurrent == Spec => []SelectedIsCurrent
<1>1. IInv => SelectedIsCurrent
  BY DEF IInv
<1> QED
  BY <1>1, Invariance, PTL

(* An open or cancelled request holds no selection of its open round.      *)
THEOREM OpenRoundsAreUndecided == Spec => []NoMatchInOpenRound
<1>1. IInv => NoMatchInOpenRound
  BY DEF IInv
<1> QED
  BY <1>1, Invariance, PTL

(* Every bid reaches the floor of its round and beats the bids before it.  *)
THEOREM BidsRise == Spec => []AuctionRises
<1>1. IInv => AuctionRises
  BY DEF IInv
<1> QED
  BY <1>1, Invariance, PTL

(* Two proposals of one store and one round are ordered by recency, so at  *)
(* most one of them is current.                                            *)
LEMMA OneCurrentPerStoreAndRound ==
  ASSUME TypeOK, NEW o \in DOMAIN offers, NEW p \in DOMAIN offers,
         IsCurrent(o), IsCurrent(p),
         offers[p].store = offers[o].store, offers[p].round = offers[o].round
  PROVE  p = o
<1>1. offers[o] \in Offer /\ offers[p] \in Offer
  BY DEF TypeOK
<1>2. offers[o].created \in Nat /\ offers[p].created \in Nat
  BY <1>1, StampsNatural DEF Offer
<1>3. o \in Nat /\ p \in Nat
  BY DEF TypeOK
<1>4. ~Supersedes(p, o) /\ ~Supersedes(o, p)
  BY DEF IsCurrent
<1> QED
  BY <1>2, <1>3, <1>4 DEF Supersedes

(* The UNIQUE (request, advertiser, round) of the trail, which the insert  *)
(* does not handle, is never the reason a selection fails.                 *)
THEOREM SelectionNeverBreaksUnique == Spec => []OneSelectionPerStoreAndRound
<1>1. IInv => OneSelectionPerStoreAndRound
  <2> SUFFICES ASSUME IInv, NEW o \in DOMAIN offers, MaySelect(o), o \notin selections,
                      NEW p \in selections,
                      offers[p].store = offers[o].store, offers[p].round = offers[o].round
               PROVE  FALSE
    BY DEF OneSelectionPerStoreAndRound, MayRecord
  <2>1. p \in DOMAIN offers /\ TypeOK
    BY DEF IInv, TypeOK
  <2>2. IsCurrent(o) /\ IsCurrent(p)
    BY DEF IInv, SelectionsAreCurrent, MaySelect
  <2>3. p = o
    BY <2>1, <2>2, OneCurrentPerStoreAndRound
  <2> QED
    BY <2>3
<1> QED
  BY <1>1, Invariance, PTL

(* A proposal whose match failed is never accepted again.                  *)
THEOREM FailedMatchesStayFailed == Spec => FailedMatchNeverReturns
<1>1. IInv /\ [Next]_vars => [selected' \in outcomes => selected' = selected]_vars
  <2> SUFFICES ASSUME IInv, Next, selected' \in outcomes PROVE selected' = selected
    OBVIOUS
  <2>1. CASE \E s \in Stores, a \in Amounts, t \in Stamps : CreateSaleOffer(s, a, t)
    BY <2>1 DEF CreateSaleOffer
  <2>2. CASE \E o \in DOMAIN offers : SelectSaleRequestOffer(o)
    BY <2>2 DEF SelectSaleRequestOffer, MayRecord, MarkOfferSelected, LeaveUnmarked, IInv, TypeOK
  <2>3. CASE CancelMySaleRequest \/ ReportNoAgreement \/ ScheduleVisit
    BY <2>3 DEF CancelMySaleRequest, ReportNoAgreement, ScheduleVisit
  <2>4. CASE \E f \in Amounts : OpenNewRound(f)
    <3>1. selected' = 0
      BY <2>4 DEF OpenNewRound, NoOffer
    <3>2. 0 \notin DOMAIN offers
      BY DEF IInv, TypeOK
    <3> QED
      BY <3>1, <3>2 DEF IInv, TypeOK
  <2> QED
    BY <2>1, <2>2, <2>3, <2>4 DEF Next
<1> QED
  BY <1>1, Invariance, PTL DEF Spec, FailedMatchNeverReturns

(* The handlers implement the lifecycle: a cancelled request is final and  *)
(* a matched one is never cancelled.                                       *)
THEOREM LifecycleIsImplemented == Spec => ImplementsLifecycle
<1> USE DEF Lifecycle!Moves, Lifecycle!Cancel, Lifecycle!Accept, Lifecycle!Reaccept,
            Lifecycle!Schedule, Lifecycle!Fail, Lifecycle!FailLate, Lifecycle!Reopen
<1>1. Init => Lifecycle!Init
  BY DEF Init, Lifecycle!Init
<1>2. IInv /\ [Next]_vars => [Lifecycle!Next]_<<status, round>>
  <2> SUFFICES ASSUME IInv, Next, ~UNCHANGED <<status, round>> PROVE Lifecycle!Next
    BY DEF vars
  <2>1. CASE \E s \in Stores, a \in Amounts, t \in Stamps : CreateSaleOffer(s, a, t)
    BY <2>1 DEF CreateSaleOffer
  <2>2. CASE \E o \in DOMAIN offers : SelectSaleRequestOffer(o)
    BY <2>2 DEF SelectSaleRequestOffer, MarkOfferSelected, LeaveUnmarked, SelectableStatuses,
                Lifecycle!Next
  <2>3. CASE CancelMySaleRequest
    BY <2>3 DEF CancelMySaleRequest, Lifecycle!Next
  <2>4. CASE ReportNoAgreement
    BY <2>4 DEF ReportNoAgreement, ActiveHandoffStatuses, Lifecycle!Next
  <2>5. CASE ScheduleVisit
    BY <2>5 DEF ScheduleVisit, Lifecycle!Next
  <2>6. CASE \E f \in Amounts : OpenNewRound(f)
    BY <2>6 DEF OpenNewRound, NextRound, Lifecycle!Next
  <2> QED
    BY <2>1, <2>2, <2>3, <2>4, <2>5, <2>6 DEF Next
<1> QED
  BY <1>1, <1>2, Invariance, PTL DEF Spec, ImplementsLifecycle, Lifecycle!Spec

(***************************************************************************)
(* What remains of the two claims the code does not keep.                  *)
(***************************************************************************)

(* The trail and the notices: no store is told of a selection that is not  *)
(* recorded, and the store of the match on show was told.                  *)
ToldOfTheMatch ==
  /\ notices \subseteq selections
  /\ status \in SelectedStatuses => selected \in notices

LEMMA NextTold == IInv /\ ToldOfTheMatch /\ [Next]_vars => ToldOfTheMatch'
<1> SUFFICES ASSUME IInv, ToldOfTheMatch, [Next]_vars PROVE ToldOfTheMatch'
  OBVIOUS
<1> USE DEF ToldOfTheMatch, SelectedStatuses, ActiveHandoffStatuses
<1>1. CASE \E s \in Stores, a \in Amounts, t \in Stamps : CreateSaleOffer(s, a, t)
  BY <1>1 DEF CreateSaleOffer
<1>2. CASE \E o \in DOMAIN offers : SelectSaleRequestOffer(o)
  BY <1>2 DEF SelectSaleRequestOffer, MarkOfferSelected, LeaveUnmarked
<1>3. CASE CancelMySaleRequest \/ ReportNoAgreement \/ ScheduleVisit
  BY <1>3 DEF CancelMySaleRequest, ReportNoAgreement, ScheduleVisit
<1>4. CASE \E f \in Amounts : OpenNewRound(f)
  BY <1>4 DEF OpenNewRound
<1>5. CASE UNCHANGED vars
  BY <1>5 DEF vars
<1> QED
  BY <1>1, <1>2, <1>3, <1>4, <1>5 DEF Next

(* Whatever selections the code records in silence, the store whose match  *)
(* the request shows, active or failed, has its notice.                    *)
THEOREM MatchedStoreIsTold == Spec => []ToldOfTheMatch
<1>1. Init => ToldOfTheMatch
  BY DEF Init, ToldOfTheMatch, SelectedStatuses, ActiveHandoffStatuses
<1> QED
  BY <1>1, NextTold, Invariance, PTL DEF Spec

(* Nobody accepts another proposal while a visit is scheduled.             *)
VisitsUndisturbed == status = "inspection_scheduled" => selections' = selections

(* The scheduled visit is the only door to a selection without a notice:   *)
(* if no proposal is accepted behind one, the two never part.              *)
THEOREM SilenceNeedsAVisit == Spec /\ [][VisitsUndisturbed]_vars => []SelectionIffNotice
<1>1. Init => SelectionIffNotice
  BY DEF Init, SelectionIffNotice
<1>2. IInv /\ SelectionIffNotice /\ [Next]_vars /\ [VisitsUndisturbed]_vars => SelectionIffNotice'
  <2> SUFFICES ASSUME IInv, SelectionIffNotice, [Next]_vars, [VisitsUndisturbed]_vars
               PROVE  SelectionIffNotice'
    OBVIOUS
  <2> USE DEF SelectionIffNotice
  <2>1. ASSUME NEW o \in DOMAIN offers, SelectSaleRequestOffer(o)
        PROVE  SelectionIffNotice'
    <3>1. CASE MarkOfferSelected(o)
      BY <2>1, <3>1 DEF SelectSaleRequestOffer, MarkOfferSelected
    <3>2. CASE LeaveUnmarked
      <4>1. status = "inspection_scheduled"
        BY <2>1, <3>2 DEF SelectSaleRequestOffer, MaySelect, LeaveUnmarked, IInv, TypeOK, Statuses,
                          ActiveHandoffStatuses
      <4> QED
        BY <4>1, <3>2 DEF VisitsUndisturbed, LeaveUnmarked, vars
    <3> QED
      BY <2>1, <3>1, <3>2 DEF SelectSaleRequestOffer
  <2> QED
    BY <2>1 DEF Next, CreateSaleOffer, CancelMySaleRequest, ReportNoAgreement, OpenNewRound,
                ScheduleVisit, vars
<1> QED
  BY <1>1, <1>2, Invariance, PTL DEF Spec

(* The bids of one store in one round get the lock in the order in which   *)
(* their transactions began.                                               *)
BidsInOrder ==
  \A o \in DOMAIN offers, n \in DOMAIN offers' \ DOMAIN offers :
    offers'[n].store = offers[o].store /\ offers'[n].round = offers[o].round
      => offers[o].created < offers'[n].created

StampsFollowIds ==
  \A p, o \in DOMAIN offers :
    p < o /\ offers[p].store = offers[o].store /\ offers[p].round = offers[o].round
      => offers[p].created < offers[o].created

(* The stamp taken before the lock is the only reason why the latest       *)
(* proposal of a store may not be its highest.                             *)
THEOREM LatestBidIsHighest == Spec /\ [][BidsInOrder]_vars => []LatestIsHighest
<1>1. Init => StampsFollowIds
  BY DEF Init, StampsFollowIds
<1>2. IInv /\ StampsFollowIds /\ [Next]_vars /\ [BidsInOrder]_vars => StampsFollowIds'
  <2> SUFFICES ASSUME IInv, StampsFollowIds, [Next]_vars, [BidsInOrder]_vars
               PROVE  StampsFollowIds'
    OBVIOUS
  <2>1. ASSUME NEW s \in Stores, NEW a \in Amounts, NEW t \in Stamps, CreateSaleOffer(s, a, t)
        PROVE  StampsFollowIds'
    <3> DEFINE bid == [store |-> s, round |-> round, amount |-> a, created |-> t]
    <3>1. bid \in Offer /\ offers \in Seq(Offer) /\ offers' = Append(offers, bid)
      BY <2>1 DEF CreateSaleOffer, Offer, IInv, TypeOK
    <3> HIDE DEF bid
    <3>2. /\ DOMAIN offers' = DOMAIN offers \cup {Len(offers) + 1}
          /\ DOMAIN offers = 1..Len(offers) /\ Len(offers) \in Nat
          /\ Len(offers) + 1 \notin DOMAIN offers
          /\ \A i \in DOMAIN offers : offers'[i] = offers[i]
      BY <3>1, AppendFacts
    <3>3. BidsInOrder
      BY <3>2 DEF vars
    <3> QED
      BY <3>2, <3>3 DEF StampsFollowIds, BidsInOrder
  <2> QED
    BY <2>1 DEF Next, SelectSaleRequestOffer, CancelMySaleRequest, ReportNoAgreement, OpenNewRound,
                ScheduleVisit, vars, StampsFollowIds
<1>3. IInv /\ StampsFollowIds => LatestIsHighest
  <2> SUFFICES ASSUME IInv, StampsFollowIds, NEW p \in DOMAIN offers, NEW o \in DOMAIN offers,
                      Supersedes(p, o)
               PROVE  offers[p].amount > offers[o].amount
    BY DEF LatestIsHighest
  <2>1. p \in Nat /\ o \in Nat /\ offers[p] \in Offer /\ offers[o] \in Offer
    BY DEF IInv, TypeOK
  <2>2. /\ offers[p].created \in Nat /\ offers[o].created \in Nat
        /\ offers[p].amount \in Nat /\ offers[o].amount \in Nat
    BY <2>1, StampsNatural, AmountsPositive DEF Offer
  <2>3. o < p
    BY <2>1, <2>2 DEF Supersedes, StampsFollowIds
  <2> QED
    BY <2>2, <2>3 DEF Supersedes, IInv, AuctionRises
<1> QED
  BY <1>1, <1>2, <1>3, Invariance, PTL DEF Spec
================================================================================
