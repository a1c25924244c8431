------------------------- MODULE SaleRequestLock_proofs -------------------------
(***************************************************************************)
(* The interleaved statements of SaleRequestLock implement the atomic      *)
(* handlers of SaleRequest, for every finite set of clients, every set of  *)
(* stores and amounts, and any number of transactions.                     *)
(* So what SaleRequest_proofs proves of the handlers holds of the          *)
(* statements; and two promises that the interleaving breaks need one      *)
(* overlap each.                                                           *)
(***************************************************************************)
EXTENDS SaleRequestLock, FiniteSetTheorems, TLAPS

Pending(c) == tx[c].step \in {"begun", "locked", "decided"}
PendingClients == {c \in Clients : Pending(c)}

(* The types the refinement relies on. *)
Typed ==
  /\ offers \in Seq(Core!Offer)
  /\ round \in Nat \ {0}
  /\ clock \in 0..MaxTx
  /\ DOMAIN tx = Clients
  /\ \A c \in Clients : Pending(c) => tx[c].op \in Operations /\ tx[c].now \in 1..clock

(* A verdict stays true until its transaction ends: nobody else writes. *)
VerdictsHold ==
  \A c \in Clients : tx[c].step = "decided" => Accepts(tx[c].op, tx[c].row)

(* Nobody else has, or will have, the time stamp of a transaction. *)
StampsAreUnique ==
  /\ \A o \in DOMAIN offers : offers[o].created \in 1..clock
  /\ \A c \in Clients : Pending(c) =>
       \A o \in DOMAIN offers : offers[o].created # tx[c].now
  /\ \A c, d \in Clients : c # d /\ Pending(c) /\ Pending(d) => tx[c].now # tx[d].now

(* Each bid and each new round is paid by one transaction, so the bounds   *)
(* of SaleRequest are never the reason a handler stops.                    *)
WithinBudget == Len(offers) + round + Cardinality(PendingClients) <= clock + 1

LInv ==
  /\ Typed
  /\ DecidesOnFreshRow
  /\ VerdictsHold
  /\ StampsAreUnique
  /\ WithinBudget

LEMMA PendingIsFinite ==
  IsFiniteSet(PendingClients) /\ Cardinality(PendingClients) \in Nat
<1>1. PendingClients \subseteq Clients
  BY DEF PendingClients
<1> QED
  BY <1>1, ClientsFinite, FS_Subset, FS_CardinalityType

LEMMA InitLInv == Init => LInv
<1> SUFFICES ASSUME Init PROVE LInv
  OBVIOUS
<1>0. /\ offers = <<>> /\ round = 1 /\ clock = 0
      /\ DOMAIN tx = Clients
      /\ \A c \in Clients : tx[c].step = "idle"
  BY DEF Init, Core!Init, Idle
<1>1. Typed
  BY <1>0, MaxTxNatural DEF Typed, Pending
<1>2. DecidesOnFreshRow /\ VerdictsHold /\ StampsAreUnique
  BY <1>0 DEF DecidesOnFreshRow, Locked, VerdictsHold, StampsAreUnique, Pending
<1>3. WithinBudget
  <2>1. PendingClients = {}
    BY <1>0 DEF PendingClients, Pending
  <2>2. Cardinality(PendingClients) = 0
    BY <2>1, FS_EmptySet
  <2> QED
    BY <1>0, <2>2 DEF WithinBudget
<1> QED
  BY <1>1, <1>2, <1>3 DEF LInv

(* A request that starts: one more pending transaction, one more stamp.    *)
LEMMA BeginKeepsLInv ==
  ASSUME LInv, NEW c \in Clients, NEW op \in Operations, Begin(c, op)
  PROVE  LInv'
<1> DEFINE t == [step |-> "begun", op |-> op, now |-> clock + 1]
<1>0. /\ ~Pending(c)
      /\ clock < MaxTx /\ clock \in Nat /\ clock' = clock + 1
      /\ DOMAIN tx' = Clients
      /\ tx'[c] = t
      /\ \A d \in Clients \ {c} : tx'[d] = tx[d]
      /\ UNCHANGED <<tables, holder>>
  BY MaxTxNatural DEF LInv, Typed, Begin, Pending, Idle
<1>1. UNCHANGED <<status, round, selected, floors, offers, selections, outcomes, notices>>
  BY <1>0 DEF tables
<1>2. /\ Pending(c)' /\ ~Locked(c)' /\ tx'[c].op = op /\ tx'[c].now = clock + 1
      /\ \A d \in Clients \ {c} : (Pending(d)' <=> Pending(d)) /\ (Locked(d)' <=> Locked(d))
  BY <1>0 DEF Pending, Locked
<1>3. Typed'
  BY <1>0, <1>1, <1>2, MaxTxNatural DEF LInv, Typed, Core!Offer
<1>4. DecidesOnFreshRow'
  BY <1>0, <1>1, <1>2 DEF LInv, DecidesOnFreshRow, Row
<1>5. VerdictsHold'
  <2> SUFFICES ASSUME NEW d \in Clients, tx'[d].step = "decided"
               PROVE  Accepts(tx[d].op, tx[d].row)'
    BY DEF VerdictsHold
  <2>1. d # c
    BY <1>0
  <2>2. tx'[d] = tx[d] /\ Accepts(tx[d].op, tx[d].row)
    BY <1>0, <2>1 DEF LInv, VerdictsHold
  <2> QED
    BY <1>1, <2>2 DEF Accepts, Core!Leads, Core!RoundOffers, Core!IsCurrent, Core!Supersedes,
                      Core!MayRecord
<1>6. StampsAreUnique'
  BY <1>0, <1>1, <1>2 DEF LInv, Typed, StampsAreUnique
<1>7. WithinBudget'
  <2>1. PendingClients' = PendingClients \cup {c} /\ c \notin PendingClients
    BY <1>0, <1>2 DEF PendingClients
  <2>2. Cardinality(PendingClients') = Cardinality(PendingClients) + 1
    BY <2>1, PendingIsFinite, FS_AddElement
  <2>3. Len(offers) \in Nat /\ round \in Nat
    BY DEF LInv, Typed
  <2> QED
    BY <1>0, <1>1, <2>2, <2>3, PendingIsFinite DEF LInv, WithinBudget
<1> QED
  BY <1>3, <1>4, <1>5, <1>6, <1>7 DEF LInv

(* A transaction takes the free row and reads it. *)
LEMMA LockKeepsLInv ==
  ASSUME LInv, NEW c \in Clients, LockRow(c)
  PROVE  LInv'
<1>0. /\ tx[c].step = "begun" /\ holder = Nobody /\ holder' = c
      /\ DOMAIN tx' = Clients
      /\ tx'[c].step = "locked" /\ tx'[c].op = tx[c].op /\ tx'[c].now = tx[c].now
      /\ tx'[c].row = Row
      /\ \A d \in Clients \ {c} : tx'[d] = tx[d]
      /\ UNCHANGED <<tables, clock>>
  BY DEF LInv, Typed, LockRow, RowIsFree
<1>1. UNCHANGED <<status, round, selected, floors, offers, selections, outcomes, notices>>
  BY <1>0 DEF tables
<1>2. \A d \in Clients : /\ Pending(d)' <=> Pending(d)
                         /\ tx'[d].now = tx[d].now /\ tx'[d].op = tx[d].op
  BY <1>0 DEF Pending
<1>3. Typed'
  BY <1>0, <1>1, <1>2 DEF LInv, Typed, Core!Offer
<1>4. DecidesOnFreshRow'
  <2>1. \A d \in Clients : ~Locked(d)
    BY <1>0, NobodyIsNoClient DEF LInv, DecidesOnFreshRow
  <2>2. \A d \in Clients \ {c} : ~Locked(d)'
    BY <1>0, <2>1 DEF Locked
  <2> QED
    BY <1>0, <1>1, <2>2 DEF DecidesOnFreshRow, Row
<1>5. VerdictsHold'
  BY <1>0, <1>1 DEF LInv, VerdictsHold, Accepts, Core!Leads, Core!RoundOffers, Core!IsCurrent,
                    Core!Supersedes, Core!MayRecord
<1>6. StampsAreUnique'
  BY <1>0, <1>1, <1>2 DEF LInv, StampsAreUnique
<1>7. WithinBudget'
  <2>1. PendingClients' = PendingClients
    BY <1>2 DEF PendingClients
  <2> QED
    BY <1>0, <1>1, <2>1 DEF LInv, WithinBudget
<1> QED
  BY <1>3, <1>4, <1>5, <1>6, <1>7 DEF LInv

(* The verdict of a transaction. *)
LEMMA DecideKeepsLInv ==
  ASSUME LInv, NEW c \in Clients, Decide(c)
  PROVE  LInv'
<1>0. /\ tx[c].step = "locked" /\ Accepts(tx[c].op, tx[c].row)
      /\ DOMAIN tx' = Clients
      /\ tx'[c].step = "decided" /\ tx'[c].op = tx[c].op /\ tx'[c].now = tx[c].now
      /\ tx'[c].row = tx[c].row
      /\ \A d \in Clients \ {c} : tx'[d] = tx[d]
      /\ UNCHANGED <<tables, holder, clock>>
  BY DEF LInv, Typed, Decide
<1>1. UNCHANGED <<status, round, selected, floors, offers, selections, outcomes, notices>>
  BY <1>0 DEF tables
<1>2. \A d \in Clients : /\ Pending(d)' <=> Pending(d)
                         /\ Locked(d)' <=> Locked(d)
                         /\ tx'[d].now = tx[d].now /\ tx'[d].op = tx[d].op
                         /\ tx'[d].row = tx[d].row
  BY <1>0 DEF Pending, Locked
<1>3. Typed'
  BY <1>0, <1>1, <1>2 DEF LInv, Typed, Core!Offer
<1>4. DecidesOnFreshRow'
  BY <1>0, <1>1, <1>2 DEF LInv, DecidesOnFreshRow, Row
<1>5. VerdictsHold'
  <2> SUFFICES ASSUME NEW d \in Clients, tx'[d].step = "decided"
               PROVE  Accepts(tx[d].op, tx[d].row)'
    BY DEF VerdictsHold
  <2>1. Accepts(tx[d].op, tx[d].row)
    BY <1>0 DEF LInv, VerdictsHold
  <2> QED
    BY <1>1, <1>2, <2>1 DEF Accepts, Core!Leads, Core!RoundOffers, Core!IsCurrent,
                            Core!Supersedes, Core!MayRecord
<1>6. StampsAreUnique'
  BY <1>0, <1>1, <1>2 DEF LInv, StampsAreUnique
<1>7. WithinBudget'
  <2>1. PendingClients' = PendingClients
    BY <1>2 DEF PendingClients
  <2> QED
    BY <1>0, <1>1, <2>1 DEF LInv, WithinBudget
<1> QED
  BY <1>3, <1>4, <1>5, <1>6, <1>7 DEF LInv

(* A transaction that ends without a write. *)
LEMMA ReleaseKeepsLInv ==
  ASSUME LInv, NEW c \in Clients, Refuse(c) \/ RollBack(c)
  PROVE  LInv'
<1>0. /\ Pending(c)
      /\ DOMAIN tx' = Clients
      /\ tx'[c].step = "idle"
      /\ \A d \in Clients \ {c} : tx'[d] = tx[d]
      /\ holder' = IF holder = c THEN Nobody ELSE holder
      /\ UNCHANGED <<tables, clock>>
  BY DEF LInv, Typed, Refuse, RollBack, Pending, Idle, HolderAfter
<1>1. UNCHANGED <<status, round, selected, floors, offers, selections, outcomes, notices>>
  BY <1>0 DEF tables
<1>2. /\ ~Pending(c)' /\ ~Locked(c)'
      /\ \A d \in Clients \ {c} : (Pending(d)' <=> Pending(d)) /\ (Locked(d)' <=> Locked(d))
  BY <1>0 DEF Pending, Locked
<1>3. Typed'
  BY <1>0, <1>1, <1>2 DEF LInv, Typed, Core!Offer
<1>4. DecidesOnFreshRow'
  BY <1>0, <1>1, <1>2 DEF LInv, DecidesOnFreshRow, Row
<1>5. VerdictsHold'
  BY <1>0, <1>1 DEF LInv, VerdictsHold, Accepts, Core!Leads, Core!RoundOffers, Core!IsCurrent,
                    Core!Supersedes, Core!MayRecord
<1>6. StampsAreUnique'
  BY <1>0, <1>1, <1>2 DEF LInv, StampsAreUnique
<1>7. WithinBudget'
  <2>1. PendingClients' = PendingClients \ {c} /\ c \in PendingClients
    BY <1>0, <1>2 DEF PendingClients
  <2>2. Cardinality(PendingClients') = Cardinality(PendingClients) - 1
    BY <2>1, PendingIsFinite, FS_RemoveElement
  <2>3. Len(offers) \in Nat /\ round \in Nat /\ clock \in Nat
    BY DEF LInv, Typed
  <2> QED
    BY <1>0, <1>1, <2>2, <2>3, PendingIsFinite DEF LInv, WithinBudget
<1> QED
  BY <1>3, <1>4, <1>5, <1>6, <1>7 DEF LInv

(* The steps of the cancellation: the UPDATE needs a row nobody holds.     *)
LEMMA CancelKeepsLInv ==
  ASSUME LInv, NEW c \in Clients, CancelUpdate(c) \/ CancelReply(c) \/ Leave(c)
  PROVE  LInv'
<1>0. /\ ~Pending(c) /\ ~Pending(c)' /\ ~Locked(c)'
      /\ DOMAIN tx' = Clients
      /\ \A d \in Clients \ {c} : tx'[d] = tx[d]
      /\ clock' \in {clock, clock + 1} /\ clock' \in 0..MaxTx
      /\ UNCHANGED <<round, selected, floors, offers, selections, outcomes, notices, holder>>
  BY MaxTxNatural DEF LInv, Typed, CancelUpdate, CancelReply, Leave, Pending, Locked, Idle, tables
<1>1. clock \in Nat /\ clock' \in Nat /\ clock <= clock'
  BY <1>0, MaxTxNatural DEF LInv, Typed
<1>2. \A d \in Clients : (Pending(d)' <=> Pending(d)) /\ (Locked(d)' => Locked(d))
  BY <1>0 DEF Pending, Locked
<1>3. UNCHANGED status \/ \A d \in Clients : ~Locked(d)
  <2>1. CASE CancelUpdate(c)
    BY <2>1, NobodyIsNoClient DEF LInv, DecidesOnFreshRow, CancelUpdate, RowIsFree
  <2>2. CASE CancelReply(c) \/ Leave(c)
    BY <2>2 DEF CancelReply, Leave, tables
  <2> QED
    BY <2>1, <2>2
<1>4. Typed'
  <2>1. offers' \in Seq(Core!Offer)' /\ round' \in Nat \ {0}
    BY <1>0 DEF LInv, Typed, Core!Offer
  <2>2. ASSUME NEW d \in Clients, Pending(d)'
        PROVE  tx'[d].op \in Operations /\ tx'[d].now \in 1..clock'
    BY <1>0, <1>1, <1>2, <2>2 DEF LInv, Typed
  <2> QED
    BY <1>0, <2>1, <2>2 DEF Typed, Operations, Bids, Choices, Reopenings, Others
<1>5. DecidesOnFreshRow'
  BY <1>0, <1>2, <1>3 DEF LInv, DecidesOnFreshRow, Row
<1>6. VerdictsHold'
  <2> SUFFICES ASSUME NEW d \in Clients, tx'[d].step = "decided"
               PROVE  Accepts(tx[d].op, tx[d].row)'
    BY DEF VerdictsHold
  <2>1. d # c /\ tx'[d] = tx[d] /\ Accepts(tx[d].op, tx[d].row)
    BY <1>0 DEF LInv, VerdictsHold, Locked
  <2> QED
    BY <1>0, <2>1 DEF Accepts, Core!Leads, Core!RoundOffers, Core!IsCurrent, Core!Supersedes,
                      Core!MayRecord
<1>7. StampsAreUnique'
  BY <1>0, <1>1, <1>2 DEF LInv, StampsAreUnique
<1>8. WithinBudget'
  <2>1. PendingClients' = PendingClients
    BY <1>2 DEF PendingClients
  <2>2. Len(offers) \in Nat /\ round \in Nat
    BY DEF LInv, Typed
  <2> QED
    BY <1>0, <1>1, <2>1, <2>2, PendingIsFinite DEF LInv, WithinBudget
<1> QED
  BY <1>4, <1>5, <1>6, <1>7, <1>8 DEF LInv

(* What a commit does to everything but the tables of the request. *)
LEMMA CommitFrees ==
  ASSUME LInv, NEW c \in Clients, Commit(c)
  PROVE  /\ tx[c].step = "decided" /\ tx[c].row = Row /\ holder = c
         /\ Accepts(tx[c].op, tx[c].row)
         /\ tx[c].op \in Operations /\ tx[c].now \in 1..clock
         /\ clock' = clock /\ clock \in 0..MaxTx
         /\ DOMAIN tx' = Clients
         /\ tx'[c].step = "idle"
         /\ \A d \in Clients \ {c} : tx'[d] = tx[d] /\ ~Locked(d)
         /\ Len(offers) + round <= clock
         /\ Cardinality(PendingClients') = Cardinality(PendingClients) - 1
<1>0. /\ tx[c].step = "decided" /\ clock' = clock
      /\ DOMAIN tx' = Clients
      /\ tx'[c].step = "idle"
      /\ \A d \in Clients \ {c} : tx'[d] = tx[d]
  BY DEF LInv, Typed, Commit, Idle
<1>1. Pending(c) /\ Locked(c)
  BY <1>0 DEF Pending, Locked
<1>2. tx[c].row = Row /\ holder = c /\ \A d \in Clients \ {c} : ~Locked(d)
  BY <1>1 DEF LInv, DecidesOnFreshRow
<1>3. /\ Accepts(tx[c].op, tx[c].row)
      /\ tx[c].op \in Operations /\ tx[c].now \in 1..clock
      /\ clock \in 0..MaxTx
  BY <1>0, <1>1 DEF LInv, VerdictsHold, Typed
<1>4. PendingClients' = PendingClients \ {c} /\ c \in PendingClients
  BY <1>0, <1>1 DEF PendingClients, Pending
<1>5. Cardinality(PendingClients') = Cardinality(PendingClients) - 1
  BY <1>4, PendingIsFinite, FS_RemoveElement
<1>6. Cardinality(PendingClients) \in Nat \ {0}
  BY <1>4, PendingIsFinite, FS_EmptySet
<1>7. Len(offers) + round <= clock
  BY <1>6, MaxTxNatural DEF LInv, WithinBudget, Typed
<1> QED
  BY <1>0, <1>2, <1>3, <1>5, <1>7

(* The writes of a transaction are one handler of SaleRequest. *)
LEMMA CommitIsHandler ==
  ASSUME LInv, NEW c \in Clients, Commit(c)
  PROVE  Core!Next
<1> DEFINE op == tx[c].op
           now == tx[c].now
<1>0. /\ tx[c].row = Row /\ Accepts(op, Row) /\ op \in Operations
      /\ now \in 1..MaxTx
      /\ Len(offers) < MaxTx /\ round < MaxTx + 1
      /\ Write(op, Row, now)
  <2>1. now \in 1..clock /\ clock \in 0..MaxTx /\ Len(offers) + round <= clock
    BY CommitFrees
  <2>2. Len(offers) \in Nat /\ round \in Nat \ {0}
    BY DEF LInv, Typed
  <2>3. now \in 1..MaxTx /\ Len(offers) < MaxTx /\ round < MaxTx + 1
    BY <2>1, <2>2, MaxTxNatural
  <2>4. Write(op, tx[c].row, now)
    BY DEF Commit
  <2> QED
    BY <2>3, <2>4, CommitFrees
<1>r. Row.status = status /\ Row.round = round /\ Row.selected = selected
  BY DEF Row
<1>k. /\ op.kind = "bid" => op.store \in Stores /\ op.amount \in Amounts
      /\ op.kind = "reopen" => op.floor \in Amounts
  BY <1>0 DEF Operations, Bids, Choices, Reopenings, Others
<1> HIDE DEF op, now
<1>1. CASE op.kind = "bid" /\ WriteBid(op, Row, now)
  <2>1. status = "receiving_offers" /\ Core!Leads(op.amount)
    BY <1>0, <1>r, <1>1 DEF Accepts
  <2>2. \A o \in DOMAIN offers : offers[o].created # now
    BY CommitFrees DEF now, LInv, StampsAreUnique, Pending
  <2>3. Core!CreateSaleOffer(op.store, op.amount, now)
    BY <1>0, <1>r, <1>1, <2>1, <2>2 DEF WriteBid, Core!CreateSaleOffer, Core!AcceptsOffers
  <2> QED
    BY <1>0, <1>k, <1>1, <2>3 DEF Core!Next
<1>2. CASE op.kind = "select" /\ WriteSelection(op)
  <2>1. /\ Core!MaySelect(op.offer) /\ Core!MayRecord(op.offer)
        /\ op.offer \in DOMAIN offers
    BY <1>0, <1>r, <1>2 DEF Accepts, Core!MaySelect, Core!RoundOffers
  <2>2. Core!SelectSaleRequestOffer(op.offer)
    BY <1>2, <2>1 DEF WriteSelection, Core!SelectSaleRequestOffer
  <2> QED
    BY <2>1, <2>2 DEF Core!Next
<1>3. CASE op.kind = "fail" /\ WriteFailure(Row)
  <2>1. status \in Core!ActiveHandoffStatuses /\ selected \in selections \ outcomes
    BY <1>0, <1>r, <1>3 DEF Accepts
  <2>2. Core!ReportNoAgreement
    BY <1>r, <1>3, <2>1 DEF WriteFailure, Core!ReportNoAgreement, Core!CloseMatch
  <2> QED
    BY <2>2 DEF Core!Next
<1>4. CASE op.kind = "reopen" /\ WriteRound(op, Row)
  <2>1. status = "handoff_failed" /\ round + 1 \notin DOMAIN floors
    BY <1>0, <1>r, <1>4 DEF Accepts
  <2>2. Core!OpenNewRound(op.floor)
    BY <1>0, <1>r, <1>4, <2>1 DEF WriteRound, Core!OpenNewRound, Core!NextRound
  <2> QED
    BY <1>k, <1>4, <2>2 DEF Core!Next
<1>5. CASE op.kind = "schedule" /\ WriteVisit
  <2>1. status = "offer_selected"
    BY <1>0, <1>r, <1>5 DEF Accepts
  <2> QED
    BY <1>5, <2>1 DEF WriteVisit, Core!ScheduleVisit, Core!Next
<1> QED
  BY <1>0, <1>1, <1>2, <1>3, <1>4, <1>5 DEF Write

(* What a handler of SaleRequest may do to the bids and to the round. *)
LEMMA HandlerGrowth ==
  ASSUME LInv, NEW c \in Clients, Commit(c)
  PROVE  \/ /\ offers' = offers
            /\ round' \in {round, round + 1}
         \/ /\ \E s \in Stores, a \in Amounts :
                 offers' = Append(offers, [store |-> s, round |-> round, amount |-> a,
                                           created |-> tx[c].now])
            /\ round' = round
<1>1. tx[c].row = Row /\ tx[c].op \in Operations
  BY CommitFrees
<1>2. Write(tx[c].op, Row, tx[c].now)
  BY <1>1 DEF Commit
<1>3. /\ Row.round = round
      /\ tx[c].op.kind = "bid" => tx[c].op.store \in Stores /\ tx[c].op.amount \in Amounts
  BY <1>1 DEF Row, Operations, Bids, Choices, Reopenings, Others
<1> QED
  BY <1>2, <1>3 DEF Write, WriteBid, WriteSelection, WriteFailure, WriteRound, WriteVisit

LEMMA CommitKeepsLInv ==
  ASSUME LInv, NEW c \in Clients, Commit(c)
  PROVE  LInv'
<1> DEFINE now == tx[c].now
<1>0. /\ offers \in Seq(Core!Offer) /\ round \in Nat \ {0} /\ clock \in Nat
      /\ now \in 1..clock /\ clock <= MaxTx
  BY CommitFrees, MaxTxNatural DEF LInv, Typed
<1>1. /\ offers' \in Seq(Core!Offer)
      /\ round' \in Nat \ {0}
      /\ Len(offers') + round' <= Len(offers) + round + 1
      /\ \A o \in DOMAIN offers' :
           offers'[o].created = now \/ \E p \in DOMAIN offers : offers'[o] = offers[p]
  <2>1. CASE offers' = offers /\ round' \in {round, round + 1}
    BY <1>0, <2>1
  <2>2. CASE /\ \E s \in Stores, a \in Amounts :
                   offers' = Append(offers, [store |-> s, round |-> round, amount |-> a,
                                             created |-> now])
             /\ round' = round
    <3>1. PICK s \in Stores, a \in Amounts :
            offers' = Append(offers, [store |-> s, round |-> round, amount |-> a,
                                      created |-> now])
      BY <2>2
    <3> DEFINE e == [store |-> s, round |-> round, amount |-> a, created |-> now]
    <3>2. e \in Core!Offer /\ e.created = now
      BY <1>0, MaxTxNatural DEF Core!Offer
    <3>3. offers' = Append(offers, e)
      BY <3>1
    <3> HIDE DEF e, now
    <3>4. /\ offers' \in Seq(Core!Offer) /\ Len(offers') = Len(offers) + 1
          /\ \A o \in DOMAIN offers' :
               offers'[o] = e \/ (o \in DOMAIN offers /\ offers'[o] = offers[o])
      BY <1>0, <3>2, <3>3
    <3> QED
      BY <1>0, <2>2, <3>2, <3>4
  <2> QED
    BY <2>1, <2>2, HandlerGrowth
<1>2. /\ ~Pending(c)' /\ ~Locked(c)'
      /\ \A d \in Clients \ {c} : /\ tx'[d] = tx[d]
                                  /\ ~Locked(d) /\ ~Locked(d)'
                                  /\ Pending(d)' <=> Pending(d)
  BY CommitFrees DEF Pending, Locked
<1>3. Typed'
  <2>1. offers' \in Seq(Core!Offer)'
    BY <1>1 DEF Core!Offer
  <2>2. ASSUME NEW d \in Clients, Pending(d)'
        PROVE  tx'[d].op \in Operations' /\ tx'[d].now \in 1..clock'
    BY <1>2, <2>2, CommitFrees
       DEF LInv, Typed, Operations, Bids, Choices, Reopenings, Others
  <2> QED
    BY <1>1, <2>1, <2>2, CommitFrees DEF Typed
<1>4. DecidesOnFreshRow'
  BY <1>2 DEF DecidesOnFreshRow
<1>5. VerdictsHold'
  BY <1>2 DEF VerdictsHold, Locked
<1>6. StampsAreUnique'
  <2>1. Pending(c)
    BY CommitFrees DEF Pending
  <2>2. ASSUME NEW o \in DOMAIN offers'
        PROVE  offers'[o].created \in 1..clock'
    BY <1>0, <1>1, CommitFrees DEF LInv, StampsAreUnique
  <2>3. ASSUME NEW d \in Clients, Pending(d)', NEW o \in DOMAIN offers'
        PROVE  offers'[o].created # tx'[d].now
    <3>1. d # c /\ tx'[d] = tx[d] /\ Pending(d)
      BY <1>2, <2>3
    <3> QED
      BY <1>1, <2>1, <3>1 DEF LInv, StampsAreUnique
  <2>4. ASSUME NEW d \in Clients, NEW f \in Clients, d # f, Pending(d)', Pending(f)'
        PROVE  tx'[d].now # tx'[f].now
    BY <1>2, <2>4 DEF LInv, StampsAreUnique
  <2> QED
    BY <2>2, <2>3, <2>4 DEF StampsAreUnique
<1>7. WithinBudget'
  <2>1. Len(offers') \in Nat /\ Len(offers) \in Nat /\ round \in Nat /\ round' \in Nat
    BY <1>0, <1>1
  <2>2. /\ Cardinality(PendingClients') = Cardinality(PendingClients) - 1
        /\ clock' = clock
    BY CommitFrees
  <2>3. Len(offers) + round + Cardinality(PendingClients) <= clock + 1
    BY DEF LInv, WithinBudget
  <2> HIDE DEF now
  <2> QED
    BY <1>0, <1>1, <2>1, <2>2, <2>3, PendingIsFinite DEF WithinBudget
<1> QED
  BY <1>3, <1>4, <1>5, <1>6, <1>7 DEF LInv

LEMMA NextLInv == LInv /\ [Next]_vars => LInv'
<1> SUFFICES ASSUME LInv, [Next]_vars PROVE LInv'
  OBVIOUS
<1>1. CASE \E c \in Clients : \E op \in Operations : Begin(c, op)
  BY <1>1, BeginKeepsLInv
<1>2. CASE \E c \in Clients : LockRow(c)
  BY <1>2, LockKeepsLInv
<1>3. CASE \E c \in Clients : Decide(c)
  BY <1>3, DecideKeepsLInv
<1>4. CASE \E c \in Clients : Refuse(c) \/ RollBack(c)
  BY <1>4, ReleaseKeepsLInv
<1>5. CASE \E c \in Clients : Commit(c)
  BY <1>5, CommitKeepsLInv
<1>6. CASE \E c \in Clients : CancelUpdate(c) \/ CancelReply(c) \/ Leave(c)
  BY <1>6, CancelKeepsLInv
<1>7. CASE UNCHANGED vars
  <2>1. UNCHANGED <<status, round, selected, floors, offers, selections, outcomes, notices,
                    holder, tx, clock>>
    BY <1>7 DEF vars, tables
  <2>2. \A c \in Clients : Accepts(tx[c].op, tx[c].row) => Accepts(tx[c].op, tx[c].row)'
    BY <2>1 DEF Accepts, Core!Leads, Core!RoundOffers, Core!IsCurrent, Core!Supersedes,
                Core!MayRecord
  <2>3. Typed' /\ DecidesOnFreshRow' /\ StampsAreUnique'
    BY <2>1 DEF LInv, Typed, DecidesOnFreshRow, StampsAreUnique, Pending, Locked, Row, Core!Offer
  <2>4. VerdictsHold'
    BY <2>1, <2>2 DEF LInv, VerdictsHold
  <2>5. WithinBudget'
    <3>1. PendingClients' = PendingClients
      BY <2>1 DEF PendingClients, Pending
    <3> QED
      BY <2>1, <3>1 DEF LInv, WithinBudget
  <2> QED
    BY <2>3, <2>4, <2>5 DEF LInv
<1> QED
  BY <1>1, <1>2, <1>3, <1>4, <1>5, <1>6, <1>7 DEF Next

(* The inductive invariant of the statements. *)
THEOREM LockInvariance == Spec => []LInv
  BY InitLInv, NextLInv, PTL DEF Spec

(* No handler decides on a status, a round or a selection that another     *)
(* transaction, or the cancellation, has changed meanwhile.                *)
THEOREM RowsAreFresh == Spec => []DecidesOnFreshRow
<1>1. LInv => DecidesOnFreshRow
  BY DEF LInv
<1> QED
  BY <1>1, LockInvariance, PTL

(* Statement by statement, the handlers implement the atomic handlers of   *)
(* SaleRequest: a step is a handler or changes no row of the request.      *)
THEOREM InterleavingImplementsCore == Spec => HandlersAreAtomic
<1>1. Init => Core!Init
  BY DEF Init
<1>2. LInv /\ [Next]_vars => [Core!Next]_(Core!vars)
  <2> SUFFICES ASSUME LInv, [Next]_vars PROVE [Core!Next]_(Core!vars)
    OBVIOUS
  <2>1. ASSUME NEW c \in Clients, Commit(c)
        PROVE  Core!Next
    BY <2>1, CommitIsHandler
  <2>2. ASSUME NEW c \in Clients, CancelUpdate(c)
        PROVE  [Core!Next]_(Core!vars)
    <3>1. CASE status = "receiving_offers"
      BY <2>2, <3>1 DEF CancelUpdate, Core!CancelMySaleRequest, Core!Next
    <3>2. CASE status # "receiving_offers"
      BY <2>2, <3>2 DEF CancelUpdate, Core!vars
    <3> QED
      BY <3>1, <3>2
  <2>3. ASSUME UNCHANGED tables
        PROVE  UNCHANGED Core!vars
    BY <2>3 DEF tables, Core!vars
  <2>4. CASE UNCHANGED vars
    BY <2>3, <2>4 DEF vars
  <2>5. CASE Next
    <3>1. PICK c \in Clients :
            \/ \E op \in Operations : Begin(c, op)
            \/ LockRow(c) \/ Decide(c) \/ Refuse(c) \/ RollBack(c) \/ Commit(c)
            \/ CancelUpdate(c) \/ CancelReply(c) \/ Leave(c)
      BY <2>5 DEF Next
    <3>2. CASE Commit(c)
      BY <2>1, <3>2
    <3>3. CASE CancelUpdate(c)
      BY <2>2, <3>3
    <3>4. CASE ~Commit(c) /\ ~CancelUpdate(c)
      BY <2>3, <3>1, <3>4 DEF Begin, LockRow, Decide, Refuse, RollBack, CancelReply, Leave
    <3> QED
      BY <3>2, <3>3, <3>4
  <2> QED
    BY <2>4, <2>5
<1> QED
  BY <1>1, <1>2, LockInvariance, PTL DEF Spec, HandlersAreAtomic, Core!Spec

(***************************************************************************)
(* What was proved of the atomic handlers holds of the statements.         *)
(***************************************************************************)

Atomic == INSTANCE SaleRequest_proofs WITH
            Stamps <- 1..MaxTx, MaxOffers <- MaxTx, MaxRounds <- MaxTx + 1

(* Core and Atomic are the same module, seen without and with its proofs.  *)
LEMMA SameSpec == Core!Spec => Atomic!Spec
<1>1. Core!Init => Atomic!Init
  BY DEF Core!Init, Atomic!Init, Core!NoOffer, Atomic!NoOffer,
           Core!NoFloor, Atomic!NoFloor
<1>2. [Core!Next]_(Core!vars) => [Atomic!Next]_(Atomic!vars)
  <2>1. ASSUME NEW s, NEW a, NEW t, Core!CreateSaleOffer(s, a, t)
        PROVE  Atomic!CreateSaleOffer(s, a, t)
    BY <2>1, Zenon
    DEF Core!CreateSaleOffer, Atomic!CreateSaleOffer,
        Core!AcceptsOffers, Atomic!AcceptsOffers, Core!Leads, Atomic!Leads,
        Core!RoundOffers, Atomic!RoundOffers
  <2>2. ASSUME NEW o, Core!SelectSaleRequestOffer(o)
        PROVE  Atomic!SelectSaleRequestOffer(o)
    BY <2>2, Zenon
    DEF Core!SelectSaleRequestOffer, Atomic!SelectSaleRequestOffer,
        Core!MaySelect, Atomic!MaySelect, Core!MayRecord, Atomic!MayRecord,
        Core!MarkOfferSelected, Atomic!MarkOfferSelected,
        Core!LeaveUnmarked, Atomic!LeaveUnmarked, Core!RoundOffers, Atomic!RoundOffers,
        Core!IsCurrent, Atomic!IsCurrent, Core!Supersedes, Atomic!Supersedes,
        Core!SelectableStatuses, Atomic!SelectableStatuses
  <2>3. Core!CancelMySaleRequest => Atomic!CancelMySaleRequest
    BY Zenon DEF Core!CancelMySaleRequest, Atomic!CancelMySaleRequest
  <2>4. Core!ReportNoAgreement => Atomic!ReportNoAgreement
    BY Zenon
    DEF Core!ReportNoAgreement, Atomic!ReportNoAgreement,
        Core!ActiveHandoffStatuses, Atomic!ActiveHandoffStatuses,
        Core!CloseMatch, Atomic!CloseMatch
  <2>5. ASSUME NEW f, Core!OpenNewRound(f)
        PROVE  Atomic!OpenNewRound(f)
    BY <2>5, Zenon
    DEF Core!OpenNewRound, Atomic!OpenNewRound, Core!NextRound, Atomic!NextRound,
        Core!NoOffer, Atomic!NoOffer
  <2>6. Core!ScheduleVisit => Atomic!ScheduleVisit
    BY Zenon DEF Core!ScheduleVisit, Atomic!ScheduleVisit
  <2> QED
    BY <2>1, <2>2, <2>3, <2>4, <2>5, <2>6 DEF Core!Next, Atomic!Next, Core!vars, Atomic!vars
<1> QED
  BY <1>1, <1>2, PTL DEF Core!Spec, Atomic!Spec

Safe ==
  /\ Core!TypeOK /\ Core!MatchCoherence /\ Core!SelectedIsCurrent /\ Core!NoMatchInOpenRound
  /\ Core!OneSelectionPerStoreAndRound /\ Core!AuctionRises

(* Any interleaving of the statements keeps what the atomic handlers keep: *)
(* the tables tell one story, the accepted proposal is its store's latest  *)
(* and of the open round, bids rise from the floor, no selection breaks a  *)
(* UNIQUE constraint, and no failed match returns.                         *)
THEOREM InterleavedHandlersAreSafe == Spec => []Safe /\ Core!FailedMatchNeverReturns
<1>1. Spec => Atomic!Spec
  BY InterleavingImplementsCore, SameSpec, PTL DEF HandlersAreAtomic
<1>2. Atomic!Spec => []Atomic!IInv
  BY Atomic!Invariance, AmountsPositive, MaxTxNatural
<1>3. Atomic!Spec => []Atomic!OneSelectionPerStoreAndRound
  BY Atomic!SelectionNeverBreaksUnique, AmountsPositive, MaxTxNatural
<1>4. Atomic!Spec => Atomic!FailedMatchNeverReturns
  BY Atomic!FailedMatchesStayFailed, AmountsPositive, MaxTxNatural
<1>5. Atomic!IInv /\ Atomic!OneSelectionPerStoreAndRound => Safe
  <2>1. Atomic!TypeOK => Core!TypeOK
    BY Zenon
    DEF Core!TypeOK, Atomic!TypeOK, Core!Statuses, Atomic!Statuses,
        Core!SelectableStatuses, Atomic!SelectableStatuses,
        Core!ActiveHandoffStatuses, Atomic!ActiveHandoffStatuses,
        Core!NoFloor, Atomic!NoFloor, Core!Offer, Atomic!Offer
  <2>2. Atomic!MatchCoherence => Core!MatchCoherence
    BY Zenon
    DEF Core!MatchCoherence, Atomic!MatchCoherence,
        Core!SelectedStatuses, Atomic!SelectedStatuses,
        Core!ActiveHandoffStatuses, Atomic!ActiveHandoffStatuses,
        Core!NoOffer, Atomic!NoOffer
  <2>3. Atomic!SelectedIsCurrent => Core!SelectedIsCurrent
    BY Zenon
    DEF Core!SelectedIsCurrent, Atomic!SelectedIsCurrent,
        Core!SelectedStatuses, Atomic!SelectedStatuses,
        Core!ActiveHandoffStatuses, Atomic!ActiveHandoffStatuses,
        Core!RoundOffers, Atomic!RoundOffers, Core!IsCurrent, Atomic!IsCurrent,
        Core!Supersedes, Atomic!Supersedes
  <2>4. Atomic!NoMatchInOpenRound => Core!NoMatchInOpenRound
    BY Zenon
    DEF Core!NoMatchInOpenRound, Atomic!NoMatchInOpenRound,
        Core!SelectedStatuses, Atomic!SelectedStatuses,
        Core!ActiveHandoffStatuses, Atomic!ActiveHandoffStatuses
  <2>5. Atomic!OneSelectionPerStoreAndRound => Core!OneSelectionPerStoreAndRound
    BY Zenon
    DEF Core!OneSelectionPerStoreAndRound, Atomic!OneSelectionPerStoreAndRound,
        Core!MaySelect, Atomic!MaySelect, Core!MayRecord, Atomic!MayRecord,
        Core!RoundOffers, Atomic!RoundOffers, Core!IsCurrent, Atomic!IsCurrent,
        Core!Supersedes, Atomic!Supersedes
  <2>6. Atomic!AuctionRises => Core!AuctionRises
    BY Zenon DEF Core!AuctionRises, Atomic!AuctionRises
  <2> QED
    BY <2>1, <2>2, <2>3, <2>4, <2>5, <2>6 DEF Safe, Atomic!IInv
<1>6. Atomic!FailedMatchNeverReturns => Core!FailedMatchNeverReturns
  <2>1. [selected' \in outcomes => selected' = selected]_(Atomic!vars)
          => [selected' \in outcomes => selected' = selected]_(Core!vars)
    BY DEF Core!vars, Atomic!vars
  <2> QED
    BY <2>1, PTL DEF Core!FailedMatchNeverReturns, Atomic!FailedMatchNeverReturns
<1> QED
  BY <1>1, <1>2, <1>3, <1>4, <1>5, <1>6, PTL

(***************************************************************************)
(* What the two broken promises of SaleRequestLock need.                   *)
(***************************************************************************)

IsBid(c) == Pending(c) /\ tx[c].op.kind = "bid"

(* A store has one bid under way at a time.                                *)
BidsApart ==
  \A c, d \in Clients : IsBid(c) /\ IsBid(d) /\ tx[c].op.store = tx[d].op.store => c = d

(* A bid under way is younger than all those of its store.                 *)
BidsAreYounger ==
  \A c \in Clients : IsBid(c) =>
    \A o \in DOMAIN offers :
      offers[o].store = tx[c].op.store => offers[o].created < tx[c].now

(* The bid that a transaction commits, if it commits one.                  *)
LEMMA CommittedBid ==
  ASSUME LInv, NEW c \in Clients, Commit(c)
  PROVE  \/ offers' = offers
         \/ /\ IsBid(c) /\ DOMAIN offers' = DOMAIN offers \cup {Len(offers) + 1}
            /\ \A o \in DOMAIN offers : offers'[o] = offers[o]
            /\ offers'[Len(offers) + 1].store = tx[c].op.store
            /\ offers'[Len(offers) + 1].created = tx[c].now
<1>1. tx[c].row = Row /\ tx[c].op \in Operations /\ tx[c].step = "decided"
  BY CommitFrees
<1>2. Write(tx[c].op, Row, tx[c].now)
  BY <1>1 DEF Commit
<1>3. offers \in Seq(Core!Offer) /\ Row.round = round
  BY DEF LInv, Typed, Row
<1>4. CASE tx[c].op.kind = "bid" /\ WriteBid(tx[c].op, Row, tx[c].now)
  <2> DEFINE e == [store |-> tx[c].op.store, round |-> Row.round,
                   amount |-> tx[c].op.amount, created |-> tx[c].now]
  <2>1. offers' = Append(offers, e)
    BY <1>4 DEF WriteBid
  <2>2. e.store = tx[c].op.store /\ e.created = tx[c].now
    OBVIOUS
  <2>3. e \in Core!Offer
    BY <1>1, <1>3, <1>4, CommitFrees, MaxTxNatural
    DEF Core!Offer, Operations, Bids, Choices, Reopenings, Others, LInv, Typed
  <2> HIDE DEF e
  <2>4. IsBid(c)
    BY <1>1, <1>4 DEF IsBid, Pending
  <2> QED BY <1>3, <2>1, <2>2, <2>3, <2>4
<1>5. CASE offers' = offers
  BY <1>5
<1> QED
  BY <1>2, <1>4, <1>5 DEF Write, WriteSelection, WriteFailure, WriteRound, WriteVisit

LEMMA NextBids == LInv /\ BidsApart /\ BidsAreYounger /\ [Next]_vars => BidsAreYounger'
<1> SUFFICES ASSUME LInv, BidsApart, BidsAreYounger, [Next]_vars PROVE BidsAreYounger'
  OBVIOUS
<1>1. ASSUME NEW c \in Clients, NEW op \in Operations, Begin(c, op) PROVE BidsAreYounger'
  <2>1. /\ tx'[c].now = clock + 1 /\ UNCHANGED offers
        /\ \A d \in Clients \ {c} : tx'[d] = tx[d]
    BY <1>1 DEF Begin, LInv, Typed, tables
  <2>2. \A o \in DOMAIN offers : offers[o].created < clock + 1
    BY MaxTxNatural DEF LInv, Typed, StampsAreUnique
  <2> QED BY <2>1, <2>2 DEF BidsAreYounger, IsBid, Pending
<1>2. ASSUME NEW c \in Clients, Commit(c) PROVE BidsAreYounger'
  <2>1. tx'[c].step = "idle" /\ \A d \in Clients \ {c} : tx'[d] = tx[d]
    BY <1>2, CommitFrees
  <2>2. CASE offers' = offers
    BY <2>1, <2>2 DEF BidsAreYounger, IsBid, Pending
  <2>3. CASE offers' # offers
    <3>1. /\ IsBid(c) /\ DOMAIN offers' = DOMAIN offers \cup {Len(offers) + 1}
          /\ \A o \in DOMAIN offers : offers'[o] = offers[o]
          /\ offers'[Len(offers) + 1].store = tx[c].op.store
      BY <1>2, <2>3, CommittedBid
    <3>2. \A d \in Clients : IsBid(d)' => d # c /\ tx'[d] = tx[d] /\ IsBid(d)
      BY <2>1 DEF IsBid, Pending
    <3> QED BY <3>1, <3>2 DEF BidsAreYounger, BidsApart
  <2> QED BY <2>2, <2>3
<1>3. CASE UNCHANGED vars
  BY <1>3 DEF vars, tables, BidsAreYounger, IsBid, Pending
<1>4. ASSUME NEW c \in Clients,
             \/ LockRow(c) \/ Decide(c) \/ Refuse(c) \/ RollBack(c)
             \/ CancelUpdate(c) \/ CancelReply(c) \/ Leave(c)
      PROVE  BidsAreYounger'
  <2>1. UNCHANGED offers /\ \A d \in Clients \ {c} : tx'[d] = tx[d]
    BY <1>4 DEF LockRow, Decide, Refuse, RollBack, CancelUpdate, CancelReply, Leave, tables, LInv,
                Typed
  <2>2. IsBid(c)' => IsBid(c) /\ tx'[c].op = tx[c].op /\ tx'[c].now = tx[c].now
    BY <1>4 DEF LockRow, Decide, Refuse, RollBack, CancelUpdate, CancelReply, Leave, IsBid,
                Pending, Idle, LInv, Typed
  <2> QED BY <2>1, <2>2 DEF BidsAreYounger, IsBid, Pending
<1> QED
  BY <1>1, <1>2, <1>3, <1>4 DEF Next

(* A store that sends its bids one at a time, from one tab, is understood: *)
(* its latest bid, the one that can be accepted, is its highest.           *)
THEOREM OneTabBidsHighest == Spec /\ []BidsApart => []LatestIsHighest
<1>1. Init => BidsAreYounger
  BY DEF Init, BidsAreYounger, IsBid, Pending, Idle
<1>2. Spec /\ []BidsApart => []BidsAreYounger
  BY <1>1, NextBids, LockInvariance, PTL DEF Spec
<1>3. LInv /\ BidsAreYounger /\ [Next]_vars => [Atomic!BidsInOrder]_(Atomic!vars)
  <2> SUFFICES ASSUME LInv, BidsAreYounger, [Next]_vars,
                      NEW o \in DOMAIN offers, NEW n \in DOMAIN offers' \ DOMAIN offers,
                      offers'[n].store = offers[o].store
               PROVE  offers[o].created < offers'[n].created
    BY DEF Atomic!BidsInOrder
  <2>1. UNCHANGED offers \/ \E c \in Clients : Commit(c)
    <3>1. ASSUME NEW c \in Clients, ~Commit(c),
                 \/ \E op \in Operations : Begin(c, op)
                 \/ LockRow(c) \/ Decide(c) \/ Refuse(c) \/ RollBack(c)
                 \/ CancelUpdate(c) \/ CancelReply(c) \/ Leave(c)
          PROVE  UNCHANGED offers
      BY <3>1 DEF Begin, LockRow, Decide, Refuse, RollBack, CancelUpdate, CancelReply, Leave, tables
    <3> QED BY <3>1 DEF Next, vars, tables
  <2>2. PICK c \in Clients : Commit(c)
    BY <2>1
  <2> QED BY <2>2, CommittedBid DEF BidsAreYounger
<1>4. Spec /\ []BidsApart => Atomic!Spec /\ [][Atomic!BidsInOrder]_(Atomic!vars)
  <2>1. Spec => Atomic!Spec
    BY InterleavingImplementsCore, SameSpec, PTL DEF HandlersAreAtomic
  <2> QED BY <1>2, <1>3, <2>1, LockInvariance, PTL DEF Spec
<1>5. Atomic!Spec /\ [][Atomic!BidsInOrder]_(Atomic!vars) => []Atomic!LatestIsHighest
  BY Atomic!LatestBidIsHighest, AmountsPositive, MaxTxNatural
<1>6. Atomic!LatestIsHighest => LatestIsHighest
  BY Zenon DEF LatestIsHighest, Core!LatestIsHighest, Atomic!LatestIsHighest, Core!Supersedes,
               Atomic!Supersedes
<1> QED
  BY <1>4, <1>5, <1>6, PTL

(* Between the UPDATE of a cancellation and the SELECT that decides its    *)
(* answer nobody reopens the request.                                      *)
ReopeningsApart ==
  (\E c \in Clients : tx[c].step = "updated") /\ status' = "receiving_offers"
    => status = "receiving_offers"

CancelIsSettled ==
  /\ \A c \in Clients : tx[c].step = "updated" => status # "receiving_offers"
  /\ ConfirmedMeansCancelled

(* An owner is told that the request is cancelled only when it is, unless  *)
(* it is reopened in the middle of the cancellation.                       *)
THEOREM CancelledMeansCancelled ==
  Spec /\ [][ReopeningsApart]_vars => []ConfirmedMeansCancelled
<1>1. Init => CancelIsSettled
  BY DEF Init, CancelIsSettled, ConfirmedMeansCancelled, Idle
<1>2. LInv /\ Safe /\ CancelIsSettled /\ [Next]_vars /\ [ReopeningsApart]_vars => CancelIsSettled'
  <2> SUFFICES ASSUME LInv, Safe, CancelIsSettled, [Next]_vars, [ReopeningsApart]_vars
               PROVE  CancelIsSettled'
    OBVIOUS
  <2>1. DOMAIN tx = Clients
    BY DEF LInv, Typed
  <2>2. CASE UNCHANGED vars
    BY <2>2 DEF vars, tables, CancelIsSettled, ConfirmedMeansCancelled
  <2>3. ASSUME NEW c \in Clients, CancelUpdate(c), ReopeningsApart PROVE CancelIsSettled'
    <3>1. /\ status' # "receiving_offers" /\ tx'[c].step = "updated"
          /\ \A d \in Clients \ {c} : tx'[d] = tx[d]
      BY <2>1, <2>3 DEF CancelUpdate
    <3> QED BY <3>1 DEF CancelIsSettled, ConfirmedMeansCancelled
  <2>4. ASSUME NEW c \in Clients, CancelReply(c), ReopeningsApart PROVE CancelIsSettled'
    <3>1. /\ status \in Core!Statuses /\ status # "receiving_offers" /\ UNCHANGED status
          /\ \A d \in Clients \ {c} : tx'[d] = tx[d]
          /\ tx'[c] = [step |-> IF status \in Core!SelectedStatuses THEN "refused" ELSE "confirmed",
                       row |-> Row]
      BY <2>1, <2>4 DEF CancelReply, CancelIsSettled, Safe, Core!TypeOK, tables
    <3>2. status \notin Core!SelectedStatuses => status = "cancelled"
      BY <3>1 DEF Core!Statuses, Core!SelectedStatuses, Core!SelectableStatuses,
                  Core!ActiveHandoffStatuses
    <3>3. tx'[c].step # "updated" /\ (tx'[c].step = "confirmed" => tx'[c].row.status = "cancelled")
      BY <3>1, <3>2 DEF Row
    <3> QED BY <3>1, <3>3 DEF CancelIsSettled, ConfirmedMeansCancelled
  <2>5. ASSUME NEW c \in Clients, ReopeningsApart,
               \/ \E op \in Operations : Begin(c, op)
               \/ LockRow(c) \/ Decide(c) \/ Refuse(c) \/ RollBack(c) \/ Commit(c) \/ Leave(c)
        PROVE  CancelIsSettled'
    <3>1. \A d \in Clients \ {c} : tx'[d] = tx[d]
      BY <2>1, <2>5 DEF Begin, LockRow, Decide, Refuse, RollBack, Commit, Leave
    <3>2. tx'[c].step \notin {"updated", "confirmed"}
      BY <2>1, <2>5 DEF Begin, LockRow, Decide, Refuse, RollBack, Commit, Leave, Idle
    <3>3. \A d \in Clients : tx'[d].step = "updated" => tx[d].step = "updated"
      BY <3>1, <3>2
    <3>4. \A d \in Clients : tx'[d].step = "updated" => status' # "receiving_offers"
      BY <2>5, <3>3 DEF ReopeningsApart, CancelIsSettled
    <3> QED BY <3>1, <3>2, <3>4 DEF CancelIsSettled, ConfirmedMeansCancelled
  <2> QED
    BY <2>2, <2>3, <2>4, <2>5 DEF Next, vars, tables
<1> QED
  <2>1. CancelIsSettled => ConfirmedMeansCancelled
    BY DEF CancelIsSettled
  <2> QED
    BY <1>1, <1>2, <2>1, LockInvariance, InterleavedHandlersAreSafe, PTL DEF Spec
================================================================================
