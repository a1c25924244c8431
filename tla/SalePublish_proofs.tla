--------------------------- MODULE SalePublish_proofs ---------------------------
(***************************************************************************)
(* The limit on the requests an owner has open in their first round, for   *)
(* every limit, every finite set of requests and any number of sessions;   *)
(* and what can exceed it among all the requests that are open.            *)
(***************************************************************************)
EXTENDS SalePublish, FiniteSetTheorems, TLAPS

FirstRound == {r \in Open : round[r] = 1}

(* The owner's row belongs to the transaction that read it. *)
RowIsHeld == \A s \in Sessions : step[s] \in {"locked", "counted"} => holder = s

(* A count stays good until its transaction ends: other publications wait  *)
(* for the row, and no other handler opens a first round.                  *)
CountStaysGood ==
  \A s \in Sessions : step[s] = "counted" => Cardinality(FirstRound) < ActiveLimit

PInv ==
  /\ TypeOK
  /\ RowIsHeld
  /\ CountStaysGood
  /\ FirstRoundLimit

LEMMA OpenIsFinite ==
  /\ IsFiniteSet(Open) /\ Cardinality(Open) \in Nat
  /\ IsFiniteSet(FirstRound) /\ Cardinality(FirstRound) \in Nat
  /\ Cardinality(FirstRound) <= Cardinality(Open)
<1>1. Open \subseteq Requests /\ FirstRound \subseteq Open
  BY DEF Open, FirstRound
<1>2. IsFiniteSet(Open)
  BY <1>1, RequestsFinite, FS_Subset
<1> QED
  BY <1>1, <1>2, FS_Subset, FS_CardinalityType

LEMMA InitPInv == Init => PInv
<1> SUFFICES ASSUME Init PROVE PInv
  OBVIOUS
<1>1. TypeOK /\ RowIsHeld /\ CountStaysGood
  BY DEF Init, TypeOK, Statuses, RowIsHeld, CountStaysGood
<1>2. FirstRound = {}
  BY DEF Init, FirstRound, Open
<1>3. Cardinality(FirstRound) = 0
  BY <1>2, FS_EmptySet
<1> QED
  BY <1>1, <1>3, LimitNatural DEF PInv, FirstRoundLimit, FirstRound

(* The steps of a publication before its COMMIT, and its ROLLBACK.         *)
LEMMA StatementsKeepPInv ==
  ASSUME PInv, NEW s \in Sessions,
         Begin(s) \/ LockOwnerForCreate(s) \/ CountOpenByOwner(s) \/ RollBack(s)
  PROVE  PInv'
<1>0. UNCHANGED <<status, round>> /\ FirstRound' = FirstRound
  BY DEF Begin, LockOwnerForCreate, CountOpenByOwner, RollBack, FirstRound, Open
<1>1. TypeOK'
  BY <1>0 DEF PInv, TypeOK, Begin, LockOwnerForCreate, CountOpenByOwner, RollBack
<1>2. RowIsHeld'
  BY NobodyIsNoSession
     DEF PInv, TypeOK, RowIsHeld, Begin, LockOwnerForCreate, OwnerRowIsFree, CountOpenByOwner,
         RollBack
<1>3. FirstRoundLimit'
  BY <1>0 DEF PInv, FirstRoundLimit, FirstRound
<1>4. CountStaysGood'
  <2>1. CASE CountOpenByOwner(s)
    <3>1. Cardinality(FirstRound) < ActiveLimit
      BY <2>1, OpenIsFinite, LimitNatural DEF CountOpenByOwner, MayPublish
    <3> QED
      BY <1>0, <3>1 DEF CountStaysGood
  <2>2. CASE Begin(s) \/ LockOwnerForCreate(s) \/ RollBack(s)
    BY <1>0, <2>2 DEF PInv, TypeOK, CountStaysGood, Begin, LockOwnerForCreate, RollBack
  <2> QED
    BY <2>1, <2>2
<1> QED
  BY <1>1, <1>2, <1>3, <1>4 DEF PInv

(* The COMMIT: one more first round, and nobody else has counted.          *)
LEMMA PublishKeepsPInv ==
  ASSUME PInv, NEW s \in Sessions, NEW r \in Requests, Publish(s, r)
  PROVE  PInv'
<1>1. TypeOK'
  BY DEF PInv, TypeOK, Publish, Statuses
<1>2. holder = s /\ \A t \in Sessions \ {s} : step'[t] \notin {"locked", "counted"}
  BY DEF PInv, TypeOK, RowIsHeld, Publish
<1>3. step'[s] = "idle"
  BY DEF PInv, TypeOK, Publish
<1>4. RowIsHeld' /\ CountStaysGood'
  BY <1>2, <1>3 DEF RowIsHeld, CountStaysGood
<1>5. FirstRound' = FirstRound \cup {r} /\ r \notin FirstRound
  BY DEF PInv, TypeOK, Publish, FirstRound, Open
<1>6. Cardinality(FirstRound') = Cardinality(FirstRound) + 1
  BY <1>5, OpenIsFinite, FS_AddElement
<1>7. Cardinality(FirstRound) < ActiveLimit
  BY DEF PInv, CountStaysGood, Publish
<1>8. FirstRoundLimit'
  BY <1>6, <1>7, OpenIsFinite, LimitNatural DEF FirstRoundLimit, FirstRound
<1> QED
  BY <1>1, <1>4, <1>8 DEF PInv

(* Any other handler: it reopens a request in round 2 or later only.       *)
LEMMA MoveKeepsPInv ==
  ASSUME PInv, NEW r \in Requests, Move(r)
  PROVE  PInv'
<1>1. PICK m \in Request(r)!Moves :
        /\ status[r] = m[1]
        /\ status' = [status EXCEPT ![r] = m[2]]
        /\ round' = IF m = Request(r)!Reopen THEN [round EXCEPT ![r] = @ + 1] ELSE round
        /\ UNCHANGED <<holder, step>>
  BY DEF Move
<1>2. /\ m[1] \in Statuses \ {"absent"} /\ m[2] \in Statuses \ {"absent"}
      /\ m[2] = "receiving_offers" => m = Request(r)!Reopen
  BY DEF Request!Moves, Request!Cancel, Request!Accept, Request!Reaccept, Request!Schedule,
         Request!Fail, Request!FailLate, Request!Reopen, Statuses
<1>3. round[r] \in Nat /\ round[r] # 0 /\ round \in [Requests -> Nat]
  BY <1>1, <1>2 DEF PInv, TypeOK
<1>4. TypeOK'
  <2>1. status' \in [Requests -> Statuses] /\ round' \in [Requests -> Nat]
    BY <1>1, <1>2, <1>3 DEF PInv, TypeOK
  <2>2. \A q \in Requests : status'[q] = "absent" <=> round'[q] = 0
    BY <1>1, <1>2, <1>3 DEF PInv, TypeOK
  <2> QED
    BY <1>1, <2>1, <2>2 DEF PInv, TypeOK
<1>5. FirstRound' \subseteq FirstRound
  BY <1>1, <1>2, <1>3 DEF PInv, TypeOK, FirstRound, Open
<1>6. Cardinality(FirstRound') <= Cardinality(FirstRound) /\ Cardinality(FirstRound') \in Nat
  BY <1>5, OpenIsFinite, FS_Subset, FS_CardinalityType
<1>7. RowIsHeld' /\ CountStaysGood' /\ FirstRoundLimit'
  <2>1. FirstRoundLimit'
    BY <1>6, OpenIsFinite, LimitNatural DEF PInv, FirstRoundLimit, FirstRound
  <2>2. RowIsHeld'
    BY <1>1 DEF PInv, RowIsHeld
  <2>3. CountStaysGood'
    BY <1>1, <1>6, OpenIsFinite, LimitNatural DEF PInv, CountStaysGood
  <2> QED
    BY <2>1, <2>2, <2>3
<1> QED
  BY <1>4, <1>7 DEF PInv

LEMMA NextPInv == PInv /\ [Next]_vars => PInv'
<1> SUFFICES ASSUME PInv, [Next]_vars PROVE PInv'
  OBVIOUS
<1>1. CASE Next
  BY <1>1, StatementsKeepPInv, PublishKeepsPInv, MoveKeepsPInv DEF Next
<1>2. CASE UNCHANGED vars
  BY <1>2 DEF vars, PInv, TypeOK, RowIsHeld, CountStaysGood, FirstRoundLimit, FirstRound, Open
<1> QED
  BY <1>1, <1>2

(* The inductive invariant of publishing. *)
THEOREM PublishInvariance == Spec => []PInv
  BY InitPInv, NextPInv, PTL DEF Spec

(* The requests, the count of each session and the holder of the owner's   *)
(* row keep their types.                                                   *)
THEOREM PublicationTypes == Spec => []TypeOK
<1>1. PInv => TypeOK
  BY DEF PInv
<1> QED
  BY <1>1, PublishInvariance, PTL

(* However many sessions publish at once, and whatever the other handlers  *)
(* do to the requests meanwhile, the owner's lock keeps the number of      *)
(* requests open in their first round within the limit.                    *)
THEOREM LimitHolds == Spec => []FirstRoundLimit
<1>1. PInv => FirstRoundLimit
  BY DEF PInv
<1> QED
  BY <1>1, PublishInvariance, PTL

Reopened == {r \in Open : round[r] > 1}

(* Past the limit an owner has reopened requests and nothing else: the     *)
(* requests open at a time exceed it by at most the reopened ones.         *)
THEOREM ExcessIsReopened == Spec => [](Cardinality(Open) <= ActiveLimit + Cardinality(Reopened))
<1>1. PInv => Cardinality(Open) <= ActiveLimit + Cardinality(Reopened)
  <2> SUFFICES ASSUME PInv PROVE Cardinality(Open) <= ActiveLimit + Cardinality(Reopened)
    OBVIOUS
  <2>1. Open = FirstRound \cup Reopened /\ FirstRound \cap Reopened = {}
    BY DEF PInv, TypeOK, FirstRound, Reopened, Open
  <2>2. IsFiniteSet(Reopened) /\ Cardinality(Reopened) \in Nat
    BY OpenIsFinite, FS_Subset, FS_CardinalityType DEF Reopened
  <2>3. Cardinality(Open) = Cardinality(FirstRound) + Cardinality(Reopened)
    <3>1. Cardinality(FirstRound \cap Reopened) = 0
      BY <2>1, FS_EmptySet
    <3>2. Cardinality(FirstRound \cup Reopened)
            = Cardinality(FirstRound) + Cardinality(Reopened) - Cardinality(FirstRound \cap Reopened)
      BY <2>2, OpenIsFinite, FS_Union
    <3> QED
      BY <2>1, <2>2, <3>1, <3>2, OpenIsFinite
  <2> QED
    BY <2>2, <2>3, OpenIsFinite, LimitNatural DEF PInv, FirstRoundLimit, FirstRound
<1> QED
  BY <1>1, PublishInvariance, PTL
================================================================================
