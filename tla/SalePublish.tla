------------------------------ MODULE SalePublish ------------------------------
(***************************************************************************)
(* Publishing: how many sale requests of ONE owner are open at a time.     *)
(* createSaleRequest runs in a transaction that locks the owner's row of   *)
(* users, counts the requests with status receiving_offers, throws when    *)
(* the limit is reached, and inserts the request, its photos and round 1.  *)
(* Several browser sessions of the owner publish at once, while the other  *)
(* handlers move the requests already published; those lock the row of the *)
(* request and never the row of the owner, so they come between any two    *)
(* statements of a publication.                                            *)
(*                                                                         *)
(* A request is one of a fixed set; "absent" means not published yet.      *)
(* Its validation, FIPE lookup and photo upload happen before the          *)
(* transaction and change nothing here.  MaxRounds bounds the rounds.      *)
(***************************************************************************)
EXTENDS Integers, FiniteSets

CONSTANTS Requests, Sessions,
          ActiveLimit,   \* SALE_REQUEST_ACTIVE_LIMIT
          MaxRounds,
          Nobody         \* the holder of a free users row

ASSUME LimitNatural == ActiveLimit \in Nat /\ MaxRounds \in Nat
ASSUME RequestsFinite == IsFiniteSet(Requests)
ASSUME NobodyIsNoSession == Nobody \notin Sessions

VARIABLES status,   \* status[r]: sale_requests.status, or "absent"
          round,    \* round[r]: sale_requests.current_round_number
          holder,   \* the session whose transaction holds the owner's row
          step      \* step[s]: what the publication of session s did last

vars == <<status, round, holder, step>>

Request(r) == INSTANCE SaleRequestLifecycle WITH status <- status[r], round <- round[r]

Statuses == {"absent", "receiving_offers", "cancelled", "offer_selected",
             "inspection_scheduled", "handoff_failed"}

TypeOK ==
  /\ status \in [Requests -> Statuses]
  /\ round \in [Requests -> Nat]
  /\ \A r \in Requests : status[r] = "absent" <=> round[r] = 0
  /\ holder \in Sessions \cup {Nobody}
  /\ step \in [Sessions -> {"idle", "begun", "locked", "counted"}]

Open == {r \in Requests : status[r] = "receiving_offers"}

Begin(s) ==
  /\ step[s] = "idle"
  /\ step' = [step EXCEPT ![s] = "begun"]
  /\ UNCHANGED <<status, round, holder>>

OwnerRowIsFree_Ignored == TRUE
OwnerRowIsFree == holder = Nobody

LockOwnerForCreate(s) ==
  /\ step[s] = "begun"
  /\ OwnerRowIsFree
  /\ holder' = s
  /\ step' = [step EXCEPT ![s] = "locked"]
  /\ UNCHANGED <<status, round>>

MayPublish == Cardinality(Open) < ActiveLimit

CountOpenByOwner(s) ==
  /\ step[s] = "locked"
  /\ MayPublish
  /\ step' = [step EXCEPT ![s] = "counted"]
  /\ UNCHANGED <<status, round, holder>>

(* The INSERTs and the COMMIT. *)
Publish_NoRound(s, r) ==
  /\ step[s] = "counted"
  /\ status[r] = "absent"
  /\ status' = [status EXCEPT ![r] = "receiving_offers"]
  /\ step' = [step EXCEPT ![s] = "idle"]
  /\ holder' = Nobody
  /\ UNCHANGED round
Publish(s, r) ==
  /\ step[s] = "counted"
  /\ status[r] = "absent"
  /\ status' = [status EXCEPT ![r] = "receiving_offers"]
  /\ round' = [round EXCEPT ![r] = 1]
  /\ step' = [step EXCEPT ![s] = "idle"]
  /\ holder' = Nobody

(* The limit, a photo already used by another request, a lost connection:  *)
(* an exception, and ROLLBACK.                                             *)
RollBack_KeepsRow(s) ==
  /\ step[s] \in {"begun", "locked", "counted"}
  /\ step' = [step EXCEPT ![s] = "idle"]
  /\ UNCHANGED <<status, round, holder>>
RollBack(s) ==
  /\ step[s] \in {"begun", "locked", "counted"}
  /\ step' = [step EXCEPT ![s] = "idle"]
  /\ holder' = IF holder = s THEN Nobody ELSE holder
  /\ UNCHANGED <<status, round>>

(* Any other handler, on a published request. *)
Move(r) ==
  \E m \in Request(r)!Moves :
    /\ status[r] = m[1]
    /\ m = Request(r)!Reopen => round[r] < MaxRounds
    /\ status' = [status EXCEPT ![r] = m[2]]
    /\ round' = IF m = Request(r)!Reopen THEN [round EXCEPT ![r] = @ + 1] ELSE round
    /\ UNCHANGED <<holder, step>>

Init ==
  /\ status = [r \in Requests |-> "absent"]
  /\ round = [r \in Requests |-> 0]
  /\ holder = Nobody
  /\ step = [s \in Sessions |-> "idle"]

Next ==
  \/ \E s \in Sessions : \/ Begin(s)
                         \/ LockOwnerForCreate(s)
                         \/ CountOpenByOwner(s)
                         \/ \E r \in Requests : Publish(s, r)
                         \/ RollBack(s)
  \/ \E r \in Requests : Move(r)

Spec == Init /\ [][Next]_vars

(* PostgreSQL serves the waiters of a row in turn, and a transaction that  *)
(* has its row goes on to commit or to roll back.                          *)
Fairness ==
  \A s \in Sessions :
    /\ SF_vars(LockOwnerForCreate(s))
    /\ WF_vars(step[s] # "begun"
               /\ (CountOpenByOwner(s) \/ (\E r \in Requests : Publish(s, r)) \/ RollBack(s)))

FairSpec == Spec /\ Fairness

(***************************************************************************)
(* Properties.                                                             *)
(***************************************************************************)

(* The owner's lock does its work: however many sessions publish at once,  *)
(* and whatever becomes of the requests in between, at most ActiveLimit    *)
(* requests are open in their FIRST round.                                 *)
FirstRoundLimit == Cardinality({r \in Open : round[r] = 1}) <= ActiveLimit

(* No session waits for the owner's row forever: a refused or failed       *)
(* publication frees it.                                                   *)
EveryPublicationEnds ==
  \A s \in Sessions : step[s] = "begun" ~> step[s] = "idle"

(* "Teto de solicitacoes ABERTAS por usuario".  VIOLATED by the code:      *)
(* openNewRound takes a request back to receiving_offers without counting, *)
(* so an owner with failed matches gets past the limit, by the requests    *)
(* reopened and no more (theorem ExcessIsReopened).                        *)
OpenLimit == Cardinality(Open) <= ActiveLimit
================================================================================
