---------------------------- MODULE SaleRequestLock ----------------------------
(***************************************************************************)
(* The same sale request at the grain of its SQL: several HTTP requests in *)
(* flight, each a PostgreSQL transaction in READ COMMITTED that            *)
(*                                                                         *)
(*   BEGIN                           takes NOW(), the created_at of a bid  *)
(*   SELECT ... FOR UPDATE           waits for the row, then reads it      *)
(*   SELECT ... (round, bids, trail) reads what is committed               *)
(*   INSERT/UPDATE ..., COMMIT       writes, publishes, frees the row      *)
(*                                                                         *)
(* or rolls back in between (an exception, a lost connection).  The        *)
(* cancellation is not a transaction: an UPDATE with its condition in      *)
(* WHERE, which waits for the row and re-evaluates it, and later a SELECT  *)
(* on another connection that decides the answer.                          *)
(*                                                                         *)
(* Writes become visible at COMMIT only, so the tables hold the committed  *)
(* rows.  The module implements SaleRequest: its handlers are atomic.      *)
(* MaxTx bounds the transactions ever started; it is also the last NOW().  *)
(***************************************************************************)
EXTENDS Integers, Sequences, FiniteSets

CONSTANTS Stores, Amounts, Clients, MaxTx,
          Nobody   \* the holder of a free row

ASSUME AmountsPositive == Amounts \subseteq Nat \ {0}
ASSUME MaxTxNatural == MaxTx \in Nat
ASSUME ClientsFinite == IsFiniteSet(Clients)
ASSUME NobodyIsNoClient == Nobody \notin Clients

VARIABLES status, round, selected, floors, offers, selections, outcomes, notices,
          holder,  \* the client whose transaction holds the row lock, or Nobody
          tx,      \* what each client's HTTP request is doing
          clock    \* the last NOW() handed out

tables == <<status, round, selected, floors, offers, selections, outcomes, notices>>
vars == <<tables, holder, tx, clock>>

Idle == [step |-> "idle"]

Core == INSTANCE SaleRequest WITH
          Stamps <- 1..MaxTx, MaxOffers <- MaxTx, MaxRounds <- MaxTx + 1

(* The requests a browser can send. *)
Bids == [kind : {"bid"}, store : Stores, amount : Amounts]
Choices == [kind : {"select"}, offer : 1..MaxTx]
Reopenings == [kind : {"reopen"}, floor : Amounts]
Others == [kind : {"fail", "schedule"}]
Operations == Bids \cup Choices \cup Reopenings \cup Others

Row == [status |-> status, round |-> round, selected |-> selected]

Locked(c) == tx[c].step \in {"locked", "decided"}

(***************************************************************************)
(* The steps of a transaction.                                             *)
(***************************************************************************)

Begin(c, op) ==
  /\ tx[c] = Idle
  /\ clock < MaxTx
  /\ clock' = clock + 1
  /\ tx' = [tx EXCEPT ![c] = [step |-> "begun", op |-> op, now |-> clock + 1]]
  /\ UNCHANGED <<tables, holder>>

RowIsFree_Ignored == TRUE
RowIsFree == holder = Nobody

LockRow(c) ==
  /\ tx[c].step = "begun"
  /\ RowIsFree
  /\ holder' = c
  /\ tx' = [tx EXCEPT ![c] = [step |-> "locked", op |-> tx[c].op, now |-> tx[c].now,
                              row |-> Row]]
  /\ UNCHANGED <<tables, clock>>

(* The verdict of the handler: the row as the lock returned it, the other  *)
(* tables as they are committed now.                                       *)
Accepts(op, row) ==
  \/ /\ op.kind = "bid"
     /\ row.status = "receiving_offers"
     /\ Core!Leads(op.amount)
  \/ /\ op.kind = "select"
     /\ row.status \notin {"cancelled", "offer_selected"}
     /\ op.offer \in Core!RoundOffers
     /\ Core!IsCurrent(op.offer)
     /\ Core!MayRecord(op.offer)
  \/ /\ op.kind = "fail"
     /\ row.status \in Core!ActiveHandoffStatuses
     /\ row.selected \in selections \ outcomes
  \/ /\ op.kind = "reopen"
     /\ row.status = "handoff_failed"
     /\ row.round + 1 \notin DOMAIN floors
  \/ /\ op.kind = "schedule"
     /\ row.status = "offer_selected"

Decide(c) ==
  /\ tx[c].step = "locked"
  /\ Accepts(tx[c].op, tx[c].row)
  /\ tx' = [tx EXCEPT ![c] = [step |-> "decided", op |-> tx[c].op, now |-> tx[c].now,
                              row |-> tx[c].row]]
  /\ UNCHANGED <<tables, holder, clock>>

(* A refusal returns {ok: false}: COMMIT of nothing, which frees the row.  *)
HolderAfter_Kept(c) == holder
HolderAfter(c) == IF holder = c THEN Nobody ELSE holder

Refuse(c) ==
  /\ tx[c].step = "locked"
  /\ ~Accepts(tx[c].op, tx[c].row)
  /\ holder' = HolderAfter(c)
  /\ tx' = [tx EXCEPT ![c] = Idle]
  /\ UNCHANGED <<tables, clock>>

(* An exception or a lost connection: ROLLBACK, at any moment.             *)
RollBack(c) ==
  /\ tx[c].step \in {"begun", "locked", "decided"}
  /\ holder' = IF holder = c THEN Nobody ELSE holder
  /\ tx' = [tx EXCEPT ![c] = Idle]
  /\ UNCHANGED <<tables, clock>>

(* The writes, from what the transaction read. *)
WriteBid(op, row, now) ==
  /\ offers' = Append(offers, [store |-> op.store, round |-> row.round,
                               amount |-> op.amount, created |-> now])
  /\ UNCHANGED <<status, round, selected, floors, selections, outcomes, notices>>

WriteSelection(op) ==
  /\ selections' = selections \cup {op.offer}
  /\ Core!MarkOfferSelected(op.offer) \/ Core!LeaveUnmarked
  /\ UNCHANGED <<round, floors, offers, outcomes>>

WriteFailure(row) ==
  /\ outcomes' = outcomes \cup {row.selected}
  /\ status' = "handoff_failed"
  /\ UNCHANGED <<round, selected, floors, offers, selections, notices>>

WriteRound(op, row) ==
  /\ floors' = Append(floors, op.floor)
  /\ round' = row.round + 1
  /\ status' = "receiving_offers"
  /\ selected' = Core!NoOffer
  /\ UNCHANGED <<offers, selections, outcomes, notices>>

WriteVisit ==
  /\ status' = "inspection_scheduled"
  /\ UNCHANGED <<round, selected, floors, offers, selections, outcomes, notices>>

Write(op, row, now) ==
  \/ op.kind = "bid" /\ WriteBid(op, row, now)
  \/ op.kind = "select" /\ WriteSelection(op)
  \/ op.kind = "fail" /\ WriteFailure(row)
  \/ op.kind = "reopen" /\ WriteRound(op, row)
  \/ op.kind = "schedule" /\ WriteVisit

Commit(c) ==
  /\ tx[c].step = "decided"
  /\ Write(tx[c].op, tx[c].row, tx[c].now)
  /\ holder' = Nobody
  /\ tx' = [tx EXCEPT ![c] = Idle]
  /\ UNCHANGED clock

(***************************************************************************)
(* The cancellation: UPDATE, then SELECT.                                  *)
(***************************************************************************)

CancelUpdate_Unlocked(c) ==
  /\ tx[c] = Idle
  /\ clock < MaxTx
  /\ clock' = clock + 1
  /\ status' = IF status = "receiving_offers" THEN "cancelled" ELSE status
  /\ tx' = [tx EXCEPT ![c] = [step |-> "updated"]]
  /\ UNCHANGED <<round, selected, floors, offers, selections, outcomes, notices, holder>>
CancelUpdate(c) ==
  /\ tx[c] = Idle
  /\ RowIsFree
  /\ clock < MaxTx
  /\ clock' = clock + 1
  /\ status' = IF status = "receiving_offers" THEN "cancelled" ELSE status
  /\ tx' = [tx EXCEPT ![c] = [step |-> "updated"]]
  /\ UNCHANGED <<round, selected, floors, offers, selections, outcomes, notices, holder>>

(* 409 when the row it reads has a selection, else 200 with that row. *)
CancelReply(c) ==
  /\ tx[c].step = "updated"
  /\ tx' = [tx EXCEPT ![c] = [step |-> IF status \in Core!SelectedStatuses
                                       THEN "refused" ELSE "confirmed",
                              row |-> Row]]
  /\ UNCHANGED <<tables, holder, clock>>

Leave(c) ==
  /\ tx[c].step \in {"refused", "confirmed"}
  /\ tx' = [tx EXCEPT ![c] = Idle]
  /\ UNCHANGED <<tables, holder, clock>>

Init ==
  /\ Core!Init
  /\ holder = Nobody
  /\ tx = [c \in Clients |-> Idle]
  /\ clock = 0

Next ==
  \E c \in Clients :
    \/ \E op \in Operations : Begin(c, op)
    \/ LockRow(c)
    \/ Decide(c)
    \/ Refuse(c)
    \/ RollBack(c)
    \/ Commit(c)
    \/ CancelUpdate(c)
    \/ CancelReply(c)
    \/ Leave(c)

Spec == Init /\ [][Next]_vars

(* A server that runs keeps executing the statements of a request, and     *)
(* PostgreSQL serves the waiters of a row lock in turn.  Browsers need not *)
(* send anything.                                                          *)
Fairness ==
  \A c \in Clients :
    /\ SF_vars(LockRow(c))
    /\ WF_vars(Decide(c) \/ Refuse(c) \/ Commit(c))
    /\ WF_vars(CancelReply(c))

FairSpec == Spec /\ Fairness

(***************************************************************************)
(* Properties.                                                             *)
(***************************************************************************)

(* One transaction at a time holds the row, and until it ends the row is   *)
(* the one it read: no handler decides on a stale status, round or         *)
(* selection, not even against the cancellation, which takes no lock of    *)
(* its own.                                                                *)
DecidesOnFreshRow ==
  \A c \in Clients : Locked(c) => holder = c /\ tx[c].row = Row

(* The interleaved statements implement the atomic handlers of SaleRequest *)
(* (and with them every property proved there): first-bid floor, strictly  *)
(* rising bids, one match at a time hold under any interleaving.           *)
HandlersAreAtomic == Core!Spec

(* Every HTTP request that started is answered: no transaction waits for   *)
(* the row forever, and none keeps it.                                     *)
EveryRequestEnds ==
  \A c \in Clients : tx[c].step \in {"begun", "locked", "decided", "updated"}
                       ~> tx[c].step \notin {"begun", "locked", "decided", "updated"}

(* VIOLATED by the code: the latest bid of a store is not always its       *)
(* highest, because NOW() is taken at BEGIN and the order of the bids at   *)
(* the lock.  Holds for stores with one bid under way at a time.           *)
LatestIsHighest == Core!LatestIsHighest

(* VIOLATED by the code: a cancellation answered with 200 found or left    *)
(* the request cancelled.  The UPDATE can miss a request in handoff_failed *)
(* and the SELECT then read it reopened by the owner's other tab.  Nothing *)
(* else breaks it.                                                         *)
ConfirmedMeansCancelled ==
  \A c \in Clients : tx[c].step = "confirmed" => tx[c].row.status = "cancelled"
================================================================================
