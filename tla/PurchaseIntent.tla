---------------------------- MODULE PurchaseIntent ----------------------------
(***************************************************************************)
(* A buyer publishes what he is looking for; the stores of his city are    *)
(* told and send him ads of their stock, each store at most Limit that are *)
(* available.                                                              *)
(*                                                                         *)
(* A sending locks the row of the intent and reads, statement by           *)
(* statement, what other clients have committed: ads and stores change     *)
(* under it, other sendings and the buyer's closing wait.  Notifications   *)
(* are written after the commit and may fail.                              *)
(***************************************************************************)
EXTENDS Integers, FiniteSets

CONSTANTS Intents, Dealers,
          Ads, OwnerOf,  \* the ads of the stock; the dealer of each
          Matches,       \* <<intent, ad>>: evaluateAdForIntent says eligible
          Workers,       \* requests served at a time
          Limit,         \* PURCHASE_INTENT_OFFER_MAX_PER_DEALER
          None

ASSUME StockTyped == OwnerOf \in [Ads -> Dealers] /\ IsFiniteSet(Ads)
ASSUME MatchesTyped == Matches \subseteq Intents \X Ads
ASSUME LimitTyped == Limit \in Nat
ASSUME NoneApart == None \notin Intents \cup Ads

VARIABLES status,   \* purchase_intents.status, "none" before the INSERT
          expired,  \* intents whose expires_at is over
          stores,   \* dealers with an operational store in the city
          active,   \* ads with status 'active'
          offers,   \* purchase_intent_offers: pairs <<intent, ad>>
          notices,  \* user_notifications, by recipient and idempotency key
          job,      \* job[w]: what worker w is doing
          steady    \* history: offers available ever since they were sent

vars == <<status, expired, stores, active, offers, notices, job, steady>>

Job == [step : {"idle", "failed", "list", "tell", "lock", "read", "count", "insert", "announce"},
        intent : Intents \cup {None}, ad : Ads \cup {None}, todo : SUBSET Dealers]
Idle == [step |-> "idle", intent |-> None, ad |-> None, todo |-> {}]
Failed == [Idle EXCEPT !.step = "failed"]   \* answered with 500
Free(w) == job[w].step \in {"idle", "failed"}

TypeOK ==
  /\ status \in [Intents -> {"none", "active", "closed"}]
  /\ expired \subseteq Intents /\ stores \subseteq Dealers /\ active \subseteq Ads
  /\ offers \subseteq Intents \X Ads /\ steady \subseteq offers
  /\ notices \subseteq [to : Dealers \cup {None}, intent : Intents, ad : Ads \cup {None}]
  /\ job \in [Workers -> Job]

Available(a) == a \in active /\ OwnerOf[a] \in stores

(* The places dealer d takes in intent i. *)
Places(i, d) == {a \in Ads : <<i, a>> \in offers /\ OwnerOf[a] = d /\ Available(a)}

Closed_AsShown == "expired"
Closed == "closed"

HasPlace_Ever(i, d) == Cardinality({a \in Ads : <<i, a>> \in offers /\ OwnerOf[a] = d}) < Limit
HasPlace(i, d) == Cardinality(Places(i, d)) < Limit

StillOpen_AsListed(i) == TRUE
StillOpen(i) == status[i] = "active"

Locking == {"read", "count", "insert"}
IsFree_Unlocked(i) == TRUE
IsFree(i) == \A w \in Workers : job[w].step \in Locking => job[w].intent # i

(***************************************************************************)
(* The buyer, and time.                                                    *)
(***************************************************************************)

Publish(w, i) ==
  /\ Free(w) /\ status[i] = "none"
  /\ status' = [status EXCEPT ![i] = "active"]
  /\ job' = [job EXCEPT ![w] = [Idle EXCEPT !.step = "list", !.intent = i]]
  /\ UNCHANGED <<expired, stores, active, offers, notices, steady>>

NoticeTo(d, i) == [to |-> d, intent |-> i, ad |-> None]
NoticeOf(i, a) == [to |-> None, intent |-> i, ad |-> a]

(* The stores to tell are read once, then told one by one; whatever fails  *)
(* is logged.                                                              *)
ListDealers(w) ==
  /\ job[w].step = "list"
  /\ job' = [job EXCEPT ![w] = IF stores = {} THEN Idle
                               ELSE [@ EXCEPT !.step = "tell", !.todo = stores]]
  /\ UNCHANGED <<status, expired, stores, active, offers, notices, steady>>

TellDealer(w) ==
  /\ job[w].step = "tell"
  /\ \E d \in job[w].todo :
       LET rest == job[w].todo \ {d}
       IN /\ notices' \in {notices, notices \cup {NoticeTo(d, job[w].intent)}}
          /\ job' = [job EXCEPT ![w] = IF rest = {} THEN Idle ELSE [@ EXCEPT !.todo = rest]]
  /\ UNCHANGED <<status, expired, stores, active, offers, steady>>

(* One UPDATE, which waits for the row. *)
Close(i) ==
  /\ status[i] = "active" /\ IsFree(i)
  /\ status' = [status EXCEPT ![i] = Closed]
  /\ UNCHANGED <<expired, stores, active, offers, notices, job, steady>>

Expire(i) ==
  /\ status[i] # "none" /\ i \notin expired
  /\ expired' = expired \cup {i}
  /\ UNCHANGED <<status, stores, active, offers, notices, job, steady>>

(***************************************************************************)
(* The stock: the owner's and the administrator's changes.                 *)
(***************************************************************************)

ChangeAd(a) ==
  /\ active' = IF a \in active THEN active \ {a} ELSE active \cup {a}
  /\ steady' = {o \in steady : o[2] # a}
  /\ UNCHANGED <<status, expired, stores, offers, notices, job>>

ChangeStore(d) ==
  /\ stores' = IF d \in stores THEN stores \ {d} ELSE stores \cup {d}
  /\ steady' = {o \in steady : OwnerOf[o[2]] # d}
  /\ UNCHANGED <<status, expired, active, offers, notices, job>>

(***************************************************************************)
(* sendVehicleToBuyer.                                                     *)
(***************************************************************************)

(* NOW() is the begin of the transaction: from here on it does not expire. *)
Ask(w, i, a) ==
  /\ Free(w) /\ OwnerOf[a] \in stores
  /\ status[i] # "none" /\ i \notin expired
  /\ job' = [job EXCEPT ![w] = [Idle EXCEPT !.step = "lock", !.intent = i, !.ad = a]]
  /\ UNCHANGED <<status, expired, stores, active, offers, notices, steady>>

Goto(w, step) == job' = [job EXCEPT ![w] = IF step = "idle" THEN Idle ELSE [@ EXCEPT !.step = step]]

(* SELECT ... AND status = 'active' FOR UPDATE *)
Lock(w) ==
  LET i == job[w].intent
  IN /\ job[w].step = "lock" /\ IsFree(i)
     /\ Goto(w, IF StillOpen(i) THEN "read" ELSE "idle")
     /\ UNCHANGED <<status, expired, stores, active, offers, notices, steady>>

(* The ad as it is now, an offer already there, and what they allow. *)
ReadAd(w) ==
  LET o == <<job[w].intent, job[w].ad>>
  IN /\ job[w].step = "read"
     /\ Goto(w, IF Available(o[2]) /\ o \notin offers /\ o \in Matches THEN "count" ELSE "idle")
     /\ UNCHANGED <<status, expired, stores, active, offers, notices, steady>>

CountPlaces_Announces(w) ==
  /\ job[w].step = "count"
  /\ Goto(w, IF HasPlace(job[w].intent, OwnerOf[job[w].ad]) THEN "insert" ELSE "idle")
  /\ notices' = notices \cup {NoticeOf(job[w].intent, job[w].ad)}
  /\ UNCHANGED <<status, expired, stores, active, offers, steady>>
CountPlaces(w) ==
  /\ job[w].step = "count"
  /\ Goto(w, IF HasPlace(job[w].intent, OwnerOf[job[w].ad]) THEN "insert" ELSE "idle")
  /\ UNCHANGED <<status, expired, stores, active, offers, notices, steady>>

(* INSERT ... ON CONFLICT DO NOTHING, then COMMIT. *)
Insert(w) ==
  LET o == <<job[w].intent, job[w].ad>>
  IN /\ job[w].step = "insert"
     /\ offers' = offers \cup {o}
     /\ steady' = IF o \notin offers /\ Available(o[2]) THEN steady \cup {o} ELSE steady
     /\ Goto(w, IF o \in offers THEN "idle" ELSE "announce")
     /\ UNCHANGED <<status, expired, stores, active, notices>>

Announce(w) ==
  /\ job[w].step = "announce"
  /\ notices' \in {notices, notices \cup {NoticeOf(job[w].intent, job[w].ad)}}
  /\ Goto(w, "idle")
  /\ UNCHANGED <<status, expired, stores, active, offers, steady>>

(* A lost connection or an exception; an open transaction rolls back. *)
Fail(w) ==
  /\ ~Free(w)
  /\ job' = [job EXCEPT ![w] = Failed]
  /\ UNCHANGED <<status, expired, stores, active, offers, notices, steady>>

Init ==
  /\ status = [i \in Intents |-> "none"]
  /\ expired = {} /\ stores = Dealers /\ active = Ads
  /\ offers = {} /\ notices = {} /\ steady = {}
  /\ job = [w \in Workers |-> Idle]

Step(w) ==
  ListDealers(w) \/ TellDealer(w) \/ ReadAd(w) \/ CountPlaces(w) \/ Insert(w) \/ Announce(w)
Next ==
  \/ \E i \in Intents : Close(i) \/ Expire(i)
  \/ \E a \in Ads : ChangeAd(a)
  \/ \E d \in Dealers : ChangeStore(d)
  \/ \E w \in Workers :
       \/ \E i \in Intents : Publish(w, i)
       \/ \E i \in Intents, a \in Ads : Ask(w, i, a)
       \/ Lock(w) \/ Step(w) \/ Fail(w)

Spec == Init /\ [][Next]_vars

(* A dealer tries again what did not succeed; the server goes on with what *)
(* it began; after some moment no request fails any more.                  *)
Fairness ==
  /\ \A i \in Intents, a \in Ads :
       SF_vars(<<i, a>> \notin offers /\ \E w \in Workers : Ask(w, i, a))
  /\ \A w \in Workers : SF_vars(Lock(w)) /\ WF_vars(Step(w))
  /\ <>[][\A w \in Workers : ~Fail(w)]_vars
FairSpec == Spec /\ Fairness

(***************************************************************************)
(* Properties.                                                             *)
(***************************************************************************)

(* The offers of a dealer that have been available all along never exceed  *)
(* the limit, whatever is sent at once and however ads and stores leave    *)
(* and return meanwhile.                                                   *)
SteadyOf(i, d) == {a \in Ads : <<i, a>> \in steady /\ OwnerOf[a] = d}
SteadyWithinLimit == \A i \in Intents, d \in Dealers : Cardinality(SteadyOf(i, d)) <= Limit

(* The buyer who has closed an intent receives nothing more for it, not    *)
(* even what a store had begun to send.                                    *)
ClosedReceivesNothing == [][\A o \in offers' \ offers : status[o[1]] = "active"]_vars

(* The buyer is only told of offers he can find; a dealer, of an intent.   *)
NoticesAreTrue ==
  \A n \in notices : IF n.ad = None THEN status[n.intent] # "none"
                     ELSE <<n.intent, n.ad>> \in offers

(* A dealer with a fitting ad and a place left gets it to the buyer, if he *)
(* keeps trying and the intent stays open.                                 *)
CanBeSent(i, a) ==
  /\ status[i] = "active" /\ i \notin expired /\ Available(a) /\ <<i, a>> \in Matches
  /\ Cardinality(Places(i, OwnerOf[a])) < Limit
PersistenceIsRewarded ==
  \A i \in Intents, a \in Ads : <>[]CanBeSent(i, a) => <>(<<i, a>> \in offers)

(* Places taken stay within the limit.  VIOLATED: an ad that was paused    *)
(* gives its place to another one and takes it again when it returns.      *)
(* Holds as long as nothing that left comes back.                          *)
PlacesWithinLimit == \A i \in Intents, d \in Dealers : Cardinality(Places(i, d)) <= Limit
===============================================================================
