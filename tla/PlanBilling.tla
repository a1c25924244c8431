------------------------------ MODULE PlanBilling ------------------------------
(***************************************************************************)
(* What ONE user pays for and which plan the user has: payment_intents,    *)
(* payments, user_subscriptions, subscription_reconciliation and           *)
(* users.plan_id, written by the webhooks of Mercado Pago (single payments *)
(* and monthly charges, by two topics), by the plans an administrator      *)
(* grants, and by the sweep that ends those grants.                        *)
(*                                                                         *)
(* A webhook carries an id only.  The server asks Mercado Pago for the     *)
(* status, then opens a transaction: the status it applies can be old, and *)
(* a delivery can be repeated at any time.  A transaction has two steps.   *)
(* Begin takes the lock of the intent and the snapshot in which an UPDATE  *)
(* or a SELECT looks for the OTHER subscriptions of the user; Commit       *)
(* writes, on the rows as they are then, as READ COMMITTED does.  Rows are *)
(* never deleted and subs only grows, so a snapshot is a prefix of it.     *)
(*                                                                         *)
(* Dates are abstracted to "over" (expires_at has passed) and to months    *)
(* (how often current_period_end was extended).                            *)
(***************************************************************************)
EXTENDS Integers, Sequences, FiniteSets

CONSTANTS OneTime, Recurring,  \* the payment intents of context 'plan'
          Charges, IntentOf,   \* payments at Mercado Pago; the intent of each
          PlanOf,              \* the plan of an intent
          MayLackAmount,       \* charges that may lack the amount the code expects
          Topics,              \* the topics that announce a monthly charge
          GrantPlans,          \* plans an administrator grants
          FreePlan,
          Workers,             \* requests served at a time
          MaxRows,             \* bound on user_subscriptions
          None

Intents == OneTime \cup Recurring

ASSUME IntentsApart == OneTime \cap Recurring = {} /\ None \notin Intents \cup Charges
ASSUME ChargesTyped == /\ IntentOf \in [Charges -> Intents] /\ MayLackAmount \subseteq Charges
                       /\ Charges \cap Intents = {}
ASSUME PlansTyped == FreePlan \notin GrantPlans /\ \A i \in Intents : PlanOf[i] # FreePlan
ASSUME TopicsTyped == Topics \subseteq {"payment", "authorized_payment"}
ASSUME FiniteInstance == IsFiniteSet(Charges) /\ MaxRows \in Nat

VARIABLES faulty,  \* the charges without the amount the code expects
          mp,      \* mp[c]: the status of charge c at Mercado Pago
          intent,  \* intent[i]: payment_intents.status, "none" before the checkout
          ledger,  \* ledger[id]: payments.status by mercado_pago_id, or "none"
          recon,   \* the ids in subscription_reconciliation
          subs,    \* user_subscriptions, oldest first
          plan,    \* users.plan_id
          job      \* job[w]: what worker w is doing

vars == <<faulty, mp, intent, ledger, recon, subs, plan, job>>

Plans == {FreePlan} \cup GrantPlans \cup {PlanOf[i] : i \in Intents}
Ids == Charges \X {"payment", "authorized_payment"}
Row == [source : {"one_time", "recurring", "admin_grant"},
        key : Charges \cup Recurring \cup {None},  \* payment_id or provider_preapproval_id
        plan : Plans,
        status : {"active", "pending", "canceled", "expired"},
        over : BOOLEAN,
        months : Nat]
Job == [op : {"none", "failed", "payment", "authorized_payment", "grant"},
        of : Charges \cup GrantPlans \cup {None},
        status : {"none", "approved", "pending", "rejected", "canceled"},
        step : {"idle", "fetched", "open"},
        seen : Seq(Row)]
Idle == [op |-> "none", of |-> None, status |-> "none", step |-> "idle", seen |-> <<>>]
Failed == [Idle EXCEPT !.op = "failed"]   \* answered with an error

TypeOK ==
  /\ faulty \subseteq MayLackAmount
  /\ mp \in [Charges -> {"pending", "authorized", "approved", "rejected", "cancelled", "refunded"}]
  /\ intent \in [Intents -> {"none", "pending", "approved", "rejected", "canceled"}]
  /\ ledger \in [Ids -> {"none", "pending", "approved", "rejected", "canceled"}]
  /\ recon \subseteq Ids
  /\ subs \in Seq(Row)
  /\ plan \in Plans
  /\ job \in [Workers -> Job]

(***************************************************************************)
(* Reads.                                                                  *)
(***************************************************************************)

Live(r) == r.status \in {"active", "pending"} /\ ~r.over
IsPaid(r) == r.source # "admin_grant"
LivePaid(rows) == {n \in DOMAIN rows : Live(rows[n]) /\ IsPaid(rows[n])}

(* What the branch 'canceled' of the webhook asks: is any OTHER row active? *)
OtherActive_Never(rows, c) == FALSE
OtherActive(rows, c) ==
  \E n \in DOMAIN rows : rows[n].key # c /\ rows[n].status = "active" /\ ~rows[n].over

(* The plan to return to when a grant ends: of the latest live paid row. *)
PlanToRevertTo(rows) ==
  IF LivePaid(rows) = {} THEN FreePlan
  ELSE rows[CHOOSE n \in LivePaid(rows) : \A k \in LivePaid(rows) : k <= n].plan

Normalize_Authorized(s) ==
  CASE s \in {"approved", "authorized"} -> "approved"
    [] s \in {"pending", "refunded"} -> "pending"
    [] s = "rejected" -> "rejected"
    [] s = "cancelled" -> "canceled"
Normalize(s) ==
  CASE s = "approved" -> "approved"
    [] s \in {"authorized", "pending", "refunded"} -> "pending"
    [] s = "rejected" -> "rejected"
    [] s = "cancelled" -> "canceled"

SubscriptionStatus_Raw(s) == IF s = "approved" THEN "active" ELSE s
SubscriptionStatus(s) ==
  CASE s = "approved" -> "active" [] s = "pending" -> "pending" [] OTHER -> "canceled"

(***************************************************************************)
(* Writes to user_subscriptions.                                           *)
(***************************************************************************)

End(rows, ended) ==
  [n \in DOMAIN rows |-> IF n \in ended THEN [rows[n] EXCEPT !.status = "canceled", !.over = TRUE]
                         ELSE rows[n]]

(* The row of a key is replaced when it exists and inserted when not. *)
WithKey(k) == {n \in DOMAIN subs : subs[n].key = k}
Upsert(rows, row) ==
  IF WithKey(row.key) = {} THEN Append(rows, row)
  ELSE [n \in DOMAIN rows |-> IF n \in WithKey(row.key) THEN row ELSE rows[n]]

(* A single payment: when approved it ends the other rows of the snapshot. *)
OneTimeRows(c, s, seen) ==
  LET own == [source |-> "one_time", key |-> c, plan |-> PlanOf[IntentOf[c]],
              status |-> s, over |-> FALSE, months |-> 0]
      endedByIt == {n \in DOMAIN seen \ WithKey(c) :
                      s = "active" /\ subs[n].status \in {"active", "pending"}}
  IN Upsert(End(subs, endedByIt), own)

(* A monthly charge: one more month on the row of its preapproval, whose   *)
(* expires_at stays as it is, and the live grants end.                     *)
RecurringRows(i) ==
  LET first == [source |-> "recurring", key |-> i, plan |-> PlanOf[i],
                status |-> "active", over |-> FALSE, months |-> 1]
      own == IF WithKey(i) = {} THEN first
             ELSE [subs[CHOOSE n \in WithKey(i) : TRUE] EXCEPT !.status = "active", !.months = @ + 1]
      liveGrants == {n \in DOMAIN subs : /\ ~IsPaid(subs[n])
                                        /\ subs[n].status \in {"active", "pending"}}
  IN Upsert(End(subs, liveGrants), own)

(***************************************************************************)
(* Mercado Pago, the checkout and the clock.                               *)
(***************************************************************************)

Checkout(i) ==
  /\ intent[i] = "none"
  /\ i \in Recurring => LivePaid(subs) = {}
  /\ intent' = [intent EXCEPT ![i] = "pending"]
  /\ UNCHANGED <<faulty, mp, ledger, recon, subs, plan, job>>

MercadoPago(c) ==
  /\ intent[IntentOf[c]] # "none"
  /\ \E s \in CASE mp[c] = "pending" -> {"authorized", "approved", "rejected", "cancelled"}
                [] mp[c] = "authorized" -> {"approved", "cancelled"}
                [] mp[c] = "approved" -> {"refunded"}
                [] OTHER -> {} :
       mp' = [mp EXCEPT ![c] = s]
  /\ UNCHANGED <<faulty, intent, ledger, recon, subs, plan, job>>

(* expires_at passes; a monthly row has none. *)
Lapse(n) ==
  /\ subs[n].source # "recurring" /\ subs[n].status = "active" /\ ~subs[n].over
  /\ subs' = [subs EXCEPT ![n].over = TRUE]
  /\ UNCHANGED <<faulty, mp, intent, ledger, recon, plan, job>>

(***************************************************************************)
(* Webhooks.                                                               *)
(***************************************************************************)

TopicsOf(c) == IF IntentOf[c] \in OneTime THEN {"payment"} ELSE Topics

(* The answers that end without a transaction: a single payment approved   *)
(* with another amount, a monthly charge of the second topic not approved. *)
WorthApplying_Unseen(c, t) ==
  ledger[<<c, t>>] = "none" /\ (t = "authorized_payment" => mp[c] = "approved")
WorthApplying(c, t) ==
  IF t = "payment" THEN ~(IntentOf[c] \in OneTime /\ Normalize(mp[c]) = "approved" /\ c \in faulty)
  ELSE mp[c] = "approved"

Fetch(w, c, t) ==
  /\ job[w].step = "idle"
  /\ intent[IntentOf[c]] # "none"
  /\ t \in TopicsOf(c)
  /\ WorthApplying(c, t)
  /\ job' = [job EXCEPT ![w] = [op |-> t, of |-> c, status |-> Normalize(mp[c]),
                                step |-> "fetched", seen |-> <<>>]]
  /\ UNCHANGED <<faulty, mp, intent, ledger, recon, subs, plan>>

(* SELECT ... FROM payment_intents FOR UPDATE: only the topic "payment". *)
IntentIsFree(w) ==
  job[w].op = "payment" =>
    \A v \in Workers : /\ job[v].step = "open"
                       /\ job[v].op = "payment"
                       => IntentOf[job[v].of] # IntentOf[job[w].of]

Stale_Never(w) == FALSE
Stale(w) ==
  /\ job[w].op = "payment"
  /\ intent[IntentOf[job[w].of]] = "approved"
  /\ job[w].status # "approved"

Begin(w) ==
  /\ job[w].step = "fetched"
  /\ IntentIsFree(w)
  /\ job' = IF Stale(w) THEN [job EXCEPT ![w] = Idle]
            ELSE [job EXCEPT ![w].step = "open", ![w].seen = subs]
  /\ UNCHANGED <<faulty, mp, intent, ledger, recon, subs, plan>>

(* INSERT ... ON CONFLICT (mercado_pago_id) DO NOTHING RETURNING id *)
IsNewPayment_Always(id) == TRUE
IsNewPayment(id) == ledger[id] = "none"

(* An approved charge without its amount: a row for reconciliation. *)
Reconciled_Dropped(id) == recon
Reconciled(id) == recon \cup {id}

(* recordPaymentAndActivate, and recordUnresolvedApprovedPayment. *)
RecordAndActivate(id) ==
  \/ /\ id[1] \in faulty
     /\ recon' = Reconciled(id)
     /\ UNCHANGED <<ledger, subs, plan>>
  \/ /\ id[1] \notin faulty
     /\ ~IsNewPayment(id)
     /\ UNCHANGED <<ledger, recon, subs, plan>>
  \/ /\ id[1] \notin faulty
     /\ IsNewPayment(id)
     /\ ledger' = [ledger EXCEPT ![id] = "approved"]
     /\ subs' = RecurringRows(IntentOf[id[1]])
     /\ plan' = PlanOf[IntentOf[id[1]]]
     /\ UNCHANGED recon

(* A single payment of a plan, applied again whenever it is delivered. *)
ApplyOneTime(c, status, seen) ==
  LET s == SubscriptionStatus(status)
  IN /\ ledger' = [ledger EXCEPT ![<<c, "payment">>] = status]
     /\ subs' = OneTimeRows(c, s, seen)
     /\ plan' = CASE s = "active" -> PlanOf[IntentOf[c]]
                  [] s = "canceled" /\ ~OtherActive(seen, c) -> FreePlan
                  [] OTHER -> plan
     /\ UNCHANGED recon

CommitPayment(w) ==
  LET c == job[w].of
      i == IntentOf[c]
  IN /\ job[w].step = "open" /\ job[w].op = "payment"
     /\ intent' = [intent EXCEPT ![i] = job[w].status]
     /\ \/ i \in OneTime /\ ApplyOneTime(c, job[w].status, job[w].seen)
        \/ i \in Recurring /\ job[w].status = "approved" /\ RecordAndActivate(<<c, "payment">>)
        \/ i \in Recurring /\ job[w].status # "approved" /\ UNCHANGED <<ledger, recon, subs, plan>>
     /\ Len(subs') <= MaxRows
     /\ job' = [job EXCEPT ![w] = Idle]
     /\ UNCHANGED <<faulty, mp>>

(* The second topic writes under another id and does not touch the intent. *)
CommitAuthorizedPayment(w) ==
  /\ job[w].step = "open" /\ job[w].op = "authorized_payment"
  /\ RecordAndActivate(<<job[w].of, "authorized_payment">>)
  /\ Len(subs') <= MaxRows
  /\ job' = [job EXCEPT ![w] = Idle]
  /\ UNCHANGED <<faulty, mp, intent>>

(* An exception or a lost connection: the transaction rolls back. *)
Fail(w) ==
  /\ job[w].step # "idle"
  /\ job' = [job EXCEPT ![w] = Failed]
  /\ UNCHANGED <<faulty, mp, intent, ledger, recon, subs, plan>>

(***************************************************************************)
(* Plans granted by an administrator.  The check of grantAdvertiserPlan is *)
(* a query of its own, before the transaction of createGrant; the sweep it *)
(* starts with swallows its errors, so it is the separate step             *)
(* ExpireDueGrants.                                                        *)
(***************************************************************************)

CheckGrant(w, p) ==
  /\ job[w].step = "idle"
  /\ LivePaid(subs) = {}
  /\ job' = [job EXCEPT ![w] = [op |-> "grant", of |-> p, status |-> "none",
                                step |-> "fetched", seen |-> <<>>]]
  /\ UNCHANGED <<faulty, mp, intent, ledger, recon, subs, plan>>

CommitGrant(w) ==
  LET p == job[w].of
      replaced == {n \in DOMAIN job[w].seen : /\ ~IsPaid(subs[n])
                                              /\ subs[n].status \in {"active", "pending"}}
  IN /\ job[w].step = "open" /\ job[w].op = "grant"
     /\ Len(subs) < MaxRows
     /\ subs' = Append(End(subs, replaced),
                       [source |-> "admin_grant", key |-> None, plan |-> p,
                        status |-> "active", over |-> FALSE, months |-> 0])
     /\ plan' = p
     /\ job' = [job EXCEPT ![w] = Idle]
     /\ UNCHANGED <<faulty, mp, intent, ledger, recon>>

(* These two lock the grants before they read the paid rows, and whoever   *)
(* activates a paid row must lock the same grants: they are one step.      *)
RevokeGrant ==
  LET activeGrants == {n \in DOMAIN subs : ~IsPaid(subs[n]) /\ subs[n].status = "active"}
  IN /\ activeGrants # {}
     /\ subs' = End(subs, activeGrants)
     /\ plan' = PlanToRevertTo(subs)
     /\ UNCHANGED <<faulty, mp, intent, ledger, recon, job>>

ExpireDueGrants ==
  LET due == {n \in DOMAIN subs : ~IsPaid(subs[n]) /\ subs[n].status = "active" /\ subs[n].over}
  IN /\ due # {}
     /\ subs' = [n \in DOMAIN subs |-> IF n \in due THEN [subs[n] EXCEPT !.status = "expired"]
                                       ELSE subs[n]]
     /\ plan' = IF plan \in {subs[n].plan : n \in due} THEN PlanToRevertTo(subs) ELSE plan
     /\ UNCHANGED <<faulty, mp, intent, ledger, recon, job>>

(***************************************************************************)

Init ==
  /\ faulty \in SUBSET MayLackAmount
  /\ mp = [c \in Charges |-> "pending"]
  /\ intent = [i \in Intents |-> "none"]
  /\ ledger = [id \in Ids |-> "none"]
  /\ recon = {}
  /\ subs = <<>>
  /\ plan = FreePlan
  /\ job = [w \in Workers |-> Idle]

Next ==
  \/ \E i \in Intents : Checkout(i)
  \/ \E c \in Charges : MercadoPago(c)
  \/ \E n \in DOMAIN subs : Lapse(n)
  \/ \E w \in Workers : \/ \E c \in Charges : \E t \in TopicsOf(c) : Fetch(w, c, t)
                        \/ Begin(w)
                        \/ CommitPayment(w)
                        \/ CommitAuthorizedPayment(w)
                        \/ Fail(w)
                        \/ \E p \in GrantPlans : CheckGrant(w, p)
                        \/ CommitGrant(w)
  \/ RevokeGrant
  \/ ExpireDueGrants

Spec == Init /\ [][Next]_vars
(* Mercado Pago repeats a notification until it is answered, so an         *)
(* approved charge is asked about again and again; a server goes on with   *)
(* what it began, PostgreSQL serves the waiters of a row in turn, and      *)
(* after some moment no attempt fails any more.                            *)
Fairness ==
  /\ \A c \in Charges :
       SF_vars(mp[c] = "approved" /\ \E w \in Workers : \E t \in TopicsOf(c) : Fetch(w, c, t))
  /\ \A w \in Workers : /\ SF_vars(Begin(w))
                         /\ WF_vars(CommitPayment(w) \/ CommitAuthorizedPayment(w))
  /\ <>[][\A w \in Workers : ~Fail(w)]_vars

FairSpec == Spec /\ Fairness

(***************************************************************************)
(* Conditions on overlapping requests.  One request at a time satisfies    *)
(* the first; nothing in the code enforces either.                         *)
(***************************************************************************)

InForce(r) == r.status = "active" /\ ~r.over

(* w has looked at the rows, and what it will write rests on what it saw.  *)
HasLooked(w) ==
  \/ job[w].op = "grant"
  \/ /\ job[w].op = "payment" /\ job[w].step = "open"
     /\ IntentOf[job[w].of] \in OneTime /\ job[w].status # "pending"

(* Until it writes, nobody else brings a subscription into force.          *)
ActivationsApart ==
  \A w \in Workers : HasLooked(w) /\ job'[w] = job[w] =>
    \A n \in DOMAIN subs' : InForce(subs'[n]) => n \in DOMAIN subs /\ InForce(subs[n])

(* No monthly charge has revived a row that was ended: the renewal of such *)
(* a row leaves its expires_at in the past.                                *)
NoRevival == \A n \in DOMAIN subs : subs[n].source = "recurring" /\ subs[n].status = "active" => ~subs[n].over

(***************************************************************************)
(* Properties.                                                             *)
(***************************************************************************)

Recorded(c) == \E t \in TopicsOf(c) : ledger[<<c, t>>] = "approved" \/ <<c, t>> \in recon

(* However late, repeated or out of order the notifications arrive, an     *)
(* approved intent and an approved payment never go back.                  *)
ApprovedIsFinal ==
  [][/\ \A i \in Intents : intent[i] = "approved" => intent'[i] = "approved"
     /\ \A id \in Ids : ledger[id] = "approved" => ledger'[id] = "approved"]_vars

(* Every month of a subscription was charged under an id of its own:       *)
(* repeated and racing deliveries of one id extend the period once.        *)
PeriodsAreCharged ==
  \A n \in DOMAIN subs : subs[n].source = "recurring" =>
    subs[n].months = Cardinality({id \in Ids : ledger[id] = "approved"
                                              /\ IntentOf[id[1]] = subs[n].key})

(* An intent is approved only together with its effect: the payment or a   *)
(* row for reconciliation and, for a single payment, its subscription.     *)
ApprovedIsAccounted ==
  \A i \in Intents : intent[i] = "approved" =>
    \E c \in Charges : /\ IntentOf[c] = i
                       /\ Recorded(c)
                       /\ i \in OneTime => \E n \in DOMAIN subs : subs[n].key = c

(* A user with a paid subscription in force has the plan of a subscription *)
(* in force.  Holds under ActivationsApart and NoRevival; without the      *)
(* first VIOLATED: the rejection of one payment looks for active rows,     *)
(* another payment is activated, and the rejection sets the free plan.     *)
PlanOfALiveRow ==
  (\E n \in DOMAIN subs : Live(subs[n]) /\ IsPaid(subs[n]) /\ subs[n].status = "active")
    => \E n \in DOMAIN subs : Live(subs[n]) /\ subs[n].plan = plan

(* A paid plan was paid for or granted.  Holds without grants; with them   *)
(* VIOLATED: the end of a grant falls back on a row that is still pending. *)
PlanIsPaidOrGranted ==
  \/ plan = FreePlan
  \/ \E c \in Charges : PlanOf[IntentOf[c]] = plan /\ mp[c] \in {"approved", "refunded"}
  \/ \E n \in DOMAIN subs : ~IsPaid(subs[n]) /\ subs[n].plan = plan

(* A charge approved for good, and of the right amount, is recorded.       *)
EveryChargeIsRecorded ==
  \A c \in Charges :
    (mp[c] = "approved" /\ ~(c \in faulty /\ IntentOf[c] \in OneTime))
      ~> (Recorded(c) \/ mp[c] # "approved")

(* "NAO sobrescreve assinatura paga ativa sem acao explicita."  VIOLATED:  *)
(* the check precedes the transaction of createGrant.  Holds under         *)
(* ActivationsApart.                                                       *)
GrantKeepsPaidPlan ==
  [][\A w \in Workers :
       CommitGrant(w) => ~\E n \in LivePaid(subs) : subs[n].status = "active"]_vars

(* "Reprocesso do MP nao estende periodo."  VIOLATED when a charge is      *)
(* announced by both topics: the two ids of one charge count twice.        *)
(* Holds as long as no charge is recorded under both.                      *)
OneMonthPerCharge ==
  \A n \in DOMAIN subs :
    subs[n].months <= Cardinality({c \in Charges : /\ IntentOf[c] = subs[n].key
                                                  /\ mp[c] \in {"approved", "refunded"}})

(* A repeated webhook is harmless.  VIOLATED for single payments: it is    *)
(* applied again, renews the row and ends the subscriptions bought since.  *)
RepetitionIsHarmless ==
  [][\A w \in Workers :
       CommitPayment(w) /\ ledger[<<job[w].of, "payment">>] = "approved"
         => UNCHANGED <<subs, plan>>]_vars
================================================================================
