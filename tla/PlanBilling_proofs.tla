--------------------------- MODULE PlanBilling_proofs ---------------------------
(***************************************************************************)
(* Proofs about PlanBilling for any intents, charges, plans and number of  *)
(* requests at a time.                                                     *)
(*                                                                         *)
(* Invariants, each on top of the one before.  TInv: types.  DInv: a       *)
(* transaction of the topic "payment" has the row of its intent alone, so  *)
(* that a status found not to be stale is not stale when it commits, and   *)
(* what payments says of a single id agrees with the intent.  RInv: every  *)
(* key has one row of user_subscriptions, which a step may extend or end   *)
(* but never removes, and months are charges.                              *)
(* AInv, under the conditions on overlapping requests: the plan of a user  *)
(* who pays rests on a row in force that never lapses or is the only one,  *)
(* and what a request saw still covers the rows that are active.           *)
(* CInv: what is in payments was announced by a topic and approved, and    *)
(* only monthly rows have months, which relates months to charges.         *)
(***************************************************************************)
EXTENDS PlanBilling, TLAPS, SequenceTheorems, WellFoundedInduction, FiniteSetTheorems

(***************************************************************************)
(* Rows.                                                                   *)
(***************************************************************************)

(* A set of positions that is not empty has a last one.                    *)
LEMMA HighestRow ==
  ASSUME NEW k \in Nat, NEW S \in SUBSET (1..k), S # {}
  PROVE  \E n \in S : \A m \in S : m <= n
  <1> DEFINE less == OpToRel(<, Nat)
             gap == {k - n : n \in S}
  <1>0. PICK n0 \in S : TRUE
    OBVIOUS
  <1>1. gap \subseteq Nat /\ k - n0 \in gap
    BY <1>0
  <1> HIDE DEF gap
  <1>2. PICK x \in gap : \A y \in gap : ~(<<y, x>> \in less)
    BY <1>1, NatLessThanWellFounded, WFMin, Zenon
  <1>3. \A y \in gap : ~(y < x)
    BY <1>1, <1>2, Zenon DEF OpToRel
  <1>4. PICK n \in S : x = k - n
    BY <1>2 DEF gap
  <1>5. ASSUME NEW m \in S PROVE m <= n
    <2>1. k - m \in gap
      BY DEF gap
    <2>2. ~(k - m < x)
      BY <2>1, <1>3
    <2> QED BY <1>4, <2>2
  <1> QED BY <1>5

(* Ending rows changes neither which rows there are nor what they are of.  *)
LEMMA EndRows ==
  ASSUME NEW rows \in Seq(Row), NEW ended
  PROVE  /\ End(rows, ended) \in Seq(Row)
         /\ DOMAIN End(rows, ended) = DOMAIN rows
         /\ \A n \in DOMAIN rows : LET r == End(rows, ended)[n] IN
              /\ r.source = rows[n].source /\ r.key = rows[n].key
              /\ r.plan = rows[n].plan /\ r.months = rows[n].months
  <1>1. \A n \in DOMAIN rows : rows[n] \in Row
    OBVIOUS
  <1>2. \A n \in DOMAIN rows : /\ [rows[n] EXCEPT !.status = "canceled", !.over = TRUE] \in Row
                               /\ LET r == End(rows, ended)[n] IN
                                    /\ r.source = rows[n].source /\ r.key = rows[n].key
                                    /\ r.plan = rows[n].plan /\ r.months = rows[n].months
    BY <1>1 DEF Row, End
  <1>3. \A n \in DOMAIN rows : End(rows, ended)[n] \in Row
    BY <1>1, <1>2 DEF End
  <1>4. DOMAIN End(rows, ended) = DOMAIN rows
    BY DEF End
  <1>5. PICK k \in Nat : DOMAIN rows = 1..k
    OBVIOUS
  <1>6. End(rows, ended) \in [1..k -> Row]
    BY <1>3, <1>5 DEF End
  <1> QED BY <1>2, <1>4, <1>6, SeqDef

(* An upsert replaces the rows of the key or appends one.                  *)
LEMMA UpsertRows ==
  ASSUME TypeOK, NEW rows \in Seq(Row), DOMAIN rows = DOMAIN subs, NEW row \in Row
  PROVE  /\ Upsert(rows, row) \in Seq(Row)
         /\ \A n \in DOMAIN rows : /\ n \in DOMAIN Upsert(rows, row)
                                   /\ n \notin WithKey(row.key) => Upsert(rows, row)[n] = rows[n]
                                   /\ n \in WithKey(row.key) => Upsert(rows, row)[n] = row
         /\ WithKey(row.key) # {} => DOMAIN Upsert(rows, row) = DOMAIN rows
         /\ WithKey(row.key) = {} => /\ DOMAIN Upsert(rows, row) = 1 .. Len(rows) + 1
                                     /\ Upsert(rows, row)[Len(rows) + 1] = row
  <1>1. CASE WithKey(row.key) = {}
    BY <1>1 DEF Upsert
  <1>2. CASE WithKey(row.key) # {}
    <2>1. PICK k \in Nat : DOMAIN rows = 1..k
      OBVIOUS
    <2>2. \A n \in DOMAIN rows : rows[n] \in Row
      OBVIOUS
    <2>3. Upsert(rows, row) = [n \in 1..k |-> IF n \in WithKey(row.key) THEN row ELSE rows[n]]
      BY <1>2, <2>1 DEF Upsert
    <2>4. Upsert(rows, row) \in [1..k -> Row]
      BY <2>1, <2>2, <2>3
    <2>5. Upsert(rows, row) \in Seq(Row)
      BY <2>4, SeqDef
    <2> QED BY <1>2, <2>1, <2>3, <2>5
  <1> QED BY <1>1, <1>2

(***************************************************************************)
(* Types.                                                                  *)
(***************************************************************************)

PaymentStatuses == {"approved", "pending", "rejected", "canceled"}

JobsAreWhole ==
  \A w \in Workers :
    /\ job[w].op \in {"payment", "authorized_payment"} =>
         /\ job[w].of \in Charges /\ job[w].op \in TopicsOf(job[w].of)
         /\ job[w].status \in PaymentStatuses
    /\ job[w].op = "grant" => job[w].of \in GrantPlans

TInv == TypeOK /\ JobsAreWhole

LEMMA InitTypes == Init => TInv
  <1> SUFFICES ASSUME Init PROVE TInv
    OBVIOUS
  <1>1. Idle \in Job
    BY DEF Idle, Job
  <1>2. subs \in Seq(Row) /\ plan \in Plans
    BY DEF Init, Plans
  <1> QED BY <1>1, <1>2 DEF Init, TInv, TypeOK, JobsAreWhole, Idle

LEMMA TopicTypes ==
  ASSUME NEW c \in Charges, NEW t \in TopicsOf(c)
  PROVE  /\ t \in {"payment", "authorized_payment"} /\ <<c, t>> \in Ids
         /\ IntentOf[c] \in Intents
         /\ t = "authorized_payment" => IntentOf[c] \in Recurring
  BY TopicsTyped, ChargesTyped DEF TopicsOf, Ids, Intents

LEMMA PlanTypes ==
  /\ FreePlan \in Plans /\ GrantPlans \subseteq Plans
  /\ \A i \in Intents : PlanOf[i] \in Plans
  BY DEF Plans

(* The plan a user returns to is that of a row, or free.                   *)
LEMMA RevertTypes ==
  ASSUME TypeOK
  PROVE  PlanToRevertTo(subs) \in Plans
  <1>1. CASE LivePaid(subs) = {}
    BY <1>1, PlanTypes DEF PlanToRevertTo
  <1>2. CASE LivePaid(subs) # {}
    <2>1. PICK k \in Nat : DOMAIN subs = 1..k
      BY DEF TypeOK
    <2>2. LivePaid(subs) \in SUBSET (1..k)
      BY <2>1 DEF LivePaid
    <2>3. \E n \in LivePaid(subs) : \A m \in LivePaid(subs) : m <= n
      BY <1>2, <2>2, HighestRow
    <2> DEFINE last == CHOOSE n \in LivePaid(subs) : \A m \in LivePaid(subs) : m <= n
    <2>4. last \in LivePaid(subs)
      BY <2>3
    <2>5. subs[last] \in Row
      BY <2>1, <2>2, <2>4 DEF TypeOK
    <2>6. PlanToRevertTo(subs) = subs[last].plan
      BY <1>2 DEF PlanToRevertTo
    <2> QED BY <2>5, <2>6 DEF Row
  <1> QED BY <1>1, <1>2

(* What each branch of a webhook writes is typed.                          *)
LEMMA OneTimeTypes ==
  ASSUME TypeOK, NEW c \in Charges, NEW status \in PaymentStatuses, NEW seen \in Seq(Row),
         ApplyOneTime(c, status, seen)
  PROVE  /\ ledger' \in [Ids -> {"none", "pending", "approved", "rejected", "canceled"}]
         /\ recon' = recon /\ subs' \in Seq(Row) /\ plan' \in Plans
  <1> DEFINE s == SubscriptionStatus(status)
             own == [source |-> "one_time", key |-> c, plan |-> PlanOf[IntentOf[c]],
                     status |-> s, over |-> FALSE, months |-> 0]
             endedByIt == {n \in DOMAIN seen \ WithKey(c) :
                             s = "active" /\ subs[n].status \in {"active", "pending"}}
  <1>1. s \in {"active", "pending", "canceled"}
    BY DEF PaymentStatuses, SubscriptionStatus
  <1>2. PlanOf[IntentOf[c]] \in Plans
    BY PlanTypes, ChargesTyped
  <1>3. own \in Row
    BY <1>1, <1>2 DEF Row
  <1>4. subs \in Seq(Row)
    BY DEF TypeOK
  <1>5. subs' = Upsert(End(subs, endedByIt), own)
    BY DEF ApplyOneTime, OneTimeRows
  <1> HIDE DEF endedByIt, own, s
  <1>6. subs' \in Seq(Row)
    BY <1>3, <1>4, <1>5, EndRows, UpsertRows
  <1>7. plan' \in Plans
    BY <1>2, PlanTypes DEF ApplyOneTime, TypeOK
  <1>8. ledger' = [ledger EXCEPT ![<<c, "payment">>] = status] /\ recon' = recon
    BY DEF ApplyOneTime
  <1> QED BY <1>6, <1>7, <1>8 DEF TypeOK, PaymentStatuses

LEMMA RecurringRowTypes ==
  ASSUME TypeOK, NEW i \in Recurring
  PROVE  RecurringRows(i) \in Seq(Row)
  <1> DEFINE first == [source |-> "recurring", key |-> i, plan |-> PlanOf[i],
                       status |-> "active", over |-> FALSE, months |-> 1]
             row == CHOOSE n \in WithKey(i) : TRUE
             own == IF WithKey(i) = {} THEN first
                    ELSE [subs[row] EXCEPT !.status = "active", !.months = @ + 1]
             liveGrants == {n \in DOMAIN subs : /\ ~IsPaid(subs[n])
                                               /\ subs[n].status \in {"active", "pending"}}
  <1>1. subs \in Seq(Row)
    BY DEF TypeOK
  <1>2. first \in Row
    BY PlanTypes DEF Row, Intents
  <1>3. ASSUME WithKey(i) # {} PROVE subs[row] \in Row
    <2>1. row \in WithKey(i)
      BY <1>3
    <2> QED BY <1>1, <2>1 DEF WithKey
  <1>4. \A r \in Row : [r EXCEPT !.status = "active", !.months = @ + 1] \in Row
    <2>1. \A r \in Row, m \in Nat : [r EXCEPT !.status = "active", !.months = m] \in Row
      BY DEF Row
    <2>2. \A r \in Row : r.months + 1 \in Nat
      BY DEF Row
    <2> QED BY <2>1, <2>2
  <1>5. own \in Row
    BY <1>2, <1>3, <1>4
  <1>6. RecurringRows(i) = Upsert(End(subs, liveGrants), own)
    BY DEF RecurringRows
  <1> HIDE DEF own, liveGrants
  <1> QED BY <1>1, <1>5, <1>6, EndRows, UpsertRows

LEMMA RecordTypes ==
  ASSUME TypeOK, NEW id \in Ids, IntentOf[id[1]] \in Recurring, RecordAndActivate(id)
  PROVE  /\ ledger' \in [Ids -> {"none", "pending", "approved", "rejected", "canceled"}]
         /\ recon' \subseteq Ids /\ subs' \in Seq(Row) /\ plan' \in Plans
  BY RecurringRowTypes, PlanTypes DEF RecordAndActivate, Reconciled, TypeOK, Intents

LEMMA NextTypes == TInv /\ [Next]_vars => TInv'
  <1> SUFFICES ASSUME TInv, [Next]_vars PROVE TInv'
    OBVIOUS
  <1> USE DEF TInv
  <1>i. Idle \in Job /\ Failed \in Job
    <2>1. Failed = [op |-> "failed", of |-> None, status |-> "none", step |-> "idle", seen |-> <<>>]
      BY DEF Idle, Failed
    <2> QED BY <2>1 DEF Idle, Job
  <1>s. \A n \in DOMAIN subs : subs[n] \in Row
    BY DEF TypeOK
  <1>1. ASSUME NEW i \in Intents, Checkout(i) PROVE TInv'
    BY <1>1 DEF Checkout, TypeOK, JobsAreWhole
  <1>2. ASSUME NEW c \in Charges, MercadoPago(c) PROVE TInv'
    <2>1. mp' \in [Charges -> {"pending", "authorized", "approved", "rejected", "cancelled", "refunded"}]
      BY <1>2 DEF MercadoPago, TypeOK
    <2> QED BY <1>2, <2>1 DEF MercadoPago, TypeOK, JobsAreWhole
  <1>3. ASSUME NEW n \in DOMAIN subs, Lapse(n) PROVE TInv'
    <2>1. [subs[n] EXCEPT !.over = TRUE] \in Row
      BY <1>s DEF Row
    <2>2. subs' = [subs EXCEPT ![n] = [subs[n] EXCEPT !.over = TRUE]]
      BY <1>3 DEF Lapse
    <2>3. n \in 1 .. Len(subs)
      BY DEF TypeOK
    <2>4. subs' \in Seq(Row)
      BY <2>1, <2>2, <2>3, ExceptSeq DEF TypeOK
    <2> QED BY <1>3, <2>4 DEF Lapse, TypeOK, JobsAreWhole
  <1>4. ASSUME NEW w \in Workers, NEW c \in Charges, NEW t \in TopicsOf(c), Fetch(w, c, t)
        PROVE  TInv'
    <2>1. Normalize(mp[c]) \in PaymentStatuses
      BY DEF Normalize, TypeOK, PaymentStatuses
    <2>2. t \in {"payment", "authorized_payment"}
      BY TopicTypes
    <2> DEFINE new == [op |-> t, of |-> c, status |-> Normalize(mp[c]),
                       step |-> "fetched", seen |-> <<>>]
    <2>3. new \in Job
      BY <2>1, <2>2 DEF Job, PaymentStatuses
    <2>4. job' = [job EXCEPT ![w] = new]
      BY <1>4 DEF Fetch
    <2>5. TypeOK'
      BY <1>4, <2>3, <2>4 DEF Fetch, TypeOK
    <2>6. JobsAreWhole'
      BY <1>4, <2>1, <2>2, <2>4 DEF JobsAreWhole, TypeOK, Fetch, TopicsOf
    <2> QED BY <2>5, <2>6
  <1>5. ASSUME NEW w \in Workers, Begin(w) PROVE TInv'
    <2> DEFINE new == [job[w] EXCEPT !.step = "open", !.seen = subs]
    <2>1. new \in Job /\ new.op = job[w].op /\ new.of = job[w].of /\ new.status = job[w].status
      BY DEF TypeOK, Job
    <2>2. job' \in {[job EXCEPT ![w] = Idle], [job EXCEPT ![w] = new]}
      BY <1>5 DEF Begin, TypeOK
    <2>3. TypeOK'
      BY <1>5, <1>i, <2>1, <2>2 DEF Begin, TypeOK
    <2>4. JobsAreWhole'
      BY <1>5, <2>1, <2>2 DEF Begin, JobsAreWhole, TypeOK, Idle, TopicsOf
    <2> QED BY <2>3, <2>4
  <1>6. ASSUME NEW w \in Workers, job' = [job EXCEPT ![w] = Idle] \/ job' = [job EXCEPT ![w] = Failed]
        PROVE  job' \in [Workers -> Job] /\ JobsAreWhole'
    BY <1>6, <1>i DEF TypeOK, JobsAreWhole, Idle, Failed, TopicsOf
  <1>7. ASSUME NEW w \in Workers, CommitPayment(w) PROVE TInv'
    <2>1. job[w].of \in Charges /\ job[w].status \in PaymentStatuses /\ "payment" \in TopicsOf(job[w].of)
      BY <1>7 DEF CommitPayment, JobsAreWhole
    <2>2. <<job[w].of, "payment">> \in Ids /\ job[w].seen \in Seq(Row)
      BY <2>1, TopicTypes DEF TypeOK, Job
    <2>3. /\ ledger' \in [Ids -> {"none", "pending", "approved", "rejected", "canceled"}]
          /\ recon' \subseteq Ids /\ subs' \in Seq(Row) /\ plan' \in Plans
      <3>1. CASE ApplyOneTime(job[w].of, job[w].status, job[w].seen)
        BY <2>1, <2>2, <3>1, OneTimeTypes DEF TypeOK
      <3>2. CASE IntentOf[job[w].of] \in Recurring /\ RecordAndActivate(<<job[w].of, "payment">>)
        BY <2>2, <3>2, RecordTypes
      <3>3. CASE UNCHANGED <<ledger, recon, subs, plan>>
        BY <3>3 DEF TypeOK
      <3> QED BY <1>7, <3>1, <3>2, <3>3 DEF CommitPayment
    <2>4. intent' \in [Intents -> {"none", "pending", "approved", "rejected", "canceled"}]
      BY <1>7, <2>1 DEF CommitPayment, TypeOK, PaymentStatuses
    <2>5. job' = [job EXCEPT ![w] = Idle] /\ UNCHANGED <<faulty, mp>>
      BY <1>7 DEF CommitPayment
    <2> QED BY <1>6, <2>3, <2>4, <2>5 DEF TypeOK
  <1>8. ASSUME NEW w \in Workers, CommitAuthorizedPayment(w) PROVE TInv'
    <2>1. job[w].of \in Charges /\ "authorized_payment" \in TopicsOf(job[w].of)
      BY <1>8 DEF CommitAuthorizedPayment, JobsAreWhole
    <2>2. <<job[w].of, "authorized_payment">> \in Ids /\ IntentOf[job[w].of] \in Recurring
      BY <2>1, TopicTypes
    <2>3. /\ ledger' \in [Ids -> {"none", "pending", "approved", "rejected", "canceled"}]
          /\ recon' \subseteq Ids /\ subs' \in Seq(Row) /\ plan' \in Plans
      BY <1>8, <2>2, RecordTypes DEF CommitAuthorizedPayment
    <2>4. job' = [job EXCEPT ![w] = Idle] /\ UNCHANGED <<faulty, mp, intent>>
      BY <1>8 DEF CommitAuthorizedPayment
    <2> QED BY <1>6, <2>3, <2>4 DEF TypeOK
  <1>9. ASSUME NEW w \in Workers, Fail(w) PROVE TInv'
    BY <1>6, <1>9 DEF Fail, TypeOK
  <1>10. ASSUME NEW w \in Workers, NEW p \in GrantPlans, CheckGrant(w, p) PROVE TInv'
    <2> DEFINE new == [op |-> "grant", of |-> p, status |-> "none", step |-> "fetched", seen |-> <<>>]
    <2>1. new \in Job
      BY DEF Job
    <2>2. job' = [job EXCEPT ![w] = new]
      BY <1>10 DEF CheckGrant
    <2>3. TypeOK'
      BY <1>10, <2>1, <2>2 DEF CheckGrant, TypeOK
    <2>4. JobsAreWhole'
      BY <1>10, <2>2 DEF CheckGrant, JobsAreWhole, TypeOK, TopicsOf
    <2> QED BY <2>3, <2>4
  <1>11. ASSUME NEW w \in Workers, CommitGrant(w) PROVE TInv'
    <2>1. job[w].of \in GrantPlans
      BY <1>11 DEF CommitGrant, JobsAreWhole
    <2> DEFINE granted == [source |-> "admin_grant", key |-> None, plan |-> job[w].of,
                           status |-> "active", over |-> FALSE, months |-> 0]
               replaced == {n \in DOMAIN job[w].seen : /\ ~IsPaid(subs[n])
                                                       /\ subs[n].status \in {"active", "pending"}}
    <2>2. granted \in Row
      BY <2>1, PlanTypes DEF Row
    <2>3. subs' = Append(End(subs, replaced), granted) /\ plan' = job[w].of
      BY <1>11 DEF CommitGrant
    <2> HIDE DEF granted, replaced
    <2>4. subs' \in Seq(Row) /\ plan' \in Plans
      BY <2>1, <2>2, <2>3, EndRows, PlanTypes, AppendProperties DEF TypeOK
    <2> QED BY <1>6, <1>11, <2>4 DEF CommitGrant, TypeOK
  <1>12. CASE RevokeGrant
    <2>1. subs' \in Seq(Row) /\ plan' \in Plans
      BY <1>12, EndRows, RevertTypes DEF RevokeGrant, TypeOK
    <2> QED BY <1>12, <2>1 DEF RevokeGrant, TypeOK, JobsAreWhole
  <1>13. CASE ExpireDueGrants
    <2> DEFINE due == {n \in DOMAIN subs : /\ ~IsPaid(subs[n]) /\ subs[n].status = "active"
                                          /\ subs[n].over}
    <2>1. PICK k \in Nat : DOMAIN subs = 1..k
      BY DEF TypeOK
    <2>2. subs' = [n \in DOMAIN subs |-> IF n \in due THEN [subs[n] EXCEPT !.status = "expired"]
                                         ELSE subs[n]]
      BY <1>13 DEF ExpireDueGrants
    <2> HIDE DEF due
    <2>3. \A r \in Row : [r EXCEPT !.status = "expired"] \in Row
      BY DEF Row
    <2>4. subs' \in [1..k -> Row]
      BY <1>s, <2>1, <2>2, <2>3
    <2>5. subs' \in Seq(Row)
      BY <2>4, SeqDef
    <2>6. plan' \in Plans
      BY <1>13, RevertTypes DEF ExpireDueGrants, TypeOK
    <2> QED BY <1>13, <2>5, <2>6 DEF ExpireDueGrants, TypeOK, JobsAreWhole
  <1>14. CASE UNCHANGED vars
    BY <1>14 DEF vars, TypeOK, JobsAreWhole
  <1> QED BY <1>1, <1>2, <1>3, <1>4, <1>5, <1>7, <1>8, <1>9, <1>10, <1>11, <1>12, <1>13, <1>14
          DEF Next

(* Whatever statuses Mercado Pago reports and however requests fail, each  *)
(* table holds only the values its CHECK constraints and columns allow.    *)
THEOREM BillingTypes == Spec => []TypeOK
  <1>1. TInv => TypeOK
    BY DEF TInv
  <1> QED BY InitTypes, NextTypes, <1>1, PTL DEF Spec

(***************************************************************************)
(* Decisions under the lock of the intent.                                 *)
(***************************************************************************)

OpenPayment(w) == job[w].step = "open" /\ job[w].op = "payment"
LockExcludes ==
  \A v, w \in Workers :
    OpenPayment(v) /\ OpenPayment(w) /\ IntentOf[job[v].of] = IntentOf[job[w].of] => v = w
DecisionHolds ==
  \A w \in Workers :
    OpenPayment(w) /\ intent[IntentOf[job[w].of]] = "approved" => job[w].status = "approved"
LedgerFollowsIntent ==
  \A c \in Charges : ledger[<<c, "payment">>] = "approved" => intent[IntentOf[c]] = "approved"
MonthlyIds ==
  \A id \in Ids : IntentOf[id[1]] \in Recurring => ledger[id] \in {"none", "approved"}

DInv == LockExcludes /\ DecisionHolds /\ LedgerFollowsIntent /\ MonthlyIds

LEMMA InitDecisions == Init => DInv
  BY DEF Init, DInv, LockExcludes, DecisionHolds, LedgerFollowsIntent, MonthlyIds, OpenPayment,
         Idle, Ids

(* A step that lets nobody into a transaction and applies nothing.         *)
LEMMA QuietDecisions ==
  ASSUME DInv, UNCHANGED <<intent, ledger>>,
         \A w \in Workers : OpenPayment(w)' => OpenPayment(w) /\ job'[w] = job[w]
  PROVE  DInv'
  <1>1. LockExcludes'
    BY DEF DInv, LockExcludes
  <1>2. DecisionHolds'
    BY DEF DInv, DecisionHolds
  <1>3. LedgerFollowsIntent' /\ MonthlyIds'
    BY DEF DInv, LedgerFollowsIntent, MonthlyIds
  <1> QED BY <1>1, <1>2, <1>3 DEF DInv

(* The lock of the intent is taken, and a stale status thrown away.        *)
LEMMA BeginDecides ==
  ASSUME TInv, DInv, NEW w \in Workers, Begin(w)
  PROVE  DInv'
  <1> USE DEF TInv
  <1>1. CASE Stale(w)
    <2>1. job' = [job EXCEPT ![w] = Idle] /\ UNCHANGED <<intent, ledger>>
      BY <1>1 DEF Begin
    <2> QED BY <2>1, QuietDecisions DEF OpenPayment, Idle, TypeOK
  <1>2. CASE ~Stale(w)
    <2> DEFINE new == [job[w] EXCEPT !.step = "open", !.seen = subs]
    <2>1. new.op = job[w].op /\ new.of = job[w].of /\ new.status = job[w].status /\ new.step = "open"
      BY DEF TypeOK, Job
    <2>2. job' = [job EXCEPT ![w] = new] /\ UNCHANGED <<intent, ledger>>
      BY <1>2 DEF Begin, TypeOK
    <2> HIDE DEF new
    <2>3. job'[w] = new /\ \A v \in Workers \ {w} : job'[v] = job[v]
      BY <2>2 DEF TypeOK
    <2>4. \A v \in Workers \ {w} : OpenPayment(v) /\ job[w].op = "payment"
                                   => IntentOf[job[v].of] # IntentOf[job[w].of]
      BY <1>2 DEF Begin, IntentIsFree, OpenPayment
    <2>5. LockExcludes'
      BY <2>1, <2>3, <2>4 DEF DInv, LockExcludes, OpenPayment
    <2>6. DecisionHolds'
      BY <1>2, <2>1, <2>2, <2>3 DEF DInv, DecisionHolds, OpenPayment, Stale
    <2>7. LedgerFollowsIntent' /\ MonthlyIds'
      BY <2>2 DEF DInv, LedgerFollowsIntent, MonthlyIds
    <2> QED BY <2>5, <2>6, <2>7 DEF DInv
  <1> QED BY <1>1, <1>2

(* What is approved or put aside stays so.                                 *)
Kept ==
  /\ \A i \in Intents : intent[i] = "approved" => intent'[i] = "approved"
  /\ \A id \in Ids : ledger[id] = "approved" => ledger'[id] = "approved"
  /\ recon \subseteq recon'

(* What a commit of the topic "payment" writes.                            *)
LEMMA PaymentDecides ==
  ASSUME TInv, DInv, NEW w \in Workers, CommitPayment(w)
  PROVE  DInv' /\ Kept
  <1> USE DEF TInv
  <1> DEFINE c == job[w].of
             i == IntentOf[c]
             id == <<c, "payment">>
  <1>1. c \in Charges /\ job[w].status \in PaymentStatuses /\ "payment" \in TopicsOf(c)
    BY DEF CommitPayment, JobsAreWhole
  <1>2. id \in Ids /\ i \in Intents
    BY <1>1, TopicTypes
  <1>3. OpenPayment(w)
    BY DEF CommitPayment, OpenPayment
  <1>4. intent' = [intent EXCEPT ![i] = job[w].status] /\ job' = [job EXCEPT ![w] = Idle]
    BY DEF CommitPayment
  <1>5. intent[i] = "approved" => job[w].status = "approved"
    BY <1>3 DEF DInv, DecisionHolds
  <1>6. \A k \in Intents : intent[k] = "approved" => intent'[k] = "approved"
    BY <1>2, <1>4, <1>5 DEF TypeOK
  <1>7. ledger[id] = "approved" => job[w].status = "approved"
    BY <1>1, <1>5 DEF DInv, LedgerFollowsIntent
  <1>8. /\ \A d \in Ids \ {id} : ledger'[d] = ledger[d]
        /\ ledger'[id] \in {ledger[id], job[w].status}
        /\ i \in Recurring => ledger'[id] \in {ledger[id], "approved"}
        /\ recon \subseteq recon'
    <2>1. CASE i \in OneTime /\ ApplyOneTime(c, job[w].status, job[w].seen)
      <3>1. ledger' = [ledger EXCEPT ![id] = job[w].status] /\ recon' = recon
        BY <2>1 DEF ApplyOneTime
      <3>2. i \notin Recurring
        BY <2>1, IntentsApart
      <3> QED BY <1>2, <3>1, <3>2 DEF TypeOK
    <2>2. CASE job[w].status = "approved" /\ RecordAndActivate(id)
      <3>1. ledger' \in {ledger, [ledger EXCEPT ![id] = "approved"]} /\ recon \subseteq recon'
        BY <2>2 DEF RecordAndActivate, Reconciled
      <3> QED BY <1>2, <2>2, <3>1 DEF TypeOK
    <2>3. CASE UNCHANGED <<ledger, recon, subs, plan>>
      BY <2>3
    <2> QED BY <2>1, <2>2, <2>3 DEF CommitPayment
  <1>9. ledger'[id] = "approved" => job[w].status = "approved" \/ ledger[id] = "approved"
    BY <1>8
  <1> HIDE DEF c, i, id
  <1>10. Kept
    BY <1>6, <1>7, <1>8 DEF Kept
  <1>11. \A v \in Workers : OpenPayment(v)' => v # w /\ OpenPayment(v) /\ job'[v] = job[v]
    BY <1>4 DEF OpenPayment, Idle, TypeOK
  <1>12. LockExcludes'
    BY <1>11 DEF DInv, LockExcludes
  <1>13. DecisionHolds'
    <2> SUFFICES ASSUME NEW v \in Workers, OpenPayment(v)', intent'[IntentOf[job'[v].of]] = "approved"
                 PROVE  job'[v].status = "approved"
      BY DEF DecisionHolds
    <2>1. v # w /\ OpenPayment(v) /\ job'[v] = job[v]
      BY <1>11
    <2>2. IntentOf[job[v].of] # i
      BY <1>3, <2>1 DEF DInv, LockExcludes, i, c
    <2>3. intent'[IntentOf[job[v].of]] = intent[IntentOf[job[v].of]]
      BY <1>4, <2>2 DEF TypeOK
    <2> QED BY <2>1, <2>3 DEF DInv, DecisionHolds
  <1>14. LedgerFollowsIntent'
    <2> SUFFICES ASSUME NEW d \in Charges, ledger'[<<d, "payment">>] = "approved"
                 PROVE  intent'[IntentOf[d]] = "approved"
      BY DEF LedgerFollowsIntent
    <2>1. CASE d = c
      BY <1>2, <1>4, <1>7, <1>9, <2>1 DEF TypeOK, i, id
    <2>2. CASE d # c
      <3>1. <<d, "payment">> \in Ids \ {id}
        BY <2>2 DEF Ids, id
      <3>2. intent[IntentOf[d]] = "approved"
        BY <1>8, <3>1 DEF DInv, LedgerFollowsIntent
      <3> QED BY <1>6, <3>2, ChargesTyped
    <2> QED BY <2>1, <2>2
  <1>15. MonthlyIds'
    <2> SUFFICES ASSUME NEW d \in Ids, IntentOf[d[1]] \in Recurring
                 PROVE  ledger'[d] \in {"none", "approved"}
      BY DEF MonthlyIds
    <2>1. ledger[d] \in {"none", "approved"}
      BY DEF DInv, MonthlyIds
    <2>2. id[1] = c
      BY DEF id
    <2> QED BY <1>8, <2>1, <2>2 DEF i
  <1> QED BY <1>10, <1>12, <1>13, <1>14, <1>15 DEF DInv

LEMMA AuthorizedDecides ==
  ASSUME TInv, DInv, NEW w \in Workers, CommitAuthorizedPayment(w)
  PROVE  DInv' /\ Kept
  <1> USE DEF TInv
  <1> DEFINE id == <<job[w].of, "authorized_payment">>
  <1>1. job[w].of \in Charges /\ "authorized_payment" \in TopicsOf(job[w].of)
    BY DEF CommitAuthorizedPayment, JobsAreWhole
  <1>2. id \in Ids
    BY <1>1, TopicTypes
  <1>3. ledger' \in {ledger, [ledger EXCEPT ![id] = "approved"]} /\ recon \subseteq recon'
    BY DEF CommitAuthorizedPayment, RecordAndActivate, Reconciled
  <1>4. job' = [job EXCEPT ![w] = Idle] /\ UNCHANGED intent
    BY DEF CommitAuthorizedPayment
  <1>5. \A d \in Ids : ledger'[d] \in {ledger[d], "approved"}
    BY <1>2, <1>3 DEF TypeOK
  <1>6. \A d \in Charges : /\ <<d, "payment">> \in Ids
                           /\ ledger'[<<d, "payment">>] = ledger[<<d, "payment">>]
    <2>1. \A d \in Charges : <<d, "payment">> \in Ids \ {id}
      BY DEF Ids
    <2> QED BY <1>2, <1>3, <2>1 DEF TypeOK
  <1>7. \A v \in Workers : OpenPayment(v)' => OpenPayment(v) /\ job'[v] = job[v]
    BY <1>4 DEF OpenPayment, Idle, TypeOK
  <1> HIDE DEF id
  <1>8. LockExcludes' /\ DecisionHolds'
    BY <1>4, <1>7 DEF DInv, LockExcludes, DecisionHolds
  <1>9. LedgerFollowsIntent' /\ MonthlyIds'
    BY <1>4, <1>5, <1>6 DEF DInv, LedgerFollowsIntent, MonthlyIds
  <1> QED BY <1>3, <1>4, <1>5, <1>8, <1>9 DEF DInv, Kept

LEMMA NextDecisions == TInv /\ DInv /\ [Next]_vars => DInv' /\ Kept
  <1> SUFFICES ASSUME TInv, DInv, [Next]_vars PROVE DInv' /\ Kept
    OBVIOUS
  <1> USE DEF TInv
  <1>1. ASSUME NEW i \in Intents, Checkout(i) PROVE DInv' /\ Kept
    <2>1. intent[i] = "none" /\ intent' = [intent EXCEPT ![i] = "pending"] /\ UNCHANGED <<ledger, recon, job>>
      BY <1>1 DEF Checkout
    <2>2. \A k \in Intents : intent[k] = "approved" <=> intent'[k] = "approved"
      BY <2>1 DEF TypeOK
    <2>3. LockExcludes' /\ MonthlyIds'
      BY <2>1 DEF DInv, LockExcludes, MonthlyIds, OpenPayment
    <2>4. DecisionHolds'
      <3>1. \A w \in Workers : OpenPayment(w) => IntentOf[job[w].of] \in Intents
        BY ChargesTyped DEF OpenPayment, JobsAreWhole
      <3> QED BY <2>1, <2>2, <3>1 DEF DInv, DecisionHolds, OpenPayment
    <2>5. LedgerFollowsIntent'
      BY <2>1, <2>2, ChargesTyped DEF DInv, LedgerFollowsIntent
    <2> QED BY <2>1, <2>2, <2>3, <2>4, <2>5 DEF DInv, Kept
  <1>2. ASSUME UNCHANGED <<intent, ledger, recon>>,
               \A w \in Workers : OpenPayment(w)' => OpenPayment(w) /\ job'[w] = job[w]
        PROVE  DInv' /\ Kept
    BY <1>2, QuietDecisions DEF Kept
  <1>3. ASSUME UNCHANGED <<intent, ledger, recon, job>> PROVE DInv' /\ Kept
    BY <1>2, <1>3 DEF OpenPayment
  <1>5. ASSUME NEW c \in Charges, MercadoPago(c) PROVE DInv' /\ Kept
    BY <1>3, <1>5 DEF MercadoPago
  <1>6. ASSUME NEW n \in DOMAIN subs, Lapse(n) PROVE DInv' /\ Kept
    BY <1>3, <1>6 DEF Lapse
  <1>7. ASSUME NEW w \in Workers, NEW c \in Charges, NEW t \in TopicsOf(c), Fetch(w, c, t)
        PROVE  DInv' /\ Kept
    <2> DEFINE new == [op |-> t, of |-> c, status |-> Normalize(mp[c]), step |-> "fetched", seen |-> <<>>]
    <2>1. job' = [job EXCEPT ![w] = new] /\ UNCHANGED <<intent, ledger, recon>>
      BY <1>7 DEF Fetch
    <2>2. new.step = "fetched"
      OBVIOUS
    <2> HIDE DEF new
    <2>3. \A v \in Workers : OpenPayment(v)' => OpenPayment(v) /\ job'[v] = job[v]
      BY <2>1, <2>2 DEF OpenPayment, TypeOK
    <2> QED BY <1>2, <2>1, <2>3
  <1>8. ASSUME NEW w \in Workers, Begin(w) PROVE DInv' /\ Kept
    BY <1>8, BeginDecides DEF Begin, Kept
  <1>9. ASSUME NEW w \in Workers, CommitPayment(w) PROVE DInv' /\ Kept
    BY <1>9, PaymentDecides
  <1>10. ASSUME NEW w \in Workers, CommitAuthorizedPayment(w) PROVE DInv' /\ Kept
    BY <1>10, AuthorizedDecides
  <1>11. ASSUME NEW w \in Workers, Fail(w) PROVE DInv' /\ Kept
    <2>1. job' = [job EXCEPT ![w] = Failed] /\ UNCHANGED <<intent, ledger, recon>>
      BY <1>11 DEF Fail
    <2> QED BY <1>2, <2>1 DEF OpenPayment, TypeOK, Failed, Idle
  <1>12. ASSUME NEW w \in Workers, NEW p \in GrantPlans, CheckGrant(w, p) PROVE DInv' /\ Kept
    <2>1. job' = [job EXCEPT ![w] = [op |-> "grant", of |-> p, status |-> "none", step |-> "fetched",
                                     seen |-> <<>>]] /\ UNCHANGED <<intent, ledger, recon>>
      BY <1>12 DEF CheckGrant
    <2> QED BY <1>2, <2>1 DEF OpenPayment, TypeOK
  <1>13. ASSUME NEW w \in Workers, CommitGrant(w) PROVE DInv' /\ Kept
    <2>1. job' = [job EXCEPT ![w] = Idle] /\ UNCHANGED <<intent, ledger, recon>>
      BY <1>13 DEF CommitGrant
    <2> QED BY <1>2, <2>1 DEF OpenPayment, TypeOK, Idle
  <1>14. CASE RevokeGrant
    BY <1>3, <1>14 DEF RevokeGrant
  <1>15. CASE ExpireDueGrants
    BY <1>3, <1>15 DEF ExpireDueGrants
  <1>16. CASE UNCHANGED vars
    BY <1>3, <1>16 DEF vars
  <1> QED BY <1>1, <1>5, <1>6, <1>7, <1>8, <1>9, <1>10, <1>11, <1>12, <1>13, <1>14, <1>15, <1>16
          DEF Next

(* Of two webhooks of one intent at most one is past its lock, and what it *)
(* is about to write does not contradict an approval.                      *)
THEOREM BillingDecisions == Spec => [](TInv /\ DInv)
  BY InitTypes, NextTypes, InitDecisions, NextDecisions, PTL DEF Spec

(* No late, repeated or reordered webhook takes an approval back, neither  *)
(* from an intent nor from a payment.                                      *)
THEOREM ApprovalIsFinal == Spec => ApprovedIsFinal
  <1>1. TInv /\ DInv /\ [Next]_vars =>
          [/\ \A i \in Intents : intent[i] = "approved" => intent'[i] = "approved"
           /\ \A id \in Ids : ledger[id] = "approved" => ledger'[id] = "approved"]_vars
    BY NextDecisions DEF Kept
  <1> QED BY <1>1, BillingDecisions, PTL DEF Spec, ApprovedIsFinal

(***************************************************************************)
(* Rows, months and accounts.                                              *)
(***************************************************************************)

Shaped(r) ==
  /\ r.source = "one_time" => r.key \in Charges
  /\ r.source = "recurring" => r.key \in Recurring
  /\ r.source = "admin_grant" => r.key = None

RowShapes == \A n \in DOMAIN subs : Shaped(subs[n])
KeysAreUnique ==
  \A n, m \in DOMAIN subs : subs[n].key = subs[m].key /\ subs[n].key # None => n = m

Paid(i) == {id \in Ids : ledger[id] = "approved" /\ IntentOf[id[1]] = i}
PaidHaveRows == \A i \in Recurring : Paid(i) # {} => WithKey(i) # {}

RInv == RowShapes /\ KeysAreUnique /\ PaidHaveRows /\ PeriodsAreCharged /\ ApprovedIsAccounted

(* A step keeps every row with its key and may add one with a new key.     *)
Grown ==
  /\ \A n \in DOMAIN subs : /\ n \in DOMAIN subs'
                            /\ subs'[n].source = subs[n].source /\ subs'[n].key = subs[n].key
  /\ \A n \in DOMAIN subs' \ DOMAIN subs :
       /\ n = Len(subs) + 1 /\ Shaped(subs'[n])
       /\ subs'[n].key # None => WithKey(subs'[n].key) = {}

LEMMA GrownKeeps ==
  ASSUME RowShapes, KeysAreUnique, Grown
  PROVE  RowShapes' /\ KeysAreUnique'
  <1>1. ASSUME NEW n \in DOMAIN subs' PROVE Shaped(subs'[n])
    BY DEF Grown, RowShapes, Shaped
  <1>2. ASSUME NEW n \in DOMAIN subs', NEW m \in DOMAIN subs',
               subs'[n].key = subs'[m].key, subs'[n].key # None
        PROVE  n = m
    BY <1>2 DEF Grown, KeysAreUnique, WithKey
  <1>3. RowShapes'
    BY <1>1 DEF RowShapes, Shaped
  <1> QED BY <1>2, <1>3 DEF KeysAreUnique

LEMMA PaidIsFinite ==
  ASSUME NEW i
  PROVE  IsFiniteSet(Paid(i)) /\ Cardinality(Paid(i)) \in Nat
  <1>1. IsFiniteSet({"payment"} \cup {"authorized_payment"})
    BY FS_Singleton, FS_AddElement
  <1>2. {"payment"} \cup {"authorized_payment"} = {"payment", "authorized_payment"}
    OBVIOUS
  <1>3. IsFiniteSet(Ids)
    BY <1>1, <1>2, FiniteInstance, FS_Product DEF Ids
  <1>4. Paid(i) \subseteq Ids
    BY DEF Paid
  <1> QED BY <1>3, <1>4, FS_Subset, FS_CardinalityType

(* No month is charged and none is added.                                  *)
NoMonth ==
  /\ \A n \in DOMAIN subs : subs[n].source = "recurring" => subs'[n].months = subs[n].months
  /\ \A n \in DOMAIN subs' \ DOMAIN subs : subs'[n].source # "recurring"
  /\ \A i \in Recurring : Paid(i)' = Paid(i)

LEMMA NoMonthKeeps ==
  ASSUME RInv, Grown, NoMonth
  PROVE  PaidHaveRows' /\ PeriodsAreCharged'
  <1>1. PaidHaveRows'
    BY DEF RInv, PaidHaveRows, Grown, NoMonth, WithKey
  <1>2. ASSUME NEW n \in DOMAIN subs', subs'[n].source = "recurring"
        PROVE  subs'[n].months = Cardinality({id \in Ids : ledger'[id] = "approved"
                                                         /\ IntentOf[id[1]] = subs'[n].key})
    <2>1. n \in DOMAIN subs /\ subs[n].source = "recurring" /\ subs'[n].key = subs[n].key
      BY <1>2 DEF NoMonth, Grown
    <2>2. subs[n].key \in Recurring
      BY <2>1 DEF RInv, RowShapes, Shaped
    <2>3. \A i \in Recurring : {id \in Ids : ledger'[id] = "approved" /\ IntentOf[id[1]] = i} = Paid(i)
      BY DEF NoMonth, Paid
    <2>4. subs[n].months = Cardinality(Paid(subs[n].key))
      BY <2>1 DEF RInv, PeriodsAreCharged, Paid
    <2>5. subs'[n].months = subs[n].months
      BY <2>1 DEF NoMonth
    <2> QED BY <2>1, <2>2, <2>3, <2>4, <2>5
  <1> QED BY <1>1, <1>2 DEF PeriodsAreCharged

(* What was accounted for stays so; what is approved now has to be shown.  *)
LEMMA AccountedKeeps ==
  ASSUME TInv, RInv, Grown, Kept,
         \A i \in Intents : intent'[i] = "approved" /\ intent[i] # "approved" =>
           \E c \in Charges : /\ IntentOf[c] = i /\ Recorded(c)'
                              /\ i \in OneTime => \E n \in DOMAIN subs' : subs'[n].key = c
  PROVE  ApprovedIsAccounted'
  <1> SUFFICES ASSUME NEW i \in Intents, intent'[i] = "approved", intent[i] = "approved"
               PROVE  \E c \in Charges : /\ IntentOf[c] = i /\ Recorded(c)'
                                         /\ i \in OneTime => \E n \in DOMAIN subs' : subs'[n].key = c
    BY DEF ApprovedIsAccounted
  <1>1. PICK c \in Charges : /\ IntentOf[c] = i /\ Recorded(c)
                             /\ i \in OneTime => \E n \in DOMAIN subs : subs[n].key = c
    BY DEF RInv, ApprovedIsAccounted
  <1>2. \A t \in TopicsOf(c) : <<c, t>> \in Ids
    BY TopicTypes
  <1>3. Recorded(c)'
    BY <1>1, <1>2 DEF Recorded, Kept, TopicsOf
  <1> QED BY <1>1, <1>3 DEF Grown

LEMMA InitRows == Init => RInv
  <1> SUFFICES ASSUME Init PROVE RInv
    OBVIOUS
  <1>1. subs = <<>> /\ DOMAIN subs = {}
    BY DEF Init
  <1>2. \A i : Paid(i) = {}
    BY DEF Init, Paid
  <1>3. ApprovedIsAccounted
    BY DEF Init, ApprovedIsAccounted
  <1> QED BY <1>1, <1>2, <1>3 DEF RInv, RowShapes, KeysAreUnique, PaidHaveRows, PeriodsAreCharged

NoNewGrant == \A n \in DOMAIN subs' \ DOMAIN subs : subs'[n].source # "admin_grant"

LEMMA QuietRows ==
  ASSUME UNCHANGED ledger, DOMAIN subs' = DOMAIN subs,
         \A n \in DOMAIN subs : /\ subs'[n].source = subs[n].source /\ subs'[n].key = subs[n].key
                                /\ subs'[n].months = subs[n].months
  PROVE  Grown /\ NoMonth
  BY DEF Grown, NoMonth, Paid

(* A single payment upserts its own row and charges no month.              *)
LEMMA OneTimeGrows ==
  ASSUME TInv, RInv, NEW c \in Charges, NEW status \in PaymentStatuses, NEW seen \in Seq(Row),
         IntentOf[c] \in OneTime, ApplyOneTime(c, status, seen)
  PROVE  Grown /\ NoMonth /\ NoNewGrant /\ \E n \in DOMAIN subs' : subs'[n].key = c
  <1> USE DEF TInv
  <1> DEFINE s == SubscriptionStatus(status)
             own == [source |-> "one_time", key |-> c, plan |-> PlanOf[IntentOf[c]],
                     status |-> s, over |-> FALSE, months |-> 0]
             endedByIt == {n \in DOMAIN seen \ WithKey(c) :
                             s = "active" /\ subs[n].status \in {"active", "pending"}}
             rest == End(subs, endedByIt)
  <1>1. own \in Row
    <2>1. s \in {"active", "pending", "canceled"}
      BY DEF PaymentStatuses, SubscriptionStatus
    <2>2. PlanOf[IntentOf[c]] \in Plans
      BY PlanTypes, ChargesTyped
    <2> QED BY <2>1, <2>2 DEF Row
  <1>2. own.source = "one_time" /\ own.key = c
    OBVIOUS
  <1>3. subs' = Upsert(rest, own)
    BY DEF ApplyOneTime, OneTimeRows
  <1> HIDE DEF own, endedByIt, s
  <1>4. /\ rest \in Seq(Row) /\ DOMAIN rest = DOMAIN subs /\ Len(rest) = Len(subs)
        /\ \A n \in DOMAIN subs : /\ rest[n].source = subs[n].source /\ rest[n].key = subs[n].key
                                  /\ rest[n].months = subs[n].months
    <2>1. subs \in Seq(Row)
      BY DEF TypeOK
    <2>2. rest \in Seq(Row) /\ DOMAIN rest = DOMAIN subs
      BY <2>1, EndRows
    <2>3. Len(rest) = Len(subs)
      BY <2>1, <2>2
    <2> QED BY <2>1, <2>2, <2>3, EndRows
  <1> HIDE DEF rest
  <1>5. \A n \in WithKey(c) : subs[n].source = "one_time"
    <2>1. \A n \in DOMAIN subs : subs[n] \in Row
      BY DEF TypeOK
    <2>2. \A n \in DOMAIN subs : subs[n].source \in {"one_time", "recurring", "admin_grant"}
      BY <2>1 DEF Row
    <2> QED BY <2>2, ChargesTyped, IntentsApart DEF RInv, RowShapes, Shaped, WithKey, Intents
  <1>6. \A n \in DOMAIN subs : /\ n \in DOMAIN subs'
                               /\ subs'[n].source = subs[n].source /\ subs'[n].key = subs[n].key
                               /\ subs[n].source = "recurring" => subs'[n].months = subs[n].months
    <2>1. \A n \in DOMAIN subs : /\ n \in DOMAIN subs'
                                 /\ n \notin WithKey(c) => subs'[n] = rest[n]
                                 /\ n \in WithKey(c) => subs'[n] = own
      <3>1. WithKey(own.key) = WithKey(c)
        BY <1>2
      <3>2. \A n \in DOMAIN rest :
              /\ n \in DOMAIN Upsert(rest, own)
              /\ n \notin WithKey(own.key) => Upsert(rest, own)[n] = rest[n]
              /\ n \in WithKey(own.key) => Upsert(rest, own)[n] = own
        BY <1>1, <1>4, UpsertRows
      <3> QED BY <1>3, <1>4, <3>1, <3>2
    <2>2. \A n \in WithKey(c) : subs[n].key = c
      BY DEF WithKey
    <2> QED BY <1>2, <1>4, <1>5, <2>1, <2>2
  <1>7. \A n \in DOMAIN subs' \ DOMAIN subs :
          n = Len(subs) + 1 /\ subs'[n] = own /\ WithKey(c) = {}
    <2>1. CASE WithKey(c) = {}
      <3>1. DOMAIN subs' = 1 .. Len(subs) + 1 /\ subs'[Len(subs) + 1] = own
        BY <1>1, <1>2, <1>3, <1>4, <2>1, UpsertRows
      <3>2. DOMAIN subs = 1 .. Len(subs) /\ Len(subs) \in Nat
        BY DEF TypeOK
      <3> QED BY <2>1, <3>1, <3>2
    <2>2. CASE WithKey(c) # {}
      BY <1>1, <1>2, <1>3, <1>4, <2>2, UpsertRows
    <2> QED BY <2>1, <2>2
  <1>8. Grown
    BY <1>2, <1>6, <1>7 DEF Grown, Shaped
  <1>9. NoMonth
    <2>1. ledger' = [ledger EXCEPT ![<<c, "payment">>] = status]
      BY DEF ApplyOneTime
    <2>2. \A id \in Ids : IntentOf[id[1]] \in Recurring => id # <<c, "payment">>
      BY IntentsApart
    <2>3. \A i \in Recurring : Paid(i)' = Paid(i)
      BY <2>1, <2>2 DEF Paid, TypeOK
    <2> QED BY <1>2, <1>6, <1>7, <2>3 DEF NoMonth
  <1>10. \E n \in DOMAIN subs' : subs'[n].key = c
    <2>1. CASE WithKey(c) = {}
      <3>1. DOMAIN subs' = 1 .. Len(rest) + 1 /\ subs'[Len(rest) + 1] = own
        BY <1>1, <1>2, <1>3, <1>4, <2>1, UpsertRows
      <3> QED BY <1>2, <1>4, <3>1
    <2>2. CASE WithKey(c) # {}
      BY <1>6, <2>2 DEF WithKey
    <2> QED BY <2>1, <2>2
  <1>11. NoNewGrant
    BY <1>2, <1>7 DEF NoNewGrant
  <1> QED BY <1>8, <1>9, <1>10, <1>11

(* A new id of a monthly charge adds one month to the row of its intent.   *)
LEMMA ActivationGrows ==
  ASSUME TInv, RInv, NEW i \in Recurring, NEW id \in Ids, IntentOf[id[1]] = i,
         ledger[id] = "none", ledger' = [ledger EXCEPT ![id] = "approved"],
         subs' = RecurringRows(i)
  PROVE  Grown /\ PaidHaveRows' /\ PeriodsAreCharged' /\ NoNewGrant
  <1> USE DEF TInv
  <1> DEFINE first == [source |-> "recurring", key |-> i, plan |-> PlanOf[i],
                       status |-> "active", over |-> FALSE, months |-> 1]
             row == CHOOSE n \in WithKey(i) : TRUE
             more == [subs[row] EXCEPT !.status = "active", !.months = @ + 1]
             own == IF WithKey(i) = {} THEN first ELSE more
             liveGrants == {n \in DOMAIN subs : /\ ~IsPaid(subs[n])
                                               /\ subs[n].status \in {"active", "pending"}}
             rest == End(subs, liveGrants)
  <1>1. subs' = Upsert(rest, own)
    BY DEF RecurringRows
  <1>2. /\ rest \in Seq(Row) /\ DOMAIN rest = DOMAIN subs /\ Len(rest) = Len(subs)
        /\ \A n \in DOMAIN subs : /\ rest[n].source = subs[n].source /\ rest[n].key = subs[n].key
                                  /\ rest[n].months = subs[n].months
    <2>1. subs \in Seq(Row)
      BY DEF TypeOK
    <2> HIDE DEF liveGrants
    <2>2. rest \in Seq(Row) /\ DOMAIN rest = DOMAIN subs
      BY <2>1, EndRows
    <2>3. Len(rest) = Len(subs)
      BY <2>1, <2>2
    <2> QED BY <2>1, <2>2, <2>3, EndRows
  <1>3. DOMAIN subs = 1 .. Len(subs) /\ Len(subs) \in Nat
    BY DEF TypeOK
  <1>4. first \in Row /\ first.source = "recurring" /\ first.key = i /\ first.months = 1
    BY PlanTypes DEF Row, Intents
  <1>5. ASSUME WithKey(i) # {}
        PROVE  /\ row \in DOMAIN subs /\ subs[row].source = "recurring" /\ WithKey(i) = {row}
               /\ more \in Row /\ more.source = "recurring" /\ more.key = i
               /\ more.months = subs[row].months + 1
    <2>1. row \in WithKey(i)
      BY <1>5
    <2>2. subs[row] \in Row /\ subs[row].key = i /\ row \in DOMAIN subs
      BY <2>1 DEF WithKey, TypeOK
    <2>3. subs[row].source = "recurring"
      BY <2>2, ChargesTyped, IntentsApart DEF RInv, RowShapes, Shaped, Row, Intents
    <2>4. WithKey(i) = {row}
      BY <2>1, <2>2, IntentsApart DEF RInv, KeysAreUnique, WithKey, Intents
    <2>5. subs[row].months + 1 \in Nat
      BY <2>2 DEF Row
    <2>6. more = [subs[row] EXCEPT !.status = "active", !.months = subs[row].months + 1]
      BY <2>2 DEF Row
    <2>7. \A r \in Row, m \in Nat : LET q == [r EXCEPT !.status = "active", !.months = m] IN
             q \in Row /\ q.source = r.source /\ q.key = r.key /\ q.months = m
      BY DEF Row
    <2> HIDE DEF row, more
    <2> QED BY <2>2, <2>3, <2>4, <2>5, <2>6, <2>7
  <1> HIDE DEF first, row, more, liveGrants, rest
  <1>6. Paid(i)' = Paid(i) \cup {id} /\ id \notin Paid(i) /\ \A k \in Recurring \ {i} : Paid(k)' = Paid(k)
    BY DEF Paid, TypeOK
  <1>7. Cardinality(Paid(i)') = Cardinality(Paid(i)) + 1 /\ Cardinality(Paid(i)) \in Nat
    <2>1. IsFiniteSet(Paid(i)) /\ Cardinality(Paid(i)) \in Nat
      BY PaidIsFinite
    <2>2. Cardinality(Paid(i) \cup {id}) = Cardinality(Paid(i)) + 1
      BY <1>6, <2>1, FS_AddElement
    <2> QED BY <1>6, <2>1, <2>2
  <1>p. \A k \in Recurring : Paid(k)' = {d \in Ids : ledger'[d] = "approved" /\ IntentOf[d[1]] = k}
    BY DEF Paid
  <1>q. \A n \in DOMAIN subs : subs[n].source = "recurring" =>
          subs[n].key \in Recurring /\ subs[n].months = Cardinality(Paid(subs[n].key))
    BY DEF RInv, PeriodsAreCharged, RowShapes, Shaped, Paid
  <1>8. CASE WithKey(i) = {}
    <2>1. own = first
      BY <1>8
    <2>2. /\ DOMAIN subs' = 1 .. Len(subs) + 1 /\ subs'[Len(subs) + 1] = first
          /\ \A n \in DOMAIN subs : subs'[n] = rest[n]
      <3>1. WithKey(first.key) = {} /\ subs' = Upsert(rest, first)
        BY <1>1, <1>4, <1>8, <2>1
      <3>2. \A n \in DOMAIN subs : n \notin WithKey(first.key)
        BY <3>1
      <3> HIDE DEF own
      <3> QED BY <1>2, <1>4, <3>1, <3>2, UpsertRows
    <2>3. Grown
      BY <1>2, <1>3, <1>4, <1>8, <2>2, IntentsApart DEF Grown, Shaped
    <2>4. PaidHaveRows'
      <3>1. \A k \in Recurring \ {i} : Paid(k)' # {} => WithKey(k)' # {}
        BY <1>6, <2>3 DEF RInv, PaidHaveRows, Grown, WithKey
      <3>2. WithKey(i)' # {}
        BY <1>3, <1>4, <2>2 DEF WithKey
      <3> QED BY <3>1, <3>2 DEF PaidHaveRows
    <2>5. Cardinality(Paid(i)') = 1
      <3>1. Paid(i) = {}
        BY <1>8 DEF RInv, PaidHaveRows
      <3> QED BY <1>7, <3>1, FS_EmptySet
    <2>6. ASSUME NEW n \in DOMAIN subs', subs'[n].source = "recurring"
          PROVE  subs'[n].months = Cardinality({d \in Ids : ledger'[d] = "approved"
                                                          /\ IntentOf[d[1]] = subs'[n].key})
      <3>1. CASE n = Len(subs) + 1
        <4>1. subs'[n].key = i /\ subs'[n].months = 1
          BY <1>4, <2>2, <3>1
        <4>2. {d \in Ids : ledger'[d] = "approved" /\ IntentOf[d[1]] = subs'[n].key} = Paid(i)'
          BY <1>p, <4>1
        <4> QED BY <2>5, <4>1, <4>2
      <3>2. CASE n # Len(subs) + 1
        <4>1. n \in DOMAIN subs
          BY <1>3, <2>2, <3>2
        <4>2. /\ subs[n].source = "recurring" /\ subs'[n].key = subs[n].key
              /\ subs'[n].months = subs[n].months
          BY <1>2, <2>2, <2>6, <4>1
        <4>3. subs[n].key \in Recurring \ {i}
          BY <1>8, <1>q, <4>1, <4>2 DEF WithKey
        <4>4. {d \in Ids : ledger'[d] = "approved" /\ IntentOf[d[1]] = subs'[n].key} = Paid(subs[n].key)
          BY <1>6, <1>p, <4>2, <4>3
        <4> QED BY <1>q, <4>1, <4>2, <4>4
      <3> QED BY <3>1, <3>2
    <2>7. NoNewGrant
      BY <1>3, <1>4, <2>2 DEF NoNewGrant
    <2> QED BY <2>3, <2>4, <2>6, <2>7 DEF PeriodsAreCharged
  <1>9. CASE WithKey(i) # {}
    <2>1. own = more
      BY <1>9
    <2>2. /\ DOMAIN subs' = DOMAIN subs /\ subs'[row] = more
          /\ \A n \in DOMAIN subs \ {row} : subs'[n] = rest[n]
      <3>1. WithKey(more.key) = {row} /\ subs' = Upsert(rest, more) /\ more \in Row
        BY <1>1, <1>5, <1>9, <2>1
      <3>2. row \in DOMAIN subs
        BY <1>5, <1>9
      <3>3. DOMAIN Upsert(rest, more) = DOMAIN rest
        BY <1>2, <3>1, UpsertRows
      <3>4. \A n \in DOMAIN rest :
              /\ n \notin WithKey(more.key) => Upsert(rest, more)[n] = rest[n]
              /\ n \in WithKey(more.key) => Upsert(rest, more)[n] = more
        BY <1>2, <3>1, UpsertRows
      <3> HIDE DEF own
      <3> QED BY <1>2, <3>1, <3>2, <3>3, <3>4
    <2>3. Grown
      BY <1>2, <1>5, <1>9, <2>2 DEF Grown, WithKey
    <2>4. PaidHaveRows'
      <3>1. \A k \in Recurring \ {i} : Paid(k)' # {} => WithKey(k)' # {}
        BY <1>6, <2>3 DEF RInv, PaidHaveRows, Grown, WithKey
      <3>2. WithKey(i)' # {}
        BY <1>5, <1>9, <2>2 DEF WithKey
      <3> QED BY <3>1, <3>2 DEF PaidHaveRows
    <2>6. ASSUME NEW n \in DOMAIN subs', subs'[n].source = "recurring"
          PROVE  subs'[n].months = Cardinality({d \in Ids : ledger'[d] = "approved"
                                                          /\ IntentOf[d[1]] = subs'[n].key})
      <3>1. CASE n = row
        <4>1. subs'[n].key = i /\ subs'[n].months = subs[row].months + 1 /\ subs[row].key = i
          BY <1>5, <1>9, <2>2, <3>1 DEF WithKey
        <4>2. {d \in Ids : ledger'[d] = "approved" /\ IntentOf[d[1]] = subs'[n].key} = Paid(i)'
          BY <1>p, <4>1
        <4>3. subs[row].months = Cardinality(Paid(i))
          BY <1>5, <1>9, <1>q, <4>1
        <4> QED BY <1>7, <4>1, <4>2, <4>3
      <3>2. CASE n # row
        <4>1. n \in DOMAIN subs
          BY <2>2
        <4>2. /\ subs[n].source = "recurring" /\ subs'[n].key = subs[n].key
              /\ subs'[n].months = subs[n].months
          BY <1>2, <2>2, <2>6, <3>2, <4>1
        <4>3. subs[n].key \in Recurring \ {i}
          BY <1>5, <1>9, <1>q, <3>2, <4>1, <4>2 DEF WithKey
        <4>4. {d \in Ids : ledger'[d] = "approved" /\ IntentOf[d[1]] = subs'[n].key} = Paid(subs[n].key)
          BY <1>6, <1>p, <4>2, <4>3
        <4> QED BY <1>q, <4>1, <4>2, <4>4
      <3> QED BY <3>1, <3>2
    <2>7. NoNewGrant
      BY <2>2 DEF NoNewGrant
    <2> QED BY <2>3, <2>4, <2>6, <2>7 DEF PeriodsAreCharged
  <1> QED BY <1>8, <1>9

(* What recordPaymentAndActivate writes.                                   *)
LEMMA RecordGrows ==
  ASSUME TInv, DInv, RInv, NEW id \in Ids, IntentOf[id[1]] \in Recurring, RecordAndActivate(id)
  PROVE  /\ Grown /\ PaidHaveRows' /\ PeriodsAreCharged' /\ NoNewGrant
         /\ ledger'[id] = "approved" \/ id \in recon'
  <1>1. CASE id[1] \in faulty
    <2>1. UNCHANGED <<ledger, subs>> /\ recon' = recon \cup {id}
      BY <1>1 DEF RecordAndActivate, Reconciled
    <2>2. Grown /\ NoMonth /\ NoNewGrant
      BY <2>1, QuietRows DEF NoNewGrant
    <2> QED BY <2>1, <2>2, NoMonthKeeps
  <1>2. CASE id[1] \notin faulty /\ ~IsNewPayment(id)
    <2>1. UNCHANGED <<ledger, subs>>
      BY <1>2 DEF RecordAndActivate
    <2>2. Grown /\ NoMonth /\ NoNewGrant
      BY <2>1, QuietRows DEF NoNewGrant
    <2>3. ledger[id] = "approved"
      BY <1>2 DEF IsNewPayment, DInv, MonthlyIds
    <2> QED BY <2>1, <2>2, <2>3, NoMonthKeeps
  <1>3. CASE id[1] \notin faulty /\ IsNewPayment(id)
    <2>1. /\ ledger[id] = "none" /\ ledger' = [ledger EXCEPT ![id] = "approved"]
          /\ subs' = RecurringRows(IntentOf[id[1]])
      BY <1>3 DEF RecordAndActivate, IsNewPayment
    <2>2. ledger'[id] = "approved"
      BY <2>1 DEF TInv, TypeOK
    <2> QED BY <2>1, <2>2, ActivationGrows
  <1> QED BY <1>1, <1>2, <1>3

LEMMA PaymentGrows ==
  ASSUME TInv, DInv, RInv, NEW w \in Workers, CommitPayment(w)
  PROVE  /\ Grown /\ PaidHaveRows' /\ PeriodsAreCharged' /\ NoNewGrant
         /\ \A k \in Intents : intent'[k] = "approved" /\ intent[k] # "approved" =>
              \E c \in Charges : /\ IntentOf[c] = k /\ Recorded(c)'
                                 /\ k \in OneTime => \E n \in DOMAIN subs' : subs'[n].key = c
  <1> USE DEF TInv
  <1>0. PICK c \in Charges : c = job[w].of
    BY DEF CommitPayment, JobsAreWhole
  <1> DEFINE i == IntentOf[c]
             id == <<c, "payment">>
  <1>1. c \in Charges /\ job[w].status \in PaymentStatuses /\ "payment" \in TopicsOf(c)
    BY <1>0 DEF CommitPayment, JobsAreWhole
  <1>2. id \in Ids /\ i \in Intents /\ id[1] = c /\ job[w].seen \in Seq(Row)
    BY <1>1, TopicTypes DEF TypeOK, Job
  <1>3. intent' = [intent EXCEPT ![i] = job[w].status]
    BY <1>0 DEF CommitPayment
  <1>4. ASSUME job[w].status = "approved" =>
                 /\ ledger'[id] = "approved" \/ id \in recon'
                 /\ i \in OneTime => \E n \in DOMAIN subs' : subs'[n].key = c
        PROVE  \A k \in Intents : intent'[k] = "approved" /\ intent[k] # "approved" =>
                 \E d \in Charges : /\ IntentOf[d] = k /\ Recorded(d)'
                                    /\ k \in OneTime => \E n \in DOMAIN subs' : subs'[n].key = d
    <2>1. \A k \in Intents : intent'[k] = "approved" /\ intent[k] # "approved"
                             => k = i /\ job[w].status = "approved"
      BY <1>2, <1>3 DEF TypeOK
    <2>2. job[w].status = "approved" => Recorded(c)'
      <3>1. Recorded(c)' = \E t \in TopicsOf(c) : ledger'[<<c, t>>] = "approved" \/ <<c, t>> \in recon'
        BY DEF Recorded, TopicsOf
      <3>2. job[w].status = "approved" => ledger'[<<c, "payment">>] = "approved" \/ <<c, "payment">> \in recon'
        BY <1>4
      <3> QED BY <1>1, <3>1, <3>2
    <2> QED BY <1>1, <1>4, <2>1, <2>2
  <1>5. CASE i \in OneTime /\ ApplyOneTime(c, job[w].status, job[w].seen)
    <2>1. Grown /\ NoMonth /\ NoNewGrant /\ \E n \in DOMAIN subs' : subs'[n].key = c
      BY <1>1, <1>2, <1>5, OneTimeGrows
    <2>2. ledger'[id] = job[w].status
      BY <1>2, <1>5 DEF ApplyOneTime, TypeOK
    <2> HIDE DEF i, id
    <2> QED BY <1>4, <2>1, <2>2, NoMonthKeeps
  <1>6. CASE i \in Recurring /\ RecordAndActivate(id)
    <2>1. /\ Grown /\ PaidHaveRows' /\ PeriodsAreCharged' /\ NoNewGrant
          /\ ledger'[id] = "approved" \/ id \in recon'
      BY <1>2, <1>6, RecordGrows
    <2>2. i \notin OneTime
      BY <1>6, IntentsApart
    <2> HIDE DEF i, id
    <2> QED BY <1>4, <2>1, <2>2
  <1>7. CASE job[w].status # "approved" /\ UNCHANGED <<ledger, recon, subs, plan>>
    <2>1. Grown /\ NoMonth /\ NoNewGrant
      BY <1>7, QuietRows DEF NoNewGrant
    <2> HIDE DEF i, id
    <2> QED BY <1>4, <1>7, <2>1, NoMonthKeeps
  <1> QED BY <1>0, <1>5, <1>6, <1>7 DEF CommitPayment

(* Only an administrator adds a grant.                                     *)
LEMMA NextRows ==
  TInv /\ DInv /\ RInv /\ [Next]_vars =>
    RInv' /\ (NoNewGrant \/ \E w \in Workers : CommitGrant(w)) /\ Grown
  <1> SUFFICES ASSUME TInv, DInv, RInv, [Next]_vars
               PROVE  RInv' /\ (NoNewGrant \/ \E w \in Workers : CommitGrant(w)) /\ Grown
    OBVIOUS
  <1> USE DEF TInv
  <1> DEFINE Goal == RInv' /\ (NoNewGrant \/ \E w \in Workers : CommitGrant(w)) /\ Grown
             NowApproved ==
               \A k \in Intents : intent'[k] = "approved" /\ intent[k] # "approved" =>
                 \E c \in Charges : /\ IntentOf[c] = k /\ Recorded(c)'
                                    /\ k \in OneTime => \E n \in DOMAIN subs' : subs'[n].key = c
  <1>k. Kept
    BY NextDecisions
  <1>1. ASSUME Grown, PaidHaveRows', PeriodsAreCharged', NowApproved PROVE RInv'
    BY <1>k, <1>1, GrownKeeps, AccountedKeeps DEF RInv
  <1>2. ASSUME Grown, NoMonth, NowApproved PROVE RInv'
    BY <1>1, <1>2, NoMonthKeeps
  <1>3. ASSUME UNCHANGED <<ledger, subs>>, NowApproved PROVE Goal
    <2>1. Grown /\ NoMonth /\ NoNewGrant
      BY <1>3, QuietRows DEF NoNewGrant
    <2> HIDE DEF NowApproved
    <2> QED BY <1>2, <1>3, <2>1
  <1>4. ASSUME UNCHANGED <<ledger, intent>>, DOMAIN subs' = DOMAIN subs,
               \A n \in DOMAIN subs : /\ subs'[n].source = subs[n].source
                                      /\ subs'[n].key = subs[n].key
                                      /\ subs'[n].months = subs[n].months
        PROVE  Goal
    <2>1. Grown /\ NoMonth /\ NoNewGrant
      BY <1>4, QuietRows DEF NoNewGrant
    <2>2. NowApproved
      BY <1>4
    <2> HIDE DEF NowApproved
    <2> QED BY <1>2, <2>1, <2>2
  <1>5. UNCHANGED intent => NowApproved
    OBVIOUS
  <1> HIDE DEF Goal
  <1>6. ASSUME NEW i \in Intents, Checkout(i) PROVE Goal
    <2>1. \A k \in Intents : intent'[k] = "approved" => intent[k] = "approved"
      BY <1>6 DEF Checkout, TypeOK
    <2> QED BY <1>3, <1>6, <2>1 DEF Checkout
  <1>7. ASSUME NEW n \in DOMAIN subs, Lapse(n) PROVE Goal
    <2>1. UNCHANGED <<ledger, intent>>
      BY <1>7 DEF Lapse
    <2>2. \A m \in DOMAIN subs : subs[m] \in Row
      BY DEF TypeOK
    <2>3. /\ DOMAIN subs' = DOMAIN subs
          /\ \A m \in DOMAIN subs : subs'[m] = IF m = n THEN [subs[n] EXCEPT !.over = TRUE] ELSE subs[m]
      BY <1>7 DEF Lapse, TypeOK
    <2>4. \A m \in DOMAIN subs : /\ subs'[m].source = subs[m].source /\ subs'[m].key = subs[m].key
                                 /\ subs'[m].months = subs[m].months
      BY <2>2, <2>3 DEF Row
    <2> QED BY <1>4, <2>1, <2>3, <2>4
  <1>8. ASSUME NEW w \in Workers, CommitPayment(w) PROVE Goal
    BY <1>1, <1>8, PaymentGrows DEF Goal
  <1>9. ASSUME NEW w \in Workers, CommitAuthorizedPayment(w) PROVE Goal
    <2> DEFINE id == <<job[w].of, "authorized_payment">>
    <2>1. job[w].of \in Charges /\ "authorized_payment" \in TopicsOf(job[w].of)
      BY <1>9 DEF CommitAuthorizedPayment, JobsAreWhole
    <2>2. id \in Ids /\ IntentOf[id[1]] \in Recurring
      BY <2>1, TopicTypes
    <2>3. RecordAndActivate(id) /\ UNCHANGED intent
      BY <1>9 DEF CommitAuthorizedPayment
    <2> HIDE DEF id
    <2>4. Grown /\ PaidHaveRows' /\ PeriodsAreCharged' /\ NoNewGrant
      BY <2>2, <2>3, RecordGrows
    <2> QED BY <1>1, <1>5, <2>3, <2>4 DEF Goal
  <1>10. ASSUME NEW w \in Workers, CommitGrant(w) PROVE Goal
    <2> DEFINE granted == [source |-> "admin_grant", key |-> None, plan |-> job[w].of,
                           status |-> "active", over |-> FALSE, months |-> 0]
               replaced == {n \in DOMAIN job[w].seen : /\ ~IsPaid(subs[n])
                                                       /\ subs[n].status \in {"active", "pending"}}
               rest == End(subs, replaced)
    <2>1. granted \in Row
      <3>1. job[w].of \in Plans
        BY <1>10, PlanTypes DEF CommitGrant, JobsAreWhole
      <3> QED BY <3>1 DEF Row
    <2>2. subs' = Append(rest, granted) /\ UNCHANGED <<intent, ledger>>
      BY <1>10 DEF CommitGrant
    <2>3. granted.source = "admin_grant" /\ granted.key = None
      OBVIOUS
    <2> HIDE DEF granted, replaced
    <2>4. /\ rest \in Seq(Row) /\ DOMAIN rest = DOMAIN subs
          /\ \A n \in DOMAIN subs : /\ rest[n].source = subs[n].source /\ rest[n].key = subs[n].key
                                    /\ rest[n].months = subs[n].months
      BY EndRows DEF TypeOK
    <2> HIDE DEF rest
    <2>5. DOMAIN subs = 1 .. Len(subs) /\ Len(subs) \in Nat /\ Len(rest) = Len(subs)
      BY <2>4 DEF TypeOK
    <2>6. /\ DOMAIN subs' = 1 .. Len(subs) + 1 /\ subs'[Len(subs) + 1] = granted
          /\ \A n \in DOMAIN subs : subs'[n] = rest[n]
      BY <2>1, <2>2, <2>4, <2>5, AppendProperties
    <2>7. Grown
      BY <2>3, <2>4, <2>5, <2>6 DEF Grown, Shaped
    <2>8. NoMonth
      BY <2>2, <2>3, <2>4, <2>5, <2>6 DEF NoMonth, Paid
    <2> QED BY <1>2, <1>5, <1>10, <2>2, <2>7, <2>8 DEF Goal
  <1>11. ASSUME RevokeGrant PROVE Goal
    <2>1. /\ UNCHANGED <<intent, ledger>>
          /\ subs' = End(subs, {n \in DOMAIN subs : ~IsPaid(subs[n]) /\ subs[n].status = "active"})
      BY <1>11 DEF RevokeGrant
    <2> QED BY <1>4, <2>1, EndRows DEF TypeOK
  <1>12. ASSUME ExpireDueGrants PROVE Goal
    <2> DEFINE due == {n \in DOMAIN subs : /\ ~IsPaid(subs[n]) /\ subs[n].status = "active"
                                          /\ subs[n].over}
    <2>1. subs' = [n \in DOMAIN subs |-> IF n \in due THEN [subs[n] EXCEPT !.status = "expired"]
                                         ELSE subs[n]] /\ UNCHANGED <<intent, ledger>>
      BY <1>12 DEF ExpireDueGrants
    <2> HIDE DEF due
    <2>2. \A n \in DOMAIN subs : subs[n] \in Row
      BY DEF TypeOK
    <2>3. \A n \in DOMAIN subs : /\ subs'[n].source = subs[n].source /\ subs'[n].key = subs[n].key
                                 /\ subs'[n].months = subs[n].months
      BY <2>1, <2>2 DEF Row
    <2> QED BY <1>4, <2>1, <2>3
  <1>13. ASSUME UNCHANGED <<intent, ledger, subs>> PROVE Goal
    BY <1>3, <1>13
  <1>14. ASSUME NEW c \in Charges, MercadoPago(c) PROVE Goal
    BY <1>13, <1>14 DEF MercadoPago
  <1>15. ASSUME NEW w \in Workers, NEW c \in Charges, NEW t \in TopicsOf(c), Fetch(w, c, t)
         PROVE  Goal
    BY <1>13, <1>15 DEF Fetch
  <1>16. ASSUME NEW w \in Workers, Begin(w) \/ Fail(w) PROVE Goal
    BY <1>13, <1>16 DEF Begin, Fail
  <1>17. ASSUME NEW w \in Workers, NEW p \in GrantPlans, CheckGrant(w, p) PROVE Goal
    BY <1>13, <1>17 DEF CheckGrant
  <1>18. ASSUME UNCHANGED vars PROVE Goal
    BY <1>13, <1>18 DEF vars
  <1>19. Goal
    BY <1>6, <1>7, <1>8, <1>9, <1>10, <1>11, <1>12, <1>14, <1>15, <1>16, <1>17, <1>18 DEF Next
  <1> QED BY <1>19 DEF Goal

(* Rows have the key their source says, one row per key, and a monthly     *)
(* subscription that was charged has its row.                              *)
THEOREM BillingRows == Spec => [](TInv /\ DInv /\ RInv)
  BY InitTypes, NextTypes, InitDecisions, NextDecisions, InitRows, NextRows, PTL DEF Spec

(* Repeated and racing deliveries of one id extend the period once: a row  *)
(* has as many months as ids were charged to it.                           *)
THEOREM MonthsFollowCharges == Spec => []PeriodsAreCharged
  <1>1. RInv => PeriodsAreCharged
    BY DEF RInv
  <1> QED BY <1>1, BillingRows, PTL

(* An intent is approved only in the transaction that records the payment, *)
(* or puts it aside, and writes the subscription.                          *)
THEOREM ApprovalsAreAccounted == Spec => []ApprovedIsAccounted
  <1>1. RInv => ApprovedIsAccounted
    BY DEF RInv
  <1> QED BY <1>1, BillingRows, PTL

(***************************************************************************)
(* The plan of a user without grants.                                      *)
(***************************************************************************)

PaidAtMercadoPago(c) == mp[c] \in {"approved", "refunded"}

ApprovalsAreSeen ==
  \A w \in Workers :
    /\ job[w].op = "authorized_payment" => job[w].status = "approved"
    /\ job[w].op \in {"payment", "authorized_payment"} /\ job[w].status = "approved" =>
         PaidAtMercadoPago(job[w].of)

NoGrants == \A n \in DOMAIN subs : subs[n].source # "admin_grant"
PlanIsPaid == plan = FreePlan \/ \E c \in Charges : PlanOf[IntentOf[c]] = plan /\ PaidAtMercadoPago(c)

NInv == ApprovalsAreSeen /\ NoGrants /\ PlanIsPaid

LEMMA InitPlan == Init => NInv
  BY DEF Init, NInv, ApprovalsAreSeen, NoGrants, PlanIsPaid, Idle

LEMMA PaidStays == TInv /\ [Next]_vars => \A c \in Charges : PaidAtMercadoPago(c) => PaidAtMercadoPago(c)'
  <1> SUFFICES ASSUME TInv, [Next]_vars, NEW c \in Charges, PaidAtMercadoPago(c)
               PROVE  PaidAtMercadoPago(c)'
    OBVIOUS
  <1> USE DEF PaidAtMercadoPago
  <1>1. ASSUME NEW d \in Charges, MercadoPago(d) PROVE mp'[c] \in {"approved", "refunded"}
    BY <1>1 DEF MercadoPago, TInv, TypeOK
  <1> QED BY <1>1 DEF Next, vars, Checkout, Lapse, Fetch, Begin, CommitPayment,
             CommitAuthorizedPayment, Fail, CheckGrant, CommitGrant, RevokeGrant, ExpireDueGrants

LEMMA SeenStays ==
  ASSUME TInv, ApprovalsAreSeen, [Next]_vars
  PROVE  ApprovalsAreSeen'
  <1> USE DEF TInv
  <1>1. \A w \in Workers : job'[w] = job[w] \/ job'[w].op \notin {"payment", "authorized_payment"}
                           \/ (job'[w].op = job[w].op /\ job'[w].of = job[w].of /\ job'[w].status = job[w].status)
                           \/ \E c \in Charges, t \in {"payment", "authorized_payment"} :
                                t \in TopicsOf(c) /\ Fetch(w, c, t)
    <2>1. ASSUME NEW w \in Workers, job' = [job EXCEPT ![w] = Idle] \/ job' = [job EXCEPT ![w] = Failed]
          PROVE  \A v \in Workers : job'[v] = job[v] \/ job'[v].op \notin {"payment", "authorized_payment"}
      BY <2>1 DEF TypeOK, Idle, Failed
    <2>2. ASSUME NEW w \in Workers, Begin(w)
          PROVE  \A v \in Workers : job'[v] = job[v] \/ job'[v].op \notin {"payment", "authorized_payment"}
                   \/ (job'[v].op = job[w].op /\ v = w /\ job'[v].of = job[w].of /\ job'[v].status = job[w].status)
      <3> DEFINE new == [job[w] EXCEPT !.step = "open", !.seen = subs]
      <3>1. new.op = job[w].op /\ new.of = job[w].of /\ new.status = job[w].status
        BY DEF TypeOK, Job
      <3>2. job' \in {[job EXCEPT ![w] = Idle], [job EXCEPT ![w] = new]}
        BY <2>2 DEF Begin, TypeOK
      <3> HIDE DEF new
      <3> QED BY <3>1, <3>2 DEF TypeOK, Idle
    <2>3. ASSUME NEW w \in Workers, NEW p \in GrantPlans, CheckGrant(w, p)
          PROVE  \A v \in Workers : job'[v] = job[v] \/ job'[v].op \notin {"payment", "authorized_payment"}
      BY <2>3 DEF CheckGrant, TypeOK
    <2>4. ASSUME NEW w \in Workers, NEW c \in Charges, NEW t \in TopicsOf(c), Fetch(w, c, t)
          PROVE  t \in {"payment", "authorized_payment"} /\ \A v \in Workers \ {w} : job'[v] = job[v]
      BY <2>4, TopicTypes DEF Fetch, TypeOK
    <2>5. ASSUME NEW w \in Workers, CommitPayment(w) \/ CommitAuthorizedPayment(w) \/ Fail(w) \/ CommitGrant(w)
          PROVE  job' = [job EXCEPT ![w] = Idle] \/ job' = [job EXCEPT ![w] = Failed]
      BY <2>5 DEF CommitPayment, CommitAuthorizedPayment, Fail, CommitGrant
    <2>6. ASSUME UNCHANGED job PROVE \A v \in Workers : job'[v] = job[v]
      BY <2>6
    <2>7. ASSUME \/ \E i \in Intents : Checkout(i)
                 \/ \E c \in Charges : MercadoPago(c)
                 \/ \E n \in DOMAIN subs : Lapse(n)
                 \/ RevokeGrant \/ ExpireDueGrants \/ UNCHANGED vars
          PROVE  UNCHANGED job
      BY <2>7 DEF Checkout, MercadoPago, Lapse, RevokeGrant, ExpireDueGrants, vars
    <2> QED BY <2>1, <2>2, <2>3, <2>4, <2>5, <2>6, <2>7 DEF Next
  <1>2. ASSUME NEW w \in Workers, NEW c \in Charges, NEW t \in {"payment", "authorized_payment"},
               t \in TopicsOf(c), Fetch(w, c, t)
        PROVE  /\ job'[w].of = c /\ job'[w].op = t
               /\ job'[w].status = "approved" => mp[c] = "approved"
               /\ t = "authorized_payment" => job'[w].status = "approved"
    <2>1. /\ job'[w].of = c /\ job'[w].op = t /\ job'[w].status = Normalize(mp[c])
          /\ t = "authorized_payment" => mp[c] = "approved"
      BY <1>2 DEF Fetch, WorthApplying, TypeOK
    <2>2. Normalize(mp[c]) = "approved" <=> mp[c] = "approved"
      BY DEF Normalize, TypeOK
    <2> QED BY <2>1, <2>2
  <1>3. ASSUME NEW w \in Workers
        PROVE  /\ job'[w].op = "authorized_payment" => job'[w].status = "approved"
               /\ job'[w].op \in {"payment", "authorized_payment"} /\ job'[w].status = "approved" =>
                    mp'[job'[w].of] \in {"approved", "refunded"}
    <2>1. ASSUME job[w].op \in {"payment", "authorized_payment"}, job[w].status = "approved"
          PROVE  mp'[job[w].of] \in {"approved", "refunded"}
      BY <2>1, PaidStays DEF ApprovalsAreSeen, JobsAreWhole, PaidAtMercadoPago
    <2>2. ASSUME NEW c \in Charges, mp[c] = "approved" PROVE mp'[c] \in {"approved", "refunded"}
      BY <2>2, PaidStays DEF PaidAtMercadoPago
    <2>3. job[w].op = "authorized_payment" => job[w].status = "approved"
      BY DEF ApprovalsAreSeen
    <2>4. CASE \E c \in Charges, t \in {"payment", "authorized_payment"} :
                 t \in TopicsOf(c) /\ Fetch(w, c, t)
      BY <1>2, <2>2, <2>4
    <2> QED BY <1>1, <2>1, <2>3, <2>4
  <1> QED BY <1>3 DEF ApprovalsAreSeen, PaidAtMercadoPago

LEMMA NextPlan ==
  ASSUME GrantPlans = {}
  PROVE  TInv /\ DInv /\ RInv /\ NInv /\ [Next]_vars => NInv'
  <1> SUFFICES ASSUME TInv, DInv, RInv, NInv, [Next]_vars PROVE NInv'
    OBVIOUS
  <1> USE DEF TInv
  <1>1. ~\E w \in Workers : CommitGrant(w)
    BY DEF CommitGrant, JobsAreWhole
  <1>2. NoGrants'
    BY <1>1, NextRows DEF NInv, NoGrants, NoNewGrant, Grown
  <1>3. \A c \in Charges : PaidAtMercadoPago(c) => PaidAtMercadoPago(c)'
    BY PaidStays
  <1>4. ~RevokeGrant /\ ~ExpireDueGrants
    BY DEF RevokeGrant, ExpireDueGrants, NInv, NoGrants, IsPaid
  <1>5. ASSUME plan' = plan \/ plan' = FreePlan PROVE PlanIsPaid'
    BY <1>3, <1>5 DEF NInv, PlanIsPaid, PaidAtMercadoPago
  <1>6. ASSUME NEW w \in Workers, CommitPayment(w) PROVE PlanIsPaid'
    <2>1. PICK c \in Charges : c = job[w].of /\ job[w].op = "payment" /\ job[w].status \in PaymentStatuses
      BY <1>6 DEF CommitPayment, JobsAreWhole
    <2>2. job[w].status = "approved" => PaidAtMercadoPago(c)'
      BY <1>3, <2>1 DEF NInv, ApprovalsAreSeen
    <2>3. plan' \in {plan, FreePlan} \/ (plan' = PlanOf[IntentOf[c]] /\ job[w].status = "approved")
      <3>1. CASE ApplyOneTime(c, job[w].status, job[w].seen)
        BY <2>1, <3>1 DEF ApplyOneTime, SubscriptionStatus, PaymentStatuses
      <3>2. CASE job[w].status = "approved" /\ RecordAndActivate(<<c, "payment">>)
        BY <3>2 DEF RecordAndActivate
      <3> QED BY <1>6, <2>1, <3>1, <3>2 DEF CommitPayment
    <2>4. CASE plan' = PlanOf[IntentOf[c]] /\ job[w].status = "approved"
      BY <2>2, <2>4 DEF PlanIsPaid, PaidAtMercadoPago
    <2> QED BY <1>5, <2>3, <2>4
  <1>7. ASSUME NEW w \in Workers, CommitAuthorizedPayment(w) PROVE PlanIsPaid'
    <2>1. PICK c \in Charges : c = job[w].of /\ job[w].op = "authorized_payment"
      BY <1>7 DEF CommitAuthorizedPayment, JobsAreWhole
    <2>2. PaidAtMercadoPago(c)'
      BY <1>3, <2>1 DEF NInv, ApprovalsAreSeen
    <2>3. plan' = plan \/ plan' = PlanOf[IntentOf[c]]
      BY <1>7, <2>1 DEF CommitAuthorizedPayment, RecordAndActivate
    <2>4. CASE plan' = PlanOf[IntentOf[c]]
      BY <2>2, <2>4 DEF PlanIsPaid, PaidAtMercadoPago
    <2> QED BY <1>5, <2>3, <2>4
  <1>8. PlanIsPaid'
    BY <1>1, <1>4, <1>5, <1>6, <1>7
    DEF Next, vars, Checkout, MercadoPago, Lapse, Fetch, Begin, Fail, CheckGrant
  <1> QED BY <1>2, <1>8, SeenStays DEF NInv

(* Where nothing is granted, a user has a paid plan only when a charge of  *)
(* that plan was approved at Mercado Pago, whatever rows were ended since. *)
THEOREM PlansArePaidWithoutGrants ==
  ASSUME GrantPlans = {}
  PROVE  Spec => []PlanIsPaidOrGranted
  <1>1. NInv => PlanIsPaidOrGranted
    BY DEF NInv, PlanIsPaid, PaidAtMercadoPago, PlanIsPaidOrGranted
  <1> QED BY <1>1, InitPlan, NextPlan, BillingRows, PTL DEF Spec

(***************************************************************************)
(* The plan of a paying user, when nobody brings a subscription into force *)
(* while another request stands between its look at the rows and its write.*)
(***************************************************************************)

PaidInForce(n) == InForce(subs[n]) /\ IsPaid(subs[n])
SomePaid == \E n \in DOMAIN subs : PaidInForce(n)

ActiveIsApproved ==
  \A n \in DOMAIN subs : subs[n].source = "one_time" /\ subs[n].status = "active"
                           => intent[IntentOf[subs[n].key]] = "approved"
MonthlyPlans ==
  \A n \in DOMAIN subs : subs[n].source = "recurring" => subs[n].plan = PlanOf[subs[n].key]
GrantsYield ==
  SomePaid => \A n \in DOMAIN subs : ~IsPaid(subs[n]) => subs[n].status # "active"

(* The row a plan rests on: one that never lapses, or the only one.        *)
PlanFollows ==
  SomePaid => \E m \in DOMAIN subs :
                /\ PaidInForce(m) /\ plan = subs[m].plan
                /\ subs[m].source = "one_time" => \A k \in DOMAIN subs : PaidInForce(k) => k = m
SnapshotCovers ==
  \A w \in Workers : HasLooked(w) /\ job[w].step = "open" =>
    \A n \in DOMAIN subs : subs[n].status = "active" =>
      LET seen == job[w].seen IN
        n \in DOMAIN seen /\ seen[n].key = subs[n].key /\ (InForce(subs[n]) => InForce(seen[n]))
GrantsSawNone == \A w \in Workers : job[w].op = "grant" => ~SomePaid

RowsInv == ActiveIsApproved /\ MonthlyPlans /\ GrantsYield /\ PlanFollows
AInv == RowsInv /\ SnapshotCovers /\ GrantsSawNone

(* No row becomes active with its time already over.                       *)
ActiveOrigin ==
  \A n \in DOMAIN subs' : subs'[n].status = "active" /\ subs'[n].over
                            => n \in DOMAIN subs /\ subs[n].status = "active"

(* What a step does to the request of one worker.                          *)
LEMMA JobSteps ==
  ASSUME TInv, [Next]_vars, NEW w \in Workers
  PROVE  \/ job'[w] = job[w]
         \/ job'[w].op \in {"none", "failed"}
         \/ /\ UNCHANGED <<subs, plan, intent>> /\ job'[w].step = "fetched"
            /\ job'[w].op = "grant" => LivePaid(subs) = {}
         \/ /\ UNCHANGED <<subs, plan, intent>>
            /\ job'[w] = [job[w] EXCEPT !.step = "open", !.seen = subs]
  <1> USE DEF TInv, TypeOK
  <1>1. ASSUME NEW v \in Workers, job' = [job EXCEPT ![v] = Idle] \/ job' = [job EXCEPT ![v] = Failed]
        PROVE  job'[w] = job[w] \/ job'[w].op \in {"none", "failed"}
    BY <1>1 DEF Idle, Failed
  <1>2. ASSUME NEW v \in Workers, Begin(v)
        PROVE  \/ job'[w] = job[w]
               \/ job'[w].op \in {"none", "failed"}
               \/ /\ UNCHANGED <<subs, plan, intent>>
                  /\ job'[w] = [job[w] EXCEPT !.step = "open", !.seen = subs]
    <2>1. job' \in {[job EXCEPT ![v] = Idle],
                    [job EXCEPT ![v] = [job[v] EXCEPT !.step = "open", !.seen = subs]]}
      BY <1>2 DEF Begin
    <2> QED BY <1>2, <2>1 DEF Begin, Idle
  <1>3. ASSUME NEW v \in Workers, NEW p \in GrantPlans, CheckGrant(v, p)
        PROVE  \/ job'[w] = job[w]
               \/ /\ UNCHANGED <<subs, plan, intent>> /\ job'[w].step = "fetched"
                  /\ job'[w].op = "grant" => LivePaid(subs) = {}
    BY <1>3 DEF CheckGrant
  <1>4. ASSUME NEW v \in Workers, NEW c \in Charges, NEW t \in TopicsOf(c), Fetch(v, c, t)
        PROVE  \/ job'[w] = job[w]
               \/ /\ UNCHANGED <<subs, plan, intent>> /\ job'[w].step = "fetched"
                  /\ job'[w].op # "grant"
    BY <1>4, TopicTypes DEF Fetch
  <1>5. ASSUME NEW v \in Workers, CommitPayment(v) \/ CommitAuthorizedPayment(v) \/ Fail(v) \/ CommitGrant(v)
        PROVE  job' = [job EXCEPT ![v] = Idle] \/ job' = [job EXCEPT ![v] = Failed]
    BY <1>5 DEF CommitPayment, CommitAuthorizedPayment, Fail, CommitGrant
  <1>6. ASSUME \/ \E i \in Intents : Checkout(i)
               \/ \E c \in Charges : MercadoPago(c)
               \/ \E n \in DOMAIN subs : Lapse(n)
               \/ RevokeGrant \/ ExpireDueGrants \/ UNCHANGED vars
        PROVE  UNCHANGED job
    BY <1>6 DEF Checkout, MercadoPago, Lapse, RevokeGrant, ExpireDueGrants, vars
  <1> QED BY <1>1, <1>2, <1>3, <1>4, <1>5, <1>6 DEF Next

(* A look at the rows stays good as long as nobody brings one into force.  *)
LEMMA LooksStayGood ==
  ASSUME TInv, [Next]_vars, [ActivationsApart]_vars, Grown, ActiveOrigin, SnapshotCovers
  PROVE  SnapshotCovers'
  <1> SUFFICES ASSUME NEW w \in Workers, HasLooked(w)', job'[w].step = "open",
                      NEW n \in DOMAIN subs', subs'[n].status = "active"
               PROVE  /\ n \in DOMAIN job'[w].seen /\ job'[w].seen[n].key = subs'[n].key
                      /\ InForce(subs'[n]) => InForce(job'[w].seen[n])
    BY DEF SnapshotCovers
  <1>1. CASE UNCHANGED vars
    BY <1>1 DEF SnapshotCovers, HasLooked, vars
  <1>2. CASE ActivationsApart /\ job'[w] = job[w]
    <2>1. HasLooked(w) /\ job[w].step = "open"
      BY <1>2 DEF HasLooked
    <2>2. InForce(subs'[n]) => n \in DOMAIN subs /\ InForce(subs[n])
      BY <1>2, <2>1 DEF ActivationsApart
    <2>3. n \in DOMAIN subs /\ subs[n].status = "active"
      BY <2>2 DEF ActiveOrigin, InForce
    <2>4. subs'[n].key = subs[n].key
      BY <2>3 DEF Grown
    <2> QED BY <1>2, <2>1, <2>2, <2>3, <2>4 DEF SnapshotCovers
  <1>3. CASE UNCHANGED subs /\ job'[w] = [job[w] EXCEPT !.step = "open", !.seen = subs]
    BY <1>3 DEF TInv, TypeOK, Job
  <1>4. CASE job'[w].op \in {"none", "failed"}
    BY <1>4 DEF HasLooked
  <1> QED BY <1>1, <1>2, <1>3, <1>4, JobSteps

LEMMA GrantsLookGood ==
  ASSUME TInv, [Next]_vars, [ActivationsApart]_vars, Grown, GrantsSawNone
  PROVE  GrantsSawNone'
  <1> SUFFICES ASSUME NEW w \in Workers, job'[w].op = "grant",
                      NEW n \in DOMAIN subs', InForce(subs'[n]), IsPaid(subs'[n])
               PROVE  FALSE
    BY DEF GrantsSawNone, SomePaid, PaidInForce
  <1>1. CASE UNCHANGED subs
    <2>1. SomePaid /\ n \in LivePaid(subs)
      BY <1>1 DEF SomePaid, PaidInForce, LivePaid, Live, InForce
    <2>2. job[w].op # "grant" /\ LivePaid(subs) # {}
      BY <2>1 DEF GrantsSawNone
    <2>3. [job[w] EXCEPT !.step = "open", !.seen = subs].op = job[w].op
      BY DEF TInv, TypeOK, Job
    <2> QED BY <2>2, <2>3, JobSteps
  <1>2. CASE ActivationsApart /\ job'[w] = job[w]
    <2>1. n \in DOMAIN subs /\ InForce(subs[n])
      BY <1>2 DEF ActivationsApart, HasLooked
    <2>2. IsPaid(subs[n])
      BY <2>1 DEF Grown, IsPaid
    <2> QED BY <1>2, <2>1, <2>2 DEF GrantsSawNone, SomePaid, PaidInForce
  <1> QED BY <1>1, <1>2, JobSteps DEF vars

(* "NAO sobrescreve assinatura paga ativa": no grant replaces a paid plan  *)
(* in force if none comes into force between its check and its write.      *)
LEMMA GrantsSparePaidPlans == Spec /\ [][ActivationsApart]_vars => GrantKeepsPaidPlan
  <1>1. Init => GrantsSawNone
    BY DEF Init, GrantsSawNone, Idle
  <1>2. TInv /\ DInv /\ RInv /\ GrantsSawNone /\ [Next]_vars /\ [ActivationsApart]_vars => GrantsSawNone'
    BY NextRows, GrantsLookGood
  <1>3. GrantsSawNone =>
          [\A w \in Workers : CommitGrant(w) => ~\E n \in LivePaid(subs) : subs[n].status = "active"]_vars
    BY DEF GrantsSawNone, SomePaid, PaidInForce, LivePaid, Live, InForce, CommitGrant
  <1> QED BY <1>1, <1>2, <1>3, BillingRows, PTL DEF Spec, GrantKeepsPaidPlan

(* An upsert writes one row: that of its key, or a new one.                *)
LEMMA OneRowWritten ==
  ASSUME TInv, RInv, NEW rows \in Seq(Row), DOMAIN rows = DOMAIN subs,
         NEW own \in Row, own.key # None, subs' = Upsert(rows, own)
  PROVE  \E m \in DOMAIN subs' :
           /\ subs'[m] = own
           /\ m \in DOMAIN subs => m \in WithKey(own.key)
           /\ WithKey(own.key) # {} => m \in DOMAIN subs
           /\ \A n \in DOMAIN subs' \ {m} :
                n \in DOMAIN subs /\ n \notin WithKey(own.key) /\ subs'[n] = rows[n]
  <1> USE DEF TInv
  <1>0. DOMAIN subs = 1 .. Len(subs) /\ Len(subs) \in Nat /\ Len(rows) = Len(subs)
    BY DEF TypeOK
  <1>1. CASE WithKey(own.key) = {}
    <2>1. DOMAIN subs' = 1 .. Len(rows) + 1 /\ subs'[Len(rows) + 1] = own
          /\ \A n \in DOMAIN rows : subs'[n] = rows[n]
      BY <1>1, UpsertRows
    <2> QED BY <1>0, <1>1, <2>1
  <1>2. CASE WithKey(own.key) # {}
    <2>1. PICK m \in WithKey(own.key) : TRUE
      BY <1>2
    <2>2. \A n \in WithKey(own.key) : n = m
      BY <2>1 DEF RInv, KeysAreUnique, WithKey
    <2>3. /\ DOMAIN subs' = DOMAIN subs
          /\ \A n \in DOMAIN subs : /\ n \notin WithKey(own.key) => subs'[n] = rows[n]
                                    /\ n \in WithKey(own.key) => subs'[n] = own
      <3>1. DOMAIN Upsert(rows, own) = DOMAIN rows
        BY <1>2, UpsertRows
      <3>2. \A n \in DOMAIN rows :
              /\ n \notin WithKey(own.key) => Upsert(rows, own)[n] = rows[n]
              /\ n \in WithKey(own.key) => Upsert(rows, own)[n] = own
        BY UpsertRows
      <3> QED BY <3>1, <3>2
    <2> QED BY <2>1, <2>2, <2>3 DEF WithKey
  <1> QED BY <1>1, <1>2

(* A row that is ended is canceled and over, the others stay.              *)
LEMMA EndedRow ==
  ASSUME TInv, NEW ended, NEW n \in DOMAIN subs
  PROVE  /\ n \in ended => End(subs, ended)[n].status = "canceled" /\ End(subs, ended)[n].over
         /\ n \notin ended => End(subs, ended)[n] = subs[n]
  <1>1. subs[n] \in Row
    BY DEF TInv, TypeOK
  <1> QED BY <1>1 DEF End, Row

(* The rows of a single payment: when approved no other row stays active,  *)
(* else the others stay as they are.                                       *)
LEMMA OneTimeEffect ==
  ASSUME TInv, RInv, NEW c \in Charges, NEW status \in PaymentStatuses, NEW seen \in Seq(Row),
         IntentOf[c] \in OneTime, ApplyOneTime(c, status, seen)
  PROVE  \E m \in DOMAIN subs' :
           /\ subs'[m].source = "one_time" /\ subs'[m].key = c
           /\ subs'[m].plan = PlanOf[IntentOf[c]] /\ ~subs'[m].over
           /\ subs'[m].status = SubscriptionStatus(status) /\ subs'[m].months = 0
           /\ m \in DOMAIN subs => m \in WithKey(c)
           /\ \A n \in DOMAIN subs' \ {m} :
                /\ n \in DOMAIN subs /\ n \notin WithKey(c) /\ subs'[n].plan = subs[n].plan
                /\ subs'[n].months = subs[n].months
                /\ \/ subs'[n] = subs[n]
                   \/ subs'[n].status = "canceled" /\ status = "approved"
                /\ status = "approved" /\ n \in DOMAIN seen => subs'[n].status # "active"
  <1> USE DEF TInv
  <1> DEFINE s == SubscriptionStatus(status)
             own == [source |-> "one_time", key |-> c, plan |-> PlanOf[IntentOf[c]],
                     status |-> s, over |-> FALSE, months |-> 0]
             endedByIt == {n \in DOMAIN seen \ WithKey(c) :
                             s = "active" /\ subs[n].status \in {"active", "pending"}}
             rest == End(subs, endedByIt)
  <1>1. own \in Row
    <2>1. s \in {"active", "pending", "canceled"}
      BY DEF PaymentStatuses, SubscriptionStatus
    <2>2. PlanOf[IntentOf[c]] \in Plans
      BY PlanTypes, ChargesTyped
    <2> QED BY <2>1, <2>2 DEF Row
  <1>2. /\ own.source = "one_time" /\ own.key = c /\ own.plan = PlanOf[IntentOf[c]]
        /\ own.over = FALSE /\ own.status = s /\ own.months = 0
    OBVIOUS
  <1>3. subs' = Upsert(rest, own)
    BY DEF ApplyOneTime, OneTimeRows
  <1>4. s = "active" <=> status = "approved"
    BY DEF PaymentStatuses, SubscriptionStatus
  <1>5. own.key # None
    BY <1>2, IntentsApart
  <1>6. \A n : n \in endedByIt <=> /\ n \in DOMAIN seen /\ n \notin WithKey(c) /\ s = "active"
                                   /\ subs[n].status \in {"active", "pending"}
    OBVIOUS
  <1> HIDE DEF own, endedByIt, s
  <1>7. rest \in Seq(Row) /\ DOMAIN rest = DOMAIN subs
    BY EndRows DEF TypeOK
  <1>8. \A n \in DOMAIN subs : /\ n \in endedByIt => rest[n].status = "canceled"
                               /\ n \notin endedByIt => rest[n] = subs[n]
                               /\ rest[n].plan = subs[n].plan /\ rest[n].months = subs[n].months
    BY EndedRow, EndRows DEF TypeOK
  <1> HIDE DEF rest
  <1>9. PICK m \in DOMAIN subs' :
          /\ subs'[m] = own
          /\ m \in DOMAIN subs => m \in WithKey(own.key)
          /\ \A n \in DOMAIN subs' \ {m} :
               n \in DOMAIN subs /\ n \notin WithKey(own.key) /\ subs'[n] = rest[n]
    BY <1>1, <1>3, <1>5, <1>7, OneRowWritten
  <1>10. ASSUME NEW n \in DOMAIN subs' \ {m}
         PROVE  /\ n \in DOMAIN subs /\ n \notin WithKey(c) /\ subs'[n].plan = subs[n].plan
                /\ subs'[n].months = subs[n].months
                /\ \/ subs'[n] = subs[n]
                   \/ subs'[n].status = "canceled" /\ status = "approved"
                /\ status = "approved" /\ n \in DOMAIN seen => subs'[n].status # "active"
    BY <1>2, <1>4, <1>6, <1>8, <1>9
  <1> QED BY <1>2, <1>9, <1>10 DEF s

(* A monthly charge: its row is active, and no grant is.                   *)
LEMMA RecurringEffect ==
  ASSUME TInv, RInv, NEW i \in Recurring, subs' = RecurringRows(i)
  PROVE  \E m \in DOMAIN subs' :
           /\ subs'[m].source = "recurring" /\ subs'[m].key = i
           /\ MonthlyPlans => subs'[m].plan = PlanOf[i]
           /\ subs'[m].status = "active"
           /\ \A n \in DOMAIN subs' \ {m} :
                /\ n \in DOMAIN subs /\ subs'[n].months = subs[n].months
                /\ IsPaid(subs[n]) => subs'[n] = subs[n]
                /\ ~IsPaid(subs[n]) => subs'[n].status # "active"
  <1> USE DEF TInv
  <1> DEFINE first == [source |-> "recurring", key |-> i, plan |-> PlanOf[i],
                       status |-> "active", over |-> FALSE, months |-> 1]
             row == CHOOSE n \in WithKey(i) : TRUE
             more == [subs[row] EXCEPT !.status = "active", !.months = @ + 1]
             own == IF WithKey(i) = {} THEN first ELSE more
             liveGrants == {n \in DOMAIN subs : /\ ~IsPaid(subs[n])
                                               /\ subs[n].status \in {"active", "pending"}}
             rest == End(subs, liveGrants)
  <1>1. subs' = Upsert(rest, own)
    BY DEF RecurringRows
  <1>2. /\ own \in Row /\ own.source = "recurring" /\ own.key = i
        /\ own.status = "active" /\ (MonthlyPlans => own.plan = PlanOf[i])
    <2>1. CASE WithKey(i) = {}
      <3>1. PlanOf[i] \in Plans
        BY PlanTypes DEF Intents
      <3> QED BY <2>1, <3>1 DEF Row
    <2>2. CASE WithKey(i) # {}
      <3>1. row \in DOMAIN subs /\ subs[row].key = i
        BY <2>2 DEF WithKey
      <3>2. subs[row] \in Row
        BY <3>1 DEF TypeOK
      <3>3. subs[row].source = "recurring"
        <4>1. i \notin Charges /\ i # None
          BY ChargesTyped, IntentsApart DEF Intents
        <4> QED BY <3>1, <3>2, <4>1 DEF RInv, RowShapes, Shaped, Row
      <3>4. MonthlyPlans => subs[row].plan = PlanOf[i]
        BY <3>1, <3>3 DEF MonthlyPlans
      <3>5. /\ more \in Row /\ more.source = subs[row].source /\ more.key = subs[row].key
            /\ more.plan = subs[row].plan /\ more.status = "active"
        <4>1. subs[row].months + 1 \in Nat
          BY <3>2 DEF Row
        <4>2. more = [subs[row] EXCEPT !.status = "active", !.months = subs[row].months + 1]
          BY <3>2 DEF Row
        <4>3. \A r \in Row, k \in Nat : LET x == [r EXCEPT !.status = "active", !.months = k] IN
                /\ x \in Row /\ x.source = r.source /\ x.key = r.key
                /\ x.plan = r.plan /\ x.status = "active"
          BY DEF Row
        <4> HIDE DEF row, more
        <4> QED BY <3>2, <4>1, <4>2, <4>3
      <3> HIDE DEF row
      <3> HIDE DEF more
      <3> QED BY <2>2, <3>1, <3>3, <3>4, <3>5
    <2> QED BY <2>1, <2>2
  <1>3. own.key # None
    BY <1>2, IntentsApart DEF Intents
  <1>4. \A n : n \in liveGrants <=> /\ n \in DOMAIN subs /\ ~IsPaid(subs[n])
                                    /\ subs[n].status \in {"active", "pending"}
    OBVIOUS
  <1> HIDE DEF own, liveGrants
  <1>5. rest \in Seq(Row) /\ DOMAIN rest = DOMAIN subs
    BY EndRows DEF TypeOK
  <1>6. \A n \in DOMAIN subs : /\ n \in liveGrants => rest[n].status = "canceled"
                               /\ n \notin liveGrants => rest[n] = subs[n]
                               /\ rest[n].months = subs[n].months
    BY EndedRow, EndRows DEF TypeOK
  <1> HIDE DEF rest
  <1>7. PICK m \in DOMAIN subs' :
          /\ subs'[m] = own
          /\ \A n \in DOMAIN subs' \ {m} : n \in DOMAIN subs /\ subs'[n] = rest[n]
    BY <1>1, <1>2, <1>3, <1>5, OneRowWritten
  <1>8. ASSUME NEW n \in DOMAIN subs' \ {m}
        PROVE  /\ n \in DOMAIN subs /\ subs'[n].months = subs[n].months
               /\ IsPaid(subs[n]) => subs'[n] = subs[n]
               /\ ~IsPaid(subs[n]) => subs'[n].status # "active"
    BY <1>4, <1>6, <1>7
  <1> QED BY <1>2, <1>7, <1>8

LEMMA InitApart == Init => AInv
  <1> SUFFICES ASSUME Init PROVE AInv
    OBVIOUS
  <1>1. DOMAIN subs = {} /\ ~SomePaid
    BY DEF Init, SomePaid
  <1>2. \A w \in Workers : job[w].op = "none" /\ job[w].step = "idle"
    BY DEF Init, Idle
  <1> QED BY <1>1, <1>2 DEF AInv, RowsInv, ActiveIsApproved, MonthlyPlans, GrantsYield, PlanFollows,
             SnapshotCovers, GrantsSawNone

(* Nothing comes into force, and what a plan may rest on stays: all rows,  *)
(* or all but one single payment.                                          *)
LEMMA FewerInForce ==
  ASSUME TInv, RInv, RowsInv, Grown, Kept, SomePaid => plan' = plan,
         \A n \in DOMAIN subs' \ DOMAIN subs : subs'[n].source # "recurring",
         \A n \in DOMAIN subs' : subs'[n].status = "active" =>
           n \in DOMAIN subs /\ subs[n].status = "active" /\ (InForce(subs'[n]) => InForce(subs[n])),
         \A n \in DOMAIN subs : PaidInForce(n) => subs'[n].plan = subs[n].plan,
         \A n \in DOMAIN subs : subs[n].source = "recurring" =>
           subs'[n].plan = subs[n].plan /\ (InForce(subs[n]) => InForce(subs'[n]))
  PROVE  RowsInv'
  <1>1. \A n \in DOMAIN subs' : InForce(subs'[n]) /\ IsPaid(subs'[n]) => n \in DOMAIN subs /\ PaidInForce(n)
    BY DEF Grown, PaidInForce, IsPaid, InForce
  <1>2. ActiveIsApproved'
    <2> SUFFICES ASSUME NEW n \in DOMAIN subs', subs'[n].source = "one_time", subs'[n].status = "active"
                 PROVE  intent'[IntentOf[subs'[n].key]] = "approved"
      BY DEF ActiveIsApproved
    <2>1. n \in DOMAIN subs /\ subs[n].status = "active"
          /\ subs'[n].source = subs[n].source /\ subs'[n].key = subs[n].key
      BY DEF Grown
    <2>2. intent[IntentOf[subs[n].key]] = "approved" /\ subs[n].key \in Charges
      BY <2>1 DEF RowsInv, ActiveIsApproved, RInv, RowShapes, Shaped
    <2> QED BY <2>1, <2>2, ChargesTyped DEF Kept
  <1>3. GrantsYield'
    <2> SUFFICES ASSUME NEW k \in DOMAIN subs', InForce(subs'[k]), IsPaid(subs'[k]),
                        NEW n \in DOMAIN subs', ~IsPaid(subs'[n]), subs'[n].status = "active"
                 PROVE  FALSE
      BY DEF GrantsYield, SomePaid, PaidInForce
    <2> QED BY <1>1 DEF RowsInv, GrantsYield, SomePaid, Grown, IsPaid
  <1>4. PlanFollows'
    <2> SUFFICES ASSUME NEW k \in DOMAIN subs', InForce(subs'[k]), IsPaid(subs'[k])
                 PROVE  \E m \in DOMAIN subs' :
                          /\ InForce(subs'[m]) /\ IsPaid(subs'[m]) /\ plan' = subs'[m].plan
                          /\ subs'[m].source = "one_time" =>
                               \A h \in DOMAIN subs' : InForce(subs'[h]) /\ IsPaid(subs'[h]) => h = m
      BY DEF PlanFollows, SomePaid, PaidInForce
    <2>1. k \in DOMAIN subs /\ PaidInForce(k)
      BY <1>1
    <2>2. PICK m \in DOMAIN subs :
            /\ PaidInForce(m) /\ plan = subs[m].plan
            /\ subs[m].source = "one_time" => \A h \in DOMAIN subs : PaidInForce(h) => h = m
      BY <2>1 DEF RowsInv, PlanFollows, SomePaid
    <2>0. plan' = plan
      BY <2>1 DEF SomePaid
    <2>3. m \in DOMAIN subs' /\ subs'[m].source = subs[m].source /\ subs'[m].plan = subs[m].plan
      BY <2>2 DEF Grown
    <2>4. CASE subs[m].source = "one_time"
      BY <1>1, <2>0, <2>1, <2>2, <2>3, <2>4
    <2>5. CASE subs[m].source # "one_time"
      <3>1. subs[m].source = "recurring"
        <4>1. subs[m] \in Row
          BY DEF TInv, TypeOK
        <4> QED BY <2>2, <2>5, <4>1 DEF PaidInForce, IsPaid, Row
      <3> QED BY <2>0, <2>2, <2>3, <3>1 DEF PaidInForce, IsPaid
    <2> QED BY <2>4, <2>5
  <1>5. MonthlyPlans'
    BY DEF MonthlyPlans, RowsInv, Grown
  <1> QED BY <1>2, <1>3, <1>4, <1>5 DEF RowsInv

(* A single payment.                                                       *)
LEMMA OneTimeKeepsPlan ==
  ASSUME TInv, DInv, RInv, AInv, [Next]_vars, Grown, Kept, NEW w \in Workers, CommitPayment(w),
         NEW c \in Charges, c = job[w].of, IntentOf[c] \in OneTime,
         ApplyOneTime(c, job[w].status, job[w].seen)
  PROVE  RowsInv' /\ ActiveOrigin
  <1> USE DEF TInv
  <1>1. /\ job[w].status \in PaymentStatuses /\ job[w].seen \in Seq(Row)
        /\ job[w].op = "payment" /\ job[w].step = "open"
    BY DEF CommitPayment, JobsAreWhole, TypeOK, Job
  <1>2. PICK m \in DOMAIN subs' :
          /\ subs'[m].source = "one_time" /\ subs'[m].key = c
          /\ subs'[m].plan = PlanOf[IntentOf[c]] /\ ~subs'[m].over
          /\ subs'[m].status = SubscriptionStatus(job[w].status)
          /\ m \in DOMAIN subs => m \in WithKey(c)
          /\ \A n \in DOMAIN subs' \ {m} :
               /\ n \in DOMAIN subs /\ n \notin WithKey(c) /\ subs'[n].plan = subs[n].plan
               /\ \/ subs'[n] = subs[n]
                  \/ subs'[n].status = "canceled" /\ job[w].status = "approved"
               /\ job[w].status = "approved" /\ n \in DOMAIN job[w].seen => subs'[n].status # "active"
    BY <1>1, OneTimeEffect
  <1>3. ActiveOrigin
    BY <1>2 DEF ActiveOrigin
  <1>4. CASE job[w].status = "approved"
    <2>1. SubscriptionStatus(job[w].status) = "active"
      BY <1>4 DEF SubscriptionStatus
    <2>2. plan' = PlanOf[IntentOf[c]]
      BY <2>1 DEF ApplyOneTime
    <2>3. HasLooked(w)
      BY <1>1, <1>4 DEF HasLooked
    <2>4. \A n \in DOMAIN subs' \ {m} : subs'[n].status # "active"
      BY <1>1, <1>2, <1>4, <2>3 DEF AInv, SnapshotCovers
    <2>5. IsPaid(subs'[m]) /\ InForce(subs'[m]) /\ plan' = subs'[m].plan
      BY <1>2, <2>1, <2>2 DEF IsPaid, InForce
    <2>6. intent'[IntentOf[c]] = "approved"
      BY <1>4, ChargesTyped DEF CommitPayment, TypeOK
    <2>7. ActiveIsApproved'
      BY <1>2, <2>4, <2>6 DEF ActiveIsApproved
    <2>8. GrantsYield'
      BY <2>4, <2>5 DEF GrantsYield
    <2>9. PlanFollows'
      <3>1. \A k \in DOMAIN subs' : InForce(subs'[k]) => k = m
        BY <2>4 DEF InForce
      <3> QED BY <2>5, <3>1 DEF PlanFollows, PaidInForce
    <2>10. MonthlyPlans'
      <3> SUFFICES ASSUME NEW n \in DOMAIN subs', subs'[n].source = "recurring"
                   PROVE  subs'[n].plan = PlanOf[subs'[n].key]
        BY DEF MonthlyPlans
      <3> QED BY <1>2 DEF AInv, RowsInv, MonthlyPlans, Grown
    <2> QED BY <1>3, <2>7, <2>8, <2>9, <2>10 DEF RowsInv
  <1>5. CASE job[w].status # "approved"
    <2>1. \A n \in DOMAIN subs' \ {m} : n \in DOMAIN subs /\ n \notin WithKey(c) /\ subs'[n] = subs[n]
      BY <1>2, <1>5
    <2>2. subs'[m].status # "active"
      BY <1>1, <1>2, <1>5 DEF SubscriptionStatus, PaymentStatuses
    <2>3. intent[IntentOf[c]] # "approved"
      BY <1>1, <1>5 DEF DInv, DecisionHolds, OpenPayment
    <2>4. m \in DOMAIN subs => subs[m].source = "one_time" /\ subs[m].status # "active"
      BY <1>2, <2>3 DEF Grown, WithKey, AInv, RowsInv, ActiveIsApproved
    <2>5. ASSUME NEW n \in DOMAIN subs, PaidInForce(n), job[w].status # "pending"
          PROVE  OtherActive(job[w].seen, c)
      <3>1. HasLooked(w)
        BY <1>1, <2>5 DEF HasLooked
      <3>2. subs[n].status = "active" /\ InForce(subs[n])
        BY <2>5 DEF PaidInForce, InForce
      <3>3. /\ n \in DOMAIN job[w].seen /\ job[w].seen[n].key = subs[n].key
            /\ InForce(job[w].seen[n])
        BY <1>1, <3>1, <3>2 DEF AInv, SnapshotCovers
      <3>4. n # m
        BY <2>4, <3>2
      <3>5. subs[n].key # c
        BY <2>1, <3>4 DEF Grown, WithKey
      <3> QED BY <3>3, <3>5 DEF OtherActive, InForce
    <2>6. SomePaid => plan' = plan
      <3> SUFFICES ASSUME NEW n \in DOMAIN subs, PaidInForce(n) PROVE plan' = plan
        BY DEF SomePaid
      <3>1. CASE job[w].status = "pending"
        BY <3>1 DEF ApplyOneTime, SubscriptionStatus
      <3>2. CASE job[w].status # "pending"
        BY <1>1, <1>5, <2>5, <3>2 DEF ApplyOneTime, SubscriptionStatus, PaymentStatuses
      <3> QED BY <3>1, <3>2
    <2>7. \A n \in DOMAIN subs : n # m => subs'[n] = subs[n]
      BY <2>1 DEF Grown
    <2>8. \A n \in DOMAIN subs' : subs'[n].status = "active" =>
            n \in DOMAIN subs /\ subs[n].status = "active" /\ (InForce(subs'[n]) => InForce(subs[n]))
      BY <2>1, <2>2
    <2>9. \A n \in DOMAIN subs' \ DOMAIN subs : subs'[n].source # "recurring"
      BY <1>2, <2>1
    <2>10. \A n \in DOMAIN subs : PaidInForce(n) => subs'[n].plan = subs[n].plan
      BY <2>4, <2>7 DEF PaidInForce, InForce
    <2>11. \A n \in DOMAIN subs : subs[n].source = "recurring" =>
             subs'[n].plan = subs[n].plan /\ (InForce(subs[n]) => InForce(subs'[n]))
      BY <2>4, <2>7
    <2>12. RowsInv'
      BY <2>6, <2>8, <2>9, <2>10, <2>11, FewerInForce DEF AInv
    <2> QED BY <1>3, <2>12
  <1> QED BY <1>4, <1>5

(* A step that leaves the rows and the plan alone.                         *)
LEMMA QuietKeepsPlan ==
  ASSUME TInv, RInv, AInv, Grown, Kept, UNCHANGED <<subs, plan>>
  PROVE  RowsInv' /\ ActiveOrigin
  <1>1. ActiveOrigin
    BY DEF ActiveOrigin
  <1>2. RowsInv'
    BY FewerInForce DEF AInv
  <1> QED BY <1>1, <1>2

(* A monthly charge, of either topic.                                      *)
LEMMA RecordKeepsPlan ==
  ASSUME TInv, DInv, RInv, AInv, Grown, Kept, NoRevival', NEW id \in Ids,
         IntentOf[id[1]] \in Recurring, RecordAndActivate(id)
  PROVE  RowsInv' /\ ActiveOrigin
  <1>1. CASE UNCHANGED <<subs, plan>>
    BY <1>1, QuietKeepsPlan
  <1>2. CASE subs' = RecurringRows(IntentOf[id[1]]) /\ plan' = PlanOf[IntentOf[id[1]]]
    <2> DEFINE i == IntentOf[id[1]]
    <2>1. PICK m \in DOMAIN subs' :
            /\ subs'[m].source = "recurring" /\ subs'[m].key = i
            /\ subs'[m].plan = PlanOf[i] /\ subs'[m].status = "active"
            /\ \A n \in DOMAIN subs' \ {m} :
                 /\ n \in DOMAIN subs
                 /\ IsPaid(subs[n]) => subs'[n] = subs[n]
                 /\ ~IsPaid(subs[n]) => subs'[n].status # "active"
      BY <1>2, RecurringEffect DEF AInv, RowsInv
    <2>2. ~subs'[m].over
      BY <2>1 DEF NoRevival
    <2>3. InForce(subs'[m]) /\ IsPaid(subs'[m]) /\ plan' = subs'[m].plan
      BY <1>2, <2>1, <2>2 DEF InForce, IsPaid
    <2>4. \A n \in DOMAIN subs' \ {m} : n \in DOMAIN subs /\ (IsPaid(subs'[n]) <=> IsPaid(subs[n]))
      BY <2>1 DEF Grown, IsPaid
    <2>5. PlanFollows'
      BY <2>1, <2>3 DEF PlanFollows, PaidInForce
    <2>6. GrantsYield'
      BY <2>1, <2>3, <2>4 DEF GrantsYield
    <2>7. ActiveIsApproved'
      <3> SUFFICES ASSUME NEW n \in DOMAIN subs', subs'[n].source = "one_time", subs'[n].status = "active"
                   PROVE  intent'[IntentOf[subs'[n].key]] = "approved"
        BY DEF ActiveIsApproved
      <3>1. n # m /\ IsPaid(subs'[n])
        BY <2>1 DEF IsPaid
      <3>2. n \in DOMAIN subs /\ subs'[n] = subs[n]
        BY <2>1, <2>4, <3>1
      <3>3. subs[n].key \in Charges /\ intent[IntentOf[subs[n].key]] = "approved"
        BY <3>2 DEF AInv, RowsInv, ActiveIsApproved, RInv, RowShapes, Shaped
      <3> QED BY <3>2, <3>3, ChargesTyped DEF Kept
    <2>8. MonthlyPlans'
      <3> SUFFICES ASSUME NEW n \in DOMAIN subs', subs'[n].source = "recurring"
                   PROVE  subs'[n].plan = PlanOf[subs'[n].key]
        BY DEF MonthlyPlans
      <3>1. CASE n = m
        BY <2>1, <3>1
      <3>2. CASE n # m
        <4>1. IsPaid(subs'[n])
          BY DEF IsPaid
        <4>2. n \in DOMAIN subs /\ subs'[n] = subs[n]
          BY <2>1, <2>4, <3>2, <4>1
        <4> QED BY <4>2 DEF AInv, RowsInv, MonthlyPlans
      <3> QED BY <3>1, <3>2
    <2>9. ActiveOrigin
      <3> SUFFICES ASSUME NEW n \in DOMAIN subs', subs'[n].status = "active", subs'[n].over
                   PROVE  n \in DOMAIN subs /\ subs[n].status = "active"
        BY DEF ActiveOrigin
      <3> QED BY <2>1, <2>2
    <2> QED BY <2>5, <2>6, <2>7, <2>8, <2>9 DEF RowsInv
  <1> QED BY <1>1, <1>2 DEF RecordAndActivate

(* A grant, which found nobody paying.                                     *)
LEMMA GrantKeepsPlan ==
  ASSUME TInv, RInv, AInv, Grown, Kept, NEW w \in Workers, CommitGrant(w)
  PROVE  RowsInv' /\ ActiveOrigin
  <1> USE DEF TInv
  <1> DEFINE granted == [source |-> "admin_grant", key |-> None, plan |-> job[w].of,
                         status |-> "active", over |-> FALSE, months |-> 0]
             replaced == {n \in DOMAIN job[w].seen : /\ ~IsPaid(subs[n])
                                                     /\ subs[n].status \in {"active", "pending"}}
             rest == End(subs, replaced)
  <1>1. ~SomePaid
    BY DEF CommitGrant, AInv, GrantsSawNone
  <1>2. subs' = Append(rest, granted)
    BY DEF CommitGrant
  <1>3. granted \in Row /\ granted.source = "admin_grant" /\ granted.over = FALSE
    <2>1. job[w].of \in Plans
      BY PlanTypes DEF CommitGrant, JobsAreWhole
    <2> QED BY <2>1 DEF Row
  <1> HIDE DEF granted, replaced
  <1>4. /\ rest \in Seq(Row) /\ DOMAIN rest = DOMAIN subs
        /\ \A n \in DOMAIN subs : /\ rest[n].plan = subs[n].plan
                                  /\ rest[n] = subs[n] \/ rest[n].status = "canceled"
    BY EndRows, EndedRow DEF TypeOK
  <1> HIDE DEF rest
  <1>5. DOMAIN subs = 1 .. Len(subs) /\ Len(subs) \in Nat /\ Len(rest) = Len(subs)
    BY <1>4 DEF TypeOK
  <1>6. /\ DOMAIN subs' = 1 .. Len(subs) + 1 /\ subs'[Len(subs) + 1] = granted
        /\ \A n \in DOMAIN subs : subs'[n] = rest[n]
    BY <1>2, <1>3, <1>4, <1>5, AppendProperties
  <1>7. \A n \in DOMAIN subs' : n \in DOMAIN subs \/ subs'[n] = granted
    BY <1>5, <1>6
  <1>8. ActiveOrigin
    BY <1>3, <1>4, <1>6, <1>7 DEF ActiveOrigin
  <1>9. \A n \in DOMAIN subs' : ~(InForce(subs'[n]) /\ IsPaid(subs'[n]))
    BY <1>1, <1>3, <1>4, <1>6, <1>7 DEF InForce, IsPaid, SomePaid, PaidInForce
  <1>10. GrantsYield' /\ PlanFollows'
    BY <1>9 DEF GrantsYield, PlanFollows, SomePaid, PaidInForce
  <1>11. ActiveIsApproved'
    <2> SUFFICES ASSUME NEW n \in DOMAIN subs', subs'[n].source = "one_time", subs'[n].status = "active"
                 PROVE  intent'[IntentOf[subs'[n].key]] = "approved"
      BY DEF ActiveIsApproved
    <2>1. n \in DOMAIN subs /\ subs'[n] = subs[n]
      BY <1>3, <1>4, <1>6, <1>7
    <2>2. subs[n].key \in Charges /\ intent[IntentOf[subs[n].key]] = "approved"
      BY <2>1 DEF AInv, RowsInv, ActiveIsApproved, RInv, RowShapes, Shaped
    <2> QED BY <2>1, <2>2, ChargesTyped DEF Kept
  <1>12. MonthlyPlans'
    <2> SUFFICES ASSUME NEW n \in DOMAIN subs', subs'[n].source = "recurring"
                 PROVE  subs'[n].plan = PlanOf[subs'[n].key]
      BY DEF MonthlyPlans
    <2>1. n \in DOMAIN subs /\ subs'[n].plan = subs[n].plan
      BY <1>3, <1>4, <1>6, <1>7
    <2> QED BY <2>1 DEF AInv, RowsInv, MonthlyPlans, Grown
  <1> QED BY <1>8, <1>10, <1>11, <1>12 DEF RowsInv

(* The end of grants, and of the time of a row.                            *)
LEMMA EndKeepsPlan ==
  ASSUME TInv, RInv, AInv, Grown, Kept,
         RevokeGrant \/ ExpireDueGrants \/ \E n \in DOMAIN subs : Lapse(n)
  PROVE  RowsInv' /\ ActiveOrigin
  <1> USE DEF TInv
  <1>0. \A n \in DOMAIN subs : subs[n] \in Row
    BY DEF TypeOK
  <1>1. ASSUME DOMAIN subs' = DOMAIN subs, SomePaid => plan' = plan,
               \A n \in DOMAIN subs :
                 /\ subs'[n].plan = subs[n].plan
                 /\ subs'[n].status = "active" => subs[n].status = "active"
                 /\ InForce(subs'[n]) => InForce(subs[n])
                 /\ subs[n].source = "recurring" => subs'[n] = subs[n]
        PROVE  RowsInv' /\ ActiveOrigin
    <2>1. ActiveOrigin
      BY <1>1 DEF ActiveOrigin
    <2>2. RowsInv'
      BY <1>1, FewerInForce DEF AInv
    <2> QED BY <2>1, <2>2
  <1>2. CASE RevokeGrant
    <2> DEFINE ended == {n \in DOMAIN subs : ~IsPaid(subs[n]) /\ subs[n].status = "active"}
    <2>1. subs' = End(subs, ended) /\ ended # {}
      BY <1>2 DEF RevokeGrant
    <2>2. ~SomePaid
      BY <2>1 DEF AInv, RowsInv, GrantsYield
    <2>3. \A n \in DOMAIN subs : subs[n].source = "recurring" => n \notin ended
      BY DEF IsPaid
    <2> HIDE DEF ended
    <2>4. DOMAIN subs' = DOMAIN subs /\ \A n \in DOMAIN subs : subs'[n].plan = subs[n].plan
      BY <2>1, EndRows DEF TypeOK
    <2>5. \A n \in DOMAIN subs : \/ subs'[n] = subs[n]
                                 \/ n \in ended /\ subs'[n].status = "canceled"
      BY <2>1, EndedRow
    <2>6. \A n \in DOMAIN subs :
            /\ subs'[n].plan = subs[n].plan
            /\ subs'[n].status = "active" => subs[n].status = "active"
            /\ InForce(subs'[n]) => InForce(subs[n])
            /\ subs[n].source = "recurring" => subs'[n] = subs[n]
      BY <2>3, <2>4, <2>5 DEF InForce
    <2> QED BY <1>1, <2>2, <2>4, <2>6
  <1>3. CASE ExpireDueGrants
    <2> DEFINE due == {n \in DOMAIN subs : /\ ~IsPaid(subs[n]) /\ subs[n].status = "active"
                                          /\ subs[n].over}
    <2>1. due # {} /\ subs' = [n \in DOMAIN subs |-> IF n \in due THEN [subs[n] EXCEPT !.status = "expired"]
                                                     ELSE subs[n]]
      BY <1>3 DEF ExpireDueGrants
    <2>2. ~SomePaid
      BY <2>1 DEF AInv, RowsInv, GrantsYield
    <2>3. \A n \in DOMAIN subs : subs[n].source = "recurring" => n \notin due
      BY DEF IsPaid
    <2> HIDE DEF due
    <2>4. \A n \in DOMAIN subs : /\ subs'[n].plan = subs[n].plan
                                 /\ subs'[n] = subs[n] \/ (n \in due /\ subs'[n].status = "expired")
      BY <1>0, <2>1 DEF Row
    <2>5. \A n \in DOMAIN subs :
            /\ subs'[n].plan = subs[n].plan
            /\ subs'[n].status = "active" => subs[n].status = "active"
            /\ InForce(subs'[n]) => InForce(subs[n])
            /\ subs[n].source = "recurring" => subs'[n] = subs[n]
      BY <2>3, <2>4 DEF InForce
    <2> QED BY <1>1, <2>1, <2>2, <2>5
  <1>4. ASSUME NEW n \in DOMAIN subs, Lapse(n) PROVE RowsInv' /\ ActiveOrigin
    <2>1. /\ DOMAIN subs' = DOMAIN subs
          /\ \A m \in DOMAIN subs : subs'[m] = IF m = n THEN [subs[n] EXCEPT !.over = TRUE] ELSE subs[m]
      BY <1>4 DEF Lapse, TypeOK
    <2>2. \A m \in DOMAIN subs : /\ subs'[m].plan = subs[m].plan /\ subs'[m].status = subs[m].status
                                 /\ subs'[m] = subs[m] \/ (m = n /\ subs'[m].over)
      BY <1>0, <2>1 DEF Row
    <2>3. subs[n].source # "recurring" /\ plan' = plan
      BY <1>4 DEF Lapse
    <2>4. \A m \in DOMAIN subs :
            /\ subs'[m].plan = subs[m].plan
            /\ subs'[m].status = "active" => subs[m].status = "active"
            /\ InForce(subs'[m]) => InForce(subs[m])
            /\ subs[m].source = "recurring" => subs'[m] = subs[m]
      BY <2>2, <2>3 DEF InForce
    <2> QED BY <1>1, <2>1, <2>3, <2>4
  <1> QED BY <1>2, <1>3, <1>4

LEMMA NextApart ==
  TInv /\ DInv /\ RInv /\ AInv /\ NoRevival' /\ [Next]_vars /\ [ActivationsApart]_vars => AInv'
  <1> SUFFICES ASSUME TInv, DInv, RInv, AInv, NoRevival', [Next]_vars, [ActivationsApart]_vars
               PROVE  AInv'
    OBVIOUS
  <1>1. Grown /\ Kept
    BY NextRows, NextDecisions
  <1>2. ASSUME UNCHANGED <<subs, plan>> PROVE RowsInv' /\ ActiveOrigin
    BY <1>1, <1>2, QuietKeepsPlan
  <1>3. ASSUME NEW w \in Workers, CommitPayment(w) PROVE RowsInv' /\ ActiveOrigin
    <2>1. PICK c \in Charges : c = job[w].of /\ "payment" \in TopicsOf(c)
      BY <1>3 DEF CommitPayment, TInv, JobsAreWhole
    <2>2. CASE IntentOf[c] \in OneTime /\ ApplyOneTime(c, job[w].status, job[w].seen)
      BY <1>1, <1>3, <2>1, <2>2, OneTimeKeepsPlan
    <2>3. CASE IntentOf[c] \in Recurring /\ RecordAndActivate(<<c, "payment">>)
      <3>1. <<c, "payment">> \in Ids /\ <<c, "payment">>[1] = c
        BY <2>1, TopicTypes
      <3> QED BY <1>1, <2>3, <3>1, RecordKeepsPlan
    <2> QED BY <1>2, <1>3, <2>1, <2>2, <2>3 DEF CommitPayment
  <1>4. ASSUME NEW w \in Workers, CommitAuthorizedPayment(w) PROVE RowsInv' /\ ActiveOrigin
    <2> DEFINE id == <<job[w].of, "authorized_payment">>
    <2>1. job[w].of \in Charges /\ "authorized_payment" \in TopicsOf(job[w].of)
      BY <1>4 DEF CommitAuthorizedPayment, TInv, JobsAreWhole
    <2>2. id \in Ids /\ IntentOf[id[1]] \in Recurring
      BY <2>1, TopicTypes
    <2>3. RecordAndActivate(id)
      BY <1>4 DEF CommitAuthorizedPayment
    <2> HIDE DEF id
    <2> QED BY <1>1, <2>2, <2>3, RecordKeepsPlan
  <1>5. ASSUME NEW w \in Workers, CommitGrant(w) PROVE RowsInv' /\ ActiveOrigin
    BY <1>1, <1>5, GrantKeepsPlan
  <1>6. ASSUME RevokeGrant \/ ExpireDueGrants \/ \E n \in DOMAIN subs : Lapse(n)
        PROVE  RowsInv' /\ ActiveOrigin
    BY <1>1, <1>6, EndKeepsPlan
  <1>7. RowsInv' /\ ActiveOrigin
    BY <1>2, <1>3, <1>4, <1>5, <1>6
    DEF Next, vars, Checkout, MercadoPago, Fetch, Begin, Fail, CheckGrant
  <1>8. SnapshotCovers' /\ GrantsSawNone'
    BY <1>1, <1>7, LooksStayGood, GrantsLookGood DEF AInv
  <1> QED BY <1>7, <1>8 DEF AInv

(* If nobody brings a subscription into force while another request stands *)
(* between its look at the rows and its write, and no monthly charge       *)
(* revives a row that was ended, a user with a paid subscription in force  *)
(* has the plan of one in force.                                           *)
THEOREM PayingUsersKeepAPlan ==
  Spec /\ []NoRevival /\ [][ActivationsApart]_vars => []PlanOfALiveRow
  <1>1. AInv => PlanOfALiveRow
    BY DEF AInv, RowsInv, PlanFollows, SomePaid, PaidInForce, PlanOfALiveRow, Live, InForce
  <1> QED BY <1>1, InitApart, NextApart, BillingRows, PTL DEF Spec

(* Where only single payments are sold there is nothing to revive.         *)
THEOREM SinglePaymentsKeepAPlan ==
  ASSUME Recurring = {}
  PROVE  Spec /\ [][ActivationsApart]_vars => []PlanOfALiveRow
  <1>1. RInv => NoRevival
    BY DEF RInv, RowShapes, Shaped, NoRevival
  <1>2. Spec => []NoRevival
    BY <1>1, BillingRows, PTL
  <1> QED BY <1>2, PayingUsersKeepAPlan, PTL

(* One request at a time satisfies the condition: a grant over a paid plan *)
(* takes an overlap, a plan without a row in force an overlap or a revived *)
(* row.                                                                    *)
THEOREM SerialBillingKeepsPlans ==
  ASSUME \A v, w \in Workers : v = w
  PROVE  Spec => GrantKeepsPaidPlan /\ ([]NoRevival => []PlanOfALiveRow)
  <1>1. TInv /\ [Next]_vars => [ActivationsApart]_vars
    <2> SUFFICES ASSUME TInv, [Next]_vars, ~UNCHANGED vars,
                        NEW w \in Workers, HasLooked(w), job'[w] = job[w],
                        NEW n \in DOMAIN subs', InForce(subs'[n])
                 PROVE  n \in DOMAIN subs /\ InForce(subs[n])
      BY DEF ActivationsApart
    <2>1. CASE UNCHANGED subs
      BY <2>1
    <2>2. CASE RevokeGrant \/ ExpireDueGrants \/ \E m \in DOMAIN subs : Lapse(m)
      <3>1. \A m \in DOMAIN subs : subs[m] \in Row
        BY DEF TInv, TypeOK
      <3>2. CASE RevokeGrant
        BY <3>1, <3>2 DEF RevokeGrant, End, InForce, Row
      <3>3. CASE ExpireDueGrants
        BY <3>1, <3>3 DEF ExpireDueGrants, InForce, Row
      <3>4. ASSUME NEW m \in DOMAIN subs, Lapse(m) PROVE n \in DOMAIN subs /\ InForce(subs[n])
        BY <3>1, <3>4 DEF Lapse, InForce, Row
      <3> QED BY <2>2, <3>2, <3>3, <3>4
    <2>3. ASSUME NEW v \in Workers, CommitPayment(v) \/ CommitAuthorizedPayment(v) \/ CommitGrant(v)
          PROVE  FALSE
      <3>1. job[v].step = "open" /\ job' = [job EXCEPT ![v] = Idle]
        BY <2>3 DEF CommitPayment, CommitAuthorizedPayment, CommitGrant
      <3> QED BY <3>1 DEF TInv, TypeOK, Idle
    <2> QED
      BY <2>1, <2>2, <2>3 DEF Next, Checkout, MercadoPago, Fetch, Begin, Fail, CheckGrant
  <1>2. Spec => [][ActivationsApart]_vars
    BY <1>1, BillingRows, PTL DEF Spec
  <1> QED BY <1>2, GrantsSparePaidPlans, PayingUsersKeepAPlan, PTL

(***************************************************************************)
(* One month per charge, when no charge is recorded under both of its ids. *)
(***************************************************************************)

OneIdPerCharge ==
  \A c \in Charges :
    ~(ledger[<<c, "payment">>] = "approved" /\ ledger[<<c, "authorized_payment">>] = "approved")

(* What payments says was approved was approved at Mercado Pago, under an  *)
(* id of a topic that announces the charge, and a month is only ever       *)
(* counted on a monthly row.                                               *)
LedgerIsTrue ==
  \A id \in Ids : ledger[id] = "approved" => PaidAtMercadoPago(id[1]) /\ id[2] \in TopicsOf(id[1])
MonthsAreMonthly == \A n \in DOMAIN subs : subs[n].source # "recurring" => subs[n].months = 0
CInv == ApprovalsAreSeen /\ LedgerIsTrue /\ MonthsAreMonthly

(* The two ways of recording a charge.                                     *)
LEMMA OneTimeCounts ==
  ASSUME TInv, RInv, CInv, NEW c \in Charges, NEW status \in PaymentStatuses, NEW seen \in Seq(Row),
         IntentOf[c] \in OneTime, ApplyOneTime(c, status, seen), RowShapes', Grown
  PROVE  /\ ledger' = [ledger EXCEPT ![<<c, "payment">>] = status]
         /\ MonthsAreMonthly'
  <1>1. PICK m \in DOMAIN subs' :
          /\ subs'[m].months = 0
          /\ \A n \in DOMAIN subs' \ {m} : n \in DOMAIN subs /\ subs'[n].months = subs[n].months
    BY OneTimeEffect
  <1>2. \A n \in DOMAIN subs : subs'[n].source = subs[n].source
    BY DEF Grown
  <1> QED BY <1>1, <1>2 DEF CInv, MonthsAreMonthly, ApplyOneTime

LEMMA MonthlyCounts ==
  ASSUME TInv, RInv, CInv, NEW id \in Ids, IntentOf[id[1]] \in Recurring, RecordAndActivate(id), Grown
  PROVE  /\ ledger' \in {ledger, [ledger EXCEPT ![id] = "approved"]}
         /\ MonthsAreMonthly'
  <1>0. \A n \in DOMAIN subs : subs'[n].source = subs[n].source
    BY DEF Grown
  <1>1. CASE subs' = RecurringRows(IntentOf[id[1]])
    <2>1. PICK m \in DOMAIN subs' :
            /\ subs'[m].source = "recurring"
            /\ \A n \in DOMAIN subs' \ {m} : n \in DOMAIN subs /\ subs'[n].months = subs[n].months
      BY <1>1, RecurringEffect
    <2> QED BY <1>0, <2>1 DEF CInv, MonthsAreMonthly, RecordAndActivate
  <1>2. CASE UNCHANGED subs
    BY <1>2 DEF CInv, MonthsAreMonthly, RecordAndActivate
  <1> QED BY <1>1, <1>2 DEF RecordAndActivate

LEMMA NextCounts == TInv /\ DInv /\ RInv /\ CInv /\ [Next]_vars => CInv'
  <1> SUFFICES ASSUME TInv, DInv, RInv, CInv, [Next]_vars PROVE CInv'
    OBVIOUS
  <1>1. ApprovalsAreSeen' /\ Grown /\ RowShapes'
    BY SeenStays, NextRows DEF CInv, RInv
  <1>2. \A c \in Charges : PaidAtMercadoPago(c) => PaidAtMercadoPago(c)'
    BY PaidStays
  <1>3. \A id \in Ids : id[1] \in Charges
    BY DEF Ids
  <1>4. ASSUME UNCHANGED ledger PROVE LedgerIsTrue'
    BY <1>2, <1>3, <1>4 DEF CInv, LedgerIsTrue, TopicsOf, PaidAtMercadoPago
  <1>5. ASSUME NEW c \in Charges, NEW t \in TopicsOf(c), NEW status,
               ledger' = [ledger EXCEPT ![<<c, t>>] = status],
               status = "approved" => PaidAtMercadoPago(c)
        PROVE  LedgerIsTrue'
    <2> SUFFICES ASSUME NEW id \in Ids, ledger'[id] = "approved"
                 PROVE  PaidAtMercadoPago(id[1])' /\ id[2] \in TopicsOf(id[1])
      BY DEF LedgerIsTrue, TopicsOf
    <2>1. ledger'[id] = IF id = <<c, t>> THEN status ELSE ledger[id]
      BY <1>5 DEF TInv, TypeOK
    <2>2. PaidAtMercadoPago(id[1]) /\ id[2] \in TopicsOf(id[1])
      BY <1>5, <2>1 DEF CInv, LedgerIsTrue
    <2> QED BY <1>2, <1>3, <2>2
  <1>6. ASSUME NEW w \in Workers, CommitPayment(w) PROVE LedgerIsTrue' /\ MonthsAreMonthly'
    <2>1. PICK c \in Charges : /\ c = job[w].of /\ "payment" \in TopicsOf(c)
                               /\ job[w].op = "payment" /\ job[w].status \in PaymentStatuses
                               /\ job[w].seen \in Seq(Row)
      BY <1>6 DEF CommitPayment, TInv, TypeOK, Job, JobsAreWhole
    <2>2. job[w].status = "approved" => PaidAtMercadoPago(c)
      BY <2>1 DEF CInv, ApprovalsAreSeen
    <2>3. CASE IntentOf[c] \in OneTime /\ ApplyOneTime(c, job[w].status, job[w].seen)
      <3>1. /\ ledger' = [ledger EXCEPT ![<<c, "payment">>] = job[w].status]
            /\ MonthsAreMonthly'
        BY <1>1, <2>1, <2>3, OneTimeCounts
      <3> QED BY <1>5, <2>1, <2>2, <3>1
    <2>4. CASE /\ IntentOf[c] \in Recurring /\ job[w].status = "approved"
               /\ RecordAndActivate(<<c, "payment">>)
      <3>1. <<c, "payment">> \in Ids /\ <<c, "payment">>[1] = c
        BY <2>1, TopicTypes
      <3>2. /\ ledger' \in {ledger, [ledger EXCEPT ![<<c, "payment">>] = "approved"]}
            /\ MonthsAreMonthly'
        BY <1>1, <2>4, <3>1, MonthlyCounts
      <3> QED BY <1>4, <1>5, <2>1, <2>2, <2>4, <3>2
    <2>5. CASE UNCHANGED <<ledger, subs>>
      BY <1>4, <2>5 DEF CInv, MonthsAreMonthly
    <2> QED BY <1>6, <2>1, <2>3, <2>4, <2>5 DEF CommitPayment
  <1>7. ASSUME NEW w \in Workers, CommitAuthorizedPayment(w) PROVE LedgerIsTrue' /\ MonthsAreMonthly'
    <2>1. PICK c \in Charges : c = job[w].of /\ "authorized_payment" \in TopicsOf(c)
                               /\ job[w].op = "authorized_payment"
      BY <1>7 DEF CommitAuthorizedPayment, TInv, JobsAreWhole
    <2>2. PaidAtMercadoPago(c)
      BY <2>1 DEF CInv, ApprovalsAreSeen
    <2>3. <<c, "authorized_payment">> \in Ids /\ <<c, "authorized_payment">>[1] = c
          /\ IntentOf[c] \in Recurring
      BY <2>1, TopicTypes
    <2>4. /\ ledger' \in {ledger, [ledger EXCEPT ![<<c, "authorized_payment">>] = "approved"]}
          /\ MonthsAreMonthly'
      BY <1>1, <1>7, <2>1, <2>3, MonthlyCounts DEF CommitAuthorizedPayment
    <2> QED BY <1>4, <1>5, <2>1, <2>2, <2>4
  <1>8. ASSUME NEW w \in Workers, CommitGrant(w) PROVE LedgerIsTrue' /\ MonthsAreMonthly'
    <2> DEFINE granted == [source |-> "admin_grant", key |-> None, plan |-> job[w].of,
                           status |-> "active", over |-> FALSE, months |-> 0]
               replaced == {n \in DOMAIN job[w].seen : /\ ~IsPaid(subs[n])
                                                       /\ subs[n].status \in {"active", "pending"}}
               rest == End(subs, replaced)
    <2>1. subs' = Append(rest, granted) /\ UNCHANGED ledger
      BY <1>8 DEF CommitGrant
    <2>2. granted \in Row /\ granted.months = 0
      <3>1. job[w].of \in Plans
        BY <1>8, PlanTypes DEF CommitGrant, TInv, JobsAreWhole
      <3> QED BY <3>1 DEF Row
    <2> HIDE DEF granted, replaced
    <2>3. /\ rest \in Seq(Row) /\ DOMAIN rest = DOMAIN subs
          /\ \A n \in DOMAIN subs : rest[n].months = subs[n].months
      BY EndRows DEF TInv, TypeOK
    <2> HIDE DEF rest
    <2>4. DOMAIN subs = 1 .. Len(rest) /\ Len(rest) \in Nat
      BY <2>3
    <2>5. \A n \in DOMAIN subs' : \/ n \in DOMAIN subs /\ subs'[n] = rest[n]
                                  \/ subs'[n] = granted
      BY <2>1, <2>2, <2>3, <2>4, AppendProperties
    <2>6. MonthsAreMonthly'
      BY <1>1, <2>2, <2>3, <2>5 DEF CInv, MonthsAreMonthly, Grown
    <2> QED BY <1>4, <2>1, <2>6
  <1>9. ASSUME RevokeGrant \/ ExpireDueGrants \/ \E n \in DOMAIN subs : Lapse(n)
        PROVE  LedgerIsTrue' /\ MonthsAreMonthly'
    <2>1. \A n \in DOMAIN subs : subs[n] \in Row
      BY DEF TInv, TypeOK
    <2>2. DOMAIN subs' = DOMAIN subs /\ \A n \in DOMAIN subs : subs'[n].months = subs[n].months
      <3>1. CASE RevokeGrant
        BY <3>1, EndRows DEF RevokeGrant, TInv, TypeOK
      <3>2. CASE ExpireDueGrants
        BY <2>1, <3>2 DEF ExpireDueGrants, Row
      <3>3. ASSUME NEW n \in DOMAIN subs, Lapse(n)
            PROVE  DOMAIN subs' = DOMAIN subs /\ \A k \in DOMAIN subs : subs'[k].months = subs[k].months
        BY <2>1, <3>3 DEF Lapse, Row
      <3> QED BY <1>9, <3>1, <3>2, <3>3
    <2>3. MonthsAreMonthly'
      BY <1>1, <2>2 DEF CInv, MonthsAreMonthly, Grown
    <2>4. UNCHANGED ledger
      BY <1>9 DEF RevokeGrant, ExpireDueGrants, Lapse
    <2> QED BY <1>4, <2>3, <2>4
  <1>10. ASSUME UNCHANGED <<ledger, subs>> PROVE LedgerIsTrue' /\ MonthsAreMonthly'
    BY <1>4, <1>10 DEF CInv, MonthsAreMonthly
  <1>11. LedgerIsTrue' /\ MonthsAreMonthly'
    BY <1>6, <1>7, <1>8, <1>9, <1>10
    DEF Next, vars, Checkout, MercadoPago, Fetch, Begin, Fail, CheckGrant
  <1> QED BY <1>1, <1>11 DEF CInv

LEMMA Counting == Spec => []CInv
  <1>1. Init => CInv
    BY DEF Init, CInv, ApprovalsAreSeen, LedgerIsTrue, MonthsAreMonthly, Idle, Ids
  <1> QED BY <1>1, NextCounts, BillingRows, PTL DEF Spec

(* The two ids of a charge announced by both topics are the only way to    *)
(* count it twice: while no charge is recorded under both, a subscription  *)
(* has no more months than charges approved at Mercado Pago, whatever is   *)
(* repeated or raced.                                                      *)
THEOREM ChargesCountOnce == Spec /\ []OneIdPerCharge => []OneMonthPerCharge
  <1>1. TInv /\ RInv /\ CInv /\ OneIdPerCharge => OneMonthPerCharge
    <2> SUFFICES ASSUME TInv, RInv, CInv, OneIdPerCharge, NEW n \in DOMAIN subs
                 PROVE  subs[n].months <= Cardinality({c \in Charges : /\ IntentOf[c] = subs[n].key
                                                                       /\ mp[c] \in {"approved", "refunded"}})
      BY DEF OneMonthPerCharge
    <2> DEFINE i == subs[n].key
               paying == {c \in Charges : IntentOf[c] = i /\ mp[c] \in {"approved", "refunded"}}
               chargeOf == [id \in Paid(i) |-> id[1]]
    <2>1. IsFiniteSet(paying) /\ Cardinality(paying) \in Nat
      <3>1. paying \subseteq Charges
        OBVIOUS
      <3> QED BY <3>1, FiniteInstance, FS_Subset, FS_CardinalityType
    <2>2. CASE subs[n].source # "recurring"
      BY <2>1, <2>2 DEF CInv, MonthsAreMonthly
    <2>3. CASE subs[n].source = "recurring"
      <3>1. subs[n].months = Cardinality(Paid(i))
        BY <2>3 DEF RInv, PeriodsAreCharged, Paid
      <3>2. \A id \in Paid(i) : id[1] \in paying
        BY DEF Paid, Ids, CInv, LedgerIsTrue, PaidAtMercadoPago
      <3>3. \A id, jd \in Paid(i) : id[1] = jd[1] => id = jd
        BY DEF Paid, Ids, OneIdPerCharge
      <3> HIDE DEF paying, i
      <3>4. chargeOf \in Injection(Paid(i), paying)
        BY <3>2, <3>3 DEF Injection, IsInjective
      <3>5. Cardinality(Paid(i)) <= Cardinality(paying)
        BY <2>1, <3>4, FS_Injection
      <3> QED BY <3>1, <3>5 DEF paying, i
    <2> QED BY <2>2, <2>3
  <1> QED BY <1>1, Counting, BillingRows, PTL

(* With one of the two topics there is one id for each charge.             *)
THEOREM OneTopicCountsOnce ==
  ASSUME "payment" \notin Topics \/ "authorized_payment" \notin Topics
  PROVE  Spec => []OneMonthPerCharge
  <1>1. CInv => OneIdPerCharge
    BY ChargesTyped, IntentsApart DEF CInv, LedgerIsTrue, TopicsOf, OneIdPerCharge, Ids, Intents
  <1>2. Spec => []OneIdPerCharge
    BY <1>1, Counting, PTL
  <1> QED BY <1>2, ChargesCountOnce, PTL
================================================================================
