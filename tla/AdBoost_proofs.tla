----------------------------- MODULE AdBoost_proofs -----------------------------
(***************************************************************************)
(* Proofs about AdBoost for any ads, purchases, payments, workers and      *)
(* numbers of days.                                                        *)
(*                                                                         *)
(* The inductive invariant: one webhook at a time has the row of an        *)
(* intent, so what it decided on that row stays true until it commits; and *)
(* the date a manual grant is about to write is still the right one, as    *)
(* long as grants overlap no other write of the same ad.  The first alone  *)
(* makes every decision final.                                             *)
(***************************************************************************)
EXTENDS AdBoost, TLAPS

PaymentSteps == InTransaction \cup {"fetched"}

JobsAreWhole ==
  \A w \in Workers :
    /\ job[w].step \in PaymentSteps => /\ job[w].of \in Charges
                                       /\ job[w].status \in {"approved", "pending", "rejected"}
    /\ job[w].step = "write" => job[w].of \in Ads /\ job[w].op \in {"grant", "set"}

LockExcludes ==
  \A v, w \in Workers : /\ job[v].step \in InTransaction /\ job[w].step \in InTransaction
                        /\ IntentOfJob(v) = IntentOfJob(w)
                        => v = w

(* Only an intent that was not approved before is decided.                 *)
DecisionHolds ==
  \A w \in Workers :
    /\ job[w].step \in {"open", "apply", "refuse", "aborted"} =>
         job[w].status = "approved" /\ intent[IntentOfJob(w)] # "approved"
    /\ job[w].step = "commit" =>
         (job[w].status = "approved" <=> intent[IntentOfJob(w)] = "approved")
    /\ job[w].step = "aborted" => ~TrailExists

RefusedAreDecided == \A i \in refused : intent[i] = "approved"

IsGrant(w) == job[w].step = "write" /\ job[w].op = "grant"
GrantIsFresh ==
  \A w \in Workers : IsGrant(w) =>
    /\ job[w].date = Extended(job[w].of, AdminDays)
    /\ \A v \in Workers : /\ job[v].step \in InTransaction => AdOfJob(v) # job[w].of
                          /\ v # w /\ IsGrant(v) => job[v].of # job[w].of

TInv == TypeOK /\ JobsAreWhole
DInv ==
  /\ LockExcludes /\ DecisionHolds /\ RefusedAreDecided
  /\ TrailExists => AnsweredMeansRecorded

(***************************************************************************)
(* Types.                                                                  *)
(***************************************************************************)

LEMMA DaysAreNumbers ==
  ASSUME TypeOK, NEW a \in Ads, NEW d \in Nat
  PROVE  Extended(a, d) \in Nat /\ Left(a) \in Nat
  BY BoundsTyped DEF TypeOK, Extended, Left

LEMMA InitTypes == Init => TInv
  BY BoundsTyped
  DEF Init, TInv, TypeOK, JobsAreWhole, Idle, Job, PaymentSteps, InTransaction

LEMMA NextTypes == TInv /\ [Next]_vars => TInv'
  <1> SUFFICES ASSUME TInv, [Next]_vars PROVE TInv'
    OBVIOUS
  <1> USE BoundsTyped, DaysTyped, MapsTyped DEF TInv
  <1>1. CASE UNCHANGED vars
    BY <1>1 DEF vars, TypeOK, JobsAreWhole
  <1>2. ASSUME NEW i \in Intents, Checkout(i) PROVE TInv'
    BY <1>2 DEF Checkout, TypeOK, JobsAreWhole
  <1>3. ASSUME NEW c \in Charges, MercadoPago(c) PROVE TInv'
    <2>1. mp' \in [Charges -> {"pending", "approved", "rejected", "refunded"}]
      BY <1>3 DEF MercadoPago, TypeOK
    <2> QED BY <1>3, <2>1 DEF MercadoPago, TypeOK, JobsAreWhole
  <1>4. ASSUME NEW a \in Ads, ChangeAd(a) PROVE TInv'
    BY <1>4 DEF ChangeAd, TypeOK, JobsAreWhole
  <1>5. CASE NextDay
    BY <1>5 DEF NextDay, TypeOK, JobsAreWhole
  <1>6. ASSUME NEW w \in Workers, NEW c \in Charges, Fetch(w, c) PROVE TInv'
    <2>1. Normalize(mp[c]) \in {"approved", "pending", "rejected"}
      BY DEF Normalize, TypeOK
    <2> QED BY <1>6, <2>1 DEF Fetch, TypeOK, JobsAreWhole, Job, PaymentSteps, InTransaction
  <1>7. ASSUME NEW w \in Workers, Begin(w) PROVE TInv'
    BY <1>7 DEF Begin, TypeOK, JobsAreWhole, Job, Idle, PaymentSteps, InTransaction
  <1>8. ASSUME NEW w \in Workers, ReadAd(w) PROVE TInv'
    <2>1. \E s \in {"apply", "aborted", "refuse"} : job' = [job EXCEPT ![w].step = s]
      BY <1>8 DEF ReadAd
    <2> QED BY <1>8, <2>1 DEF ReadAd, TypeOK, JobsAreWhole, Job, PaymentSteps, InTransaction
  <1>9. ASSUME NEW w \in Workers, Commit(w) PROVE TInv'
    <2>1. /\ job[w].of \in Charges /\ job[w].status \in {"approved", "pending", "rejected"}
          /\ IntentOfJob(w) \in Intents /\ AdOfJob(w) \in Ads
      BY <1>9 DEF Commit, JobsAreWhole, PaymentSteps, InTransaction, IntentOfJob, AdOfJob
    <2>2. Extended(AdOfJob(w), Days) \in Nat
      BY <2>1, DaysAreNumbers
    <2>3. /\ intent' \in [Intents -> {"none", "pending", "approved", "rejected"}]
          /\ until' \in [Ads -> Nat]
          /\ answered' \subseteq Charges /\ refused' \subseteq Intents
      BY <1>9, <2>1, <2>2 DEF Commit, TypeOK
    <2>4. job' = [job EXCEPT ![w] = Idle] /\ UNCHANGED <<mp, adStatus, now, gone>>
      BY <1>9 DEF Commit
    <2> QED
      BY <2>3, <2>4 DEF TypeOK, JobsAreWhole, Job, Idle, PaymentSteps, InTransaction
  <1>10. ASSUME NEW w \in Workers, Fail(w) PROVE TInv'
    BY <1>10 DEF Fail, TypeOK, JobsAreWhole, Job, Failed, Idle, PaymentSteps, InTransaction
  <1>11. ASSUME NEW w \in Workers, NEW a \in Ads, ReadForGrant(w, a) PROVE TInv'
    <2>1. Extended(a, AdminDays) \in Nat
      BY DaysAreNumbers
    <2> QED
      BY <1>11, <2>1 DEF ReadForGrant, TypeOK, JobsAreWhole, Job, PaymentSteps, InTransaction
  <1>12. ASSUME NEW w \in Workers, NEW a \in Ads, ReadForSet(w, a) PROVE TInv'
    BY <1>12 DEF ReadForSet, TypeOK, JobsAreWhole, Job, PaymentSteps, InTransaction
  <1>13. ASSUME NEW w \in Workers, WriteHighlight(w) PROVE TInv'
    <2>1. job[w].of \in Ads /\ job[w].date \in Nat
      BY <1>13 DEF WriteHighlight, JobsAreWhole, TypeOK, Job
    <2>2. Left(job[w].of) \in Nat
      BY <2>1, DaysAreNumbers
    <2>3. until' \in [Ads -> Nat] /\ gone' \in [Ads -> Int]
      BY <1>13, <2>1, <2>2 DEF WriteHighlight, TypeOK
    <2>4. job' = [job EXCEPT ![w] = Idle] /\ UNCHANGED <<mp, intent, adStatus, now, answered, refused>>
      BY <1>13 DEF WriteHighlight
    <2> QED
      BY <2>3, <2>4 DEF TypeOK, JobsAreWhole, Job, Idle, PaymentSteps, InTransaction
  <1> QED
    BY <1>1, <1>2, <1>3, <1>4, <1>5, <1>6, <1>7, <1>8, <1>9, <1>10, <1>11, <1>12, <1>13
    DEF Next, Webhook, Administrator

(* Every variable keeps its type; in particular no raw status of Mercado   *)
(* Pago reaches payment_intents.                                           *)
THEOREM BoostTypes == Spec => []TypeOK
  <1>1. TInv => TypeOK
    BY DEF TInv
  <1> QED BY InitTypes, NextTypes, <1>1, PTL DEF Spec

(***************************************************************************)
(* Decisions.                                                              *)
(***************************************************************************)

LEMMA InitDecisions == Init => DInv
  BY DEF Init, DInv, LockExcludes, DecisionHolds, RefusedAreDecided, AnsweredMeansRecorded, Idle,
         InTransaction

(* A step that neither writes an intent nor lets a worker into a           *)
(* transaction leaves the decisions alone.                                 *)
LEMMA QuietStep ==
  ASSUME DInv, UNCHANGED <<intent, refused, answered>>,
         \A w \in Workers : job'[w] = job[w] \/ job'[w].step \notin InTransaction
  PROVE  DInv'
  <1>1. \A w \in Workers : job'[w].step \in InTransaction => job'[w] = job[w]
    OBVIOUS
  <1>2. LockExcludes'
    BY <1>1 DEF DInv, LockExcludes, IntentOfJob
  <1>3. DecisionHolds'
    BY <1>1 DEF DInv, DecisionHolds, IntentOfJob, InTransaction
  <1>4. RefusedAreDecided' /\ (TrailExists => AnsweredMeansRecorded')
    BY DEF DInv, RefusedAreDecided, AnsweredMeansRecorded
  <1> QED BY <1>2, <1>3, <1>4 DEF DInv

LEMMA BeginKeepsDecisions ==
  ASSUME TInv, DInv, NEW w \in Workers, Begin(w)
  PROVE  DInv'
  <1>1. CASE Stale(w)
    <2>1. \A v \in Workers : job'[v] = job[v] \/ job'[v].step \notin InTransaction
      BY <1>1 DEF Begin, TInv, TypeOK, Idle, InTransaction
    <2> QED BY <2>1, QuietStep DEF Begin
  <1>2. CASE ~Stale(w)
    <2>1. /\ UNCHANGED <<intent, refused, answered>>
          /\ \A v \in Workers : v # w => job'[v] = job[v]
          /\ job'[w].of = job[w].of /\ job'[w].status = job[w].status
          /\ job'[w].step = IF AlreadyApproved(w) \/ job[w].status # "approved"
                            THEN "commit" ELSE "open"
          /\ \A v \in Workers : job[v].step \in InTransaction => IntentOfJob(v) # IntentOfJob(w)
      BY <1>2 DEF Begin, IntentIsFree, TInv, TypeOK, Job
    <2>2. LockExcludes'
      BY <2>1 DEF DInv, LockExcludes, IntentOfJob
    <2>3. DecisionHolds'
      <3> SUFFICES ASSUME NEW v \in Workers
                   PROVE  /\ job'[v].step \in {"open", "apply", "refuse", "aborted"} =>
                               /\ job'[v].status = "approved"
                               /\ intent[IntentOf[job'[v].of]] # "approved"
                          /\ job'[v].step = "commit" =>
                               (job'[v].status = "approved" <=>
                                  intent[IntentOf[job'[v].of]] = "approved")
                          /\ job'[v].step = "aborted" => ~TrailExists
        BY <2>1 DEF DecisionHolds, IntentOfJob
      <3>1. CASE v # w
        BY <2>1, <3>1 DEF DInv, DecisionHolds, IntentOfJob
      <3>2. CASE v = w
        BY <1>2, <2>1, <3>2 DEF Stale, AlreadyApproved, IntentOfJob
      <3> QED BY <3>1, <3>2
    <2>4. RefusedAreDecided' /\ (TrailExists => AnsweredMeansRecorded')
      BY <2>1 DEF DInv, RefusedAreDecided, AnsweredMeansRecorded
    <2> QED BY <2>2, <2>3, <2>4 DEF DInv
  <1> QED BY <1>1, <1>2

LEMMA ReadKeepsDecisions ==
  ASSUME TInv, DInv, NEW w \in Workers, ReadAd(w)
  PROVE  DInv'
  <1>1. /\ job[w].step = "open" /\ UNCHANGED <<intent, refused, answered>>
        /\ \A v \in Workers : v # w => job'[v] = job[v]
        /\ job'[w].of = job[w].of /\ job'[w].status = job[w].status
        /\ job'[w].step \in {"apply", "aborted", "refuse"}
        /\ job'[w].step = "aborted" => ~TrailExists
    BY DEF ReadAd, TInv, TypeOK, Job
  <1>2. LockExcludes'
    BY <1>1 DEF DInv, LockExcludes, IntentOfJob, InTransaction
  <1>3. DecisionHolds'
    BY <1>1 DEF DInv, DecisionHolds, IntentOfJob
  <1>4. RefusedAreDecided' /\ (TrailExists => AnsweredMeansRecorded')
    BY <1>1 DEF DInv, RefusedAreDecided, AnsweredMeansRecorded
  <1> QED BY <1>2, <1>3, <1>4 DEF DInv

(* What a commit does to its intent: nothing when it was approved before   *)
(* or the transaction is aborted.                                          *)
LEMMA CommitDecides ==
  ASSUME TInv, DInv, NEW w \in Workers, Commit(w)
  PROVE  LET i == IntentOfJob(w)
         IN /\ i \in Intents /\ job[w].of \in Charges
            /\ \A k \in Intents : k # i => intent'[k] = intent[k]
            /\ intent[i] = "approved" => intent'[i] = "approved"
            /\ job[w].step # "aborted" => intent'[i] = job[w].status
            /\ job[w].step = "aborted" => intent' = intent
            /\ job'[w].step = "idle"
            /\ \A v \in Workers : v # w => job'[v] = job[v]
            /\ \A v \in Workers : v # w /\ job[v].step \in InTransaction
                                  => IntentOfJob(v) # i
  <1>1. job[w].step \in InTransaction
    BY DEF Commit, InTransaction
  <1>2. IntentOfJob(w) \in Intents /\ job[w].of \in Charges
    BY <1>1, MapsTyped DEF TInv, JobsAreWhole, PaymentSteps, IntentOfJob
  <1>3. /\ job[w].step \in {"apply", "refuse", "commit", "aborted"}
        /\ intent' = IF job[w].step = "aborted" THEN intent
                     ELSE [intent EXCEPT ![IntentOfJob(w)] = job[w].status]
        /\ job' = [job EXCEPT ![w] = Idle]
    BY DEF Commit
  <1>4. intent[IntentOfJob(w)] = "approved" /\ job[w].step # "aborted" => job[w].status = "approved"
    BY <1>3 DEF DInv, DecisionHolds
  <1>5. \A v \in Workers : v # w /\ job[v].step \in InTransaction
                           => IntentOfJob(v) # IntentOfJob(w)
    BY <1>1 DEF DInv, LockExcludes
  <1> QED BY <1>2, <1>3, <1>4, <1>5 DEF TInv, TypeOK, Idle

LEMMA CommitKeepsDecisions ==
  ASSUME TInv, DInv, NEW w \in Workers, Commit(w)
  PROVE  DInv'
  <1> DEFINE i == IntentOfJob(w)
  <1>1. /\ i \in Intents /\ job[w].of \in Charges
        /\ \A k \in Intents : k # i => intent'[k] = intent[k]
        /\ intent[i] = "approved" => intent'[i] = "approved"
        /\ job[w].step # "aborted" => intent'[i] = job[w].status
        /\ job'[w].step = "idle"
        /\ \A v \in Workers : v # w => job'[v] = job[v]
        /\ \A v \in Workers : v # w /\ job[v].step \in InTransaction => IntentOfJob(v) # i
    BY CommitDecides
  <1>2. \A k \in Intents : intent[k] = "approved" => intent'[k] = "approved"
    BY <1>1
  <1>3. LockExcludes'
    BY <1>1 DEF DInv, LockExcludes, IntentOfJob, InTransaction
  <1>4. DecisionHolds'
    <2> SUFFICES ASSUME NEW v \in Workers, v # w, job[v].step \in InTransaction
                 PROVE  /\ job[v].step \in {"open", "apply", "refuse", "aborted"} =>
                             /\ job[v].status = "approved"
                             /\ intent'[IntentOf[job[v].of]] # "approved"
                        /\ job[v].step = "commit" =>
                             (job[v].status = "approved" <=>
                                intent'[IntentOf[job[v].of]] = "approved")
                        /\ job[v].step = "aborted" => ~TrailExists
      BY <1>1 DEF DecisionHolds, IntentOfJob, InTransaction
    <2>1. IntentOf[job[v].of] \in Intents /\ IntentOf[job[v].of] # i
      BY <1>1, MapsTyped DEF TInv, JobsAreWhole, PaymentSteps, IntentOfJob
    <2>2. intent'[IntentOf[job[v].of]] = intent[IntentOf[job[v].of]]
      BY <1>1, <2>1
    <2> QED BY <2>2 DEF DInv, DecisionHolds, IntentOfJob
  <1>5. RefusedAreDecided'
    <2>1. refused' \subseteq refused \/ /\ refused' \subseteq refused \cup {i}
                                        /\ job[w].step \in {"apply", "refuse"}
      BY DEF Commit
    <2>2. job[w].step \in {"apply", "refuse"} => intent'[i] = "approved"
      BY <1>1 DEF DInv, DecisionHolds
    <2> QED BY <1>2, <2>1, <2>2 DEF DInv, RefusedAreDecided, TInv, TypeOK
  <1>6. TrailExists => AnsweredMeansRecorded'
    <2> SUFFICES ASSUME TrailExists, NEW c \in answered'
                 PROVE  intent'[IntentOf[c]] = "approved"
      BY DEF AnsweredMeansRecorded
    <2>1. CASE c \in answered
      <3>1. intent[IntentOf[c]] = "approved" /\ IntentOf[c] \in Intents
        BY <2>1, MapsTyped DEF DInv, AnsweredMeansRecorded, TInv, TypeOK
      <3> QED BY <1>2, <3>1
    <2>2. CASE c \notin answered
      <3>1. c = job[w].of /\ job[w].status = "approved"
        BY <2>2 DEF Commit
      <3>2. job[w].step # "aborted"
        BY DEF DInv, DecisionHolds
      <3> QED BY <1>1, <3>1, <3>2 DEF IntentOfJob
    <2> QED BY <2>1, <2>2
  <1> QED BY <1>3, <1>4, <1>5, <1>6 DEF DInv

LEMMA NextDecisions == TInv /\ DInv /\ [Next]_vars => DInv'
  <1> SUFFICES ASSUME TInv, DInv, [Next]_vars PROVE DInv'
    OBVIOUS
  <1>1. CASE UNCHANGED vars
    BY <1>1, QuietStep DEF vars
  <1>2. ASSUME NEW i \in Intents, Checkout(i) PROVE DInv'
    <2>1. /\ UNCHANGED <<job, refused, answered>> /\ intent[i] = "none"
          /\ intent' = [intent EXCEPT ![i] = "pending"]
      BY <1>2 DEF Checkout
    <2>2. \A k \in Intents : intent'[k] = "approved" <=> intent[k] = "approved"
      BY <2>1 DEF TInv, TypeOK
    <2>3. \A w \in Workers : job[w].step \in InTransaction => IntentOfJob(w) \in Intents
      BY MapsTyped DEF TInv, JobsAreWhole, PaymentSteps, IntentOfJob
    <2>4. LockExcludes'
      BY <2>1 DEF DInv, LockExcludes, IntentOfJob
    <2>5. DecisionHolds'
      BY <2>1, <2>2, <2>3 DEF DInv, DecisionHolds, IntentOfJob, InTransaction
    <2>6. RefusedAreDecided'
      BY <2>1, <2>2 DEF DInv, RefusedAreDecided, TInv, TypeOK
    <2>7. TrailExists => AnsweredMeansRecorded'
      BY <2>1, <2>2, MapsTyped DEF DInv, AnsweredMeansRecorded, TInv, TypeOK
    <2> QED BY <2>4, <2>5, <2>6, <2>7 DEF DInv
  <1>3. CASE \/ \E c \in Charges : MercadoPago(c)
             \/ \E a \in Ads : ChangeAd(a)
             \/ NextDay
    BY <1>3, QuietStep DEF MercadoPago, ChangeAd, NextDay
  <1>4. ASSUME NEW w \in Workers,
               \/ \E c \in Charges : Fetch(w, c)
               \/ \E a \in Ads : ReadForGrant(w, a) \/ ReadForSet(w, a)
               \/ WriteHighlight(w) \/ Fail(w)
        PROVE  DInv'
    <2>1. \A v \in Workers : job'[v] = job[v] \/ job'[v].step \notin InTransaction
      BY <1>4 DEF Fetch, ReadForGrant, ReadForSet, WriteHighlight, Fail, Failed, Idle, InTransaction,
                  TInv, TypeOK, Job
    <2>2. UNCHANGED <<intent, refused, answered>>
      BY <1>4 DEF Fetch, ReadForGrant, ReadForSet, WriteHighlight, Fail
    <2> QED BY <2>1, <2>2, QuietStep
  <1> QED
    BY <1>1, <1>2, <1>3, <1>4, BeginKeepsDecisions, ReadKeepsDecisions, CommitKeepsDecisions
    DEF Next, Webhook, Administrator

THEOREM DecisionInvariant == Spec => [](TInv /\ DInv)
  BY InitTypes, NextTypes, InitDecisions, NextDecisions, PTL DEF Spec

(* Where the trail table exists, an approval answered with 200, after      *)
(* which Mercado Pago stops repeating it, is recorded.                     *)
THEOREM AnswersAreRecorded == Spec => [](TrailExists => AnsweredMeansRecorded)
  <1>1. TInv /\ DInv => (TrailExists => AnsweredMeansRecorded)
    BY DEF DInv
  <1> QED BY <1>1, DecisionInvariant, PTL

(***************************************************************************)
(* Manual grants.                                                          *)
(***************************************************************************)

LEMMA InitGrants == Init => GrantIsFresh
  BY DEF Init, GrantIsFresh, IsGrant, Idle

(* A step that changes no date, lets nobody into a transaction and starts  *)
(* no grant.                                                               *)
LEMMA QuietGrantStep ==
  ASSUME GrantIsFresh, UNCHANGED <<until, now>>,
         \A w \in Workers : \/ job'[w] = job[w]
                            \/ job'[w].step \notin InTransaction /\ ~IsGrant(w)'
                            \/ /\ job'[w].step \in InTransaction /\ ~IsGrant(w)'
                               /\ job[w].step \in InTransaction /\ job'[w].of = job[w].of
  PROVE  GrantIsFresh'
  <1>1. \A w \in Workers : IsGrant(w)' => job'[w] = job[w] /\ IsGrant(w)
    BY DEF IsGrant, InTransaction
  <1>2. \A w \in Workers : job'[w].step \in InTransaction =>
                             job[w].step \in InTransaction /\ job'[w].of = job[w].of
    BY DEF IsGrant, InTransaction
  <1> QED BY <1>1, <1>2 DEF GrantIsFresh, Extended, AdOfJob, IntentOfJob

(* While grants overlap nothing, the date a grant will write stays right.  *)
LEMMA NextGrants == ~GrantsOverlap /\ TInv /\ GrantIsFresh /\ [Next]_vars => GrantIsFresh'
  <1> SUFFICES ASSUME ~GrantsOverlap, TInv, GrantIsFresh, [Next]_vars PROVE GrantIsFresh'
    OBVIOUS
  <1>1. CASE UNCHANGED vars
    BY <1>1, QuietGrantStep DEF vars
  <1>2. CASE \/ \E i \in Intents : Checkout(i)
             \/ \E c \in Charges : MercadoPago(c)
             \/ \E a \in Ads : ChangeAd(a)
    BY <1>2, QuietGrantStep DEF Checkout, MercadoPago, ChangeAd
  <1>3. CASE NextDay
    <2>1. \A w \in Workers : ~IsGrant(w)'
      BY <1>3 DEF NextDay, IsGrant
    <2> QED BY <2>1 DEF GrantIsFresh
  <1>4. ASSUME NEW w \in Workers,
               \/ \E c \in Charges : Fetch(w, c)
               \/ \E a \in Ads : ReadForSet(w, a)
               \/ ReadAd(w) \/ Fail(w)
        PROVE  GrantIsFresh'
    <2>1. UNCHANGED <<until, now>> /\ \A v \in Workers : v # w => job'[v] = job[v]
      BY <1>4 DEF Fetch, ReadForSet, ReadAd, Fail, TInv, TypeOK
    <2>2. \/ job'[w].step \notin InTransaction /\ ~IsGrant(w)'
          \/ /\ job'[w].step \in InTransaction /\ ~IsGrant(w)'
             /\ job[w].step \in InTransaction /\ job'[w].of = job[w].of
      BY <1>4 DEF Fetch, ReadForSet, ReadAd, Fail, Failed, Idle, InTransaction, IsGrant,
                  TInv, TypeOK, Job
    <2> QED BY <2>1, <2>2, QuietGrantStep
  <1>5. ASSUME NEW w \in Workers, Begin(w) PROVE GrantIsFresh'
    <2>1. /\ UNCHANGED <<until, now>> /\ \A v \in Workers : v # w => job'[v] = job[v]
          /\ ~IsGrant(w)'
          /\ job'[w].step \in InTransaction => job'[w].of = job[w].of
          /\ Writing(AdOfJob(w)) = {}
      BY <1>5 DEF Begin, TInv, TypeOK, Job, Idle, IsGrant, InTransaction
    <2>2. \A v \in Workers : IsGrant(v) => job[v].of # AdOfJob(w)
      BY <2>1 DEF Writing, IsGrant
    <2>3. \A v \in Workers : IsGrant(v)' => v # w /\ IsGrant(v) /\ job'[v] = job[v]
      BY <2>1 DEF IsGrant
    <2> QED BY <2>1, <2>2, <2>3 DEF GrantIsFresh, Extended, AdOfJob, IntentOfJob
  <1>6. ASSUME NEW w \in Workers, Commit(w) PROVE GrantIsFresh'
    <2>1. /\ job[w].step \in InTransaction /\ UNCHANGED now
          /\ job'[w].step = "idle" /\ \A v \in Workers : v # w => job'[v] = job[v]
          /\ \A a \in Ads : a # AdOfJob(w) => until'[a] = until[a]
      BY <1>6 DEF Commit, InTransaction, Idle, TInv, TypeOK
    <2>2. \A v \in Workers : IsGrant(v)' => /\ IsGrant(v) /\ job'[v] = job[v] /\ job[v].of \in Ads
                                            /\ job[v].of # AdOfJob(w)
      BY <2>1 DEF IsGrant, GrantIsFresh, TInv, JobsAreWhole
    <2>3. \A v \in Workers : job'[v].step \in InTransaction => job'[v] = job[v]
      BY <2>1 DEF InTransaction
    <2> QED BY <2>1, <2>2, <2>3 DEF GrantIsFresh, Extended, AdOfJob, IntentOfJob
  <1>7. ASSUME NEW w \in Workers, NEW a \in Ads, ReadForGrant(w, a) PROVE GrantIsFresh'
    <2>1. /\ UNCHANGED <<until, now>> /\ \A v \in Workers : v # w => job'[v] = job[v]
          /\ job'[w].of = a /\ job'[w].date = Extended(a, AdminDays) /\ job'[w].step = "write"
          /\ Writing(a) = {}
          /\ \A v \in Workers : job[v].step \in InTransaction => AdOfJob(v) # a
      BY <1>7 DEF ReadForGrant, Apart, TInv, TypeOK
    <2>2. \A v \in Workers : IsGrant(v) => job[v].of # a
      BY <2>1 DEF Writing, IsGrant
    <2>3. \A v \in Workers : job'[v].step \in InTransaction => job'[v] = job[v]
      BY <2>1 DEF InTransaction
    <2> QED BY <2>1, <2>2, <2>3 DEF GrantIsFresh, IsGrant, Extended, AdOfJob, IntentOfJob
  <1>8. ASSUME NEW w \in Workers, WriteHighlight(w) PROVE GrantIsFresh'
    <2>1. /\ UNCHANGED now /\ Writing(job[w].of) \ {w} = {}
          /\ job'[w].step = "idle" /\ \A v \in Workers : v # w => job'[v] = job[v]
          /\ \A a \in Ads : a # job[w].of => until'[a] = until[a]
      BY <1>8 DEF WriteHighlight, Idle, TInv, TypeOK
    <2>2. \A v \in Workers : IsGrant(v)' => /\ IsGrant(v) /\ job'[v] = job[v] /\ job[v].of \in Ads
                                            /\ v # w /\ job[v].of # job[w].of
      BY <2>1 DEF IsGrant, Writing, TInv, JobsAreWhole
    <2>3. \A v \in Workers : job'[v].step \in InTransaction => job'[v] = job[v]
      BY <2>1 DEF InTransaction
    <2> QED BY <2>1, <2>2, <2>3 DEF GrantIsFresh, Extended, AdOfJob, IntentOfJob
  <1> QED
    BY <1>1, <1>2, <1>3, <1>4, <1>5, <1>6, <1>7, <1>8 DEF Next, Webhook, Administrator

(***************************************************************************)
(* The refinement.                                                         *)
(***************************************************************************)

Given(a) == gone[a] + Left(a)
outcomes == [i \in Intents |-> Outcome(i)]
given == [a \in Ads |-> Given(a)]

(* Steps the ledger does not see: no purchase is decided, no day is given. *)
LEMMA Unseen ==
  ASSUME \A i \in Intents : Outcome(i)' = Outcome(i), \A a \in Ads : Given(a)' = Given(a)
  PROVE  UNCHANGED <<outcomes, given>>
  BY DEF outcomes, given

LEMMA UntouchedDays ==
  ASSUME UNCHANGED <<until, now, gone>>
  PROVE  \A a \in Ads : Given(a)' = Given(a)
  BY DEF Given, Left

LEMMA UntouchedOutcomes ==
  ASSUME UNCHANGED <<intent, refused>>
  PROVE  \A i \in Intents : Outcome(i)' = Outcome(i)
  BY DEF Outcome

(* A day that passes is used up by the highlights that are on.             *)
LEMMA DayPasses ==
  ASSUME TInv, NextDay, NEW a \in Ads
  PROVE  Given(a)' = Given(a)
  <1>1. until[a] \in Nat /\ now \in Nat /\ gone[a] \in Int
    BY BoundsTyped DEF TInv, TypeOK
  <1>2. /\ now' = now + 1 /\ until'[a] = until[a]
        /\ gone'[a] = IF until[a] > now THEN gone[a] + 1 ELSE gone[a]
    BY DEF NextDay
  <1> QED BY <1>1, <1>2 DEF Given, Left

LEMMA CommitIsLedgerStep ==
  ASSUME TInv, DInv, NEW w \in Workers, Commit(w)
  PROVE  \/ \E i \in Intents : Ledger!Credit(i) \/ Ledger!Refuse(i)
         \/ UNCHANGED <<outcomes, given>>
  <1>0. PICK i \in Intents : i = IntentOfJob(w)
    BY CommitDecides
  <1>1. /\ \A k \in Intents : k # i => intent'[k] = intent[k]
        /\ job[w].step # "aborted" => intent'[i] = job[w].status
        /\ job[w].step = "aborted" => intent' = intent
    BY <1>0, CommitDecides
  <1>2. PICK a \in Ads : a = AdOf[i] /\ AdOfJob(w) = a
    BY <1>0, MapsTyped DEF AdOfJob
  <1>3. UNCHANGED <<now, gone>>
    BY DEF Commit
  <1>4. CASE job[w].step = "commit" \/ job[w].step = "aborted"
    <2>1. UNCHANGED <<until, refused>>
      BY <1>4 DEF Commit
    <2>2. intent'[i] = "approved" <=> intent[i] = "approved"
      BY <1>0, <1>1, <1>4 DEF DInv, DecisionHolds
    <2>3. \A k \in Intents : Outcome(k)' = Outcome(k)
      BY <1>1, <2>1, <2>2 DEF Outcome
    <2> QED BY <1>3, <2>1, <2>3, UntouchedDays, Unseen
  <1>5. CASE job[w].step \in {"apply", "refuse"}
    <2>1. intent[i] # "approved" /\ intent'[i] = "approved" /\ i \notin refused
      BY <1>0, <1>1, <1>5 DEF DInv, DecisionHolds, RefusedAreDecided
    <2>2. Outcome(i) = "open"
      BY <2>1 DEF Outcome
    <2>3. CASE job[w].step = "apply" /\ adStatus[a] # "deleted"
      <3>1. until' = [until EXCEPT ![a] = Extended(a, Days)] /\ refused' = refused
        BY <1>2, <2>3 DEF Commit
      <3>2. outcomes' = [outcomes EXCEPT ![i] = "credited"]
        BY <1>1, <2>1, <2>2, <3>1 DEF outcomes, Outcome
      <3>3. until[a] \in Nat /\ now \in Nat /\ gone[a] \in Int /\ Days \in Nat /\ Days > 0
        BY <1>2, BoundsTyped, DaysTyped DEF TInv, TypeOK
      <3>4. until'[a] = Extended(a, Days)
        BY <1>2, <3>1 DEF TInv, TypeOK
      <3>5. Given(a)' = Given(a) + Days
        BY <1>3, <3>3, <3>4 DEF Given, Left, Extended
      <3>6. \A b \in Ads : b # a => Given(b)' = Given(b)
        BY <1>3, <3>1 DEF Given, Left, TInv, TypeOK
      <3>7. given' = [given EXCEPT ![a] = @ + Days]
        BY <1>2, <3>5, <3>6 DEF given
      <3>8. Ledger!Credit(i)
        BY <1>2, <2>2, <3>2, <3>7 DEF Ledger!Credit, outcomes, given, Given
      <3> QED BY <1>1, <3>8
    <2>4. CASE ~(job[w].step = "apply" /\ adStatus[a] # "deleted")
      <3>1. until' = until /\ refused' = refused \cup {i}
        BY <1>0, <1>2, <1>5, <2>4 DEF Commit
      <3>2. outcomes' = [outcomes EXCEPT ![i] = "refused"]
        BY <1>1, <2>1, <2>2, <3>1 DEF outcomes, Outcome
      <3>3. given' = given
        BY <1>3, <3>1, UntouchedDays DEF given
      <3>4. Ledger!Refuse(i)
        BY <1>1, <2>2, <3>2, <3>3 DEF Ledger!Refuse, outcomes, given, Given
      <3> QED BY <1>1, <3>4
    <2> QED BY <2>3, <2>4
  <1> QED BY <1>4, <1>5 DEF Commit

(* A grant adds its days; a date set by hand is accounted as days taken.   *)
LEMMA WriteIsLedgerStep ==
  ASSUME TInv, GrantIsFresh, NEW w \in Workers, WriteHighlight(w)
  PROVE  (\E a \in Ads : Ledger!Gift(a)) \/ UNCHANGED <<outcomes, given>>
  <1>0. PICK a \in Ads : a = job[w].of
    BY DEF WriteHighlight, TInv, JobsAreWhole
  <1>1. /\ job[w].date \in Nat /\ job[w].step = "write" /\ job[w].op \in {"grant", "set"}
        /\ until[a] \in Nat /\ now \in Nat /\ gone[a] \in Int
    BY BoundsTyped DEF WriteHighlight, TInv, TypeOK, JobsAreWhole, Job
  <1>2. UNCHANGED <<intent, refused, now>> /\ until' = [until EXCEPT ![a] = job[w].date]
    BY <1>0 DEF WriteHighlight
  <1>3. until'[a] = job[w].date /\ \A b \in Ads : b # a => until'[b] = until[b]
    BY <1>1, <1>2 DEF TInv, TypeOK
  <1>4. outcomes' = outcomes
    BY <1>2, UntouchedOutcomes DEF outcomes
  <1>5. CASE job[w].op = "set"
    <2>1. /\ gone'[a] = gone[a] + Left(a) - (IF job[w].date > now THEN job[w].date - now ELSE 0)
          /\ \A b \in Ads : b # a => gone'[b] = gone[b]
      BY <1>0, <1>1, <1>5 DEF WriteHighlight, TInv, TypeOK
    <2>2. Given(a)' = Given(a)
      BY <1>1, <1>2, <1>3, <2>1 DEF Given, Left
    <2>3. \A b \in Ads : Given(b)' = Given(b)
      BY <1>2, <1>3, <2>1, <2>2 DEF Given, Left
    <2> QED BY <1>4, <2>3 DEF given
  <1>6. CASE job[w].op # "set"
    <2>1. gone' = gone
      BY <1>6 DEF WriteHighlight
    <2>2. CASE job[w].op = "grant"
      <3>1. job[w].date = Extended(a, AdminDays)
        BY <1>0, <1>1, <2>2 DEF GrantIsFresh, IsGrant
      <3>2. AdminDays \in Nat /\ AdminDays > 0
        BY DaysTyped
      <3>3. Given(a)' = Given(a) + AdminDays
        BY <1>1, <1>2, <1>3, <2>1, <3>1, <3>2 DEF Given, Left, Extended
      <3>4. \A b \in Ads : b # a => Given(b)' = Given(b)
        BY <1>2, <1>3, <2>1 DEF Given, Left
      <3>5. given' = [given EXCEPT ![a] = @ + AdminDays]
        BY <1>1, <3>3, <3>4 DEF given
      <3>6. Ledger!Gift(a)
        BY <1>4, <3>5 DEF Ledger!Gift, outcomes, given, Given
      <3> QED BY <1>1, <3>6
    <2> QED BY <1>1, <1>6, <2>2
  <1> QED BY <1>5, <1>6

(* Every purchase is credited once, with all its days on top of what the   *)
(* ad has, or refused, and no day given is lost, whatever the              *)
(* notifications, the owner and the administrator do: the only condition   *)
(* is that a manual grant does not overlap another write of the highlight. *)
THEOREM BoostsAreCreditedOnce ==
  ASSUME ~GrantsOverlap
  PROVE  Spec => ImplementsLedger
  <1>1. Init => Ledger!Init
    BY DEF Init, Ledger!Init, Outcome, Left
  <1>2. TInv /\ DInv /\ GrantIsFresh /\ [Next]_vars =>
          [Ledger!Next]_<<[i \in Intents |-> Outcome(i)], [a \in Ads |-> gone[a] + Left(a)]>>
    <2> SUFFICES ASSUME TInv, DInv, GrantIsFresh, [Next]_vars
                 PROVE  Ledger!Next \/ UNCHANGED <<outcomes, given>>
      BY DEF outcomes, given, Given
    <2>1. CASE UNCHANGED vars
      BY <2>1, UntouchedDays, UntouchedOutcomes, Unseen DEF vars
    <2>2. ASSUME NEW i \in Intents, Checkout(i) PROVE UNCHANGED <<outcomes, given>>
      <3>1. \A k \in Intents : Outcome(k)' = Outcome(k)
        BY <2>2 DEF Checkout, Outcome, TInv, TypeOK
      <3> QED BY <2>2, <3>1, UntouchedDays, Unseen DEF Checkout
    <2>3. CASE \/ \E c \in Charges : MercadoPago(c)
               \/ \E a \in Ads : ChangeAd(a)
      BY <2>3, UntouchedDays, UntouchedOutcomes, Unseen DEF MercadoPago, ChangeAd
    <2>4. CASE NextDay
      <3>1. UNCHANGED <<intent, refused>>
        BY <2>4 DEF NextDay
      <3> QED BY <2>4, <3>1, DayPasses, UntouchedOutcomes, Unseen
    <2>5. ASSUME NEW w \in Workers,
                 \/ \E c \in Charges : Fetch(w, c)
                 \/ \E a \in Ads : ReadForGrant(w, a) \/ ReadForSet(w, a)
                 \/ Begin(w) \/ ReadAd(w) \/ Fail(w)
          PROVE  UNCHANGED <<outcomes, given>>
      <3>1. UNCHANGED <<intent, refused, until, now, gone>>
        BY <2>5 DEF Fetch, ReadForGrant, ReadForSet, Begin, ReadAd, Fail
      <3> QED BY <3>1, UntouchedDays, UntouchedOutcomes, Unseen
    <2>6. ASSUME NEW w \in Workers, Commit(w) \/ WriteHighlight(w)
          PROVE  Ledger!Next \/ UNCHANGED <<outcomes, given>>
      BY <2>6, CommitIsLedgerStep, WriteIsLedgerStep DEF Ledger!Next
    <2> QED BY <2>1, <2>2, <2>3, <2>4, <2>5, <2>6 DEF Next, Webhook, Administrator
  <1>3. Spec => []GrantIsFresh
    <2>1. TInv /\ GrantIsFresh /\ [Next]_vars => GrantIsFresh'
      BY NextGrants
    <2> QED BY InitGrants, InitTypes, NextTypes, <2>1, PTL DEF Spec
  <1> QED BY <1>1, <1>2, <1>3, DecisionInvariant, PTL DEF Spec, ImplementsLedger, Ledger!Spec

(***************************************************************************)
(* The purchases alone, whatever grants overlap.                           *)
(***************************************************************************)

LEMMA CommitKeepsOutcomes ==
  ASSUME TInv, DInv, NEW w \in Workers, Commit(w), NEW k \in Intents, Outcome(k) # "open"
  PROVE  Outcome(k)' = Outcome(k)
  <1> DEFINE i == IntentOfJob(w)
  <1>1. /\ i \in Intents /\ \A j \in Intents : j # i => intent'[j] = intent[j]
        /\ intent[i] = "approved" => intent'[i] = "approved"
    BY CommitDecides
  <1>2. intent[k] = "approved" /\ intent'[k] = "approved"
    BY <1>1 DEF Outcome
  <1>3. \/ refused' = refused
        \/ job[w].step \in {"apply", "refuse"} /\ refused' = refused \cup {i}
    BY DEF Commit
  <1>4. job[w].step \in {"apply", "refuse"} => k # i
    BY <1>2 DEF DInv, DecisionHolds
  <1>5. k \in refused' <=> k \in refused
    BY <1>3, <1>4
  <1> QED BY <1>2, <1>5 DEF Outcome

(* A purchase that was credited or refused stays so: no repeated, late or  *)
(* reordered notification decides it a second time, even while grants      *)
(* overlap the webhook or swallow its days (applyBoostApproval).           *)
THEOREM DecisionsAreFinal ==
  Spec => [][\A i \in Intents : Outcome(i) # "open" => Outcome(i)' = Outcome(i)]_vars
  <1> DEFINE Final == \A i \in Intents : Outcome(i) # "open" => Outcome(i)' = Outcome(i)
  <1>1. TInv /\ DInv /\ [Next]_vars => [Final]_vars
    <2> SUFFICES ASSUME TInv, DInv, [Next]_vars PROVE Final
      OBVIOUS
    <2>1. CASE UNCHANGED vars
      BY <2>1, UntouchedOutcomes DEF vars
    <2>2. ASSUME NEW i \in Intents, Checkout(i) PROVE Final
      BY <2>2 DEF Checkout, Outcome, TInv, TypeOK
    <2>3. CASE \/ \E c \in Charges : MercadoPago(c)
               \/ \E a \in Ads : ChangeAd(a)
               \/ NextDay
      BY <2>3, UntouchedOutcomes DEF MercadoPago, ChangeAd, NextDay
    <2>4. ASSUME NEW w \in Workers,
                 \/ \E c \in Charges : Fetch(w, c)
                 \/ \E a \in Ads : ReadForGrant(w, a) \/ ReadForSet(w, a)
                 \/ Begin(w) \/ ReadAd(w) \/ Fail(w) \/ WriteHighlight(w)
          PROVE  Final
      <3>1. UNCHANGED <<intent, refused>>
        BY <2>4 DEF Fetch, ReadForGrant, ReadForSet, Begin, ReadAd, Fail, WriteHighlight
      <3> QED BY <3>1, UntouchedOutcomes
    <2>5. ASSUME NEW w \in Workers, Commit(w) PROVE Final
      BY <2>5, CommitKeepsOutcomes
    <2> QED BY <2>1, <2>2, <2>3, <2>4, <2>5 DEF Next, Webhook, Administrator
  <1> QED BY <1>1, DecisionInvariant, PTL DEF Spec
================================================================================
