-------------------------------- MODULE AdBoost --------------------------------
(***************************************************************************)
(* The highlight of ads: bought for a number of days and applied by the    *)
(* webhook of the payment, or given and set by an administrator.           *)
(*                                                                         *)
(* The webhook asks Mercado Pago for the status, then locks the intent and *)
(* decides on what it finds.  Inside the transaction the ad is read        *)
(* without a lock; its UPDATE extends the highlight_until it finds then.   *)
(* An administrator's request reads the ad, computes a date and writes it. *)
(*                                                                         *)
(* Dates are days; a request takes no day once it has opened its           *)
(* transaction or read the ad.                                             *)
(***************************************************************************)
EXTENDS Integers, FiniteSets

CONSTANTS Ads,
          Intents, AdOf,       \* payment intents of context 'boost'; the ad of each
          Charges, IntentOf,   \* payments at Mercado Pago; the intent of each
          Days, AdminDays,     \* metadata.boost_days; the days an administrator gives
          Workers,             \* requests served at a time
          GrantsOverlap,       \* may a grant overlap other writes of a highlight?
          TrailExists,         \* does the table ad_moderation_events exist?
          MaxDay, MaxGiven,    \* bounds: the clock; days given before a manual grant
          None

ASSUME DaysTyped == Days \in Nat \ {0} /\ AdminDays \in Nat \ {0}
ASSUME BoundsTyped == MaxDay \in Nat /\ MaxGiven \in Nat
ASSUME MapsTyped == AdOf \in [Intents -> Ads] /\ IntentOf \in [Charges -> Intents]
ASSUME FlagsTyped == GrantsOverlap \in BOOLEAN /\ TrailExists \in BOOLEAN
ASSUME NoneApart == None \notin Charges \cup Ads

VARIABLES mp,        \* mp[c]: the status of charge c at Mercado Pago
          intent,    \* intent[i]: payment_intents.status, "none" before the checkout
          until,     \* until[a]: ads.highlight_until, 0 for NULL
          adStatus,  \* ads.status: active, deleted, or paused for all the others
          now,       \* the day
          answered,  \* charges whose approval was answered with 200
          job,       \* job[w]: what worker w is doing
          refused,   \* history: intents approved without effect on the ad
          gone       \* history: days used up, or taken (given) by setAdHighlight

vars == <<mp, intent, until, adStatus, now, answered, job, refused, gone>>

Job == [op : {"none", "failed", "payment", "grant", "set"},
        of : Charges \cup Ads \cup {None},
        status : {"none", "approved", "pending", "rejected"},
        step : {"idle", "fetched", "open", "apply", "refuse", "commit", "aborted", "write"},
        date : Nat]
Idle == [op |-> "none", of |-> None, status |-> "none", step |-> "idle", date |-> 0]
Failed == [Idle EXCEPT !.op = "failed"]   \* answered with an error

TypeOK ==
  /\ mp \in [Charges -> {"pending", "approved", "rejected", "refunded"}]
  /\ intent \in [Intents -> {"none", "pending", "approved", "rejected"}]
  /\ until \in [Ads -> Nat] /\ now \in 0..MaxDay
  /\ adStatus \in [Ads -> {"active", "paused", "deleted"}]
  /\ answered \subseteq Charges /\ refused \subseteq Intents
  /\ job \in [Workers -> Job]
  /\ gone \in [Ads -> Int]

IntentOfJob(w) == IntentOf[job[w].of]
AdOfJob(w) == AdOf[IntentOfJob(w)]
Left(a) == IF until[a] > now THEN until[a] - now ELSE 0

(* A highlight still on is extended, one that is over starts again.        *)
Extended(a, d) == (IF until[a] > now THEN until[a] ELSE now) + d

(***************************************************************************)
(* The checkout, Mercado Pago, the owner and the clock.                    *)
(***************************************************************************)

Checkout(i) ==
  /\ intent[i] = "none" /\ adStatus[AdOf[i]] = "active"
  /\ intent' = [intent EXCEPT ![i] = "pending"]
  /\ UNCHANGED <<mp, until, adStatus, now, answered, job, refused, gone>>

(* A rejected payment may be followed by another one of the same checkout; *)
(* an approved one may not.                                                *)
MercadoPago(c) ==
  /\ intent[IntentOf[c]] # "none"
  /\ \E s \in CASE mp[c] = "pending" -> {"approved", "rejected"}
                [] mp[c] = "approved" -> {"refunded"}
                [] OTHER -> {} :
       /\ s = "approved" => \A d \in Charges : IntentOf[d] = IntentOf[c]
                                               => mp[d] \in {"pending", "rejected"}
       /\ mp' = [mp EXCEPT ![c] = s]
  /\ UNCHANGED <<intent, until, adStatus, now, answered, job, refused, gone>>

ChangeAd(a) ==
  /\ adStatus[a] # "deleted"
  /\ \E s \in {"active", "paused", "deleted"} \ {adStatus[a]} :
       adStatus' = [adStatus EXCEPT ![a] = s]
  /\ UNCHANGED <<mp, intent, until, now, answered, job, refused, gone>>

NextDay ==
  /\ now < MaxDay /\ \A w \in Workers : job[w].step \in {"idle", "fetched"}
  /\ now' = now + 1
  /\ gone' = [a \in Ads |-> IF until[a] > now THEN gone[a] + 1 ELSE gone[a]]
  /\ UNCHANGED <<mp, intent, until, adStatus, answered, job, refused>>

(***************************************************************************)
(* The webhook.                                                            *)
(***************************************************************************)

Normalize_Raw(s) == s
Normalize(s) == IF s = "refunded" THEN "pending" ELSE s

Fetch(w, c) ==
  /\ job[w].step = "idle" /\ intent[IntentOf[c]] # "none"
  /\ job' = [job EXCEPT ![w] = [op |-> "payment", of |-> c, status |-> Normalize(mp[c]),
                                step |-> "fetched", date |-> 0]]
  /\ UNCHANGED <<mp, intent, until, adStatus, now, answered, refused, gone>>

InTransaction == {"open", "apply", "refuse", "commit", "aborted"}

(* SELECT ... FROM payment_intents FOR UPDATE *)
IntentIsFree_Unlocked(w) == TRUE
IntentIsFree(w) ==
  \A v \in Workers : job[v].step \in InTransaction => IntentOfJob(v) # IntentOfJob(w)

Writing(a) == {w \in Workers : job[w].step = "write" /\ job[w].op = "grant" /\ job[w].of = a}
Apart(w, a) ==
  GrantsOverlap \/ (Writing(a) = {} /\ \A v \in Workers :
                       job[v].step \in InTransaction => AdOfJob(v) # a)

AlreadyApproved(w) == intent[IntentOfJob(w)] = "approved"

Stale_Decided(w) == intent[IntentOfJob(w)] # "pending"
Stale_Never(w) == FALSE
Stale(w) == AlreadyApproved(w) /\ job[w].status # "approved"

Begin(w) ==
  /\ job[w].step = "fetched" /\ IntentIsFree(w)
  /\ GrantsOverlap \/ Writing(AdOfJob(w)) = {}
  /\ job' = [job EXCEPT ![w] =
               IF Stale(w) THEN Idle
               ELSE [job[w] EXCEPT !.step = IF AlreadyApproved(w) \/ job[w].status # "approved"
                                            THEN "commit" ELSE "open"]]
  /\ UNCHANGED <<mp, intent, until, adStatus, now, answered, refused, gone>>

(* An ad that is neither active nor deleted gets a row in the trail.  When *)
(* that INSERT fails the code goes on, but PostgreSQL has aborted the      *)
(* transaction and turns its COMMIT into a rollback.                       *)
ReadAd(w) ==
  /\ job[w].step = "open"
  /\ job' = [job EXCEPT ![w].step =
               CASE adStatus[AdOfJob(w)] = "active" -> "apply"
                 [] adStatus[AdOfJob(w)] = "paused" /\ ~TrailExists -> "aborted"
                 [] OTHER -> "refuse"]
  /\ UNCHANGED <<mp, intent, until, adStatus, now, answered, refused, gone>>

(* UPDATE ads ... WHERE id = $1 AND status != 'deleted', then COMMIT. *)
Commit(w) ==
  LET i == IntentOfJob(w)
      a == AdOfJob(w)
      aborted == job[w].step = "aborted"
      applies == job[w].step = "apply" /\ adStatus[a] # "deleted"
  IN /\ job[w].step \in {"apply", "refuse", "commit", "aborted"}
     /\ intent' = IF aborted THEN intent ELSE [intent EXCEPT ![i] = job[w].status]
     /\ until' = IF applies THEN [until EXCEPT ![a] = Extended(a, Days)] ELSE until
     /\ refused' = IF job[w].step \in {"commit", "aborted"} \/ applies
                   THEN refused ELSE refused \cup {i}
     /\ answered' = IF job[w].status = "approved" THEN answered \cup {job[w].of} ELSE answered
     /\ job' = [job EXCEPT ![w] = Idle]
     /\ UNCHANGED <<mp, adStatus, now, gone>>

(* An exception or a lost connection: the transaction rolls back. *)
Fail(w) ==
  /\ job[w].step # "idle"
  /\ job' = [job EXCEPT ![w] = Failed]
  /\ UNCHANGED <<mp, intent, until, adStatus, now, answered, refused, gone>>

(***************************************************************************)
(* The administrator: grantManualBoost and setAdHighlight read, then write *)
(* a date; neither looks at the row again.                                 *)
(***************************************************************************)

ReadForGrant(w, a) ==
  /\ job[w].step = "idle" /\ Apart(w, a)
  /\ adStatus[a] # "deleted"   \* nor blocked
  /\ gone[a] + Left(a) < MaxGiven
  /\ job' = [job EXCEPT ![w] = [op |-> "grant", of |-> a, status |-> "none", step |-> "write",
                                date |-> Extended(a, AdminDays)]]
  /\ UNCHANGED <<mp, intent, until, adStatus, now, answered, refused, gone>>

(* Clearing (NULL) is allowed whatever the status. *)
ReadForSet(w, a) ==
  /\ job[w].step = "idle"
  /\ \E d \in {0} \cup (IF adStatus[a] = "active" THEN {MaxDay} ELSE {}) :
       job' = [job EXCEPT ![w] = [op |-> "set", of |-> a, status |-> "none", step |-> "write",
                                  date |-> d]]
  /\ UNCHANGED <<mp, intent, until, adStatus, now, answered, refused, gone>>

(* A date set by hand replaces what was there: "gone" takes the difference. *)
WriteHighlight(w) ==
  LET a == job[w].of
      left == IF job[w].date > now THEN job[w].date - now ELSE 0
  IN /\ job[w].step = "write"
     /\ GrantsOverlap \/ Writing(a) \ {w} = {}
     /\ until' = [until EXCEPT ![a] = job[w].date]
     /\ gone' = IF job[w].op = "set" THEN [gone EXCEPT ![a] = @ + Left(a) - left] ELSE gone
     /\ job' = [job EXCEPT ![w] = Idle]
     /\ UNCHANGED <<mp, intent, adStatus, now, answered, refused>>

Init ==
  /\ mp = [c \in Charges |-> "pending"]
  /\ intent = [i \in Intents |-> "none"]
  /\ until = [a \in Ads |-> 0]
  /\ adStatus = [a \in Ads |-> "active"]
  /\ now = 0
  /\ answered = {}
  /\ job = [w \in Workers |-> Idle]
  /\ refused = {}
  /\ gone = [a \in Ads |-> 0]

Webhook(w) ==
  (\E c \in Charges : Fetch(w, c)) \/ Begin(w) \/ ReadAd(w) \/ Commit(w)
Administrator(w) ==
  (\E a \in Ads : ReadForGrant(w, a) \/ ReadForSet(w, a)) \/ WriteHighlight(w)
Next ==
  \/ \E i \in Intents : Checkout(i)
  \/ \E c \in Charges : MercadoPago(c)
  \/ \E a \in Ads : ChangeAd(a)
  \/ NextDay
  \/ \E w \in Workers : Webhook(w) \/ Administrator(w) \/ Fail(w)

Spec == Init /\ [][Next]_vars

(* Mercado Pago repeats a notification until it is answered; a server goes *)
(* on with what it began; after some moment no attempt fails any more.     *)
Fairness ==
  /\ \A c \in Charges : SF_vars(/\ mp[c] = "approved" /\ c \notin answered
                                /\ \E w \in Workers : Fetch(w, c))
  /\ \A w \in Workers : /\ SF_vars(Begin(w))
                         /\ WF_vars(ReadAd(w) \/ Commit(w) \/ WriteHighlight(w))
  /\ <>[][\A w \in Workers : ~Fail(w)]_vars
FairSpec == Spec /\ Fairness

(***************************************************************************)
(* Properties.                                                             *)
(***************************************************************************)

(* However notifications are repeated, raced, delayed or reordered, every  *)
(* purchase is credited once with all its days, on top of what the ad has, *)
(* or refused; and no day given to an ad is lost.  Holds when a manual     *)
(* grant does not overlap another write; else VIOLATED, because the grant  *)
(* writes a date computed from an older row.                               *)
Outcome(i) ==
  IF intent[i] # "approved" THEN "open" ELSE IF i \in refused THEN "refused" ELSE "credited"
Ledger == INSTANCE BoostLedger WITH outcome <- [i \in Intents |-> Outcome(i)],
                                    days <- [a \in Ads |-> gone[a] + Left(a)]
ImplementsLedger == Ledger!Spec

(* Mercado Pago stops repeating an approval only when it is recorded.      *)
(* VIOLATED without the trail table, whose failed INSERT the code forgives *)
(* and PostgreSQL does not.                                                *)
AnsweredMeansRecorded == \A c \in answered : intent[IntentOf[c]] = "approved"

(* A purchase whose payment stays approved is decided in the end.          *)
EveryBoostIsDecided ==
  \A c \in Charges : mp[c] = "approved" ~> (intent[IntentOf[c]] = "approved" \/ mp[c] # "approved")

(* Only an active ad is given more highlight.  VIOLATED: its status is     *)
(* read before the UPDATE, and a manual grant accepts a paused ad.         *)
OnlyActiveAdsAreHighlighted ==
  [][\A a \in Ads : until'[a] > until[a] => adStatus[a] = "active"]_vars
================================================================================
