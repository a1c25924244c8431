-------------------------------- MODULE AdQuota --------------------------------
(***************************************************************************)
(* AdStatus with two history variables that follow the places of the       *)
(* advertiser's plan: a request that found a free place holds it until it  *)
(* writes, the ad it made active holds it from then on.  The variables     *)
(* record steps of AdStatus and allow all of them.                         *)
(***************************************************************************)
EXTENDS AdStatus

ASSUME ClientsCount == IsFiniteSet(Clients) /\ Clients # {}
ASSUME AdsCount == IsFiniteSet(Ads)

VARIABLES claims, \* requests that found a place and have not written yet
          placed  \* active ads that their owner published on such a place

quotaVars == <<status, previous, trail, photos, car, job, claims, placed>>

(* After this step c is free to publish: its write comes next.             *)
Publishes(c) == job'[c].step = "write" /\ job'[c].op \in {"create", "activate"}

(* c comes to that point because its count found room, or without a count. *)
(* The exceptions are a count that failed and so let c pass, and the       *)
(* repeated activation of an ad that an administrator made active.         *)
FindsPlace(c) ==
  \/ job[c].step = "count" /\ Allowed(Cardinality(Active))
  \/ job[c] = Idle /\ (status[job'[c].ad] # "active" \/ job'[c].ad \in placed)

QuotaInit == Init /\ claims = {} /\ placed = {}

QuotaNext ==
  /\ Next
  /\ claims' = {c \in Clients : /\ Publishes(c)
                                /\ FindsPlace(c) \/ (c \in claims /\ job'[c] = job[c])}
  /\ placed' = {a \in Ads : /\ status'[a] = "active"
                            /\ a \in placed \/ \E c \in claims : Writes(c, a)}

QuotaSpec == QuotaInit /\ [][QuotaNext]_quotaVars

(* The plan's limit under overlapping requests.  The count and the write   *)
(* of a publication are two statements, so the limit itself can be passed; *)
(* but every request beyond its count saw a place, so it is passed by less *)
(* than one ad for each request running at once, and the excess does not   *)
(* pile up: neither by publishing and pausing in turns, nor by repeating   *)
(* an activation, nor around an administrator who takes ads down and       *)
(* brings them back.  With one request at a time it is the plan's limit.   *)
ExcessIsBounded ==
  Cardinality(placed \cup {job[c].ad : c \in claims}) <= AdLimit + Cardinality(Clients) - 1
===============================================================================
