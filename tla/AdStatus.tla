------------------------------- MODULE AdStatus -------------------------------
(***************************************************************************)
(* The status of the ads of ONE advertiser: publication, the owner's       *)
(* pause, activate, edit and remove, the review queue, the administrator's *)
(* free change, archive and restore, and the administrative block.         *)
(*                                                                         *)
(* Only the block and its lift lock the row.  Every other handler reads    *)
(* the ad, decides, and writes with an UPDATE whose WHERE clause names the *)
(* id alone: between the two steps any other client may act.               *)
(***************************************************************************)
EXTENDS Integers, Sequences, FiniteSets

CONSTANTS Ads, Clients,
          Cars,       \* values of the structural fields (brand, model, year, city)
          Ops,        \* the operations clients use
          Targets,    \* statuses changeAdStatus is asked for
          AdLimit,    \* active ads the plan allows
          CountFails, \* the COUNT query may fail
          MaxBlocks,  \* bound on the blocks of an ad
          None

Statuses == {"draft", "pending_review", "active", "paused", "sold", "expired",
             "rejected", "deleted", "blocked", "archived"}
AllOps == {"create", "pause", "activate", "edit", "remove",
           "change", "approve", "reject", "archive", "restore", "adminEdit",
           "block", "unblock"}
OwnerOps == {"create", "pause", "activate", "edit", "remove"}

ASSUME OpsTyped == Ops \subseteq AllOps /\ Targets \subseteq Statuses
ASSUME LimitsTyped == AdLimit \in Nat /\ MaxBlocks \in Nat /\ CountFails \in BOOLEAN
ASSUME NoneApart == None \notin Statuses \cup Ads \cup Cars \cup {"none"}

VARIABLES status,    \* ads.status, "none" before the INSERT
          previous,  \* ads.blocked_previous_status
          trail,     \* the block events of ad_moderation_events, oldest first
          photos,    \* are the images of the ad still stored?
          car,       \* the structural fields
          job        \* job[c]: the request of client c between its steps

vars == <<status, previous, trail, photos, car, job>>
adVars == <<status, previous, trail, photos, car>>

Event == [type : {"blocked", "unblocked"}, from : Statuses, to : Statuses]
Job == [op : AllOps \cup {"none"}, ad : Ads \cup {None},
        to : Statuses \cup Cars \cup {None}, step : {"idle", "count", "write", "cleanup"}]
Idle == [op |-> "none", ad |-> None, to |-> None, step |-> "idle"]

TypeOK ==
  /\ status \in [Ads -> Statuses \cup {"none"}]
  /\ previous \in [Ads -> Statuses \cup {None}]
  /\ trail \in [Ads -> Seq(Event)]
  /\ photos \in [Ads -> BOOLEAN]
  /\ car \in [Ads -> Cars \cup {None}]
  /\ job \in [Clients -> Job]

(***************************************************************************)
(* What each handler asks of the status it read.                           *)
(***************************************************************************)

MayChangeByOwner_Blocked(s) == s # "deleted"
MayChangeByOwner(s) == s \notin {"deleted", "blocked"}

MayChange_Deleted(s, to) == to # "blocked" /\ s # "blocked"
MayChange(s, to) ==
  (s = "deleted" => to = "deleted") /\ to # "blocked" /\ s # "blocked"

InitialStatus_Literal == {"active", "review"}
InitialStatus == {"active", "pending_review"}

InReview(s) == s = "pending_review"

MayArchive_Deleted(s) == s # "archived"
MayArchive(s) == s \notin {"archived", "deleted"}

OwnerEditable == {"draft", "pending_review", "active", "paused", "rejected", "blocked"}
StructureLocked_OpenWhenBlocked == {"active", "pending_review", "paused", "sold"}
StructureLocked == {"active", "pending_review", "paused", "sold", "blocked"}

Active == {a \in Ads : status[a] = "active"}

BlockForbidden_Nothing(s) == FALSE
BlockForbidden(s) == s = "deleted"

RestoredStatus_Active(stored) == "active"
RestoredStatus(stored) ==
  IF stored # None /\ stored \notin {"deleted", "blocked"} THEN stored ELSE "active"

(***************************************************************************)
(* First step of a request: read the ad and decide.                        *)
(***************************************************************************)

Request(c, op, a, to, step) ==
  /\ job[c] = Idle /\ op \in Ops
  /\ job' = [job EXCEPT ![c] = [op |-> op, ad |-> a, to |-> to, step |-> step]]
  /\ UNCHANGED adVars

(* The risk score, from the server's own FIPE value, decides the status.  *)
(* The id is given by the INSERT, so two requests never share one.         *)
CreateAd(c) ==
  \E a \in Ads, s \in InitialStatus :
    /\ status[a] = "none" /\ \A d \in Clients : job[d].op = "create" => job[d].ad # a
    /\ Request(c, "create", a, s, "count")

PauseAd(c) ==
  \E a \in Ads : /\ status[a] # "none" /\ MayChangeByOwner(status[a])
                 /\ Request(c, "pause", a, "paused", "write")

(* The limit is looked at only when the ad is not active already. *)
ActivateAd(c) ==
  \E a \in Ads : /\ status[a] # "none" /\ MayChangeByOwner(status[a])
                 /\ Request(c, "activate", a, "active",
                            IF status[a] = "active" THEN "write" ELSE "count")

(* An edit of the structural fields; other fields are not modelled. *)
EditAd(c) ==
  \E a \in Ads, k \in Cars, op \in {"edit", "adminEdit"} :
    /\ status[a] \notin StructureLocked \cup {"none"}
    /\ op = "edit" => status[a] \in OwnerEditable
    /\ Request(c, op, a, k, "write")

(* Only the ownership is read. *)
RemoveAd(c) ==
  \E a \in Ads : status[a] # "none" /\ Request(c, "remove", a, "deleted", "write")

ChangeAdStatus(c) ==
  \E a \in Ads, to \in Targets : /\ status[a] # "none" /\ MayChange(status[a], to)
                                 /\ Request(c, "change", a, to, "write")

(* requestCorrection leaves the status alone and has no action. *)
Moderate(c) ==
  \E a \in Ads : /\ InReview(status[a])
                 /\ \/ Request(c, "approve", a, "active", "write")
                    \/ Request(c, "reject", a, "rejected", "write")

ArchiveAd(c) ==
  \E a \in Ads : /\ status[a] # "none" /\ MayArchive(status[a])
                 /\ Request(c, "archive", a, "archived", "write")

RestoreAd(c) ==
  \E a \in Ads, to \in {"active", "paused"} :
    status[a] = "archived" /\ Request(c, "restore", a, to, "write")

(***************************************************************************)
(* Later steps.                                                            *)
(***************************************************************************)

(* countActiveAdsByUser answers 0 when its query fails. *)
Allowed_OffByOne(n) == n <= AdLimit
Allowed(n) == n < AdLimit
Count(c) ==
  /\ job[c].step = "count"
  /\ \E n \in {Cardinality(Active)} \cup (IF CountFails THEN {0} ELSE {}) :
       job' = [job EXCEPT ![c] = IF Allowed(n) THEN [@ EXCEPT !.step = "write"] ELSE Idle]
  /\ UNCHANGED adVars

Insert(c) ==
  /\ job[c].step = "write" /\ job[c].op = "create"
  /\ \E k \in Cars : car' = [car EXCEPT ![job[c].ad] = k]
  /\ status' = [status EXCEPT ![job[c].ad] = job[c].to]
  /\ photos' = [photos EXCEPT ![job[c].ad] = TRUE]
  /\ job' = [job EXCEPT ![c] = Idle]
  /\ UNCHANGED <<previous, trail>>

WriteStatus(c) ==
  /\ job[c].step = "write" /\ job[c].op \notin {"create", "edit", "adminEdit"}
  /\ status' = [status EXCEPT ![job[c].ad] = job[c].to]
  /\ job' = [job EXCEPT ![c] = IF @.op = "remove" THEN [@ EXCEPT !.step = "cleanup"] ELSE Idle]
  /\ UNCHANGED <<previous, trail, photos, car>>

WriteCar(c) ==
  /\ job[c].step = "write" /\ job[c].op \in {"edit", "adminEdit"}
  /\ car' = [car EXCEPT ![job[c].ad] = job[c].to]
  /\ job' = [job EXCEPT ![c] = Idle]
  /\ UNCHANGED <<status, previous, trail, photos>>

(* Images are removed after the soft delete, when storage answers. *)
CleanupImages(c) ==
  /\ job[c].step = "cleanup"
  /\ photos' \in {photos, [photos EXCEPT ![job[c].ad] = FALSE]}
  /\ job' = [job EXCEPT ![c] = Idle]
  /\ UNCHANGED <<status, previous, trail, car>>

(***************************************************************************)
(* The administrative block: status, previous status and event are written *)
(* in one transaction that locked the row.  If the INSERT of the event     *)
(* fails everything is rolled back, which is no step.                      *)
(***************************************************************************)

Blocks(a) == Cardinality({n \in DOMAIN trail[a] : trail[a][n].type = "blocked"})

BlockAd(c) ==
  /\ job[c] = Idle /\ "block" \in Ops
  /\ \E a \in Ads :
       /\ status[a] \notin {"none", "blocked"} /\ ~BlockForbidden(status[a])
       /\ Blocks(a) < MaxBlocks
       /\ status' = [status EXCEPT ![a] = "blocked"]
       /\ previous' = [previous EXCEPT ![a] = status[a]]
       /\ trail' = [trail EXCEPT ![a] =
                      Append(@, [type |-> "blocked", from |-> status[a], to |-> "blocked"])]
  /\ UNCHANGED <<photos, car, job>>

UnblockAd(c) ==
  /\ job[c] = Idle /\ "unblock" \in Ops
  /\ \E a \in Ads :
       /\ status[a] = "blocked"
       /\ LET restored == RestoredStatus(previous[a]) IN
            /\ status' = [status EXCEPT ![a] = restored]
            /\ trail' = [trail EXCEPT ![a] =
                           Append(@, [type |-> "unblocked", from |-> "blocked", to |-> restored])]
       /\ previous' = [previous EXCEPT ![a] = None]
  /\ UNCHANGED <<photos, car, job>>

Init ==
  /\ status = [a \in Ads |-> "none"]
  /\ previous = [a \in Ads |-> None]
  /\ trail = [a \in Ads |-> <<>>]
  /\ photos = [a \in Ads |-> FALSE]
  /\ car = [a \in Ads |-> None]
  /\ job = [c \in Clients |-> Idle]

OwnerStep(c) ==
  CreateAd(c) \/ PauseAd(c) \/ ActivateAd(c) \/ EditAd(c) \/ RemoveAd(c)
AdminStep(c) ==
  ChangeAdStatus(c) \/ Moderate(c) \/ ArchiveAd(c) \/ RestoreAd(c)
LaterStep(c) ==
  Count(c) \/ Insert(c) \/ WriteStatus(c) \/ WriteCar(c) \/ CleanupImages(c)
Next ==
  \E c \in Clients : OwnerStep(c) \/ AdminStep(c) \/ LaterStep(c) \/ BlockAd(c) \/ UnblockAd(c)

Spec == Init /\ [][Next]_vars

(***************************************************************************)
(* Conditions on overlapping requests.  One request at a time satisfies    *)
(* all of them; nothing in the code enforces any of them.                  *)
(***************************************************************************)

(* c is between reading an ad and writing its status. *)
ChangesStatus(c) == job[c].step \in {"count", "write"} /\ job[c].op \notin {"edit", "adminEdit"}

(* While one request waits to delete an ad, none waits to give that ad     *)
(* another status.                                                         *)
DeletesApart ==
  \A c, d \in Clients :
    ChangesStatus(c) /\ ChangesStatus(d) /\ job[c].ad = job[d].ad /\ job[c].to = "deleted"
      => job[d].to = "deleted"

(* No ad is blocked while its owner's pause or activation is under way.    *)
BlocksApart ==
  \A c \in Clients :
    ChangesStatus(c) /\ job[c].op \in {"pause", "activate"} /\ status[job[c].ad] # "blocked"
      => status'[job[c].ad] # "blocked"

(* From the moment an owner's request is free to make an ad active until   *)
(* it does, no other step makes an ad active or takes this one down.       *)
CountsApart ==
  \A c \in Clients :
    /\ job[c].step = "write" /\ job[c].op \in {"create", "activate"} /\ job[c].to = "active"
    /\ job'[c] = job[c]
    => /\ Active' \subseteq Active
       /\ job[c].ad \in Active => job[c].ad \in Active'

(* Between the check of an edit and its UPDATE the ad enters no status in  *)
(* which its vehicle is fixed.                                             *)
EditsApart ==
  \A c \in Clients :
    /\ job[c].step = "write" /\ job[c].op \in {"edit", "adminEdit"}
    /\ status[job[c].ad] \notin StructureLocked
    => status'[job[c].ad] \notin StructureLocked

(***************************************************************************)
(* Properties.                                                             *)
(***************************************************************************)

(* A blocked ad knows the status it had: its last block event says how it  *)
(* was, it was neither deleted nor blocked, and blocked_previous_status    *)
(* agrees.  unblockAd then never needs its fallback "active".              *)
BlockIsRecorded ==
  \A a \in Ads : status[a] = "blocked" =>
    /\ trail[a] # <<>>
    /\ LET last == trail[a][Len(trail[a])] IN
         /\ last.type = "blocked" /\ last.from \notin {"deleted", "blocked"}
         /\ previous[a] = last.from

(* In the history of an ad a lift follows a block and restores the status  *)
(* that block had replaced: an ad blocked while paused or in review is not *)
(* published by the lift, whatever ran between the two.                    *)
UnblockRestores ==
  \A a \in Ads : \A n \in DOMAIN trail[a] :
    trail[a][n].type = "unblocked" =>
      n > 1 /\ trail[a][n - 1].type = "blocked" /\ trail[a][n].to = trail[a][n - 1].from

(* c writes ad a in this step. *)
Writes(c, a) == job[c].ad = a /\ job[c].step = "write" /\ job'[c] # job[c]

(* a is deleted, and no request that read it before would still give it    *)
(* another status.                                                         *)
Gone(a) ==
  /\ status[a] = "deleted"
  /\ \A c \in Clients : ChangesStatus(c) /\ job[c].ad = a => job[c].to = "deleted"

(* Whatever overlapped the removal, once the requests of that moment have  *)
(* ended the ad stays deleted: no door leads back, neither the owner's nor *)
(* an administrator's, nor a detour by archive, block or lift.  ("Cannot   *)
(* be restored via normal flow.")                                          *)
GoneForGood == [][\A a \in Ads : Gone(a) => Gone(a)']_vars

(* A deleted ad is restored by nobody.  VIOLATED: a request that read the  *)
(* ad before its removal writes after it.  Holds under DeletesApart.       *)
DeletedIsTerminal == [][\A a \in Ads : status[a] = "deleted" => status'[a] = "deleted"]_vars

(* The public catalogue shows no ad whose images removeAd has deleted.     *)
(* Holds under DeletesApart.                                               *)
PublicAdsKeepPhotos == \A a \in Ads : status[a] = "active" => photos[a]

(* The plan's limit on active ads is kept by whatever the owner makes      *)
(* active.  VIOLATED: a place that two requests count is taken twice, and  *)
(* a count that fails reads 0.  AdQuota says what the counts do keep.      *)
OwnerStaysWithinLimit ==
  [][\A c \in Clients, a \in Ads :
       Writes(c, a) /\ job[c].op \in OwnerOps /\ status[a] # "active" /\ status'[a] = "active"
         => Cardinality({b \in Ads : status'[b] = "active"}) <= AdLimit]_vars

(* No request of the owner takes an ad out of the administrative block,    *)
(* except by removing the ad.  VIOLATED: one that read the ad before the   *)
(* block writes after it.                                                  *)
OwnerCannotLiftBlock ==
  [][\A c \in Clients, a \in Ads :
       status[a] = "blocked" /\ Writes(c, a) /\ job[c].op \in OwnerOps
         => status'[a] \in {"blocked", "deleted"}]_vars

(* An ad that was blocked becomes public again only by a recorded lift: it *)
(* is never active after a block without an "unblocked" event between.     *)
(* VIOLATED: a blocked ad can be archived and restored.                    *)
BlockLiftedOnlyByUnblock ==
  \A a \in Ads : status[a] = "active" /\ trail[a] # <<>> =>
    trail[a][Len(trail[a])].type = "unblocked"

(* What waits for review, or was refused by it, is published by an         *)
(* administrator only.  VIOLATED: the owner's activation does not look.    *)
ReviewedBeforePublic ==
  [][\A c \in Clients, a \in Ads :
       status[a] \in {"pending_review", "rejected"} /\ status'[a] = "active" /\ Writes(c, a)
         => job[c].op \notin OwnerOps]_vars

(* The vehicle of an ad that is public, in review, paused, sold or blocked *)
(* is not exchanged for another one.  VIOLATED: the UPDATE of an edit does *)
(* not repeat its check.                                                   *)
VehicleIsFixed ==
  [][\A a \in Ads :
       status[a] \in {"active", "pending_review", "paused", "sold", "blocked"}
         => car'[a] = car[a]]_vars
===============================================================================
