------------------------------ MODULE MCAdStatus ------------------------------
(***************************************************************************)
(* Instances of AdStatus, with the history variables of AdQuota.           *)
(***************************************************************************)
EXTENDS AdQuota, TLC

MCSomeTargets == {"active", "paused", "rejected", "deleted", "archived"}
MCAllTargets == Statuses
MCQuotaOps == {"create", "pause", "activate", "remove"}
MCArchiveOps == {"create", "archive", "restore", "block", "unblock"}
MCOwnerBlockOps == {"create", "activate", "block"}
MCRemoveOps == {"create", "pause", "activate", "remove"}
MCVehicleOps == {"create", "edit", "change", "activate"}
MCPlaceOps == {"create", "pause", "activate", "approve", "block", "unblock"}

MCSymmetry == Permutations(Clients)
MCFullSymmetry == Permutations(Clients) \cup Permutations(Ads)
===============================================================================
