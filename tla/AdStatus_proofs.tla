---------------------------- MODULE AdStatus_proofs ----------------------------
(***************************************************************************)
(* For any number of ads and clients, whatever overlaps: the types, the    *)
(* record of a block and what a lift restores, that a deleted ad stays     *)
(* deleted once its requests have ended, and by how much overlapping       *)
(* requests can pass the limit of the plan.  Then what one request at a    *)
(* time keeps, and that deletion needs less than that.                     *)
(*                                                                         *)
(* SInv: what the operation of a pending request says of what it will      *)
(* write and of whether its ad exists.  On top of it, under the conditions *)
(* on overlapping requests that AdStatus names, GoneInv (nothing waits to  *)
(* bring back a deleted ad), UnderWay (no pause or activation waits on a   *)
(* blocked ad), EditsAreOpen (no pending exchange of a fixed vehicle) and  *)
(* RoomInv (a request free to publish has room left).                      *)
(***************************************************************************)
EXTENDS AdQuota, TLAPS, FiniteSetTheorems

(* A pending request names an ad and what it will write: a car when it     *)
(* edits, else a status, never "blocked".                                  *)
Edits == {"edit", "adminEdit"}
JobInv ==
  \A c \in Clients : job[c].step # "idle" =>
    /\ job[c].ad \in Ads
    /\ job[c].op \in Edits => job[c].to \in Cars
    /\ job[c].op \notin Edits => job[c].to \in Statuses \ {"blocked"}

IInv == TypeOK /\ JobInv /\ BlockIsRecorded /\ UnblockRestores

(* What a request writes into job is typed. *)
LEMMA RequestJob ==
  ASSUME TypeOK, JobInv, NEW c \in Clients, NEW op \in AllOps, NEW a \in Ads,
         NEW to \in Statuses \cup Cars, NEW step \in {"count", "write"},
         op \in Edits => to \in Cars,
         op \notin Edits => to \in Statuses \ {"blocked"},
         Request(c, op, a, to, step)
  PROVE  job' \in [Clients -> Job] /\ JobInv' /\ UNCHANGED adVars
<1> DEFINE new == [op |-> op, ad |-> a, to |-> to, step |-> step]
<1>1. new \in Job
  BY DEF Job
<1>2. job' = [job EXCEPT ![c] = new] /\ UNCHANGED adVars
  BY DEF Request
<1>3. job' \in [Clients -> Job]
  BY <1>1, <1>2 DEF TypeOK
<1>4. JobInv'
  BY <1>2, <1>3 DEF JobInv, TypeOK
<1> QED
  BY <1>2, <1>3, <1>4

LEMMA InitHolds == Init => IInv
BY NoneApart DEF Init, IInv, TypeOK, JobInv, BlockIsRecorded, UnblockRestores, Idle, Job, Event

(* The first steps write job only. *)
LEMMA FirstSteps ==
  ASSUME TypeOK, JobInv, NEW c \in Clients, OwnerStep(c) \/ AdminStep(c)
  PROVE  job' \in [Clients -> Job] /\ JobInv' /\ UNCHANGED adVars
<1> USE OpsTyped
<1>1. CASE CreateAd(c)
  BY <1>1, RequestJob DEF CreateAd, AllOps, InitialStatus, Statuses, Edits
<1>2. CASE PauseAd(c)
  BY <1>2, RequestJob DEF PauseAd, AllOps, Statuses, Edits
<1>3. CASE ActivateAd(c)
  BY <1>3, RequestJob DEF ActivateAd, AllOps, Statuses, Edits
<1>4. CASE EditAd(c)
  <2>1. PICK a \in Ads, k \in Cars, op \in Edits : Request(c, op, a, k, "write")
    BY <1>4 DEF EditAd, Edits
  <2>2. op \in AllOps
    BY DEF AllOps, Edits
  <2> QED
    BY <2>1, <2>2, RequestJob DEF Edits
<1>5. CASE RemoveAd(c)
  BY <1>5, RequestJob DEF RemoveAd, AllOps, Statuses, Edits
<1>6. CASE ChangeAdStatus(c)
  BY <1>6, RequestJob DEF ChangeAdStatus, MayChange, AllOps, Statuses, Edits
<1>7. CASE Moderate(c)
  BY <1>7, RequestJob DEF Moderate, AllOps, Statuses, Edits
<1>8. CASE ArchiveAd(c)
  BY <1>8, RequestJob DEF ArchiveAd, AllOps, Statuses, Edits
<1>9. CASE RestoreAd(c)
  BY <1>9, RequestJob DEF RestoreAd, AllOps, Statuses, Edits
<1> QED
  BY <1>1, <1>2, <1>3, <1>4, <1>5, <1>6, <1>7, <1>8, <1>9 DEF OwnerStep, AdminStep

(* The later steps leave the record of blocks alone and never block. *)
LEMMA LaterSteps ==
  ASSUME TypeOK, JobInv, NEW c \in Clients, LaterStep(c)
  PROVE  /\ TypeOK' /\ JobInv' /\ UNCHANGED <<previous, trail>>
         /\ \A a \in Ads : status'[a] = "blocked" => status[a] = "blocked"
<1>1. Idle \in Job
  BY DEF Idle, Job
<1>2. job[c] \in Job /\ [job[c] EXCEPT !.step = "write"] \in Job
      /\ [job[c] EXCEPT !.step = "cleanup"] \in Job
  BY DEF TypeOK, Job
<1>3. CASE Count(c)
  <2>1. /\ job' \in {[job EXCEPT ![c] = [@ EXCEPT !.step = "write"]], [job EXCEPT ![c] = Idle]}
        /\ UNCHANGED adVars
    BY <1>3 DEF Count
  <2>2. job' \in [Clients -> Job] /\ JobInv'
    BY <1>1, <1>2, <1>3, <2>1 DEF TypeOK, JobInv, Idle, Count, Job
  <2> QED
    BY <2>1, <2>2 DEF TypeOK, adVars
<1>4. CASE Insert(c)
  <2>1. job[c].ad \in Ads /\ job[c].to \in Statuses \ {"blocked"}
    BY <1>4 DEF Insert, JobInv, Edits
  <2> QED
    BY <1>1, <1>4, <2>1 DEF Insert, TypeOK, JobInv, Idle
<1>5. CASE WriteStatus(c)
  <2>1. job[c].ad \in Ads /\ job[c].to \in Statuses \ {"blocked"}
    BY <1>5 DEF WriteStatus, JobInv, Edits
  <2>2. job' \in {[job EXCEPT ![c] = [@ EXCEPT !.step = "cleanup"]], [job EXCEPT ![c] = Idle]}
    BY <1>5 DEF WriteStatus
  <2>3. job' \in [Clients -> Job] /\ JobInv'
    BY <1>1, <1>2, <1>5, <2>2 DEF TypeOK, JobInv, Idle, WriteStatus, Job
  <2> QED
    BY <1>5, <2>1, <2>3 DEF WriteStatus, TypeOK
<1>6. CASE WriteCar(c)
  <2>1. job[c].ad \in Ads /\ job[c].to \in Cars
    BY <1>6 DEF WriteCar, JobInv, Edits
  <2> QED
    BY <1>1, <1>6, <2>1 DEF WriteCar, TypeOK, JobInv, Idle
<1>7. CASE CleanupImages(c)
  BY <1>1, <1>7 DEF CleanupImages, TypeOK, JobInv, Idle
<1> QED
  BY <1>3, <1>4, <1>5, <1>6, <1>7 DEF LaterStep

LEMMA BlockPreserves ==
  ASSUME IInv, NEW c \in Clients, BlockAd(c)
  PROVE  IInv'
<1>1. PICK a \in Ads :
        /\ status[a] \notin {"none", "blocked"} /\ ~BlockForbidden(status[a])
        /\ status' = [status EXCEPT ![a] = "blocked"]
        /\ previous' = [previous EXCEPT ![a] = status[a]]
        /\ trail' = [trail EXCEPT ![a] =
                       Append(@, [type |-> "blocked", from |-> status[a], to |-> "blocked"])]
  BY DEF BlockAd
<1> DEFINE e == [type |-> "blocked", from |-> status[a], to |-> "blocked"]
<1>2. UNCHANGED <<photos, car, job>>
  BY DEF BlockAd
<1>3. status[a] \in Statuses \ {"blocked", "deleted"}
  BY <1>1 DEF IInv, TypeOK, BlockForbidden
<1>4. e \in Event /\ "blocked" \in Statuses
  BY <1>3 DEF Event, Statuses
<1>5. trail[a] \in Seq(Event) /\ trail'[a] = Append(trail[a], e)
  BY <1>1 DEF IInv, TypeOK
<1>6. TypeOK'
  BY <1>1, <1>2, <1>3, <1>4, <1>5 DEF IInv, TypeOK
<1>7. /\ Len(trail'[a]) = Len(trail[a]) + 1
      /\ trail'[a][Len(trail[a]) + 1] = e
      /\ \A n \in DOMAIN trail[a] : trail'[a][n] = trail[a][n]
      /\ DOMAIN trail'[a] = DOMAIN trail[a] \cup {Len(trail[a]) + 1}
  BY <1>4, <1>5
<1>8. BlockIsRecorded'
  BY <1>1, <1>3, <1>6, <1>7 DEF IInv, TypeOK, BlockIsRecorded
<1>9. UnblockRestores'
  <2> SUFFICES ASSUME NEW b \in Ads, NEW n \in DOMAIN trail'[b], trail'[b][n].type = "unblocked"
               PROVE  n > 1 /\ trail'[b][n - 1].type = "blocked"
                            /\ trail'[b][n].to = trail'[b][n - 1].from
    BY DEF UnblockRestores
  <2>1. CASE b # a
    BY <1>1, <2>1 DEF IInv, TypeOK, UnblockRestores
  <2>2. CASE b = a
    <3>1. n \in DOMAIN trail[a]
      BY <1>7, <2>2
    <3>2. n > 1 /\ trail[a][n - 1].type = "blocked" /\ trail[a][n].to = trail[a][n - 1].from
      BY <1>7, <2>2, <3>1 DEF IInv, UnblockRestores
    <3>3. n - 1 \in DOMAIN trail[a]
      BY <1>5, <3>1, <3>2
    <3> QED
      BY <1>7, <2>2, <3>1, <3>2, <3>3
  <2> QED
    BY <2>1, <2>2
<1> QED
  BY <1>2, <1>6, <1>8, <1>9 DEF IInv, JobInv

LEMMA UnblockPreserves ==
  ASSUME IInv, NEW c \in Clients, UnblockAd(c)
  PROVE  IInv'
<1>1. PICK a \in Ads :
        /\ status[a] = "blocked"
        /\ status' = [status EXCEPT ![a] = RestoredStatus(previous[a])]
        /\ trail' = [trail EXCEPT ![a] =
                       Append(@, [type |-> "unblocked", from |-> "blocked",
                                  to |-> RestoredStatus(previous[a])])]
        /\ previous' = [previous EXCEPT ![a] = None]
  BY DEF UnblockAd
<1> DEFINE restored == RestoredStatus(previous[a])
           e == [type |-> "unblocked", from |-> "blocked", to |-> restored]
           k == Len(trail[a])
<1>2. UNCHANGED <<photos, car, job>>
  BY DEF UnblockAd
<1>3. trail[a] \in Seq(Event) /\ trail'[a] = Append(trail[a], e)
  BY <1>1 DEF IInv, TypeOK
<1>4. /\ trail[a] # <<>> /\ trail[a][k].type = "blocked"
      /\ trail[a][k].from \notin {"deleted", "blocked"} /\ previous[a] = trail[a][k].from
  BY <1>1 DEF IInv, BlockIsRecorded
<1>5. k \in DOMAIN trail[a] /\ k \in Nat /\ k >= 1
  BY <1>3, <1>4
<1>6. trail[a][k] \in Event
  BY <1>3, <1>5
<1>7. previous[a] \in Statuses \ {"deleted", "blocked"}
  BY <1>4, <1>6 DEF Event
<1>8. restored = previous[a]
  BY <1>7, NoneApart DEF RestoredStatus
<1>9. e \in Event
  BY <1>7, <1>8 DEF Event, Statuses
<1>10. TypeOK'
  BY <1>1, <1>2, <1>3, <1>7, <1>8, <1>9 DEF IInv, TypeOK
<1>11. /\ trail'[a][k + 1] = e
       /\ \A n \in DOMAIN trail[a] : trail'[a][n] = trail[a][n]
       /\ DOMAIN trail'[a] = DOMAIN trail[a] \cup {k + 1}
  BY <1>3, <1>9
<1>12. BlockIsRecorded'
  BY <1>1, <1>7, <1>8 DEF IInv, TypeOK, BlockIsRecorded
<1>13. UnblockRestores'
  <2> SUFFICES ASSUME NEW b \in Ads, NEW n \in DOMAIN trail'[b], trail'[b][n].type = "unblocked"
               PROVE  n > 1 /\ trail'[b][n - 1].type = "blocked"
                            /\ trail'[b][n].to = trail'[b][n - 1].from
    BY DEF UnblockRestores
  <2>1. CASE b # a
    BY <1>1, <2>1 DEF IInv, TypeOK, UnblockRestores
  <2>2. CASE b = a /\ n = k + 1
    BY <1>4, <1>5, <1>8, <1>11, <2>2
  <2>3. CASE b = a /\ n # k + 1
    <3>1. n \in DOMAIN trail[a]
      BY <1>11, <2>3
    <3>2. n > 1 /\ trail[a][n - 1].type = "blocked" /\ trail[a][n].to = trail[a][n - 1].from
      BY <1>11, <2>3, <3>1 DEF IInv, UnblockRestores
    <3>3. n - 1 \in DOMAIN trail[a]
      BY <1>3, <3>1, <3>2
    <3> QED
      BY <1>11, <2>3, <3>1, <3>2, <3>3
  <2> QED
    BY <2>1, <2>2, <2>3
<1> QED
  BY <1>2, <1>10, <1>12, <1>13 DEF IInv, JobInv

LEMMA NextPreserves == IInv /\ [Next]_vars => IInv'
<1> SUFFICES ASSUME IInv, [Next]_vars PROVE IInv'
  OBVIOUS
<1>1. CASE UNCHANGED vars
  BY <1>1 DEF IInv, TypeOK, JobInv, BlockIsRecorded, UnblockRestores, vars
<1>2. ASSUME NEW c \in Clients, OwnerStep(c) \/ AdminStep(c) PROVE IInv'
  <2>1. job' \in [Clients -> Job] /\ JobInv' /\ UNCHANGED adVars
    BY <1>2, FirstSteps DEF IInv
  <2> QED
    BY <2>1 DEF IInv, TypeOK, BlockIsRecorded, UnblockRestores, adVars
<1>3. ASSUME NEW c \in Clients, LaterStep(c) PROVE IInv'
  <2>1. /\ TypeOK' /\ JobInv' /\ UNCHANGED <<previous, trail>>
        /\ \A a \in Ads : status'[a] = "blocked" => status[a] = "blocked"
    BY <1>3, LaterSteps DEF IInv
  <2> QED
    BY <2>1 DEF IInv, BlockIsRecorded, UnblockRestores
<1>4. ASSUME NEW c \in Clients, BlockAd(c) \/ UnblockAd(c) PROVE IInv'
  BY <1>4, BlockPreserves, UnblockPreserves
<1> QED
  BY <1>1, <1>2, <1>3, <1>4 DEF Next

(* The inductive invariant holds in every reachable state. *)
THEOREM AdInvariant == Spec => []IInv
BY InitHolds, NextPreserves, PTL DEF Spec

(* Every variable keeps its type, for any number of ads and clients. *)
THEOREM AdTypes == Spec => []TypeOK
<1>1. IInv => TypeOK
  BY DEF IInv
<1> QED
  BY <1>1, AdInvariant, PTL

(* A blocked ad always carries the record of its block, although every     *)
(* other handler writes without a lock.                                    *)
THEOREM BlockRecorded == Spec => []BlockIsRecorded
<1>1. IInv => BlockIsRecorded
  BY DEF IInv
<1> QED
  BY <1>1, AdInvariant, PTL

(* A lift restores the status that its block replaced. *)
THEOREM LiftRestores == Spec => []UnblockRestores
<1>1. IInv => UnblockRestores
  BY DEF IInv
<1> QED
  BY <1>1, AdInvariant, PTL

(***************************************************************************)
(* What a request between its steps is known to be, whatever overlaps it:  *)
(* its operation fixes what it will write, an ad that is being published   *)
(* does not exist yet and is nobody else's, and no other ad disappears.    *)
(***************************************************************************)

Standing(r) ==
  /\ r.op \in Ops
  /\ r.step = "count" => r.op \in {"create", "activate"}
  /\ r.step = "cleanup" => r.op = "remove"
  /\ r.op = "create" => status[r.ad] = "none" /\ r.to \in InitialStatus
  /\ r.op # "create" => status[r.ad] # "none"
  /\ r.op = "pause" => r.to = "paused"
  /\ r.op = "activate" => r.to = "active"
  /\ r.op = "remove" => r.to = "deleted"

SInv ==
  /\ \A c \in Clients : IF job[c].step = "idle" THEN job[c] = Idle ELSE Standing(job[c])
  /\ \A c, d \in Clients :
       job[c].op = "create" /\ job[d].op = "create" /\ job[c].ad = job[d].ad => c = d

(* What is true, in addition, of a request that has just read its ad.      *)
Fits(r) ==
  /\ Standing(r) /\ r.step \in {"count", "write"}
  /\ r.op = "create" => r.step = "count" /\ \A d \in Clients : job[d].op = "create" => job[d].ad # r.ad
  /\ r.op \in {"pause", "activate"} => status[r.ad] # "blocked"
  /\ r.op \notin Edits /\ r.to # "deleted" => status[r.ad] # "deleted"
  /\ r.op \in Edits => status[r.ad] \notin StructureLocked
  /\ r.op = "activate" /\ r.step = "write" => status[r.ad] = "active"

(* The three kinds of step that are not writes of a pending request.       *)
Starts(c) ==
  /\ job[c] = Idle /\ UNCHANGED adVars
  /\ \E op \in Ops, a \in Ads, to \in Statuses \cup Cars, step \in {"count", "write"} :
       LET r == [op |-> op, ad |-> a, to |-> to, step |-> step] IN
         Fits(r) /\ job' = [job EXCEPT ![c] = r]
Blocked(c, a) ==
  /\ job[c] = Idle
  /\ status[a] \notin {"none", "blocked", "deleted"}
  /\ status' = [status EXCEPT ![a] = "blocked"]
  /\ UNCHANGED <<photos, car, job>>
Lifted(c, a) ==
  /\ job[c] = Idle
  /\ status[a] = "blocked" /\ previous[a] \in Statuses \ {"blocked", "deleted"}
  /\ status' = [status EXCEPT ![a] = previous[a]]
  /\ UNCHANGED <<photos, car, job>>

LEMMA FirstStepFits ==
  ASSUME TypeOK, NEW c \in Clients, OwnerStep(c) \/ AdminStep(c)
  PROVE  Starts(c)
<1> USE DEF Starts, Request, Fits, Standing, Edits, Statuses
<1>1. CASE CreateAd(c)
  BY <1>1 DEF CreateAd, InitialStatus
<1>2. CASE PauseAd(c)
  BY <1>2 DEF PauseAd, MayChangeByOwner
<1>3. CASE ActivateAd(c)
  BY <1>3 DEF ActivateAd, MayChangeByOwner
<1>4. CASE EditAd(c)
  BY <1>4 DEF EditAd
<1>5. CASE RemoveAd(c)
  BY <1>5 DEF RemoveAd
<1>6. CASE ChangeAdStatus(c)
  BY <1>6, OpsTyped DEF ChangeAdStatus, MayChange
<1>7. CASE Moderate(c)
  BY <1>7 DEF Moderate, InReview
<1>8. CASE ArchiveAd(c)
  BY <1>8 DEF ArchiveAd, MayArchive
<1>9. CASE RestoreAd(c)
  BY <1>9 DEF RestoreAd
<1> QED
  BY <1>1, <1>2, <1>3, <1>4, <1>5, <1>6, <1>7, <1>8, <1>9 DEF OwnerStep, AdminStep

(* A lift finds the previous status of the ad, and never its fallback.     *)
LEMMA LiftedStatus ==
  ASSUME IInv, NEW a \in Ads, status[a] = "blocked"
  PROVE  previous[a] \in Statuses \ {"deleted", "blocked"} /\ RestoredStatus(previous[a]) = previous[a]
<1> DEFINE k == Len(trail[a])
<1>1. trail[a] \in Seq(Event) /\ trail[a] # <<>>
      /\ trail[a][k].from \notin {"deleted", "blocked"} /\ previous[a] = trail[a][k].from
  BY DEF IInv, TypeOK, BlockIsRecorded
<1>2. trail[a][k] \in Event
  BY <1>1
<1>3. previous[a] \in Statuses \ {"deleted", "blocked"}
  BY <1>1, <1>2 DEF Event
<1> QED
  BY <1>3, NoneApart DEF RestoredStatus

(* The kinds of step.                                                      *)
LEMMA StepKinds ==
  ASSUME IInv, [Next]_vars
  PROVE  \/ UNCHANGED vars
         \/ \E c \in Clients : Starts(c)
         \/ \E c \in Clients : LaterStep(c)
         \/ \E c \in Clients, a \in Ads : Blocked(c, a) \/ Lifted(c, a)
<1>1. ASSUME NEW c \in Clients, OwnerStep(c) \/ AdminStep(c) PROVE Starts(c)
  BY <1>1, FirstStepFits DEF IInv
<1>2. ASSUME NEW c \in Clients, BlockAd(c) PROVE \E a \in Ads : Blocked(c, a)
  BY <1>2 DEF BlockAd, Blocked, BlockForbidden
<1>3. ASSUME NEW c \in Clients, UnblockAd(c) PROVE \E a \in Ads : Lifted(c, a)
  BY <1>3, LiftedStatus DEF UnblockAd, Lifted
<1> QED
  BY <1>1, <1>2, <1>3 DEF Next

LEMMA InitStanding == Init => SInv
BY NoneApart DEF Init, SInv, Idle

LEMMA NextStanding == IInv /\ SInv /\ [Next]_vars => SInv'
<1> SUFFICES ASSUME IInv, SInv, [Next]_vars PROVE SInv'
  OBVIOUS
<1> USE DEF IInv, TypeOK
<1>1. CASE UNCHANGED vars
  BY <1>1 DEF SInv, Standing, vars
<1>2. ASSUME NEW c \in Clients, Starts(c) PROVE SInv'
  BY <1>2 DEF Starts, Fits, SInv, Standing, adVars
<1>3. ASSUME NEW c \in Clients, LaterStep(c) PROVE SInv'
  <2>1. job[c].ad \in Ads /\ job[c].step # "idle" /\ Standing(job[c])
    BY <1>3 DEF LaterStep, Count, Insert, WriteStatus, WriteCar, CleanupImages, JobInv, SInv
  <2>2. CASE Count(c)
    BY <2>1, <2>2 DEF Count, SInv, Standing, adVars, Idle, Job
  <2>3. CASE Insert(c)
    BY <2>1, <2>3 DEF Insert, SInv, Standing, Idle, InitialStatus
  <2>4. CASE WriteStatus(c)
    <3>1. job[c].op # "create" /\ job[c].to \in Statuses /\ "none" \notin Statuses
      BY <2>1, <2>4 DEF WriteStatus, JobInv, Edits, Statuses
    <3>2. /\ status' = [status EXCEPT ![job[c].ad] = job[c].to]
          /\ \A d \in Clients \ {c} : job'[d] = job[d]
          /\ \/ job'[c] = Idle
             \/ job[c].op = "remove" /\ job'[c] = [job[c] EXCEPT !.step = "cleanup"]
      BY <2>4 DEF WriteStatus
    <3>3. status[job[c].ad] # "none" /\ status'[job[c].ad] # "none"
      BY <2>1, <3>1, <3>2 DEF Standing
    <3>4. ASSUME NEW d \in Clients
          PROVE  IF job'[d].step = "idle" THEN job'[d] = Idle ELSE Standing(job[d])'
      <4>1. CASE d # c
        BY <3>2, <3>3, <4>1 DEF SInv, Standing, JobInv
      <4>2. CASE d = c
        BY <2>1, <3>2, <3>3, <4>2 DEF Standing, Idle, Job
      <4> QED
        BY <4>1, <4>2
    <3>5. job'[c].op # "create"
      BY <3>1, <3>2 DEF Idle, Job
    <3> QED
      BY <3>2, <3>4, <3>5 DEF SInv
  <2>5. CASE WriteCar(c)
    BY <2>1, <2>5 DEF WriteCar, SInv, Standing, Idle
  <2>6. CASE CleanupImages(c)
    BY <2>1, <2>6 DEF CleanupImages, SInv, Standing, Idle
  <2> QED
    BY <1>3, <2>2, <2>3, <2>4, <2>5, <2>6 DEF LaterStep
<1>4. ASSUME NEW c \in Clients, NEW a \in Ads, Blocked(c, a) PROVE SInv'
  BY <1>4 DEF Blocked, SInv, Standing
<1>5. ASSUME NEW c \in Clients, NEW a \in Ads, Lifted(c, a) PROVE SInv'
  BY <1>5 DEF Lifted, SInv, Standing, Statuses
<1> QED
  BY <1>1, <1>2, <1>3, <1>4, <1>5, StepKinds

(* A step changes one client's request only, and a pending write ends with *)
(* the write itself.                                                       *)
LEMMA WritersAct ==
  ASSUME IInv, [Next]_vars, NEW c \in Clients, NEW a \in Ads, Writes(c, a)
  PROVE  Insert(c) \/ WriteStatus(c) \/ WriteCar(c)
<1> USE DEF IInv, TypeOK, Writes
<1>1. CASE UNCHANGED vars
  BY <1>1 DEF vars
<1>2. ASSUME NEW d \in Clients, Starts(d) PROVE FALSE
  BY <1>2 DEF Starts, Idle
<1>3. ASSUME NEW d \in Clients, LaterStep(d) PROVE d = c
  BY <1>3 DEF LaterStep, Count, Insert, WriteStatus, WriteCar, CleanupImages
<1>4. ASSUME NEW d \in Clients, NEW b \in Ads, Blocked(d, b) \/ Lifted(d, b) PROVE FALSE
  BY <1>4 DEF Blocked, Lifted
<1>5. CASE LaterStep(c)
  BY <1>5 DEF LaterStep, Count, CleanupImages
<1> QED
  BY <1>1, <1>2, <1>3, <1>4, <1>5, StepKinds

(* The types and what a pending request may still assume about its ad.     *)
THEOREM AdStanding == Spec => [](IInv /\ SInv)
<1>1. Init => IInv /\ SInv
  BY InitHolds, InitStanding
<1>2. IInv /\ SInv /\ [Next]_vars => (IInv /\ SInv)'
  BY NextPreserves, NextStanding
<1> QED
  BY <1>1, <1>2, PTL DEF Spec

(* A later step touches the request of its client only, which either ends  *)
(* or goes on to its next step.                                            *)
LEMMA LaterJob ==
  ASSUME IInv, NEW c \in Clients, LaterStep(c)
  PROVE  /\ \A d \in Clients \ {c} : job'[d] = job[d]
         /\ \/ job'[c] = Idle
            \/ job[c].step = "count" /\ job'[c] = [job[c] EXCEPT !.step = "write"]
            \/ job[c].step = "write" /\ job'[c] = [job[c] EXCEPT !.step = "cleanup"]
         /\ job'[c].step \in {"idle", "write", "cleanup"}
         /\ job'[c].step = "write" => job[c].step = "count" /\ job'[c].op = job[c].op
                                      /\ job'[c].ad = job[c].ad /\ job'[c].to = job[c].to
<1>1. /\ \A d \in Clients \ {c} : job'[d] = job[d]
      /\ \/ job'[c] = Idle
         \/ job[c].step = "count" /\ job'[c] = [job[c] EXCEPT !.step = "write"]
         \/ job[c].step = "write" /\ job'[c] = [job[c] EXCEPT !.step = "cleanup"]
  BY DEF LaterStep, Count, Insert, WriteStatus, WriteCar, CleanupImages, IInv, TypeOK
<1> QED
  BY <1>1 DEF IInv, TypeOK, Job, Idle

(***************************************************************************)
(* Deletion, whatever overlaps it.                                         *)
(***************************************************************************)

StaysGone == \A a \in Ads : Gone(a) => Gone(a)'

LEMMA NextStaysGone == IInv /\ SInv /\ [Next]_vars => StaysGone
<1> SUFFICES ASSUME IInv, SInv, [Next]_vars, NEW a \in Ads, Gone(a) PROVE Gone(a)'
  BY DEF StaysGone
<1> USE DEF IInv, TypeOK
<1>1. CASE UNCHANGED vars
  BY <1>1 DEF Gone, ChangesStatus, vars
<1>2. ASSUME NEW c \in Clients, Starts(c) PROVE Gone(a)'
  BY <1>2 DEF Starts, Fits, Gone, ChangesStatus, adVars, Edits
<1>3. ASSUME NEW c \in Clients, LaterStep(c) PROVE Gone(a)'
  <2>1. ASSUME NEW d \in Clients, ChangesStatus(d)', job'[d].ad = a
        PROVE  job'[d].to = "deleted"
    <3>1. ChangesStatus(d) /\ job[d].ad = a /\ job[d].to = job'[d].to
      <4>1. CASE d # c
        BY <1>3, <2>1, <4>1, LaterJob DEF ChangesStatus
      <4>2. CASE d = c
        <5>1. job'[c].step = "write"
          BY <1>3, <2>1, <4>2, LaterJob DEF ChangesStatus
        <5> QED
          BY <1>3, <2>1, <4>2, <5>1, LaterJob DEF ChangesStatus
      <4> QED
        BY <4>1, <4>2
    <3> QED
      BY <3>1 DEF Gone
  <2>2. status'[a] = "deleted"
    <3>1. CASE UNCHANGED status
      BY <3>1 DEF Gone
    <3>2. CASE Insert(c)
      <4>1. job[c].op = "create" /\ Standing(job[c])
        BY <3>2 DEF Insert, SInv
      <4>2. status[job[c].ad] = "none" /\ job[c].ad # a
        BY <4>1 DEF Standing, Gone
      <4> QED
        BY <3>2, <4>2 DEF Insert, Gone
    <3>3. CASE WriteStatus(c)
      <4>1. ChangesStatus(c) /\ status' = [status EXCEPT ![job[c].ad] = job[c].to]
        BY <3>3 DEF WriteStatus, ChangesStatus
      <4> QED
        BY <4>1 DEF Gone
    <3> QED
      BY <1>3, <3>1, <3>2, <3>3 DEF LaterStep, Count, WriteCar, CleanupImages, adVars
  <2> QED
    BY <2>1, <2>2 DEF Gone
<1>4. ASSUME NEW c \in Clients, NEW b \in Ads, Blocked(c, b) \/ Lifted(c, b) PROVE Gone(a)'
  BY <1>4 DEF Blocked, Lifted, Gone, ChangesStatus
<1> QED
  BY <1>1, <1>2, <1>3, <1>4, StepKinds

(* Whatever overlapped its removal, a deleted ad stays deleted once the    *)
(* requests of that moment have ended: no handler, and no detour over      *)
(* several of them, brings it back.                                        *)
THEOREM RemovalIsFinal == Spec => GoneForGood
<1>1. StaysGone <=> \A a \in Ads : Gone(a) => Gone(a)'
  BY DEF StaysGone
<1> QED
  BY <1>1, NextStaysGone, AdStanding, PTL DEF Spec, GoneForGood

(***************************************************************************)
(* The limit of the plan, whatever overlaps.                               *)
(***************************************************************************)

(* The ads that hold a place or are about to.                              *)
Taken == placed \cup {job[c].ad : c \in claims}

LEMMA QuotaSteps == [QuotaNext]_quotaVars => [Next]_vars
BY DEF QuotaNext, quotaVars, vars

(* The history variables only watch. *)
LEMMA QuotaWatches == QuotaSpec => Spec
BY QuotaSteps, PTL DEF QuotaSpec, QuotaInit, Spec

(* A count that found room: the places taken are active ads, of which      *)
(* there was room for one more, and those the requests at once claim.      *)
LEMMA CountedPlaces ==
  ASSUME IInv, QuotaNext, NEW c \in Clients, Publishes(c),
         job[c].step = "count", Allowed(Cardinality(Active))
  PROVE  IsFiniteSet(Taken') /\ Cardinality(Taken') <= AdLimit + Cardinality(Clients) - 1
<1> USE DEF IInv, TypeOK
<1>1. [Next]_vars
  BY DEF QuotaNext
<1>2. UNCHANGED status
  <2>1. job'[c] # job[c]
    BY DEF Publishes
  <2>2. ASSUME NEW d \in Clients, Starts(d) PROVE FALSE
    BY <2>1, <2>2 DEF Starts, Idle
  <2>3. ASSUME NEW d \in Clients, LaterStep(d) PROVE Count(c)
    <3>1. d = c
      BY <2>1, <2>3, LaterJob
    <3> QED
      BY <2>3, <3>1 DEF LaterStep, Insert, WriteStatus, WriteCar, CleanupImages
  <2> QED
    BY <1>1, <2>1, <2>2, <2>3, StepKinds DEF Count, adVars, Blocked, Lifted, vars
<1>3. placed' \subseteq Active
  BY <1>2 DEF QuotaNext, Active
<1>4. /\ IsFiniteSet(Active) /\ Cardinality(Active) \in Nat
      /\ IsFiniteSet(placed') /\ Cardinality(placed') \in Nat
      /\ Cardinality(placed') <= Cardinality(Active)
  BY <1>3, AdsCount, FS_Subset, FS_CardinalityType DEF Active
<1>5. Cardinality(placed') <= AdLimit - 1
  BY <1>4, LimitsTyped DEF Allowed
<1> DEFINE ads == {job'[d].ad : d \in claims'}
<1>6. /\ IsFiniteSet(ads) /\ Cardinality(ads) \in Nat
      /\ Cardinality(ads) <= Cardinality(Clients) /\ Cardinality(Clients) \in Nat
  <2>1. claims' \subseteq Clients
    BY DEF QuotaNext
  <2>2. /\ IsFiniteSet(claims') /\ Cardinality(claims') \in Nat
        /\ Cardinality(claims') <= Cardinality(Clients) /\ Cardinality(Clients) \in Nat
    BY <2>1, ClientsCount, FS_Subset, FS_CardinalityType
  <2>3. [d \in claims' |-> job'[d].ad] \in Surjection(claims', ads)
    BY DEF Surjection
  <2>4. IsFiniteSet(ads) /\ Cardinality(ads) <= Cardinality(claims')
    BY <2>2, <2>3, FS_Surjection
  <2> HIDE DEF ads
  <2> QED
    BY <2>2, <2>4, FS_CardinalityType
<1>7. Taken' = placed' \cup ads
  BY DEF Taken
<1> HIDE DEF ads
<1>8. /\ IsFiniteSet(placed' \cup ads)
      /\ Cardinality(placed' \cup ads)
           = Cardinality(placed') + Cardinality(ads) - Cardinality(placed' \cap ads)
      /\ Cardinality(placed' \cap ads) \in Nat
  BY <1>4, <1>6, FS_Union, FS_Intersection, FS_CardinalityType
<1> QED
  BY <1>4, <1>5, <1>6, <1>7, <1>8, LimitsTyped

(* Any other step takes no new place.                                      *)
LEMMA NoNewPlace ==
  ASSUME IInv, QuotaNext,
         \A c \in Clients : ~(Publishes(c) /\ job[c].step = "count" /\ Allowed(Cardinality(Active)))
  PROVE  Taken' \subseteq Taken
<1> USE DEF IInv, TypeOK
<1>1. [Next]_vars
  BY DEF QuotaNext
<1>2. placed' \subseteq Taken
  BY DEF QuotaNext, Taken, Writes
<1>3. ASSUME NEW c \in claims' PROVE job'[c].ad \in Taken
  <2>1. c \in Clients /\ Publishes(c)
    BY <1>3 DEF QuotaNext
  <2>2. CASE c \in claims /\ job'[c] = job[c]
    BY <2>2 DEF Taken
  <2>3. CASE job[c] = Idle /\ (status[job'[c].ad] # "active" \/ job'[c].ad \in placed)
    <3>1. job'[c].step = "write" /\ job[c].step = "idle"
      BY <2>1, <2>3 DEF Publishes, Idle
    <3>2. ASSUME NEW d \in Clients, LaterStep(d) PROVE FALSE
      BY <2>1, <3>1, <3>2, LaterJob
    <3>3. ASSUME NEW d \in Clients, Starts(d) PROVE d = c
      BY <2>1, <3>1, <3>3 DEF Starts
    <3>4. Starts(c)
      BY <1>1, <2>1, <3>1, <3>2, <3>3, StepKinds DEF Blocked, Lifted, vars
    <3>5. status[job'[c].ad] = "active"
      BY <2>1, <3>4 DEF Starts, Fits, Publishes
    <3> QED
      BY <2>3, <3>5 DEF Taken
  <2> QED
    BY <1>3, <2>1, <2>2, <2>3 DEF QuotaNext, FindsPlace
<1> QED
  BY <1>2, <1>3 DEF Taken

(* However requests overlap, and whatever an administrator does between    *)
(* their steps, an owner's counted publications pass the limit of the plan *)
(* by less than the number of requests at once; for one, they keep it.     *)
THEOREM ExcessStaysBounded == QuotaSpec => []ExcessIsBounded
<1> DEFINE Bound == IsFiniteSet(Taken) /\ Cardinality(Taken) <= AdLimit + Cardinality(Clients) - 1
<1>1. QuotaInit => Bound
  <2> SUFFICES ASSUME QuotaInit PROVE Bound
    OBVIOUS
  <2>1. Taken = {}
    BY DEF QuotaInit, Taken
  <2>2. Cardinality(Clients) \in Nat /\ Cardinality(Clients) # 0
    BY ClientsCount, FS_CardinalityType, FS_EmptySet
  <2>3. IsFiniteSet(Taken) /\ Cardinality(Taken) = 0
    BY <2>1, FS_EmptySet
  <2> QED
    BY <2>2, <2>3, LimitsTyped
<1>2. IInv /\ Bound /\ [QuotaNext]_quotaVars => Bound'
  <2> SUFFICES ASSUME IInv, Bound, [QuotaNext]_quotaVars PROVE Bound'
    OBVIOUS
  <2>1. CASE UNCHANGED quotaVars
    BY <2>1 DEF quotaVars, Taken
  <2>2. CASE QuotaNext /\ \E c \in Clients : Publishes(c) /\ job[c].step = "count" /\ Allowed(Cardinality(Active))
    BY <2>2, CountedPlaces
  <2>3. CASE QuotaNext /\ \A c \in Clients : ~(Publishes(c) /\ job[c].step = "count" /\ Allowed(Cardinality(Active)))
    <3>1. Taken' \subseteq Taken
      BY <2>3, NoNewPlace
    <3>2. /\ IsFiniteSet(Taken') /\ Cardinality(Taken') \in Nat /\ Cardinality(Taken) \in Nat
          /\ Cardinality(Taken') <= Cardinality(Taken)
      BY <3>1, FS_Subset, FS_CardinalityType
    <3>3. Cardinality(Clients) \in Nat
      BY ClientsCount, FS_CardinalityType
    <3> QED
      BY <3>2, <3>3, LimitsTyped
  <2> QED
    BY <2>1, <2>2, <2>3
<1>3. Bound => ExcessIsBounded
  BY DEF ExcessIsBounded, Taken
<1>4. Spec => []IInv
  BY AdInvariant
<1> HIDE DEF Bound
<1> QED
  BY <1>1, <1>2, <1>3, <1>4, QuotaWatches, PTL DEF QuotaSpec

(***************************************************************************)
(* Deletion, apart from other changes.                                     *)
(***************************************************************************)

GoneInv ==
  /\ \A c \in Clients : ChangesStatus(c) /\ job[c].to # "deleted" => status[job[c].ad] # "deleted"
  /\ \A c \in Clients : job[c].step = "cleanup" => status[job[c].ad] = "deleted"
  /\ \A a \in Ads : status[a] \in {"none", "deleted"} \/ photos[a]

StaysDeleted == \A a \in Ads : status[a] = "deleted" => status'[a] = "deleted"

LEMMA NextGone ==
  IInv /\ SInv /\ GoneInv /\ DeletesApart /\ [Next]_vars => GoneInv' /\ StaysDeleted
<1> SUFFICES ASSUME IInv, SInv, GoneInv, DeletesApart, [Next]_vars PROVE GoneInv' /\ StaysDeleted
  OBVIOUS
<1> USE DEF IInv, TypeOK, StaysDeleted
<1>1. CASE UNCHANGED vars
  BY <1>1 DEF GoneInv, ChangesStatus, vars
<1>2. ASSUME NEW c \in Clients, Starts(c) PROVE GoneInv' /\ StaysDeleted
  BY <1>2 DEF Starts, Fits, GoneInv, ChangesStatus, adVars, Edits
<1>3. ASSUME NEW c \in Clients, LaterStep(c) PROVE GoneInv' /\ StaysDeleted
  <2>1. job[c].ad \in Ads /\ job[c].step # "idle" /\ Standing(job[c])
    BY <1>3 DEF LaterStep, Count, Insert, WriteStatus, WriteCar, CleanupImages, JobInv, SInv
  <2>2. CASE Count(c)
    BY <2>1, <2>2 DEF Count, GoneInv, ChangesStatus, adVars, Idle, Job
  <2>3. CASE Insert(c)
    BY <2>1, <2>3 DEF Insert, Standing, GoneInv, ChangesStatus, Idle, InitialStatus
  <2>4. CASE WriteStatus(c)
    <3>1. ChangesStatus(c) /\ job[c].to \in Statuses
      BY <2>1, <2>4 DEF WriteStatus, ChangesStatus, JobInv, Edits
    <3>2. /\ status' = [status EXCEPT ![job[c].ad] = job[c].to] /\ photos' = photos
          /\ \A d \in Clients \ {c} : job'[d] = job[d]
          /\ \/ job'[c] = Idle
             \/ job[c].op = "remove" /\ job'[c] = [job[c] EXCEPT !.step = "cleanup"]
      BY <2>4 DEF WriteStatus
    <3>3. ASSUME NEW d \in Clients, ChangesStatus(d)', job'[d].to # "deleted"
          PROVE  status'[job'[d].ad] # "deleted"
      <4>1. d # c
        BY <3>2, <3>3 DEF ChangesStatus, Idle, Job
      <4>2. ChangesStatus(d) /\ job[d].to # "deleted" /\ job[d].ad = job'[d].ad /\ job[d].ad \in Ads
        BY <3>2, <3>3, <4>1 DEF ChangesStatus, JobInv
      <4>3. job[d].ad = job[c].ad => job[c].to # "deleted"
        BY <3>1, <4>2 DEF DeletesApart
      <4> QED
        BY <2>1, <3>2, <4>2, <4>3 DEF GoneInv
    <3>4. ASSUME NEW d \in Clients, job'[d].step = "cleanup"
          PROVE  status'[job'[d].ad] = "deleted"
      <4>1. CASE d = c
        BY <2>1, <3>2, <3>4, <4>1 DEF Standing, Idle, Job
      <4>2. CASE d # c
        <5>1. job'[d] = job[d] /\ job[d].ad \in Ads /\ status[job[d].ad] = "deleted"
          BY <3>2, <3>4, <4>2 DEF GoneInv, JobInv
        <5>2. job[d].ad = job[c].ad => job[c].to = "deleted"
          BY <3>1, <5>1 DEF GoneInv
        <5> QED
          BY <2>1, <3>2, <5>1, <5>2
      <4> QED
        BY <4>1, <4>2
    <3>5. \A a \in Ads : status'[a] \in {"none", "deleted"} \/ photos'[a]
      BY <2>1, <2>4, <3>1, <3>2 DEF GoneInv, Standing, WriteStatus
    <3>6. StaysDeleted
      BY <3>1, <3>2 DEF GoneInv
    <3> QED
      BY <3>3, <3>4, <3>5, <3>6 DEF GoneInv
  <2>5. CASE WriteCar(c)
    BY <2>1, <2>5 DEF WriteCar, GoneInv, ChangesStatus, Idle
  <2>6. CASE CleanupImages(c)
    BY <2>1, <2>6 DEF CleanupImages, GoneInv, ChangesStatus, Idle
  <2> QED
    BY <1>3, <2>2, <2>3, <2>4, <2>5, <2>6 DEF LaterStep
<1>4. ASSUME NEW c \in Clients, NEW a \in Ads, Blocked(c, a) \/ Lifted(c, a) PROVE GoneInv' /\ StaysDeleted
  <2>1. /\ status[a] \notin {"none", "deleted"} /\ \E s \in Statuses \ {"deleted"} : status' = [status EXCEPT ![a] = s]
        /\ UNCHANGED <<photos, car, job>>
    BY <1>4 DEF Blocked, Lifted, Statuses
  <2> QED
    BY <2>1 DEF GoneInv, ChangesStatus, JobInv
<1> QED
  BY <1>1, <1>2, <1>3, <1>4, StepKinds

LEMMA GoneHolds == Spec /\ []DeletesApart => []GoneInv
<1>1. Init => GoneInv
  BY DEF Init, GoneInv, ChangesStatus, Idle
<1> QED
  BY <1>1, NextGone, AdStanding, PTL DEF Spec

(* If no request that deletes an ad overlaps another that changes its      *)
(* status, nobody restores a deleted ad: neither a change, nor the archive *)
(* and its way back, nor the lift of a block.                              *)
THEOREM DeletedStaysDeleted == Spec /\ []DeletesApart => DeletedIsTerminal
BY NextGone, GoneHolds, AdStanding, PTL DEF Spec, DeletedIsTerminal, StaysDeleted

(* Under the same condition the public catalogue shows no ad whose images  *)
(* removeAd has deleted, though they are deleted after its last write.     *)
THEOREM PublicPhotosStay == Spec /\ []DeletesApart => []PublicAdsKeepPhotos
<1>1. GoneInv => PublicAdsKeepPhotos
  BY DEF GoneInv, PublicAdsKeepPhotos
<1> QED
  BY <1>1, GoneHolds, PTL

(***************************************************************************)
(* The owner and the block.                                                *)
(***************************************************************************)

UnderWay ==
  \A c \in Clients :
    ChangesStatus(c) /\ job[c].op \in {"pause", "activate"} => status[job[c].ad] # "blocked"

OwnerKeepsBlock ==
  \A c \in Clients, a \in Ads :
    status[a] = "blocked" /\ Writes(c, a) /\ job[c].op \in OwnerOps
      => status'[a] \in {"blocked", "deleted"}

LEMMA NextUnderWay == IInv /\ UnderWay /\ [Next]_vars /\ [BlocksApart]_vars => UnderWay'
<1> SUFFICES ASSUME IInv, UnderWay, [Next]_vars, [BlocksApart]_vars PROVE UnderWay'
  OBVIOUS
<1> USE DEF IInv, TypeOK
<1>1. CASE UNCHANGED vars
  BY <1>1 DEF UnderWay, ChangesStatus, vars
<1>2. ASSUME NEW c \in Clients, Starts(c) PROVE UnderWay'
  BY <1>2 DEF Starts, Fits, UnderWay, ChangesStatus, adVars
<1>3. ASSUME NEW c \in Clients, LaterStep(c) PROVE UnderWay'
  <2>1. \A a \in Ads : status'[a] = "blocked" => status[a] = "blocked"
    BY <1>3, LaterSteps
  <2>2. ASSUME NEW d \in Clients, ChangesStatus(d)'
        PROVE  /\ ChangesStatus(d) /\ job[d].ad \in Ads
               /\ job'[d].ad = job[d].ad /\ job'[d].op = job[d].op
    <3>1. CASE d # c
      BY <1>3, <2>2, <3>1, LaterJob DEF JobInv, ChangesStatus
    <3>2. CASE d = c
      <4>1. job'[c].step = "write"
        BY <1>3, <2>2, <3>2, LaterJob DEF ChangesStatus, Idle, Job
      <4> QED
        BY <1>3, <2>2, <3>2, <4>1, LaterJob DEF JobInv, ChangesStatus
    <3> QED
      BY <3>1, <3>2
  <2> QED
    BY <2>1, <2>2 DEF UnderWay
<1>4. ASSUME NEW c \in Clients, NEW a \in Ads, Blocked(c, a) PROVE UnderWay'
  <2>1. BlocksApart \/ UNCHANGED vars
    OBVIOUS
  <2> QED
    BY <1>4, <2>1 DEF Blocked, BlocksApart, UnderWay, ChangesStatus, JobInv, vars
<1>5. ASSUME NEW c \in Clients, NEW a \in Ads, Lifted(c, a) PROVE UnderWay'
  BY <1>5 DEF Lifted, UnderWay, ChangesStatus, JobInv
<1> QED
  BY <1>1, <1>2, <1>3, <1>4, <1>5, StepKinds

LEMMA OwnerWrites == IInv /\ SInv /\ UnderWay /\ [Next]_vars => OwnerKeepsBlock
<1> SUFFICES ASSUME IInv, SInv, UnderWay, [Next]_vars, NEW c \in Clients, NEW a \in Ads,
                    status[a] = "blocked", Writes(c, a), job[c].op \in OwnerOps
             PROVE  status'[a] \in {"blocked", "deleted"}
  BY DEF OwnerKeepsBlock
<1>1. Standing(job[c]) /\ job[c].ad = a /\ job[c].step = "write"
  BY DEF Writes, SInv
<1>2. job[c].op \notin {"create", "pause", "activate"}
  BY <1>1 DEF Standing, UnderWay, ChangesStatus
<1>3. CASE job[c].op = "remove"
  BY <1>1, <1>3, WritersAct DEF Standing, Insert, WriteStatus, WriteCar, IInv, TypeOK
<1>4. CASE job[c].op = "edit"
  BY <1>1, <1>4, WritersAct DEF Insert, WriteStatus, WriteCar
<1> QED
  BY <1>2, <1>3, <1>4 DEF OwnerOps

(* If no ad is blocked while its owner's pause or activation is under way, *)
(* the owner takes no ad out of the block, except by removing it.          *)
LEMMA OwnerKeepsTheBlock == Spec /\ [][BlocksApart]_vars => OwnerCannotLiftBlock
<1>1. Init => UnderWay
  BY DEF Init, UnderWay, ChangesStatus, Idle
<1>2. OwnerKeepsBlock <=> \A c \in Clients, a \in Ads :
        status[a] = "blocked" /\ Writes(c, a) /\ job[c].op \in OwnerOps
          => status'[a] \in {"blocked", "deleted"}
  BY DEF OwnerKeepsBlock
<1> QED
  BY <1>1, <1>2, NextUnderWay, OwnerWrites, AdStanding, PTL DEF Spec, OwnerCannotLiftBlock

(***************************************************************************)
(* The vehicle.                                                            *)
(***************************************************************************)

EditsAreOpen ==
  \A c \in Clients :
    job[c].step = "write" /\ job[c].op \in Edits => status[job[c].ad] \notin StructureLocked

LEMMA NextEdits == IInv /\ SInv /\ EditsAreOpen /\ [Next]_vars /\ [EditsApart]_vars => EditsAreOpen'
<1> SUFFICES ASSUME IInv, SInv, EditsAreOpen, [Next]_vars, EditsApart \/ UNCHANGED vars PROVE EditsAreOpen'
  OBVIOUS
<1> USE DEF IInv, TypeOK
<1>1. CASE UNCHANGED vars
  BY <1>1 DEF EditsAreOpen, vars
<1>2. ASSUME NEW c \in Clients, Starts(c) PROVE EditsAreOpen'
  BY <1>2 DEF Starts, Fits, EditsAreOpen, adVars
<1>3. CASE /\ EditsApart
           /\ \A d \in Clients : job'[d].step = "write" /\ job'[d].op \in Edits => job'[d] = job[d]
  BY <1>3 DEF EditsApart, EditsAreOpen, Edits
<1>4. ASSUME NEW c \in Clients, LaterStep(c)
      PROVE  \A d \in Clients : job'[d].step = "write" /\ job'[d].op \in Edits => job'[d] = job[d]
  BY <1>4, LaterJob DEF SInv, Standing, Edits
<1>5. ASSUME NEW c \in Clients, NEW a \in Ads, Blocked(c, a) \/ Lifted(c, a)
      PROVE  UNCHANGED job
  BY <1>5 DEF Blocked, Lifted
<1> QED
  BY <1>1, <1>2, <1>3, <1>4, <1>5, StepKinds

VehicleStays ==
  \A a \in Ads : status[a] \in {"active", "pending_review", "paused", "sold", "blocked"}
                   => car'[a] = car[a]

LEMMA EditsKeepVehicle == IInv /\ SInv /\ EditsAreOpen /\ [Next]_vars => VehicleStays
<1> SUFFICES ASSUME IInv, SInv, EditsAreOpen, [Next]_vars PROVE VehicleStays
  OBVIOUS
<1> USE DEF IInv, TypeOK, VehicleStays
<1>1. CASE UNCHANGED car
  BY <1>1
<1>2. ASSUME NEW c \in Clients, Insert(c) PROVE VehicleStays
  <2>1. job[c].ad \in Ads /\ status[job[c].ad] = "none"
    BY <1>2 DEF Insert, SInv, Standing, JobInv
  <2> QED
    BY <1>2, <2>1 DEF Insert
<1>3. ASSUME NEW c \in Clients, WriteCar(c) PROVE VehicleStays
  BY <1>3 DEF WriteCar, EditsAreOpen, Edits, StructureLocked, JobInv
<1> QED
  BY <1>1, <1>2, <1>3, StepKinds DEF vars, Starts, adVars, Blocked, Lifted,
     LaterStep, Count, WriteStatus, CleanupImages

(* If no ad is published, paused, sold, put in review or blocked between   *)
(* the check of an edit and its UPDATE, its vehicle is not exchanged.      *)
LEMMA VehicleStaysFixed == Spec /\ [][EditsApart]_vars => VehicleIsFixed
<1>1. Init => EditsAreOpen
  BY DEF Init, EditsAreOpen, Idle
<1> QED
  BY <1>1, NextEdits, EditsKeepVehicle, AdStanding, PTL DEF Spec, VehicleIsFixed, VehicleStays

(***************************************************************************)
(* The limit of the plan.                                                  *)
(***************************************************************************)

(* The request is free to make its ad active. *)
Free(c) ==
  job[c].step = "write" /\ job[c].op \in {"create", "activate"} /\ job[c].to = "active"

RoomInv ==
  /\ IsFiniteSet(Active)
  /\ \A c \in Clients : Free(c) => job[c].ad \in Active \/ Cardinality(Active) < AdLimit

OwnerStaysWithin ==
  \A c \in Clients, a \in Ads :
    Writes(c, a) /\ job[c].op \in OwnerOps /\ status[a] # "active" /\ status'[a] = "active"
      => Cardinality({b \in Ads : status'[b] = "active"}) <= AdLimit

(* A step makes one ad active at most. *)
LEMMA OneMoreActive ==
  ASSUME IInv, [Next]_vars
  PROVE  \E a : Active' \subseteq Active \cup {a}
<1> USE DEF IInv, TypeOK
<1>1. CASE UNCHANGED status
  BY <1>1 DEF Active
<1>2. ASSUME NEW b, NEW s, status' = [status EXCEPT ![b] = s]
      PROVE  Active' \subseteq Active \cup {b}
  BY <1>2 DEF Active
<1>3. ASSUME NEW c \in Clients, LaterStep(c) PROVE \E b, s : UNCHANGED status \/ status' = [status EXCEPT ![b] = s]
  BY <1>3 DEF LaterStep, Count, Insert, WriteStatus, WriteCar, CleanupImages, adVars
<1> QED
  BY <1>1, <1>2, <1>3, StepKinds DEF vars, Starts, adVars, Blocked, Lifted

LEMMA NextRoom ==
  ASSUME ~CountFails
  PROVE  IInv /\ SInv /\ RoomInv /\ [Next]_vars /\ [CountsApart]_vars => RoomInv'
<1> SUFFICES ASSUME IInv, SInv, RoomInv, [Next]_vars, CountsApart \/ UNCHANGED vars PROVE RoomInv'
  OBVIOUS
<1> USE DEF IInv, TypeOK
<1>1. IsFiniteSet(Active')
  <2>1. PICK a : Active' \subseteq Active \cup {a}
    BY OneMoreActive
  <2>2. IsFiniteSet(Active \cup {a})
    BY FS_AddElement DEF RoomInv
  <2> QED
    BY <2>1, <2>2, FS_Subset
<1>2. ASSUME NEW c \in Clients, Free(c)', job'[c] = job[c]
      PROVE  job'[c].ad \in Active' \/ Cardinality(Active') < AdLimit
  <2>1. Free(c)
    BY <1>2 DEF Free
  <2>2. Active' \subseteq Active /\ (job[c].ad \in Active => job[c].ad \in Active')
    <3>1. CASE UNCHANGED vars
      BY <3>1 DEF Active, vars
    <3>2. CASE CountsApart
      BY <1>2, <2>1, <3>2 DEF CountsApart, Free
    <3> QED
      BY <3>1, <3>2
  <2>3. Cardinality(Active') <= Cardinality(Active)
        /\ Cardinality(Active) \in Nat /\ Cardinality(Active') \in Nat
    BY <1>1, <2>2, FS_Subset, FS_CardinalityType DEF RoomInv
  <2> QED
    BY <1>2, <2>1, <2>2, <2>3, LimitsTyped DEF RoomInv
<1>3. ASSUME NEW c \in Clients, Free(c)', job'[c] # job[c]
      PROVE  job'[c].ad \in Active' \/ Cardinality(Active') < AdLimit
  <2>1. ASSUME NEW d \in Clients, Starts(d) PROVE job'[c].ad \in Active'
    BY <1>3, <2>1 DEF Starts, Fits, Free, adVars, Active
  <2>2. ASSUME NEW d \in Clients, LaterStep(d) PROVE Cardinality(Active') < AdLimit
    <3>1. d = c /\ job[c].step = "count"
      BY <1>3, <2>2, LaterJob DEF Free
    <3>2. Count(c)
      BY <2>2, <3>1 DEF LaterStep, Insert, WriteStatus, WriteCar, CleanupImages
    <3>3. Allowed(Cardinality(Active)) \/ job' = [job EXCEPT ![c] = Idle]
      BY <3>2 DEF Count
    <3>4. job' # [job EXCEPT ![c] = Idle]
      BY <1>3 DEF Free, Idle
    <3>5. Active' = Active
      BY <3>2 DEF Count, adVars, Active
    <3> QED
      BY <3>3, <3>4, <3>5 DEF Allowed
  <2>3. ASSUME NEW d \in Clients, NEW a \in Ads, Blocked(d, a) \/ Lifted(d, a) PROVE FALSE
    BY <1>3, <2>3 DEF Blocked, Lifted
  <2>4. CASE UNCHANGED vars
    BY <1>3, <2>4 DEF vars
  <2> QED
    BY <2>1, <2>2, <2>3, <2>4, StepKinds
<1> QED
  BY <1>1, <1>2, <1>3 DEF RoomInv

LEMMA RoomIsEnough == IInv /\ SInv /\ RoomInv /\ [Next]_vars => OwnerStaysWithin
<1> SUFFICES ASSUME IInv, SInv, RoomInv, [Next]_vars, NEW c \in Clients, NEW a \in Ads,
                    Writes(c, a), job[c].op \in OwnerOps,
                    status[a] # "active", status'[a] = "active"
             PROVE  Cardinality(Active') <= AdLimit
  BY DEF OwnerStaysWithin, Active
<1> USE DEF IInv, TypeOK
<1>1. Standing(job[c]) /\ job[c].ad = a /\ job[c].step = "write"
  BY DEF Writes, SInv
<1>2. Insert(c) \/ WriteStatus(c)
  BY WritersAct DEF WriteCar
<1>3. status' = [status EXCEPT ![a] = job[c].to] /\ job[c].to = "active"
  BY <1>1, <1>2 DEF Insert, WriteStatus
<1>4. Free(c)
  BY <1>1, <1>2, <1>3 DEF Free, Standing, OwnerOps, Insert, WriteStatus
<1>5. a \notin Active /\ Cardinality(Active) < AdLimit
  BY <1>1, <1>4 DEF RoomInv, Active
<1>6. Active' = Active \cup {a}
  BY <1>3 DEF Active
<1>7. Cardinality(Active \cup {a}) = Cardinality(Active) + 1 /\ Cardinality(Active) \in Nat
  BY <1>5, FS_AddElement, FS_CardinalityType DEF RoomInv
<1> QED
  BY <1>5, <1>6, <1>7, LimitsTyped

(* If the count never fails and, from an owner's count to his write, no    *)
(* other step makes an ad active or takes down the ad he is activating,    *)
(* then no owner exceeds the limit of the plan, by either door.            *)
LEMMA OwnerKeepsTheLimit ==
  ASSUME ~CountFails
  PROVE  Spec /\ [][CountsApart]_vars => OwnerStaysWithinLimit
<1>1. Init => RoomInv
  <2> SUFFICES ASSUME Init PROVE RoomInv
    OBVIOUS
  <2>1. Active = {}
    BY DEF Init, Active
  <2>2. IsFiniteSet(Active)
    BY <2>1, FS_EmptySet
  <2>3. \A c \in Clients : ~Free(c)
    BY DEF Init, Free, Idle
  <2> QED
    BY <2>2, <2>3 DEF RoomInv
<1>2. IInv /\ SInv /\ RoomInv /\ [Next]_vars /\ [CountsApart]_vars => RoomInv'
  BY NextRoom
<1> QED
  BY <1>1, <1>2, RoomIsEnough, AdStanding, PTL DEF Spec, OwnerStaysWithinLimit, OwnerStaysWithin

(***************************************************************************)
(* One request at a time.                                                  *)
(***************************************************************************)

LEMMA AloneIsApart ==
  ASSUME \A c, d \in Clients : c = d
  PROVE  /\ IInv /\ SInv => DeletesApart
         /\ IInv /\ [Next]_vars => [BlocksApart]_vars /\ [CountsApart]_vars /\ [EditsApart]_vars
<1>1. DeletesApart
  BY DEF DeletesApart
<1>2. ASSUME IInv, [Next]_vars, NEW c \in Clients, job[c].step \in {"count", "write"}
      PROVE  UNCHANGED vars \/ LaterStep(c)
  BY <1>2, StepKinds DEF Starts, Blocked, Lifted, Idle
<1>3. ASSUME IInv, [Next]_vars, NEW c \in Clients, LaterStep(c)
      PROVE  BlocksApart /\ CountsApart /\ EditsApart
  <2>1. \A a \in Ads : status'[a] = "blocked" => status[a] = "blocked"
    BY <1>3, LaterSteps DEF IInv
  <2>2. BlocksApart
    BY <1>3, <2>1 DEF BlocksApart, ChangesStatus, IInv, JobInv
  <2>3. job[c].step = "write" => job'[c] # job[c]
    BY <1>3 DEF LaterStep, Count, Insert, WriteStatus, WriteCar, CleanupImages, IInv, TypeOK, Idle, Job
  <2>4. CountsApart
    BY <2>3 DEF CountsApart
  <2>5. EditsApart
    BY <1>3 DEF EditsApart, LaterStep, Count, Insert, WriteStatus, WriteCar, CleanupImages
  <2> QED
    BY <2>2, <2>4, <2>5
<1>4. ASSUME \A c \in Clients : job[c].step \notin {"count", "write"}
      PROVE  BlocksApart /\ CountsApart /\ EditsApart
  BY <1>4 DEF BlocksApart, CountsApart, EditsApart, ChangesStatus
<1> QED
  BY <1>1, <1>2, <1>3, <1>4

(* Served one at a time, with a count that does not fail, the requests     *)
(* keep all five promises: each is broken by an overlap and nothing else.  *)
THEOREM SerialRequestsKeepAll ==
  ASSUME \A c, d \in Clients : c = d, ~CountFails
  PROVE  Spec => /\ DeletedIsTerminal /\ []PublicAdsKeepPhotos
                 /\ OwnerCannotLiftBlock /\ VehicleIsFixed /\ OwnerStaysWithinLimit
<1>1. /\ IInv /\ SInv => DeletesApart
      /\ IInv /\ [Next]_vars => [BlocksApart]_vars /\ [CountsApart]_vars /\ [EditsApart]_vars
  BY AloneIsApart
<1>2. Spec => /\ []DeletesApart
              /\ [][BlocksApart]_vars /\ [][CountsApart]_vars /\ [][EditsApart]_vars
  BY <1>1, AdStanding, PTL DEF Spec
<1>3. Spec /\ [][CountsApart]_vars => OwnerStaysWithinLimit
  BY OwnerKeepsTheLimit
<1> QED
  BY <1>2, <1>3, DeletedStaysDeleted, PublicPhotosStay, OwnerKeepsTheBlock, VehicleStaysFixed, PTL
===============================================================================
