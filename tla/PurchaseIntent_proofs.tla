------------------------- MODULE PurchaseIntent_proofs -------------------------
(***************************************************************************)
(* Proofs about PurchaseIntent for any dealers, ads, workers and limit.    *)
(*                                                                         *)
(* The inductive invariant: only one sending at a time has the row of an   *)
(* intent; the intent it has locked stays open; and a sending that was     *)
(* given a place still has it, because the offers that have been available *)
(* all along are among those it counted and nobody else can add one.  As   *)
(* long as nothing that left comes back, these are all the offers.         *)
(***************************************************************************)
EXTENDS PurchaseIntent, FiniteSetTheorems, TLAPS

Sending == Locking \cup {"lock", "announce"}

JobsAreWhole ==
  \A w \in Workers : /\ ~Free(w) => job[w].intent \in Intents
                     /\ job[w].step \in Sending => job[w].ad \in Ads
LockExcludes ==
  \A v, w \in Workers : /\ job[v].step \in Locking /\ job[w].step \in Locking
                        /\ job[v].intent = job[w].intent
                        => v = w
LockedIsOpen == \A w \in Workers : job[w].step \in Locking => status[job[w].intent] = "active"
PlaceIsKept ==
  \A w \in Workers : job[w].step = "insert"
                     => Cardinality(SteadyOf(job[w].intent, OwnerOf[job[w].ad])) < Limit
SteadyIsAvailable == \A o \in steady : Available(o[2])

SInv ==
  /\ TypeOK /\ JobsAreWhole /\ LockExcludes /\ LockedIsOpen
  /\ PlaceIsKept /\ SteadyIsAvailable /\ SteadyWithinLimit

(* Fewer steady offers take fewer places.                                  *)
LEMMA FewerSteady ==
  ASSUME SInv, steady' \subseteq steady
  PROVE  \A i \in Intents, d \in Dealers :
            Cardinality(SteadyOf(i, d)') <= Cardinality(SteadyOf(i, d))
  <1> SUFFICES ASSUME NEW i \in Intents, NEW d \in Dealers
               PROVE  Cardinality(SteadyOf(i, d)') <= Cardinality(SteadyOf(i, d))
    OBVIOUS
  <1>1. SteadyOf(i, d)' \subseteq SteadyOf(i, d)
    BY DEF SteadyOf
  <1>2. IsFiniteSet(SteadyOf(i, d))
    BY StockTyped, FS_Subset DEF SteadyOf
  <1> QED BY <1>1, <1>2, FS_Subset

(* Cardinalities of steady offers are numbers.                             *)
LEMMA SteadyIsFinite ==
  ASSUME NEW i \in Intents, NEW d \in Dealers
  PROVE  IsFiniteSet(SteadyOf(i, d)) /\ Cardinality(SteadyOf(i, d)) \in Nat
  BY StockTyped, FS_Subset, FS_CardinalityType DEF SteadyOf

LEMMA FewerSteadyInvariant ==
  ASSUME SInv, steady' \subseteq steady, TypeOK', UNCHANGED job
  PROVE  PlaceIsKept' /\ SteadyWithinLimit'
  <1>1. SteadyWithinLimit'
    <2> SUFFICES ASSUME NEW i \in Intents, NEW d \in Dealers
                 PROVE  Cardinality(SteadyOf(i, d)') <= Limit
      BY DEF SteadyWithinLimit
    <2>1. Cardinality(SteadyOf(i, d)') <= Cardinality(SteadyOf(i, d))
      BY FewerSteady
    <2>2. Cardinality(SteadyOf(i, d)) <= Limit
      BY DEF SInv, SteadyWithinLimit
    <2>3. Cardinality(SteadyOf(i, d)) \in Nat
      BY SteadyIsFinite
    <2>4. Cardinality(SteadyOf(i, d)') \in Nat
      BY StockTyped, FS_Subset, FS_CardinalityType DEF SteadyOf
    <2> QED BY <2>1, <2>2, <2>3, <2>4, LimitTyped
  <1>2. PlaceIsKept'
    <2> SUFFICES ASSUME NEW w \in Workers, job[w].step = "insert",
                        NEW i, i = job[w].intent, NEW d, d = OwnerOf[job[w].ad]
                 PROVE  Cardinality(SteadyOf(i, d)') < Limit
      BY DEF PlaceIsKept, SteadyOf
    <2>1. i \in Intents /\ d \in Dealers
      BY StockTyped DEF SInv, JobsAreWhole, Sending, Locking, Free
    <2>2. Cardinality(SteadyOf(i, d)') <= Cardinality(SteadyOf(i, d))
      BY <2>1, FewerSteady
    <2>3. Cardinality(SteadyOf(i, d)) < Limit
      BY DEF SInv, PlaceIsKept
    <2>4. Cardinality(SteadyOf(i, d)) \in Nat
      BY <2>1, SteadyIsFinite
    <2>5. Cardinality(SteadyOf(i, d)') \in Nat
      BY StockTyped, FS_Subset, FS_CardinalityType DEF SteadyOf
    <2> QED BY <2>2, <2>3, <2>4, <2>5, LimitTyped
  <1> QED BY <1>1, <1>2

LEMMA TypeInduction == TypeOK /\ JobsAreWhole /\ [Next]_vars => TypeOK'
  <1> SUFFICES ASSUME TypeOK, JobsAreWhole, [Next]_vars PROVE TypeOK'
    OBVIOUS
  <1> USE NoneApart
  <1>1. CASE UNCHANGED vars
    BY <1>1 DEF TypeOK, vars
  <1>2. ASSUME NEW i \in Intents, Close(i) \/ Expire(i) PROVE TypeOK'
    BY <1>2 DEF TypeOK, Close, Expire, Closed
  <1>3. ASSUME NEW a \in Ads, ChangeAd(a) PROVE TypeOK'
    BY <1>3 DEF TypeOK, ChangeAd
  <1>4. ASSUME NEW d \in Dealers, ChangeStore(d) PROVE TypeOK'
    BY <1>4 DEF TypeOK, ChangeStore
  <1>5. ASSUME NEW w \in Workers, NEW i \in Intents, Publish(w, i) PROVE TypeOK'
    BY <1>5 DEF TypeOK, Publish, Job, Idle
  <1>6. ASSUME NEW w \in Workers, NEW i \in Intents, NEW a \in Ads, Ask(w, i, a) PROVE TypeOK'
    BY <1>6 DEF TypeOK, Ask, Job, Idle
  <1>7. ASSUME NEW w \in Workers, Lock(w) \/ ReadAd(w) \/ CountPlaces(w) PROVE TypeOK'
    BY <1>7 DEF TypeOK, Lock, ReadAd, CountPlaces, Goto, Job, Idle
  <1>8. ASSUME NEW w \in Workers, Fail(w) PROVE TypeOK'
    BY <1>8 DEF TypeOK, Fail, Job, Idle, Failed
  <1>9. ASSUME NEW w \in Workers, ListDealers(w) PROVE TypeOK'
    BY <1>9 DEF TypeOK, ListDealers, Job, Idle
  <1>10. ASSUME NEW w \in Workers, TellDealer(w) PROVE TypeOK'
    <2>1. PICK d \in job[w].todo :
            /\ notices' \in {notices, notices \cup {NoticeTo(d, job[w].intent)}}
            /\ job' = [job EXCEPT ![w] = IF job[w].todo \ {d} = {} THEN Idle
                                       ELSE [job[w] EXCEPT !.todo = job[w].todo \ {d}]]
      BY <1>10 DEF TellDealer
    <2>2. job[w] \in Job /\ job[w].intent \in Intents
      BY <1>10 DEF TypeOK, Job, JobsAreWhole, Free, TellDealer
    <2>3. job' \in [Workers -> Job]
      BY <2>1, <2>2 DEF TypeOK, Job, Idle
    <2>4. notices' \subseteq [to : Dealers \cup {None}, intent : Intents, ad : Ads \cup {None}]
      BY <2>1, <2>2 DEF TypeOK, NoticeTo, Job
    <2> QED BY <2>3, <2>4, <1>10 DEF TypeOK, TellDealer
  <1>11. ASSUME NEW w \in Workers, Insert(w) \/ Announce(w) PROVE TypeOK'
    <2>1. job[w] \in Job /\ job[w].intent \in Intents /\ job[w].ad \in Ads
      BY <1>11 DEF TypeOK, JobsAreWhole, Sending, Locking, Free, Insert, Announce
    <2> QED BY <1>11, <2>1 DEF TypeOK, Insert, Announce, NoticeOf, Goto, Job, Idle
  <1> QED
    BY <1>1, <1>2, <1>3, <1>4, <1>5, <1>6, <1>7, <1>8, <1>9, <1>10, <1>11 DEF Next, Step

(* The buyer, time and the stock leave every job alone.                    *)
LEMMA OthersKeep ==
  ASSUME SInv, TypeOK',
         \/ \E i \in Intents : Close(i) \/ Expire(i)
         \/ \E a \in Ads : ChangeAd(a)
         \/ \E d \in Dealers : ChangeStore(d)
  PROVE  SInv'
  <1>1. UNCHANGED job /\ steady' \subseteq steady
    BY DEF Close, Expire, ChangeAd, ChangeStore
  <1>2. PlaceIsKept' /\ SteadyWithinLimit'
    BY <1>1, FewerSteadyInvariant
  <1>3. JobsAreWhole' /\ LockExcludes'
    BY <1>1 DEF SInv, JobsAreWhole, LockExcludes, Free
  <1>4. LockedIsOpen'
    <2> SUFFICES ASSUME NEW w \in Workers, job[w].step \in Locking
                 PROVE  status'[job[w].intent] = "active"
      BY <1>1 DEF LockedIsOpen
    <2>1. job[w].intent \in Intents /\ status[job[w].intent] = "active"
      BY DEF SInv, LockedIsOpen, JobsAreWhole, Free, Locking
    <2> QED BY <2>1 DEF SInv, TypeOK, Close, IsFree, Expire, ChangeAd, ChangeStore
  <1>5. SteadyIsAvailable'
    BY DEF SInv, SteadyIsAvailable, TypeOK, Available, Close, Expire, ChangeAd, ChangeStore
  <1> QED BY <1>2, <1>3, <1>4, <1>5 DEF SInv

(* A step of worker w that adds no offer: it leaves the intent it has      *)
(* locked, keeps it, or locks one that is free and open; and it is given a *)
(* place only when the offers it counted leave one.                        *)
LEMMA WorkerKeeps ==
  ASSUME SInv, TypeOK', NEW w \in Workers, NEW j,
         job' = [job EXCEPT ![w] = j],
         \/ j.step \notin Locking
         \/ /\ j.intent = job[w].intent /\ j.ad = job[w].ad
            /\ job[w].step \in Locking \/ (IsFree(j.intent) /\ StillOpen(j.intent)),
         j.step = "insert" => Cardinality(SteadyOf(j.intent, OwnerOf[j.ad])) < Limit,
         j.step \in {"idle", "failed"}
           \/ (j.intent \in Intents /\ (j.step \in Sending => j.ad \in Ads)),
         \A i \in Intents : status[i] = "active" => status'[i] = "active",
         UNCHANGED <<active, stores, steady>>
  PROVE  SInv'
  <1>1. JobsAreWhole'
    BY DEF SInv, TypeOK, JobsAreWhole, Free, Sending, Locking
  <1>2. LockExcludes'
    BY DEF SInv, TypeOK, LockExcludes, IsFree
  <1>3. LockedIsOpen'
    <2> SUFFICES ASSUME NEW v \in Workers, job'[v].step \in Locking
                 PROVE  status'[job'[v].intent] = "active"
      BY DEF LockedIsOpen
    <2>1. job'[v].intent \in Intents
      BY <1>1 DEF JobsAreWhole, Free, Locking
    <2>2. status[job'[v].intent] = "active"
      BY DEF SInv, TypeOK, LockedIsOpen, StillOpen
    <2> QED BY <2>1, <2>2
  <1>4. PlaceIsKept' /\ SteadyWithinLimit' /\ SteadyIsAvailable'
    BY DEF SInv, TypeOK, PlaceIsKept, SteadyWithinLimit, SteadyIsAvailable, SteadyOf, Available
  <1> QED BY <1>1, <1>2, <1>3, <1>4 DEF SInv

(* The offers of a dealer that were available all along are counted.       *)
LEMMA SteadyIsCounted ==
  ASSUME SInv, NEW i \in Intents, NEW d \in Dealers, HasPlace(i, d)
  PROVE  Cardinality(SteadyOf(i, d)) < Limit
  <1>1. SteadyOf(i, d) \subseteq Places(i, d)
    BY DEF SInv, TypeOK, SteadyIsAvailable, SteadyOf, Places
  <1>2. IsFiniteSet(Places(i, d)) /\ Cardinality(Places(i, d)) \in Nat
    BY StockTyped, FS_Subset, FS_CardinalityType DEF Places
  <1>3. Cardinality(SteadyOf(i, d)) <= Cardinality(Places(i, d))
    BY <1>1, <1>2, FS_Subset
  <1>4. Cardinality(SteadyOf(i, d)) \in Nat
    BY SteadyIsFinite
  <1> QED BY <1>2, <1>3, <1>4, LimitTyped DEF HasPlace

LEMMA InsertKeeps ==
  ASSUME SInv, TypeOK', NEW w \in Workers, Insert(w)
  PROVE  SInv'
  <1>0. job[w].intent \in Intents /\ job[w].ad \in Ads
    BY DEF SInv, JobsAreWhole, Sending, Locking, Free, Insert
  <1> PICK i \in Intents, a \in Ads : i = job[w].intent /\ a = job[w].ad
    BY <1>0
  <1> PICK d \in Dealers : d = OwnerOf[a]
    BY StockTyped
  <1>1. job[w].step = "insert" /\ job[w].step \in Locking /\ job[w] \in Job
    BY DEF SInv, TypeOK, Locking, Insert
  <1>2. /\ job'[w].step \in {"idle", "announce"}
        /\ job'[w].step = "announce" => job'[w].intent = i /\ job'[w].ad = a
        /\ \A v \in Workers : v # w => job'[v] = job[v]
    BY <1>1 DEF SInv, TypeOK, Insert, Goto, Idle, Job
  <1>3. JobsAreWhole' /\ LockExcludes' /\ LockedIsOpen'
    BY <1>1, <1>2 DEF SInv, JobsAreWhole, LockExcludes, LockedIsOpen, Free, Locking, Sending, Insert
  <1>4. SteadyIsAvailable'
    BY DEF SInv, SteadyIsAvailable, Available, Insert
  <1>5. \A k \in Intents, e \in Dealers :
           (k # i \/ e # d) => SteadyOf(k, e)' = SteadyOf(k, e)
    BY <1>1 DEF SInv, TypeOK, SteadyOf, Insert
  <1>6. Cardinality(SteadyOf(i, d)') <= Limit
    <2>1. SteadyOf(i, d)' \subseteq SteadyOf(i, d) \cup {a}
      BY <1>1 DEF SInv, TypeOK, SteadyOf, Insert
    <2>2. IsFiniteSet(SteadyOf(i, d)) /\ Cardinality(SteadyOf(i, d)) \in Nat
      BY <1>1, SteadyIsFinite
    <2>3. /\ IsFiniteSet(SteadyOf(i, d) \cup {a})
          /\ Cardinality(SteadyOf(i, d) \cup {a})
               = IF a \in SteadyOf(i, d) THEN Cardinality(SteadyOf(i, d))
                                         ELSE Cardinality(SteadyOf(i, d)) + 1
      BY <2>2, FS_AddElement
    <2>4. Cardinality(SteadyOf(i, d)') <= Cardinality(SteadyOf(i, d) \cup {a})
      BY <2>1, <2>3, FS_Subset
    <2>5. Cardinality(SteadyOf(i, d)) < Limit
      BY <1>1 DEF SInv, PlaceIsKept
    <2>6. /\ Cardinality(SteadyOf(i, d) \cup {a}) \in Nat
          /\ Cardinality(SteadyOf(i, d)') \in Nat
      BY <2>1, <2>3, FS_Subset, FS_CardinalityType
    <2> QED BY <2>2, <2>3, <2>4, <2>5, <2>6, LimitTyped
  <1>7. SteadyWithinLimit'
    <2> SUFFICES ASSUME NEW k \in Intents, NEW e \in Dealers
                 PROVE  Cardinality(SteadyOf(k, e)') <= Limit
      BY DEF SteadyWithinLimit
    <2>1. CASE k = i /\ e = d
      BY <1>6, <2>1
    <2>2. CASE k # i \/ e # d
      BY <1>5, <2>2 DEF SInv, SteadyWithinLimit
    <2> QED BY <2>1, <2>2
  <1>8. PlaceIsKept'
    <2> SUFFICES ASSUME NEW v \in Workers, job'[v].step = "insert",
                        NEW k, k = job'[v].intent, NEW e, e = OwnerOf[job'[v].ad]
                 PROVE  Cardinality(SteadyOf(k, e)') < Limit
      BY DEF PlaceIsKept, SteadyOf
    <2>1. v # w /\ job'[v] = job[v] /\ job[v].step = "insert"
      BY <1>2
    <2>2. k \in Intents /\ k # i /\ e \in Dealers
      BY <1>1, <2>1, StockTyped DEF SInv, LockExcludes, Locking, JobsAreWhole, Sending, Free
    <2>3. Cardinality(SteadyOf(k, e)) < Limit
      BY <2>1 DEF SInv, PlaceIsKept
    <2> QED BY <1>5, <2>2, <2>3
  <1> QED BY <1>3, <1>4, <1>7, <1>8 DEF SInv

LEMMA SendingInvariant == Spec => []SInv
  <1>1. Init => SInv
    <2> SUFFICES ASSUME Init PROVE SInv
      OBVIOUS
    <2>1. \A i \in Intents, d \in Dealers : Cardinality(SteadyOf(i, d)) = 0
      BY FS_EmptySet DEF Init, SteadyOf
    <2>2. SteadyWithinLimit
      BY <2>1, LimitTyped DEF SteadyWithinLimit
    <2>3. TypeOK
      BY DEF Init, TypeOK, Job, Idle
    <2> QED
      BY <2>2, <2>3 DEF Init, SInv, Idle, JobsAreWhole, LockExcludes, LockedIsOpen, PlaceIsKept,
                        SteadyIsAvailable, Sending, Locking, Free
  <1>2. SInv /\ [Next]_vars => SInv'
    <2> SUFFICES ASSUME SInv, [Next]_vars PROVE SInv'
      OBVIOUS
    <2>1. TypeOK'
      BY TypeInduction DEF SInv
    <2>2. CASE UNCHANGED vars
      BY <2>2 DEF vars, SInv, TypeOK, JobsAreWhole, LockExcludes, LockedIsOpen, PlaceIsKept, Free,
                  SteadyIsAvailable, SteadyWithinLimit, SteadyOf, Available
    <2>3. CASE \/ \E i \in Intents : Close(i) \/ Expire(i)
               \/ \E a \in Ads : ChangeAd(a)
               \/ \E d \in Dealers : ChangeStore(d)
      BY <2>1, <2>3, OthersKeep
    <2>4. ASSUME NEW w \in Workers, NEW i \in Intents, Publish(w, i) PROVE SInv'
      <3> DEFINE j == [Idle EXCEPT !.step = "list", !.intent = i]
      <3>1. job' = [job EXCEPT ![w] = j] /\ UNCHANGED <<active, stores, steady>>
        BY <2>4 DEF Publish
      <3>2. \A k \in Intents : status[k] = "active" => status'[k] = "active"
        BY <2>4 DEF Publish, SInv, TypeOK
      <3>3. j.step = "list" /\ j.intent = i
        BY DEF Idle
      <3> HIDE DEF j
      <3> QED BY <2>1, <3>1, <3>2, <3>3, WorkerKeeps DEF Locking, Sending
    <2>5. ASSUME NEW w \in Workers, NEW i \in Intents, NEW a \in Ads, Ask(w, i, a) PROVE SInv'
      <3> DEFINE j == [Idle EXCEPT !.step = "lock", !.intent = i, !.ad = a]
      <3>1. job' = [job EXCEPT ![w] = j] /\ UNCHANGED <<active, stores, steady, status>>
        BY <2>5 DEF Ask
      <3>2. j.step = "lock" /\ j.intent = i /\ j.ad = a
        BY DEF Idle
      <3> HIDE DEF j
      <3> QED BY <2>1, <3>1, <3>2, WorkerKeeps DEF Locking, Sending
    <2>6. ASSUME NEW w \in Workers, ListDealers(w) \/ TellDealer(w) \/ Fail(w) PROVE SInv'
      <3>1. UNCHANGED <<active, stores, steady, status>>
        BY <2>6 DEF ListDealers, TellDealer, Fail
      <3> DEFINE j == job'[w]
      <3>2. /\ job' = [job EXCEPT ![w] = j]
            /\ \/ j.step \in {"idle", "failed"}
               \/ j.step = "tell" /\ j.intent = job[w].intent
        <4>1. job[w] \in Job /\ job \in [Workers -> Job]
          BY DEF SInv, TypeOK
        <4>2. CASE ListDealers(w)
          BY <4>1, <4>2 DEF ListDealers, Idle, Job
        <4>3. CASE TellDealer(w)
          BY <4>1, <4>3 DEF TellDealer, Idle, Job
        <4>4. CASE Fail(w)
          BY <4>1, <4>4 DEF Fail, Idle, Failed
        <4> QED BY <2>6, <4>2, <4>3, <4>4
      <3>3. job[w].intent \in Intents
        BY <2>6 DEF SInv, JobsAreWhole, Free, ListDealers, TellDealer, Fail
      <3>4. j.step \notin Locking /\ j.step \notin Sending /\ j.step # "insert"
        BY <3>2 DEF Locking, Sending
      <3> HIDE DEF j
      <3> QED BY <2>1, <3>1, <3>2, <3>3, <3>4, WorkerKeeps
    <2>7. ASSUME NEW w \in Workers, Lock(w) \/ ReadAd(w) \/ CountPlaces(w) \/ Announce(w)
          PROVE SInv'
      <3>0. /\ job \in [Workers -> Job] /\ job[w] \in Job
            /\ job[w].intent \in Intents /\ job[w].ad \in Ads
        BY <2>7 DEF SInv, TypeOK, JobsAreWhole, Free, Sending, Locking,
                    Lock, ReadAd, CountPlaces, Announce
      <3>1. UNCHANGED <<active, stores, steady, status>>
        BY <2>7 DEF Lock, ReadAd, CountPlaces, Announce
      <3> DEFINE j == job'[w]
      <3>2. /\ job' = [job EXCEPT ![w] = j]
            /\ \/ j.step = "idle"
               \/ /\ j.intent = job[w].intent /\ j.ad = job[w].ad
                  /\ \/ j.step = "read" /\ IsFree(j.intent) /\ StillOpen(j.intent)
                     \/ j.step = "count" /\ job[w].step = "read"
                     \/ /\ j.step = "insert" /\ job[w].step = "count"
                        /\ HasPlace(j.intent, OwnerOf[j.ad])
        <4>1. CASE Lock(w)
          BY <3>0, <4>1 DEF Lock, Goto, Idle, Job
        <4>2. CASE ReadAd(w)
          BY <3>0, <4>2 DEF ReadAd, Goto, Idle, Job
        <4>3. CASE CountPlaces(w)
          BY <3>0, <4>3 DEF CountPlaces, Goto, Idle, Job
        <4>4. CASE Announce(w)
          BY <3>0, <4>4 DEF Announce, Goto, Idle, Job
        <4> QED BY <2>7, <4>1, <4>2, <4>3, <4>4
      <3>3. j.step = "insert" => Cardinality(SteadyOf(j.intent, OwnerOf[j.ad])) < Limit
        BY <3>0, <3>2, SteadyIsCounted, StockTyped
      <3>4. \/ j.step \notin Locking
            \/ /\ j.intent = job[w].intent /\ j.ad = job[w].ad
               /\ job[w].step \in Locking \/ (IsFree(j.intent) /\ StillOpen(j.intent))
        BY <3>2 DEF Locking
      <3> HIDE DEF j
      <3> QED BY <2>1, <3>0, <3>1, <3>2, <3>3, <3>4, WorkerKeeps
    <2>8. ASSUME NEW w \in Workers, Insert(w) PROVE SInv'
      BY <2>1, <2>8, InsertKeeps
    <2> QED BY <2>2, <2>3, <2>4, <2>5, <2>6, <2>7, <2>8 DEF Next, Step
  <1> QED BY <1>1, <1>2, PTL DEF Spec

(* Every variable of a purchase intent keeps its type.                     *)
THEOREM IntentTypes == Spec => []TypeOK
  BY SendingInvariant, PTL DEF SInv

(* Whatever is sent at once and whichever ads and stores leave and return, *)
(* the offers of a dealer that stayed available are at most Limit.         *)
THEOREM SteadyOffersWithinLimit == Spec => []SteadyWithinLimit
  BY SendingInvariant, PTL DEF SInv

(* No offer reaches an intent its buyer has closed.                        *)
THEOREM NothingAfterClosing == Spec => ClosedReceivesNothing
  <1>1. SInv /\ [Next]_vars => [\A o \in offers' \ offers : status[o[1]] = "active"]_vars
    <2> SUFFICES ASSUME SInv, Next PROVE \A o \in offers' \ offers : status[o[1]] = "active"
      OBVIOUS
    <2>1. CASE \E w \in Workers : Insert(w)
      <3>1. PICK w \in Workers : Insert(w)
        BY <2>1
      <3>2. offers' = offers \cup {<<job[w].intent, job[w].ad>>} /\ job[w].step = "insert"
        BY <3>1 DEF Insert
      <3>3. status[job[w].intent] = "active"
        BY <3>2 DEF SInv, LockedIsOpen, Locking
      <3> QED BY <3>2, <3>3
    <2>2. CASE UNCHANGED offers
      BY <2>2
    <2>3. UNCHANGED offers \/ \E w \in Workers : Insert(w)
      BY DEF Next, Step, Close, Expire, ChangeAd, ChangeStore, Publish, Ask, Lock, ListDealers,
             TellDealer, ReadAd, CountPlaces, Announce, Fail
    <2> QED BY <2>1, <2>2, <2>3
  <1> QED BY <1>1, SendingInvariant, PTL DEF Spec, ClosedReceivesNothing

(* What a request is about exists, and what it announces is committed.     *)
JobsAreTrue ==
  \A w \in Workers : /\ ~Free(w) => status[job[w].intent] # "none"
                     /\ job[w].step = "announce" => <<job[w].intent, job[w].ad>> \in offers

(* The buyer is told only of offers that were committed.                   *)
THEOREM NoticesTellTheTruth == Spec => []NoticesAreTrue
  <1> DEFINE NInv == NoticesAreTrue /\ JobsAreTrue
  <1>1. Init => NInv
    BY DEF Init, NoticesAreTrue, JobsAreTrue, Free, Idle
  <1>2. NInv /\ SInv /\ [Next]_vars => NInv'
    <2> SUFFICES ASSUME NInv, SInv, [Next]_vars PROVE NInv'
      OBVIOUS
    <2> USE NoneApart
    <2>1. CASE UNCHANGED vars
      BY <2>1 DEF vars, NoticesAreTrue, JobsAreTrue, Free
    <2>2. /\ TypeOK /\ job \in [Workers -> Job] /\ \A n \in notices : n.intent \in Intents
          /\ \A w \in Workers : /\ ~Free(w) => job[w].intent \in Intents
                               /\ job[w].step \in Sending => job[w].ad \in Ads
      BY DEF SInv, TypeOK, JobsAreWhole
    <2>3. ASSUME NEW i \in Intents, Close(i) \/ Expire(i) PROVE NInv'
      <3>1. \A k \in Intents : status[k] # "none" => status'[k] # "none"
        BY <2>3 DEF SInv, TypeOK, Close, Closed, Expire
      <3>2. UNCHANGED <<job, offers, notices>>
        BY <2>3 DEF Close, Expire
      <3>3. NoticesAreTrue'
        BY <2>2, <3>1, <3>2 DEF NoticesAreTrue
      <3>4. JobsAreTrue'
        <4> SUFFICES ASSUME NEW w \in Workers
                     PROVE  /\ ~Free(w) => status'[job[w].intent] # "none"
                            /\ job[w].step = "announce" => <<job[w].intent, job[w].ad>> \in offers
          BY <3>2 DEF JobsAreTrue, Free
        <4>0. ~Free(w) => job[w].intent \in Intents
          BY DEF SInv, JobsAreWhole
        <4>1. ~Free(w) => status[job[w].intent] # "none" /\ job[w].intent \in Intents
          BY <4>0 DEF JobsAreTrue
        <4>2. ~Free(w) => status'[job[w].intent] # "none"
          BY <3>1, <4>1
        <4>3. job[w].step = "announce" => <<job[w].intent, job[w].ad>> \in offers
          BY DEF JobsAreTrue
        <4> QED BY <4>2, <4>3
      <3> QED BY <3>3, <3>4
    <2>4. CASE \/ \E a \in Ads : ChangeAd(a)
               \/ \E d \in Dealers : ChangeStore(d)
      BY <2>4 DEF NoticesAreTrue, JobsAreTrue, Free, ChangeAd, ChangeStore
    <2>5. ASSUME NEW w \in Workers, NEW i \in Intents, Publish(w, i) PROVE NInv'
      BY <2>2, <2>5 DEF TypeOK, NoticesAreTrue, JobsAreTrue, Free, Publish, Idle
    <2>6. ASSUME NEW w \in Workers, NEW i \in Intents, NEW a \in Ads, Ask(w, i, a) PROVE NInv'
      BY <2>2, <2>6 DEF NoticesAreTrue, JobsAreTrue, Free, Ask, Idle
    <2>7. ASSUME NEW w \in Workers, ListDealers(w) PROVE NInv'
      BY <2>2, <2>7 DEF NoticesAreTrue, JobsAreTrue, Free, ListDealers, Idle, Job
    <2>8. ASSUME NEW w \in Workers, TellDealer(w) PROVE NInv'
      <3>1. /\ ~Free(w) /\ UNCHANGED <<status, offers>>
            /\ \A n \in notices' \ notices : n.ad = None /\ n.intent = job[w].intent
        BY <2>8 DEF TellDealer, Free, NoticeTo
      <3>2. NoticesAreTrue'
        BY <3>1 DEF NoticesAreTrue, JobsAreTrue
      <3>3. /\ \A v \in Workers : v # w => job'[v] = job[v]
            /\ \/ job'[w].step = "idle"
               \/ job'[w].step = "tell" /\ job'[w].intent = job[w].intent
        BY <2>2, <2>8 DEF TellDealer, Idle, Job
      <3>4. JobsAreTrue'
        BY <3>1, <3>3 DEF JobsAreTrue, Free
      <3> QED BY <3>2, <3>4
    <2>9. ASSUME NEW w \in Workers, Lock(w) \/ ReadAd(w) \/ CountPlaces(w) \/ Fail(w) PROVE NInv'
      BY <2>2, <2>9 DEF NoticesAreTrue, JobsAreTrue, Free, Lock, ReadAd, CountPlaces, Goto, Fail,
                        Failed, Idle, Job
    <2>10. ASSUME NEW w \in Workers, Insert(w) PROVE NInv'
      BY <2>2, <2>10 DEF NoticesAreTrue, JobsAreTrue, Free, Insert, Goto, Idle, Job
    <2>11. ASSUME NEW w \in Workers, Announce(w) PROVE NInv'
      <3>0. /\ job[w].step = "announce" /\ UNCHANGED <<status, offers>>
            /\ \A n \in notices' \ notices : n.ad = job[w].ad /\ n.intent = job[w].intent
        BY <2>11 DEF Announce, NoticeOf
      <3>1. job[w].ad \in Ads
        BY <3>0 DEF SInv, JobsAreWhole, Sending
      <3>2. NoticesAreTrue'
        <4> SUFFICES ASSUME NEW n \in notices'
                     PROVE  IF n.ad = None THEN status[n.intent] # "none"
                            ELSE <<n.intent, n.ad>> \in offers
          BY <3>0 DEF NoticesAreTrue
        <4>1. CASE n \in notices
          BY <4>1 DEF NoticesAreTrue
        <4>2. CASE n \notin notices
          <5>1. n.ad = job[w].ad /\ n.intent = job[w].intent
            BY <3>0, <4>2
          <5>2. <<job[w].intent, job[w].ad>> \in offers
            BY <3>0 DEF JobsAreTrue
          <5> QED BY <3>1, <5>1, <5>2
        <4> QED BY <4>1, <4>2
      <3>3. job'[w].step = "idle" /\ \A v \in Workers : v # w => job'[v] = job[v]
        BY <2>2, <2>11 DEF Announce, Goto, Idle
      <3>4. JobsAreTrue'
        BY <3>0, <3>3 DEF JobsAreTrue, Free
      <3> QED BY <3>2, <3>4
    <2> QED
      BY <2>1, <2>3, <2>4, <2>5, <2>6, <2>7, <2>8, <2>9, <2>10, <2>11 DEF Next, Step
  <1> QED BY <1>1, <1>2, SendingInvariant, PTL DEF Spec

(* No ad that was offered becomes available again.                         *)
NoReturn == \A o \in offers : Available(o[2])' => Available(o[2])

AvailableIsSteady == \A o \in offers : Available(o[2]) => o \in steady

(* The return of an ad, or of its store, is the only way past the limit:   *)
(* while what was offered and left stays away, a dealer takes no more      *)
(* places than the limit, however many requests count them at once.        *)
THEOREM PlacesStayWithinLimit == Spec /\ [][NoReturn]_vars => []PlacesWithinLimit
  <1>1. Init => AvailableIsSteady
    BY DEF Init, AvailableIsSteady
  <1>2. SInv /\ AvailableIsSteady /\ [Next]_vars /\ [NoReturn]_vars => AvailableIsSteady'
    <2> SUFFICES ASSUME SInv, AvailableIsSteady, [Next]_vars, [NoReturn]_vars
                 PROVE  AvailableIsSteady'
      OBVIOUS
    <2>1. ASSUME NEW w \in Workers, Insert(w) PROVE AvailableIsSteady'
      BY <2>1 DEF Insert, AvailableIsSteady, Available
    <2>2. CASE UNCHANGED <<offers, active, stores, steady>>
      BY <2>2 DEF AvailableIsSteady, Available
    <2>3. ASSUME NEW a \in Ads, ChangeAd(a) PROVE AvailableIsSteady'
      <3> SUFFICES ASSUME NEW o \in offers, Available(o[2])' PROVE o \in steady'
        BY <2>3 DEF ChangeAd, AvailableIsSteady
      <3>1. CASE UNCHANGED vars
        BY <3>1 DEF vars, AvailableIsSteady, Available
      <3>2. CASE NoReturn
        <4>1. o \in steady /\ Available(o[2])
          BY <3>2 DEF NoReturn, AvailableIsSteady
        <4>2. o[2] # a
          BY <2>3, <4>1 DEF ChangeAd, Available
        <4> QED BY <2>3, <4>1, <4>2 DEF ChangeAd
      <3> QED BY <3>1, <3>2
    <2>4. ASSUME NEW d \in Dealers, ChangeStore(d) PROVE AvailableIsSteady'
      <3> SUFFICES ASSUME NEW o \in offers, Available(o[2])' PROVE o \in steady'
        BY <2>4 DEF ChangeStore, AvailableIsSteady
      <3>1. CASE UNCHANGED vars
        BY <3>1 DEF vars, AvailableIsSteady, Available
      <3>2. CASE NoReturn
        <4>1. o \in steady /\ Available(o[2])
          BY <3>2 DEF NoReturn, AvailableIsSteady
        <4>2. OwnerOf[o[2]] # d
          BY <2>4, <4>1 DEF ChangeStore, Available
        <4> QED BY <2>4, <4>1, <4>2 DEF ChangeStore
      <3> QED BY <3>1, <3>2
    <2> QED
      BY <2>1, <2>2, <2>3, <2>4
      DEF Next, Step, Close, Expire, Publish, Ask, Lock, ListDealers, TellDealer, ReadAd,
          CountPlaces, Announce, Fail, vars
  <1>3. SInv /\ AvailableIsSteady => PlacesWithinLimit
    <2> SUFFICES ASSUME SInv, AvailableIsSteady, NEW i \in Intents, NEW d \in Dealers
                 PROVE  Cardinality(Places(i, d)) <= Limit
      BY DEF PlacesWithinLimit
    <2>1. Places(i, d) \subseteq SteadyOf(i, d)
      BY DEF AvailableIsSteady, Places, SteadyOf
    <2>2. /\ IsFiniteSet(SteadyOf(i, d)) /\ Cardinality(SteadyOf(i, d)) \in Nat
          /\ Cardinality(SteadyOf(i, d)) <= Limit
      BY SteadyIsFinite DEF SInv, SteadyWithinLimit
    <2>3. Cardinality(Places(i, d)) <= Cardinality(SteadyOf(i, d)) /\ Cardinality(Places(i, d)) \in Nat
      BY <2>1, <2>2, FS_Subset, FS_CardinalityType
    <2> QED BY <2>2, <2>3, LimitTyped
  <1> QED BY <1>1, <1>2, <1>3, SendingInvariant, PTL DEF Spec
===============================================================================
