# Formal model of carros-na-cidade

The repository is a car marketplace for Brazilian cities: an Express API over
PostgreSQL (`src/src`), with Redis/BullMQ workers, and a Next.js frontend
(`src/frontend`). Most of its lines are pages, SEO computations and read
models. What has a protocol of its own is modelled here, and it is all in the
API: *venda seu carro para lojas* (a person publishes a car, the stores of the
city bid on it in rounds, the owner accepts one bid, the two sides schedule a
visit or report that they did not agree); the payments of plans and of
highlights, told by the webhooks of Mercado Pago; the status of an ad between
its owner, the review and the administrator; and *purchase intents* (a buyer
says what he looks for, the stores send him ads). Several people act on the
same rows at the same moment, and the rules are spread over handlers,
repositories, CHECK and UNIQUE constraints.

In sections 1 to 3 the paths of the sale request are relative to
`src/src/modules/sale-requests`; all others are relative to `src/src/modules`
unless they start with `src/`.

## 1. Inventory

| part | state | operations | what is hard | what makes it right |
|---|---|---|---|---|
| Bids (`offers.*`) | `sale_request_offers`, append-only | `createSaleOffer` | racing stores; floor for the first bid, leader for the others; `created_at` is the start of the transaction | bids of a round rise from its floor |
| Acceptance (`selection.*`) | `status`, `selected_offer_id`, the trail `sale_request_offer_selections`, the store's notice | `selectSaleRequestOffer` | a bid, a cancellation or a second choice in between; two UNIQUE constraints; a return after a write commits it | one live match, on a current bid of the open round |
| Hand-off and rounds (`handoff.*`, `rounds.*`) | `sale_request_handoff_outcomes`, `sale_request_rounds`, `current_round_number` | `reportNoAgreement`, `openNewRound` | long sequences of legal calls; floors that change | status, pointer, trail, outcomes and rounds tell one story; a failed match never returns |
| Cancellation (`service`, `repository`) | `status` | `cancelMySaleRequest` | no explicit lock; the answer is read in another statement | a match is never cancelled; the answer is true |
| Publication (`service`, `repository`) | the owner's set of requests | `createSaleRequest` | double click; count, then insert | the limit of open requests |
| Visit (`inspection.*`) | `sale_request_inspections`, `..._inspection_slots`, notices | `offerInspectionSlots`, `confirmInspectionSlot`, `requestNewInspectionSlots` | publish against confirm; a visit that survives its match; idempotency keys | the two tables agree; a confirmed slot is a current one |
| Transactions (`src/src/infrastructure/database/db.js`) | row locks, READ COMMITTED snapshots | `withTransaction` | commits on return, rolls back on exception | handlers are atomic, locks are freed |
| Retired flow (`final-decision.*`, `legacy-flow`) | none any more | its writers throw first | - | - |
| Photos, dealers' feed, DTOs | objects in storage, read models | upload, list | uploads before a publication that fails | (not modelled) |
| Plans and subscriptions (`payments`, `admin/advertisers`, `account`) | `payment_intents`, `payments`, `user_subscriptions`, `subscription_reconciliation`, `users.plan_id` | checkouts, `handleWebhook` of the topics `payment` and `authorized_payment`, `grantAdvertiserPlan`, revocation, sweep of expired grants | a webhook is late, repeated, reordered, or two at once; one charge is told by two topics; an UPDATE of the user's other rows works on a snapshot | months follow charges, an approved payment is recorded in the end and keeps its effect, a plan is paid for or granted |
| Highlights (`payments`, `admin/ads`) | `ads.highlight_until`, `ad_moderation_events`, `payment_intents` | webhook of a boost, `setAdHighlight`, `grantManualBoost` | repeated webhooks; a grant that reads, computes and writes without a lock; an ad deleted between payment and webhook | each purchase is credited or refused exactly once, and decided in the end |
| Ads (`ads`, `account`, `admin/ads`, `admin/moderation`) | `ads.status`, `blocked_previous_status`, the trail, images | create, pause, activate, edit, remove, approve, reject, change, archive, restore, block, unblock | read, decide, then an UPDATE whose WHERE names the id only; only block and unblock lock | a block is recorded and its lift restores; a blocked or deleted ad is out of the owner's reach; the limit of active ads |
| Purchase intents (`purchase-intents`) | `purchase_intents`, `purchase_intent_offers`, notices | publish, send, close | stores race under a limit that counts only ads still available; ads and stores change under the transaction; notices after the commit | the limit, nothing after the closing, every notice tells something true |
| Sessions (`auth`) | `refresh_tokens` | login, refresh, logout | rotation by an unlocked read and write | a token is used once (not modelled) |
| Workers (`src/src/workers`) | jobs, metrics | periodic batches | one failing job in one transaction | a failure is recorded (not modelled) |
| Search, SEO, regions, frontend | read models, pages | batch and read only | - | (not modelled) |

The parts interact through the database only: a handler locks the row of
`sale_requests`, reads the other tables, writes, and commits; notices are rows
inserted by the same transaction (by a later statement in purchase intents).
There are no callbacks and no messages between them. The one external actor is
Mercado Pago, of which the code knows two things: the answer to "what is the
status of this payment?" and webhooks that carry an id and come at any time, any
number of times.

## 2. Modules

    SaleRequestLifecycle          what everybody else may assume: status moves
        ^ implemented by          ^ used, one instance per request
    SaleRequest                   SalePublish
        ^ implemented by    ^ implemented by
    SaleRequestLock         SaleRequestVisit

    BoostLedger                   AdStatus        PurchaseIntent, PlanBilling
        ^ implemented by              ^ watched by
    AdBoost                       AdQuota

The two pictures share no variable: payments change the plan of a user and the
highlight of an ad, and neither the sale request nor the purchase intent reads
them in a transaction of its own. Plans meet ads in one number, the limit of
active ads, a constant of `AdStatus`.

**SaleRequest** is the core: one request, one action per handler that writes.
`status`, `round` and `selected` are columns of its row; `floors`, `offers`,
`selections` and `outcomes` are the tables that hang on it, and `notices` the
"your bid was accepted" notifications. `offers` is a sequence because the table
is append-only: the index is the id. The trail and the outcomes are sets of
offer ids because UNIQUE constraints make the offer a key of each. A refusal
before the first write is a stutter. The refusal *after* a write
(`LeaveUnmarked`) is not: it commits. `CreateSaleOffer` takes any unused time
stamp, because `NOW()` is taken before the wait for the lock.

**SaleRequestLifecycle** is the abstract specification of the status and of
the round counter.

**SaleRequestLock** has the same tables, and clients whose HTTP requests run
statement by statement: `Begin` (takes `NOW()`), `LockRow`, `Decide` or
`Refuse`, `Commit`; `RollBack` at any moment stands for an exception or a lost
connection. `CancelUpdate` and `CancelReply` are the two statements of the
cancellation, outside any transaction. It is shown to implement `SaleRequest`,
which is what justifies one action per handler there.

**SaleRequestVisit** extends `SaleRequest` with the visit: each selection has at
most one visit, with rounds of slots; confirming a slot is the `ScheduleVisit`
of the core.

**SalePublish** has many requests of one owner and the transactions that
publish them. The requests move by `SaleRequestLifecycle` (one instance each);
those moves lock other rows and come between any two statements.

**PlanBilling** is what one user pays for and which plan he has. `subs` is
`user_subscriptions` (oldest first, a key is a `payment_id` or a
`provider_preapproval_id`), `ledger` is `payments` by `mercado_pago_id`,
`recon` the approved charges put aside for a person to look at, `mp` the status
at Mercado Pago. A webhook is `Fetch` (asks Mercado Pago, writes nothing),
`Begin` (BEGIN, the lock of the intent, the snapshot in which the statement that
touches the user's *other* rows looks for them) and `CommitPayment` or
`CommitAuthorizedPayment`; `Fail` is an exception at any moment. Between `Fetch`
and `Begin` the status gets old, between `Begin` and `Commit` the snapshot does.
Revocation and sweep lock the grants before they read the paid rows, and an
activation of a paid row locks the same grants: they are one step. The sweep
swallows its errors, and so is an action that may or may not happen. Dates are
abstracted to `over` (it has passed) and `months` (how often the period was
extended). Signature checks, the topic `preapproval` (it only logs) and
`cancelUserSubscription` are left out; the last one never reaches Mercado Pago for
a monthly row, because the query that feeds it does not select
`provider_preapproval_id`. A monthly row that a single payment has ended keeps its
past `expires_at` when a later charge renews it, and the model keeps it over too.

**AdBoost** is the highlight of ads. A boost webhook locks the intent, reads the
ad without a lock, extends the date it finds (`apply`), refuses (`refuse`: the ad
is not active any more), writes the trail and commits. A failed INSERT inside a
`try` aborts the transaction in PostgreSQL although JavaScript goes on: the
COMMIT is then a rollback (`TrailExists`). An administrator's `grantManualBoost`
reads, computes and writes in two steps; `GrantsOverlap` says whether two of them,
or one and a webhook, may overlap on one ad. Amounts are taken as matching, the
owner of an ad never changes, and at most one payment of a checkout is approved
(Mercado Pago closes a preference when it is paid: assumed).
**BoostLedger** is its abstract specification: a purchase is credited, with all
its days, or refused, once; a gift adds its days; no day is lost. `AdBoost`
implements it with `outcome` computed from the intent and the history variable
`refused`, and `days` as the days an ad has left plus those `gone` (used up, or
taken by hand in `setAdHighlight`).

**AdStatus** has the ads of one advertiser and clients whose requests are `Request`
(read and decide, with what each handler asks of the status), possibly `Count`
(the limit), `Write` (`UPDATE ... WHERE id`), and the cleanup of images. Block and
unblock are one step, under `FOR UPDATE`.

**AdQuota** adds to it two history variables and no behaviour. `claims` are the
requests that found a free place in the plan and have not written yet, `placed` the
active ads that their owner published on such a place. They tell a place that was
counted from one that was not: a count that failed, or an ad that an
administrator's restore or lift made active, takes its place without a count.
`QuotaSpec` implies `Spec`, and every configuration of ads runs it.

**PurchaseIntent** has intents, offers, and the ads and stores that change under
them. A sending locks the intent, checks that it is open, reads the ad, counts,
inserts and announces, one action each. `NOW()` is the start of the transaction,
so an offer may land just after the expiry. The stores of the city are told
after the publication and the buyer after the offer, by statements whose failure
is logged: a crash in between loses the notice for good. One city; the match of
an ad and an intent is a constant relation.

The modules `MC*` only add symmetry sets and the values of constant functions. Definitions whose name ends in
`_Something` next to a definition of the code (`Leads_NoFloor`) are plausible
defects of it; nothing refers to them. Each property is known to fail for one of
them.

## 3. What is checked

| run | instance | shows |
|---|---|---|
| `request_safety` | 2 stores, amounts 1..3 (0 is no floor), 4 stamps, 4 bids, 2 rounds | coherence of the tables, currency of the accepted bid, rising auction, no second acceptance, the lifecycle |
| `request_orphan` | 2 stores, 3 bids, 2 rounds | divergence 1 |
| `lock_atomic` | 2 clients, 2 stores, 2 amounts, 4 transactions | any interleaving of statements implements `SaleRequest`; no decision on a stale row; every request is answered |
| `visit_safety` | 2 stores, 2 bids, 2 rounds, 2 rounds of 1 or 2 slots | request and visit agree; confirmed slots are current; closed visits stay as they were |
| `visit_notice` | the same | divergence 4 |
| `publish_limit` | 3 requests, 3 sessions, limit 2, 2 rounds | at most 2 requests open in their first round; every publication ends |
| `billing_races` | a single payment and a monthly charge told by both topics, which may lack its amount; 2 requests at a time, no grants | months follow charges, an approved payment has its effect and keeps it, every charge is recorded in the end, a plan is paid for |
| `billing_apart` | 2 single payments, grants of one plan, 2 requests at a time under `ActivationsApart`, 3 rows | a user with a paid row in force has the plan of such a row |
| `ads_block` | 1 ad, 2 clients, all operations, 2 blocks | a blocked ad carries the record of its block; a lift restores what the block replaced; a deleted ad stays deleted once the requests of that moment have ended |
| `ads_quota` | 3 ads, 2 clients, limit 1, 1 block; counts may fail | the places taken on a count exceed the limit by at most one |
| `boost` | 1 ad, 1 purchase of 2 days with 2 payments, 1 day given, 2 requests at a time, days 0 and 1 | an answer 200 means recorded; the ledger is implemented; every purchase is decided |
| `purchase_intent` | 1 intent, 1 store, 2 ads, 2 requests at a time, limit 1 | the limit among ads that stayed available, nothing after the closing, notices are true, a store that keeps trying succeeds |

Why the bounds are enough. With four bids and two rounds a store can outbid
itself and another one, be accepted, fail, see the other proposal accepted and
meet a new round with a new floor; two stamps in any order already invert two
bids. Two clients suffice for the lock because every interaction goes through
one row, and four transactions let one client bid and accept while the other
one is between two of its statements. Publication needs one request more
than the limit and a reopened one. In billing the races are of two deliveries:
of one topic and charge (a repetition), of two topics of one charge, and of two
purchases whose rows end each other; a third adds only an order that two of
them already have. The run `billing_apart` checks what one kind of overlap breaks
(section 4): its requests overlap in every way but the one that `ActivationsApart`
excludes, so what it shows of races is little more than the sequential rule. An ad
is blocked twice because a second block must not read the record of the first. With
a limit of one, two ads are the excess that two clients at once can cause, and the
third is the one they must not add to it. A purchase with a rejected and an approved payment is the least on
which a late rejection can undo an approval, and a day given is the least that
must survive the credit. The theorems of section 5 remove the
bounds from the safety properties they cover.

`CHECK_DEADLOCK FALSE` appears where the system may stop: a cancelled request
accepts nothing more, a closed intent and a deleted ad neither, payments run
out; and the bounds (`Max...`) stop the others.

**Fairness.** `SaleRequestLock!Fairness` and `SalePublish!Fairness` assume that
a server that started a request goes on executing its statements (weak), and
that PostgreSQL serves the waiters of a row lock, which queue (strong, on
`LockRow`: the lock is enabled again and again while others take turns). Nobody
is assumed to send a request, and no transaction is assumed to succeed.
`PlanBilling!Fairness` and `AdBoost!Fairness` add what makes a webhook reliable:
Mercado Pago repeats a notification until it is answered (strong, on `Fetch`),
and the server does not fail for ever (`<>[]` no `Fail`). The code relies on
both when it answers 500 and throws the work away.
`PurchaseIntent!Fairness` serves the lock and runs the statements; its liveness
property is about a dealer who keeps trying, so his attempts are strongly fair.

## 4. Where the code and its own statements differ

Runs `request_orphan` and `visit_notice` show 1 and 4. Each of the others has a
configuration of its own, named in parentheses, that TLC runs to a counterexample
of the property named; it is not one of the runs of section 3.

The sale request:

1. **A trail row without a match** (`SaleRequest_orphan`). With the visit
   scheduled, `selectSaleRequestOffer` for another current bid passes steps 3
   to 7, inserts the trail row, finds that the status is not selectable and
   *returns* `{ok: false}` (`selection.service.js:416`). `withTransaction`
   commits on return. The comment promises that selection and notice exist
   together or not at all. After a failed match that proposal cannot be
   accepted any more.
2. **The latest bid of a store may not be its highest** (`SaleRequestLock_bids`):
   `created_at` is the start of the transaction, the order of bids is that of
   the lock (`offers.repository.js:120` says the two coincide). The higher bid
   of the store then cannot be accepted, the lower one can.
3. **A cancellation answered with 200 on an open request**
   (`SaleRequestLock_cancel`): the UPDATE finds `handoff_failed`, another tab
   reopens the request, and the SELECT that decides the answer reads
   `receiving_offers`.
4. **Slots nobody is told about** (`SaleRequestVisit_notice`): the key of the
   notice holds the request and the slot round, which restarts at 1 for a
   reselected store (`inspection.service.js:253`).
5. **The limit of open requests** (`SalePublish_reopen`): reopening a failed
   match does not count.

Plans:

6. **One charge, two months** (`PlanBilling_topics`, `OneMonthPerCharge`): the
   topics write `payments` under different ids, and the row that makes an
   activation unique is that row (`activation.js:62` against its comment at
   8-9).
7. **A pending row gives its plan** (`PlanBilling_unpaid`, `PlanIsPaidOrGranted`
   with grants): the end of a grant falls back on a row that is active *or
   pending* (`admin-advertisers.repository.js:267`); the comment at 265 says it
   is the rule of the webhook, which asks for active (`payments.service.js:1478`).
8. **A grant over a paid plan** (`PlanBilling_grant`, `GrantKeepsPaidPlan`): the
   check is a query before the transaction (`advertiser-plan-grant.service.js:215`;
   line 214 promises not to overwrite a paid plan).
9. **A repetition is not harmless** (`PlanBilling_replay`,
   `RepetitionIsHarmless`): a single payment is applied again on each delivery
   and ends a later purchase (`payments.service.js:1441`;
   `src/docs/testing/qa-edge-cases.md:120`).
10. **A rejection beside an approval** (`PlanBilling_rejection`, `PlanOfALiveRow`
    with two requests at a time): the rejection looks for other active rows
    before the approval commits and writes the free plan after it
    (`payments.service.js:1473`, 1486).

Ads, where most of this has one cause, an UPDATE that does not repeat the
condition its handler checked:

11. **A deleted ad comes back** (`AdStatus_deleted`, `DeletedIsTerminal`;
    `account.service.js:1295` against `status.js:25`).
12. **The owner lifts a block** (`AdStatus_lift`, `OwnerCannotLiftBlock`; what
    `src/tests/ads/blocked-ad-owner-cannot-bypass.test.js:2` excludes).
13. **Archiving lifts a block** (`AdStatus_archive`, `BlockLiftedOnlyByUnblock`;
    `admin-ads.service.js:262` against line 105).
14. **Public without review** (`AdStatus_review`, `ReviewedBeforePublic`): pause
    and activate lead from `pending_review` to `active`
    (`account.service.js:1271` against `status.js:14`).
15. **The limit of active ads** (`AdStatus_limit`, two activations at once,
    `account.service.js:1284`; `AdStatus_count`, a failed count reads 0, line 582;
    both against line 1279; the property is `OwnerStaysWithinLimit`).
16. **Another car under a published ad** (`AdStatus_vehicle`, `VehicleIsFixed`;
    `ads.panel.service.js:301` against line 286).

Highlights and purchase intents:

17. **A grant swallows bought days** (`AdBoost_grants`, `ImplementsLedger` with
    `GrantsOverlap`; `admin-ads.service.js:200`).
18. **A payment answered and lost** (`AdBoost_trail`, `AnsweredMeansRecorded`
    without the table of the trail): the failed INSERT at
    `payments.service.js:1108`, caught so as not to fail the webhook (1124), has
    aborted the transaction; the COMMIT rolls back and the answer is 200.
19. **A highlight on an ad that is not active** (`AdBoost_status`,
    `OnlyActiveAdsAreHighlighted`; `payments.service.js:1091`).
20. **More available ads than the limit** (`PurchaseIntent_return`,
    `PlacesWithinLimit`): an ad sold and put on sale again takes its place back
    (`purchase-intent-offers.constants.js:10`). `SteadyWithinLimit` is what holds.

For some of these, section 3 checks what is left of the promise. With all overlaps
included: `GoneForGood` for 11 (a request that had read the ad before its removal may
bring it back, nothing else does, ever), `BlockIsRecorded` and `UnblockRestores`
for 12 and 13, `ExcessIsBounded` for 15 (each request running at once can add one
ad, and the excess does not grow beyond that), `FirstRoundLimit` for 5,
`PeriodsAreCharged` for 6, `SteadyWithinLimit` for 20. Under a condition: 7
without grants, 10 under `ActivationsApart`, 17 without overlapping grants, 18 with
the table of the trail. What these runs show does not reach the hazard of the
divergence, and the hazard names no property. Every other property of section 3 holds
with all these behaviours included. Section 5 proves which behaviour a divergence
needs.

## 5. What is proved

All theorems hold for every value of the constants under the named assumptions
of the modules: amounts are positive (`AmountsPositive`), stamps, bounds and
limits are naturals (`StampsNatural`, `BoundsNatural`, `MaxTxNatural`,
`LimitNatural`, `SlotRoundsNatural`), a round publishes 1 to 3 slots
(`SlotCountsSmall`), clients and requests are finitely many (`ClientsFinite`,
`RequestsFinite`), and the mark of a free row is nobody (`NobodyIsNoClient`,
`NobodyIsNoSession`). The bounds themselves are arbitrary, so the results are
those of the system without them.

**One request** (`SaleRequest_proofs`). `Invariance` proves `IInv`, the
conjunction of `TypeOK`, the safety invariants of the run and two facts they
need: every selected bid, not only the live one, is still its store's latest
word in its round (`SelectionsAreCurrent`), and no bid belongs to a round that
is not open yet (`OffersOfOpenedRounds`). The first is why accepting a second
bid after a failed match cannot meet a selection of the same store in that
round: bids enter only an undecided round (`NoMatchInOpenRound`), so nothing
supersedes a selected one. Stamps enter the argument only by being unused.
From `IInv`: `MatchesAreCoherent`, `AcceptedProposalIsCurrent`,
`OpenRoundsAreUndecided`, `BidsRise`, `SelectionNeverBreaksUnique`,
`FailedMatchesStayFailed` and the refinement `LifecycleIsImplemented`.
`MatchedStoreIsTold` adds the notices: the store of the match in sight has its
own, whatever divergence 1 records in silence. `SilenceNeedsAVisit` and
`LatestBidIsHighest` say that divergences 1 and 2 have one door each: an
acceptance behind a scheduled visit (`VisitsUndisturbed` excludes it), and a bid
whose stamp is older than one the store already has (`BidsInOrder`).

**The lock** (`SaleRequestLock_proofs`). `InterleavingImplementsCore`: a commit
is one handler of `SaleRequest`, the cancelling UPDATE is `CancelMySaleRequest`
or nothing, and every other statement stutters. It needs `LInv`: the row a
transaction read is the committed one and the transaction holds it
(`DecidesOnFreshRow`); a verdict stays true until its transaction ends
(`VerdictsHold`: the other tables are written under the same lock, and the
cancellation, which writes the status only, waits for the row); a time stamp in
flight belongs to one transaction and to no bid (`StampsAreUnique`); and each
bid or round costs one transaction (`WithinBudget`), so that the bounds of
`SaleRequest` are never what stops a handler. `InterleavedHandlersAreSafe` draws
the conclusion: what `SaleRequest_proofs` proves of the handlers, instantiated
(`Atomic`), holds of the statements: the invariants of `request_safety` and its
action property. Two theorems are about what the interleaving does break.
`OneTabBidsHighest`: a store with one bid under way at a time (`BidsApart`) has its
highest bid as its latest, since a bid under way is then younger than all its
others (`BidsAreYounger`); this is `LatestBidIsHighest`, with a condition a dealer
can meet. `CancelledMeansCancelled`: the answer of a cancellation is true unless
the request is reopened between its UPDATE and its SELECT (`ReopeningsApart`).

**The visit** (`SaleRequestVisit_proofs`). `VisitImplementsRequest` is a step
simulation by the identity; it hands `IInv` over to the composition. `VInv` adds
`MatchIsNotified` (the store of a match has its notice) to the invariants of the
run: it is what relates visits to notices when the slots are published.
`ClosedVisitsStay` follows from `MatchCoherence`: an active match has no outcome.

**The limit** (`SalePublish_proofs`). `LimitHolds` rests on `CountStaysGood`:
between the count and the COMMIT no other publication has the owner's row, and
no other handler puts a request in its first round, since a reopened one is in
round 2 or later. The same argument does not carry over to all the open
requests, which is divergence 5; `ExcessIsReopened` bounds it by the number of
reopened ones.

**Ads** (`AdStatus_proofs`). `BlockRecorded` and `LiftRestores` rest on
`IInv`: types, that a job between its steps never writes `blocked` (`JobInv`), and
the two properties themselves. Nothing is said of the status a handler read,
which may be stale: that is why these two hold under races, and why those of
divergences 11 to 16 do not. `AdStanding` adds what *is* known of a pending request
whatever overlaps it (`SInv`: what its operation may write, that its ad exists, that
no two creations are of one ad).

Two theorems hold whatever overlaps. `RemovalIsFinal` is `GoneForGood`: an ad is
gone when it is deleted and every pending request that would change its status
would delete it. No new request joins the others, because each handler reads the
status at its start and lets a deleted ad pass only to delete it again; the
administrator's block, lift, archive and restore refuse it by their own lists.
`ExcessStaysBounded` is `ExcessIsBounded`. Its claims need no inductive
invariant beyond types: the places held (`placed` and the ads of `claims`) grow only
when a request finds a place (`NoNewPlace`), and it finds one when fewer ads are
active than the limit. The placed ones are among the active, so before the step they are at
most the limit less one, and the claims are at most one for each client
(`CountedPlaces`). So the bound is as good after the thousandth publication as after the first.

Two more are conditional. `DeletedStaysDeleted` and `PublicPhotosStay` hold under
`DeletesApart` (nobody else changes the status of an ad while a request that deletes
it is pending), by `GoneInv`: no request waits to bring a deleted ad back. And
`SerialRequestsKeepAll` says that requests served one at a time, with a count that
does not fail, keep all the promises of divergences 11, 12, 15 and 16, so that
these have no cause but overlaps and failed counts. It goes through lemmas of the
same shape, each under a condition that one request at a time meets: `BlocksApart`
for the block, `CountsApart` for the limit, `EditsApart` for the vehicle. These
lemmas say little by themselves: the condition excludes the overlap that breaks the
promise, and what is left is the guard of the handler.

**The highlight** (`AdBoost_proofs`). `AnswersAreRecorded` needs that two
transactions never hold one intent (`LockExcludes`), that what a transaction
decided is still true of the intent it holds (`DecisionHolds`), and that a refusal
is recorded with its intent (`RefusedAreDecided`); it holds where the table of the
trail exists. `BoostsAreCreditedOnce` is the
refinement, under `~GrantsOverlap`: it needs `GrantIsFresh` (the date a grant
computed is the one it would compute now), the very fact an overlap destroys.
What an overlap cannot destroy is `DecisionsAreFinal`: it costs days, but decides
no purchase twice.

**Purchase intents** (`PurchaseIntent_proofs`). The invariant says that the lock
excludes, that a locked intent stays open, and that a place counted free is free
among the ads that stayed available. `NothingAfterClosing` and
`SteadyOffersWithinLimit` follow; `NoticesTellTheTruth` needs in addition that a
job about to announce has its offer (`JobsAreTrue`). `PlacesStayWithinLimit`: if
nothing that left the market comes back (`NoReturn`), the offers whose ad is
available are those that always were, and divergence 20 cannot happen.

**Billing** (`PlanBilling_proofs`), for any number of intents, charges, grants and
requests at a time, in layers. `TInv` is types. `DInv` is the lock: two
transactions past it are of different intents (`LockExcludes`), so a status found
not to be stale does not contradict an approval when it commits
(`DecisionHolds`); with `LedgerFollowsIntent` this gives `ApprovalIsFinal`. `RInv`
is about rows: one per key, of the kind its key says, never removed, and none
missing for a monthly subscription that was charged (`PaidHaveRows`). From it
follow `MonthsFollowCharges`, because a month is added exactly when a new id
enters `payments`, by whichever topic, and `ApprovalsAreAccounted`.
`PlansArePaidWithoutGrants` is for `GrantPlans = {}`: then the end of a grant,
which is divergence 7, cannot happen, and what remains is that a status fetched
as approved stays paid at Mercado Pago.

`AInv` is about plans. A handler looks at the rows first (a grant at the paid ones,
a rejection at the active ones) and writes on what it saw; under `ActivationsApart`
nobody brings a row into force in between, so what was seen still covers what
there is (`SnapshotCovers`, `GrantsSawNone`).
`PayingUsersKeepAPlan` says that a paying user has the plan of a row in force, and
needs `NoRevival` too: a monthly charge that renews a row already ended makes it
active with a past `expires_at`, and the plan then rests on a row that is over.
With single payments only (`SinglePaymentsKeepAPlan`) that cannot happen; one
request at a time meets the first condition (`SerialBillingKeepsPlans`).

`CInv` relates `payments` to what was charged: an id in it was announced by a topic
and paid, and only monthly rows have months. If no charge has two ids there
(`OneIdPerCharge`), `ChargesCountOnce` follows by an injection of ids into charges;
with one topic (`OneTopicCountsOnce`) none ever has. That is divergence 6 from the
other side: the two ids are its only cause.

Further assumptions: charges and intents are apart (`ChargesTyped`,
`IntentsApart`: they live in different columns); clients and ads are finitely many
where they are counted (`ClientsCount`, `AdsCount`); the other constants of these
modules are typed (`PlansTyped`, `TopicsTyped`, `FiniteInstance`, `OpsTyped`,
`LimitsTyped`, `DaysTyped`, `BoundsTyped`, `MapsTyped`, `FlagsTyped`, `StockTyped`,
`MatchesTyped`, `LimitTyped`) and the mark `None` is none of their values
(`NoneApart`).

## 6. What is only model-checked, and what is not modelled

Liveness (`EveryRequestEnds`, `EveryPublicationEnds`, `EveryChargeIsRecorded`,
`EveryBoostIsDecided`, `PersistenceIsRewarded`) stays with TLC, because
it needs fairness and ENABLED, as do the violations: a counterexample is a finite
thing that TLC finds. Every other property of the passing runs is a theorem, that of
`billing_apart` under the condition the run has too.

No condition of section 5 is enforced by the code, and none is an assumption of a
module: it is written as a hypothesis (`Spec /\ [][C]_vars => ...`), and the
divergences of section 4 are what happens where it is not met. Divergences 4, 9, 13,
14 and 19 have no such theorem; 8, 12, 15 and 16 have only that one request at a time
does not meet them.

Left out on purpose: validation and formatting, FIPE lookup, rate limits,
entitlement of the stores, DTOs, feeds and cursors, logs; the risk score of a new
ad (which status it chooses is open). The dates of slots are not compared
by any handler after validation and are not modelled. The store's address is a
precondition of publishing slots that only makes the guard stronger. READ
COMMITTED is modelled by reading the other tables when the handler decides,
after the lock; the re-evaluation of joined rows in the locking queries of
`inspection.repository.js` is not modelled (the code re-reads the inspection
after the lock for that reason, and so does the model).

Not modelled at all: sessions (`refresh_tokens`), the workers, the photos of a
sale request, search and ranking, regions and SEO, support tickets, and the
frontend. The last four are most of the repository's lines; they read, render or
recompute, and have no state that two actors contend for. An administrator's
restore and unblock may put an owner above his limit: nothing in the code says
they should not, and no property does.

## 7. Plan

1. Refresh-token rotation, with concurrent refreshes and logout.
2. `growth_jobs`: SKIP LOCKED, and a batch that aborts.
3. Photos of a publication that rolls back.
4. A bound, like `ExcessIsBounded`, on what the overlaps of divergences 8, 10 and 17
   can do, in place of a condition that excludes them.
