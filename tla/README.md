# Formal models of LFX Crowdfunding

TLA+ specifications of the Go backend of LFX Crowdfunding (`src/backend`), the
TLC configurations that check them on small instances, and theorems proved with
TLAPS. Every definition is translated from the code; `PROJECT.json` ("map")
names the lines behind each one. Paths below are relative to `src/`.

## 1. The system

A Nuxt BFF (`frontend/`) holds the browser session and calls a Go HTTP API
(`backend/cmd/initiatives-api`). The API keeps its state in Postgres, charges
cards through Stripe, posts charges to a Ledger service, and tells the FGA
(authorization) and Reimbursement services about initiatives. Jobs run beside it
(`backend/cmd/*`). Nothing in the backend shares memory between requests: all
concurrency is between requests, webhook deliveries, background goroutines and
jobs that read and write the same rows and the same Stripe account. There are
almost no transactions around more than one statement, and none around an
external call.

| Component | State | Operations | Hard behaviour | What makes it correct |
|---|---|---|---|---|
| Donation requests (`service/donation_service.go`) | `donations` row, `users.stripe_customer_id` | create, list, export | charge and insert are two steps, client retries, concurrent equal keys, webhook before insert | one row per PaymentIntent, nothing settled is undone, no captured money is forgotten |
| Stripe webhook (`handler/webhook_handler.go`) | row status, acknowledgement | payment_intent.*, invoice.*, customer.subscription.* | duplicated, late and reordered events, crash between steps | statuses follow Stripe, Ledger and mails only for recorded captured money |
| Subscription requests (`service/subscription_service.go`) | `subscriptions` row, Stripe subscription | create, cancel, list | duplicate clicks, half-done cancellation, webhook before insert | statuses backed by Stripe, payments on record, one live subscription per donor |
| Initiative lifecycle (`service/initiative_service.go`) | `initiatives` row with tags, tiers and goals | create, update, approve, re-attribute, delete | whole-row writes of stale reads, side effects before and after the write | a lifecycle step is never undone, a closed initiative does not bill |
| B2B org matching (`service/b2b_org.go`, `cmd/b2b-org-backfill`) | `b2b_org_sfid` of rows, Stripe metadata | lookup after insert, backfill | concurrent writers, Stripe written before the row | first stored SFID stays, Stripe and row agree |
| Users and payment account (`handler/user_handler.go`, `service/payment_service.go`) | `users` row: profile, customer id, card | profile sync, attach, delete, get, invoices | every read, Stripe call and UPDATE is separate, two tabs cross | nothing known is blanked, the stored card belongs to the stored customer |
| FGA (`infrastructure/fga`, `cmd/fga-backfill`) | access tuples | publish update/delete, reconcile | unordered messages, resource-wide replacement | after quiescence and a reconcile run, access matches owner and status |
| Reading an initiative (`handler/initiative_handler.go`, `service/authz.go`, `infrastructure/fga/resolver.go`) | shared caches | public detail and transactions, manage read | the row changes during and after the read, the role service is down | a withdrawn row leaves the caches, an outage is never "not found" |
| Transaction pages (`service/initiative_service.go`, `infrastructure/clients/ledger.go`) | – | three paged reads | rows dropped from pages the Ledger counted, new rows shift pages | rows the offset has passed were shown, nobody else's, none twice; a page without rows is not the end |
| Reimbursement (`infrastructure/clients/reimbursement_client.go`, `handler/expense_handler.go`) | policy, token cache | policy sync, expense actions | background syncs race, the token expires, reports change between two calls | the last sync stays, no expired token is sent, only approvers act |
| Ledger statistics (`cmd/ledger-stats-sync`) | `initiative_ledger_stats` | batch upsert | an initiative deleted in between, polluted totals | rows catch up with the Ledger, claim no more than was given, and balance where every negative credit has a name |
| Mentorship sync (`cmd/mentorship-sync`) | initiative rows of programs | upsert | snapshot against approvers, taken slugs and ids, failing runs | other rows and lists survive, missing programs arrive |
| Announcements (`service/announcement_service.go`) | `initiative_announcements` | create, update, delete | row, role and statement are three steps | written only by somebody who could manage its initiative |
| Session refresh (`frontend/server/utils/auth-refresh.ts`) | cookies | refresh, logout | two requests with one rotating token | not modelled |
| Statistics, uploads, mail, authentication, configuration | – | – | none concurrent, or pure I/O | not modelled |

Interactions: a donation or subscription request reads the initiative and user,
calls Stripe and inserts a row; Stripe later calls the webhook, which updates
that row by its Stripe id, posts to the Ledger and mails; after the insert a
background goroutine matches the donor's domain to a Salesforce organization;
closing an initiative cancels its subscriptions at Stripe and in the table, then
writes the status, then publishes to FGA and Reimbursement.

`PROJECT.json` lists every component with its status, and under "hazards" every
place where one of these behaviours bites. Where the properties cover a hazard
in part or not at all, its note says what is left and why: among that a success
acknowledged for a row inserted between the two statements of the donation update,
two customers of one user, a paid event after the cancellation, policy syncs that
cross, a delete that clears a card saved meanwhile, and a report reassigned before
the action. The models have these behaviours; no property forbids them.

## 2. Plan

Done:

1. `Donations`, `DonationBook`: donations, their webhook, the abstract book they
   implement, and proofs.
2. `Subscriptions`, `SubscriptionBook`: subscriptions, their webhook, both
   cancellations, the abstract book they implement, and proofs.
3. `FgaSync`, `Initiatives`: the life of one initiative, its product, policy and
   access tuples under concurrent requests and the reconcile job, and proofs.

4. `GatewayToken`, `PolicySync`, `ExpenseActions`: the Reimbursement Service.
5. `Accounts`: the user row and its card.
6. `Mentorship`, `LedgerStats`: the two data jobs.
7. `B2BOrg`: SFIDs of subscriptions and donations at Stripe and in the row under
   lookup and backfill.
8. `LedgerPages`, `Visibility`, `Announcements`: reading and commenting.

`MCServices` checks 4 to 8 in one run: these components share no variable, so it
chooses one of them at the start and leaves the others at rest. Every safety
invariant and every action property of a passing run is proved (section 5).

Left, in this order: an abstract review gate that `Initiatives` implements; the
composition of `Initiatives` with `Subscriptions` (the subscriptions of a deleted
initiative); `Accounts` inside `Donations` and `Subscriptions`, which now carry a
customer id of their own; `B2BOrg`'s liveness on larger instances.

## 3. Modules

### Donations

State and code:

| Variable | Code |
|---|---|
| `req[r]` | where a request `r` stands in `DonationService.Create`, and the customer id it read or made |
| `customerID` | `users.stripe_customer_id` |
| `donations[r]` | the row request `r` inserted: intent, status, whether it has an org domain, SFID |
| `pi[p]` | Stripe's PaymentIntent (external): status, request that made it, whether it was challenged |
| `events`, `acked` | events Stripe emitted; events answered 200 |
| `hook[w]` | a webhook execution: which event and which step |
| `ledger`, `receipts` | what the Ledger accepted; mails per charge |
| `initiative` | the row that `Create` reads |

One action per external call or SQL statement: `Load`, `CreateCustomer`,
`PersistCustomer`, `Charge` / `ReplayCharge`, `Insert` (with its
`ON CONFLICT DO NOTHING`), `Lookup` / `LookupMiss` (the background goroutine),
`Abort` (any error). The webhook is `HookUpdate` (the UPDATE hits), or
`HookNoUpdate` then `HookExists` (the two statements that tell
`ErrAlreadyProcessed` from not found), `HookLedger`, `HookEmail` and `HookCrash`.
Outside: `Confirm` (3DS), `ForeignCharge` (another backend on the same Stripe
account), `Backfill`, `EditInitiative`. Stripe's idempotency is modelled by what
the code uses of it: one key names one intent, and a repeated key with other
parameters is refused.

`DonationBook` is the abstract specification: per intent, money is attempted,
captured or refused; a record appears as pending, follows the money, and only
recorded captured money is booked. `ImplementsBook` is the refinement mapping.

Alternatives named with a suffix and the word "faulty" (for example
`Conflict_NoIndex`) are the bugs that show a property can fail; no specification
uses them.

### Subscriptions

| Variable | Code |
|---|---|
| `req[r]`, `customerID` | as above, for `SubscriptionService.Create` |
| `stripe[s]` | Stripe's subscription (external): status, status of the first response, maker, last invoice |
| `rows[r]`, `order` | the rows by inserting request: status and whether `first_paid_at` is set; their order by `created_on`, newest first |
| `events`, `acked`, `hook`, `mailed` | as above |
| `marking` | cancellations Stripe accepted whose row is not updated yet |
| `closer` | the pass `cancelInitiativeSubscriptions`: offset, whether the page was full, rows of the page not yet cancelled |
| `initiative` | status, accept_funding and the Stripe product |

`Create` is `Load`, `CreateCustomer`, `PersistCustomer`, `Price` / `Heal` (a
product Stripe no longer has is replaced and stored), `Subscribe` /
`ReplaySubscribe`, `Insert`. There is no unique index on the subscription id, so
every request inserts. `Cancel` and `Mark` are the donor's cancellation; the pass
is `CloseStart`, `CloseList`, `CloseCancel`, `Mark`, `CloseJoin`, `CloseWrite`,
with `CloseFail`. `Tolerated` is the difference between the two callers: the pass
accepts "already gone" in both of Stripe's forms, the donor's request in one. A
paid invoice takes two statements (`HookStamp`, `HookPaid`); a failed or ended
one takes one (`HookOther`). Stripe raises, collects and gives up invoices in
`Renew`, `Collect`, `GiveUp`; the first invoice in `PayFirst`, `DeclineFirst`,
`ExpireFirst`.

`SubscriptionBook` is the abstract specification. A subscription is `opened`,
`charged`, has `lapsed`, has `ended` for good; the `record` of a request is `Close`d
or `Move`d to a status only when its cause has happened, in whatever order events
arrive; and a pass (`Begin`, `Hide`, `GiveUp`) hides the initiative only when every
subscription that had a row when it began (`watched`) has ended. It knows no
webhook, no pages and no half-done calls. `Book` in `Subscriptions` is the
refinement mapping: the four sets are read off Stripe's state, and `lapsed`, which
Stripe forgets, off the events. `End` may give the pass up in the same step,
because a cancellation whose answer is lost is both.

### FgaSync and Initiatives

| Variable | Code |
|---|---|
| `row` | the row in `initiatives`: status and attribution |
| `product` | the Stripe product that `Create` makes first |
| `policy` | the Reimbursement policy: absent, a background sync running, present |
| `op[o]` | a running request: its step, what it does, the row it read and changed |
| `approved` | history: an approval was written |
| `wire` | access messages published and not finally delivered |
| `access` | the tuples fga-sync keeps (external) |

`Ops` are slots that requests use one after the other, so two slots are two
requests at a time and any number in all. `Create` is `CreateProduct`, `Insert`
(the transaction and its read-back, either of which can fail), `Rollback`;
`Update` and `ProcessApproval` are `LoadUpdate` / `LoadApproval`,
`CancelSubscriptions` where the new status closes the initiative, and `Write`,
which stores every column as it was read. `UpdateAttribution` is
`LoadAttribution` and `Patch`, whose `WHERE` looks at the status again. All end
in `Publish`: the read after the commit, the start of the policy sync, the access
message. `Delete` is `LoadDelete`, `Remove`, `Withdraw`. `Fail` ends a request at
any step. `Reconcile` is the `fga-backfill` job. Publishing is best effort:
messages are lost (`Lost`), overtake each other and are delivered repeatedly.

The read after the commit and the publication are one step because nothing
orders the wire: a message published late is a message delivered late.

### GatewayToken, PolicySync, ExpenseActions

| Variable | Code |
|---|---|
| `now` | ticks |
| `token`, `mutex` | `tokenVal` and `tokenExpiry`; who holds `tokenMu` across the exchange with Auth0 |
| `call[c]` | a goroutine at the client: where it is, since when, the end of the token it carries |
| `published`, `sync` | the versions of the row in commit order; the background sync each started |
| `policy` | the policy at the service: the version its body and its name are from |
| `filed`, `approvers` | expense reports and who they were mailed to (external) |
| `asked`, `acted`, `answer` | the request being served, the actions carried out, the last answer |

`m2mToken` is `UseCached`, or `StartFetch` and then `Fetched` / `FetchFails`.
Auth0 may issue the token at any tick of the exchange, while the cache counts from
the answer. `CreateWithSameHeaders` is the POST of `SyncPolicy`, which reuses the
headers of the PATCH. The assumption `2 * Timeout <= Buffer(l)` is what the two
exchanges need; 10 s and 60 s are the code's values.

`PolicySync` is one initiative: `WriteRow` starts a goroutine per published
version, then `SendPatch`, `Patched` or `PatchNotFound` and `Posted`, `SyncFails`
(with a request that may have been carried out). A version stands for its
payload. `ExpenseActions` is `ProcessAction`: `Refuse`, `Admit`, `ListApprovers`,
`Act`, `Unavailable`.

### Accounts

`user` is the row, `job[r]` a request with what it read, `owner` and `detached`
Stripe's view of each card. `Login`, `Upsert` are the profile sync;
`StartPayment`, `NewCustomer`, `SaveCustomer` are `ensureCustomer` (and the same
lines in donations and subscriptions); `Attach`, `SaveCard`; `StartDelete`,
`Detach`, `ClearCard`; `OwnerStub` is the mentorship job's insert, `Migrate` the
legacy import. `overwritten` remembers that a customer replaced another since a
card was saved: two first requests may both create a customer.

### Mentorship, LedgerStats

`Mentorship`: `source` is Snowflake's view of each program, `rows` the initiative
with its id, `taken` the slugs of other initiatives, `legacy` the programs the
migration stored under another id, `todo` and `known` what a run read. `StartRun`
takes both reads of a run in one step: one looks at Snowflake only and the other
at the rows only, so whatever changes between them could as well have changed
before or after both. Then each program is `Skip`, `SkipInvalid`, `Upsert1`
or `UpsertError`; `RunAborts` ends a run anywhere.

`LedgerStats`: `ledger` is what was really booked per initiative, with
disbursements booked as debits (`spent`), as negative credits of a recipient
(`paid`) and as negative credits nobody is named for (`taken`, which
`syncer_test.go:310-322` tests);
`TotalCredit`, `TotalDebit`, `SponsorTotal` are what the Ledger reports of it. A
run is `ListIDs`, `ReadBalances`, then `BulkUpsert`, or `BatchFails` where an
initiative of the batch was deleted. A stored row remembers the books it was
computed from (`of`).

### B2BOrg

`match` is member-service's answer for one domain, `row` the SFID of each
subscription and donation, `stripe` the metadata of subscription and item,
`lookup` the goroutine of each request, `backfill` the job at one subscription.
The request writes the subscription first (`TagSub`, `TagItem`), the job the item
first (`PatchItem`, `PatchSub`), both before the row (`StoreSFID`,
`StoreSubSFID`). A step at Stripe needs a live subscription.

### LedgerPages, Visibility, Announcements

`LedgerPages`: `booked` is the Ledger's list, `walk` a client that asks for the
next page while its offset is below the total answered. `Clamp` is
`clampFilteredTotalCount`; `RefuseForeign` the 503 when the Ledger ignored the
user filter.

`Visibility`: `page` is the row, `grants` the roles fga-sync knows, `visit[u]` a
request with the row as it read it, `fresh[v]` how long a shared cache may still
serve the copy of a URL, `hidden` how long ago the row stopped being published,
`told` the last manage answer with what was true meanwhile. `OpenDetail` and
`OpenMoney` are the public reads, `OpenManage` the manage read, with `FindCaller`,
`ReadPage` / `ReadNothing` and their answers; `ResolverDown` is an outage.

`Announcements`: `requireOwnership` is two steps, `ReadDrive` (the row with its
attribution, `copy`) and `AllowEdit` (`canManage`: the creator, or a writer at the
entity that was read), and the statement (`CreateNotice`, `WriteNotice`) a third;
`SetWriter`, `Attribute` and `DropDrive` change the world in between. `managed` and
`had` remember who could manage which initiative, and to which entity it was
attributed; `home` is the initiative of an announcement, which need not be the one in
the URL. `moved` says that the row was attributed to another entity by the time the
role was looked up: then a role at the former entity, even one granted since, lets
the request through, and `NoticeOfManaged` excepts it as `ManageToldTruth` does.

## 4. Runs

All but one instance use two requests, which is the number every race in this code
needs: a request and its retry, two clicks, or two donors. Two webhook workers
are used where two deliveries can meet inside one handler; the other runs use
one. Crashes, lost answers and failing statements are unrestricted.

| Run | Shows |
|---|---|
| `donation_replay` | the safety properties (with `ReceiptNotRepeated`: no second receipt) and the refinement with one click sent twice, a charge of the old system, two deliveries at a time |
| `donation_live` | the Ledger with two donors, a tier, a donor without legacy id, a race window, an initiative hidden and reopened; a decided 3DS challenge leaves pending |
| `subscription_replay` | rows are backed by Stripe, payments stay on record, rows move forward: one click sent twice, two invoices, donor cancellations; and the refinement to the subscription book, with renewals |
| `subscription_pages` | the pass that hides an initiative misses no row although rows shift between its pages and donors cancel; the refinement with the pass: two donors, pages of one row |
| `subscription_live` | a reported cancellation reaches every row; first customers and stale products |
| `initiative_lifecycle` | nothing is public before an approval, whatever requests interleave; the reconcile job brings the tuples to a row that stays |

`services` has these properties:

| Component | Property | Says |
|---|---|---|
| `GatewayToken` | `SentUnexpired`, `TokenKeptWhileGood` | no ended token is sent, not even by the POST after a slow PATCH; callers that waited do not fetch again |
| `PolicySync` | `DoneSyncStays` | a sync reported as done stays in the policy until a later one, as long as no two were under way at a time |
| `ExpenseActions` | `ActedByApprover` | an action is carried out only for somebody the report was mailed to |
| `Accounts` | `AccountKept`, `CardOfCustomer` | no writer blanks what is known; the saved card was attached to the saved customer |
| `Mentorship` | `SyncPreserves`, `SlugsUnique`, `ProgramsArrive` | other rows, slugs and lists survive the job; slugs never collide; a missing open program arrives however long ago it changed |
| `LedgerStats` | `StatsHonest`, `StatsCatchUp` | stored totals claim no more than was given, balance unless negative credits in nobody's name take more than there is, and undo the named ones; rows catch up after failed batches |
| `B2BOrg` | `RowBehindStripe`, `RowsFilled` | a row with an SFID has one in both Stripe objects; a lasting match fills every saved row |
| `LedgerPages` | `PagesComplete` | a walk showed what its offset has passed and nobody else's rows, none twice if nothing was booked meanwhile; at its end that is every row, unless a page was kept in part (`cut`: the code may end those early, section 6) |
| `Visibility` | `HiddenSoonGone`, `ManageToldTruth` | a withdrawn row is out of every cache one request and one cache life later; 404 and 200 of the manage read are true, an outage is neither |
| `Announcements` | `NoticeOfManaged` | an announcement is written only by somebody who at some time could manage its own initiative; a request whose row moved between read and check is excepted |

`ServicesTypeOK` is the type invariant of all ten.

The violation runs each check one statement of the repository that the code does
not keep. `PROJECT.json` ("findings") quotes them:

| Run | What happens |
|---|---|
| `donation_final` | `payment_failed` of a first attempt arrives after `succeeded` of the second and overwrites it |
| `subscription_one` | two clicks, two live subscriptions of one donor |
| `subscription_hidden` | a request that read the initiative before the pass bills after it |
| `subscription_mailed` | a renewal of an active row sends no mail |
| `initiative_reattributed` | an edit that read the row before it was re-attributed and approved writes the old row over the published one |

Bounds. `MaxReceipts = 2` is enough to see a second receipt; counting stops
there. `MaxInvoices = 2` has a first invoice and a renewal, which the handler
treats differently; a third would repeat the second. `PageSize = 1` makes every
row a page, so offsets matter with two rows; the code uses 100. One or two SFIDs:
two, where writers may disagree. The goroutines of a page run in any order; the
limit of eight at a time does not matter with pages this small. The refinement of
`Subscriptions` is checked on two instances, each with one part of the book: its
proof covers them together. `subscription_pages` takes states that differ
only in `acked` and `mailed` as one (`VIEW`): no step and neither of its properties
reads them. `SYMMETRY` is over the webhook workers, and only in runs without
liveness.

`initiative_lifecycle` has no attribution target, so its messages differ in
whether the initiative is public and whether it exists, which is what both of its
properties can confuse; with a target the sets of messages in flight make the
liveness check too large. `initiative_reattributed` has one target and personal
attribution.

`services`: two callers and nine ticks see a fetch, a wait and a
reused header with a life above and one at the clamp (8 and 4, margin 3); three
versions of a row, so that a third sync follows two that crossed; two requests
and two customers, the least that overwrite one another; two programs with one
slug and two changes; two initiatives, sponsors and postings; one subscription
and one donation (subscriptions do not meet except in the job, which takes them
one after the other) and one failure of the job; three rows and pages of two. In
`Visibility` one request is under way at a time (`MaxVisits = 1`): requests meet
only in `fresh` and in `told`, which is reset when the next one opens, and the
theorems of section 5 hold for any number. The same holds for `MaxEdits = 1`,
where the steps of others are `SetWriter`, `Attribute` and `DropDrive`; each of the
two editors created one of two initiatives (`MCCreatorOf`), and one host besides
personal attribution is enough to move there and away. `written` keeps the last
statement until the next request: `managed` and `had` only grow, so what held of it
then still holds.

Deadlock is not checked: donors may stop, every request may have ended and every
event be acknowledged.

Fairness. Stripe keeps redelivering an event that was not acknowledged, so each
event is delivered again and again (strong fairness of the delivery of each
unacknowledged event: a worker may be busy in between), and a handler that has
started goes on unless it crashes (weak fairness of its steps). Nothing is
assumed of requests, donors, owners, jobs or Stripe's billing. A handler may
crash forever only as long as deliveries end in a crash; strong fairness of
delivery does not forbid crashes, and the properties hold because the UPDATE is
the first step of a delivery.

For `AccessConverges`: the CronJob runs daily where it is enabled
(`backend/charts/lfx-crowdfunding-backend/values.yaml`, `fgaReconcileCronJob`), so its
step is weakly fair; fga-sync delivers at least once, so every message on the
wire is delivered a last time (strong fairness: a message may be published
again). Requests owe nothing: they may fail at every step, and their messages may
be lost.

For the liveness of `services`: the three jobs are CronJobs
(`backend/charts/lfx-crowdfunding-backend/values.yaml`), one run at a time
(`concurrencyPolicy: Forbid`), so where they are enabled a run is started and goes on (weak fairness of each job's steps). Their failures are
bounded (`MaxChanges`, `MaxPostings`, `MaxStops`): a job that fails for ever
achieves nothing. Users, Jobspring, Stripe and member-service owe nothing.

## 5. Proofs

There is a theorem for every safety invariant and every action property of the
runs, and for both refinements. Each constant of a module is arbitrary within the
module's assumptions, which TLC evaluates in every run that uses the module. Most
say that a bound is a number or that a "none" is not a value. The others are
facts of the code or of its use: `TokenAssumption` (section 3), `SyncAssumption`
(published is one of the statuses of a program), `StatsAssumption` (an initiative
has finitely many sponsors; their sum means nothing otherwise).

| Module | Proves about |
|---|---|
| `Donations_proofs` | `Donations`, `DonationBook` |
| `Subscriptions_proofs` | `Subscriptions`, `SubscriptionBook` |
| `Initiatives_proofs` | `Initiatives` |
| `Reimbursement_proofs` | `GatewayToken`, `PolicySync`, `ExpenseActions` |
| `People_proofs` | `Accounts`, `Announcements` |
| `Jobs_proofs` | `B2BOrg`, `Mentorship`, `LedgerStats` |
| `Reading_proofs` | `Visibility`, `LedgerPages` |
| `Services_proofs` | the composition in `MCServices` |

### Donations

`Donations_proofs` holds for any sets of requests,
intents, users, workers and SFIDs, any initial initiatives, with or without a
race window, under `DonationConstants` and `NoneIsNoRow`.

- `TypeCorrect`: the type invariant.
- `OneRow`, `Truthful`, `LedgerSound`, `SuccessIsNotForgotten`,
  `VerdictIsNotForgotten`, `ThankedAtMostOnce`: the six safety invariants of
  `donation_replay`.
- `RowsAreKept`: the action property `RowNeverRewritten`.
- `Refinement`: `Spec => Book!Spec`.

None of the invariants is inductive alone. `IInv` adds what each step relies on:
which intents exist when a request is past its charge (`RequestFacts`), that an
event is backed by the intent's state and that a decided challenge was recorded
before, because the donor's browser needs the answered client secret
(`EventFacts`), and what a running handler still knows of the row it updated or
missed (`HookFacts`). `Inductive` is proved one conjunct at a time, with one step
per action, from lemmas about how an action changes rows, events and intents.
The refinement maps each action to an action of the book or to a stutter, and
uses `IInv` to show that the record of an intent is well defined.

`ReceiptNotRepeated` needs an invariant of its own, over `IInv`: as long as no
failure of an intent was reported, at most one worker is past the UPDATE and
before the end of the mail (`Posting`), none is once a mail went out, and then no
row of the intent is pending (`ThankedOnce`). The UPDATE admits the next delivery
only through a pending row, and no row is added once one exists (`NoSecondRow`).

### Subscriptions

`Subscriptions_proofs` holds for any sets of requests, subscriptions, donors and
workers, any page size and number of invoices, under `SubscriptionConstants` and
`NoneIsNoRow`.

- `TypeCorrect`: the type invariant.
- `RowsAreBacked`, `PaymentIsNotForgotten`: the invariants
  `StatusBackedByStripe` and `PaymentRecorded`.
- `RowsOnlyMoveForward`, `HidingCancelsTheRowsItFound`: the action properties
  `RowsMoveForward` and `ClosePassIsComplete`.
- `Refinement`: `Spec => Book!Spec`.

Its `IInv` adds that a request past Stripe has a subscription there
(`RequestFacts`); that money moves only for a subscription that was active at
once or has a row, because the client secret leaves with the row
(`StripeFacts`) — with it, the first row inserted after a paid webhook is itself
stamped paid; that a cancellation Stripe accepted and the row still lacks
(`MarkFacts`) is of a subscription that has ended; that a handler between its
two UPDATEs stamped every row there was (`HookFacts`); that `order` lists every
row once (`OrderFacts`); and that every row the pass found when it began is
closed, on the current page, or beyond the pages read (`CloserFacts`). The last
is preserved by inserts because a new row pushes the others further down, and by
`CloseList` because a page with a row beyond it is full (`FullPage`).

The refinement takes the actions in groups: Stripe's own (`StripeMaps`), the
requests' (`CreateMaps`), the donor's cancellation (`CallMaps`, `DonorMaps`), the
pass (`CloserMaps`) and the webhook (`WebhookMaps`). An event is enough to move a
row because its cause is in the book when the event is sent and stays there
(`EventCause`); `Mark` is a `Close` because of `MarkFacts`; and the step that hides
the initiative is a `Hide` because of `CloserFacts`: no rows are left beyond the
pages read, so every watched one has ended.

### Initiatives

`Initiatives_proofs` holds for any set of concurrent requests and of targets,
under `NoneIsNoAccess` and `NoneIsNoInitiative`.

- `TypeCorrect`: the type invariant.
- `ReviewedBeforePublic`: the invariant `NothingPublicBeforeApproval`.

Its `IInv` adds that no message on the wire and no request but an approval
carries a published or hidden state (`Quiet`) — so neither a late message nor a
stale write can make one appear — and that an insert is the one of a creation
(`InsertFacts`).

### Reimbursement

`Reimbursement_proofs` holds for any callers, lives, margin and timeout under
`TokenAssumption`. `TokenTyped`; `RequestsSentUnexpired` (`SentUnexpired`),
`GoodTokenKept` (`TokenKeptWhileGood`). `TokenInv` adds that no exchange outlasts
the timeout (`Timely`), that the cached token outlives its cache entry by one
timeout (`CacheMargin`), that a PATCH under way was sent more than that before its
token ends, so that the POST is in time (`CallMargin`), and that the mutex is held
across an exchange only while no token is good (`FetchNeeded`).

For any number of versions of a row: `PolicyTyped`, `DoneSyncKept`
(`DoneSyncStays`). `PolicyInv` adds that a sync is of a version that was written
(`StartedWritten`), that the policy has the body of a sync that was started
(`PolicySynced`), that as long as no two were under way at a time the one that runs
is of the last version started (`LastRuns`), and that what a sync left, or
something later, is in the policy (`DoneIsIn`).

For any people and reports: `ExpenseTyped`, `ActionsOfApprovers`
(`ActedByApprover`). `ExpenseInv` adds that whoever a report is mailed to, and
whoever passed the comparison of the handler, has been its approver
(`MailedWasOne`, `ComparedWasOne`).

### Accounts and announcements

`People_proofs` holds for any requests, cards and number of customers.
`AccountTyped`; `SavedCardOfCustomer` (`CardOfCustomer`), `RowKeepsWhatItHad`
(`AccountKept`). `AccountInv` adds that a request past the customer knows one that
exists (`CustomerKnown`), that a card about to be saved was attached to the
customer saved with it (`CardAttached`), that a request to attach or
detach has a card (`CardGiven`), and that a row with a card has a customer (`CardNeedsCustomer`).

For any editors, announcements and initiatives: `NoticeTyped`,
`WrittenByManagers` (`NoticeOfManaged`). `NoticeInv` adds that whoever can manage an
initiative could before (`ManagedBefore`), that an initiative had the attribution it
has (`HadBefore`) and any a request has read, that whoever was let through could
manage the initiative or read it before it moved (`AllSound`), and that what is stored
belongs to an initiative that exists (`StoredAtHome`).

### Jobs

`Jobs_proofs` holds for any subscriptions, donations, SFIDs and failures.
`B2BTyped`; `StripeFirst` (`RowBehindStripe`). `B2BInv` adds what each writer has
told Stripe by the step it is at (`LookupBehind`, `BackfillBehind`) and that a row
that says canceled is of a subscription that ended (`ClosedIsOver`); lemma
`Unmoved` says that metadata, once there, is only ever replaced.

For any programs, titles and changes: `SyncTyped`, `FallbackNeverCollides`
(`SlugsUnique`), `SyncKeepsRows` (`SyncPreserves`). `SyncTypeOK` and `SlugsUnique`
together are inductive: the insert takes the first of its three slugs that no
other row has, or NULL, and no update replaces a slug.

For any initiatives, finite set of sponsors and number of postings: `StatsTyped`,
`StoredTotalsHonest` (`StatsHonest`). `StatsInv` says the same of the batch a run
has computed but not written. The clamp at zero is what keeps a row from balancing:
the proof splits on it (`Balanced`). That what `mapBalance` computes is honest
(`MapBalanceHonest`) rests on sums over sets of sponsors. The library's induction
theorems cannot be instantiated here, so these lemmas (`SumIsSums`, `SumsBetween`)
argue with a smallest counterexample instead: `SmallestMember` draws one from the
well-founded order of the finite subsets.

### Reading

`Reading_proofs` holds for any people, entities, lives, waits and number of
requests. `VisTyped`; `WithdrawnIsSoonGone` (`HiddenSoonGone`),
`ManagersToldTruth` (`ManageToldTruth`). For the first, `CacheInv`: a row that a
request read as published was withdrawn, if at all, since the request began
(`ShownRecently`, with `MoneyIsPublished` and `PublishedNow`), so the time a row
is hidden and the time its copy has left never exceed `Life + Wait`
(`CopiesShort`). For the second,
`ToldInv`: a request has seen the answer that is true now (`SeenNow`), its caller
has a row (`CallerFound`), and its copy has the attribution of the row, which
exists, unless that moved (`CopyCurrent`).

For any page size and number of rows: `PagesTyped`, `WalksAreComplete`
(`PagesComplete`). `PagesInv` ties the rows shown to the offset: a row that the walk
looks for is shown if it was passed (`PassedShown`, on cut walks too), only those are while nothing
is booked meanwhile (`ShownPassed`, `ShownOnce`), and at the end of a walk all are
(`AllShown`); a page is `Limit` ranks from an offset that is a multiple of it
(`Aligned`, `PageSpan`).

### Composition

`Services_proofs`: a step of `MCServices` is a step of one component and a stutter
of the others (`StepOfAll`), so it implements all ten (`ServicesImplement`), and what
was proved of each holds in it: the types (`ServicesTyped`) and every safety and
action property of the run `services` (`ServicesKeepAll`).

### Only model-checked

Liveness under fairness is out of the prover's reach: `ChallengeSettles`,
`CancellationReachesRow`, `AccessConverges`, `ProgramsArrive`, `StatsCatchUp`,
`RowsFilled`. The violation runs need no proof: their counterexample is one.

## 6. Not modelled

- Webhook signatures, the pre-production switch that acknowledges unimplemented
  events, the mail-only paths for subscriptions of the old system.
- Spelling of statuses: the API accepts any case of a new status and the owner's
  transition table knows only the canonical one; the models use the canonical one.
- Child tables of an initiative (goals, tiers, contacts): written in the
  transaction of the row, read by no other step. Whether a caller is affiliated
  with a target: one call to another service before the first step.
- The Auth0 branch of the profile sync and the binding of subjects: the
  middleware in front of it yields only Heimdall's principals and the local
  bypass. Lists and searches of initiatives, donations, subscriptions and
  announcements; statistics: reads of one statement.
- The fee balance and the names of sponsors in the statistics; names, text and
  display data of transactions.
- An expense handler without a configured client, which answers 503.
- A promise for the end of walks with a page that keeps some of its rows and drops
  others. `PagesComplete` excepts them (`cut`), because there the code and its comment
  part: such a page
  lowers the total by what it dropped (`service/initiative_service.go:1476-1488`,
  "so callers can continue paging when more upstream pages are available"), and a
  client that stops at the total, as the frontend's infinite query does
  (`frontend/app/composables/initiatives/useInitiativeTransactions.ts`), may stop with
  rows left. They are still there at the next offset.
- Text of mails, amounts beyond the tier minimum, currencies, pagination of lists
  for users.
- Idempotency keys of prices and products: `Price` and `Heal` may run any number
  of times in any request, which over-approximates them.
- The components marked `not_modelled` or `partly` in `PROJECT.json`, with the
  reason there.
