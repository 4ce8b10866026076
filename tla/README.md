# Verification of the OpenCall backend

TLA+ models of the OpenCall backend, the TLC runs that check them on small
instances and the theorems about them that TLAPS checks. OpenCall is an Express
API over PostgreSQL with a handful of worker processes beside it; the
correctness of the parts modelled here rests on single SQL statements, row
states and the order in which processes run them. Each step of a model is one
statement (or one transaction, or one answer of a remote service), and every
interleaving of the steps is explored.

Paths below are relative to `src/backend/src/` unless they start with `src/`.

## 1. Inventory

| Component | State it keeps | Operations | Hard behaviour | Correct when |
|---|---|---|---|---|
| HP warranty jobs (`services/warranty/warrantyJobService.ts`, `worker/warrantyWorker.ts`, `repositories/warranty*`) | `warranty_jobs`, `warranty_job_items`, `hp_warranty_cache` | upload, view, file, Retry; claim, look up, settle; reclaim | two lanes, a housekeeping lane and requests over one queue; crash with a row in hand; failing statements | rows coherent, claims exclusive, attempts bounded, answers cached and consistent, items settle |
| HP look-up client (`services/warranty/hpWarrantyClient.ts`) | a browser page | `lookupWarranty` | stages with timeouts, challenges, a product prompt | an answer is read only of a serial HP has landed on, younger than the stale-lock threshold |
| Closed-call list (`services/warranty/closedCallWarrantyService.ts`) | standing job, cache | list, details, daily sweep | count-then-insert by several callers | overrun bounded, CHECKING means in work, list fills |
| Geocoding (`worker/geocodingWorker.ts`, `services/geo/*`, `repositories/geocodeRepository.ts`) | `geocode_cache`, `work_order_geocodes`, `office_address_distances` | sweep, upgrade, claim, resolve, fail, retry, expire, reclaim, route | two sweepers, lanes, outages, stale locks | rows coherent, points backed by the cache, never downgraded, settles |
| Quotations (`controllers/quotationController.ts`, `repositories/quotation*`) | `quotations`, `quotation_drafts`, number sequences | create, edit, approve, remove, raise from report | hand-raised against approval, running numbers | numbers dense and unique, one approval per waiting quotation |
| Quotation sending and payment (`services/quotations/*`, `worker/mailWorker.ts`) | columns of `quotations`, mail tables | send, verify Sent folder, watch replies, decide | stale reads across IMAP and OCR, people deciding meanwhile | a person's decision stands, a payment settles its own quotation |
| Report generation and row edits (`services/callPlanGenerator`, `services/reportRows`) | `daily_call_plan_reports` and rows | generate, carry forward, edit, close | regeneration racing edits | no edit lost, closed rows carried once |
| Closure dates (`services/closureDates`, `repositories/caseClosureDateRepository.ts`) | `case_closure_dates` | replace, merge, enrich | order of imports, claims by work order and by case | one closure per work order, no row claimed twice |
| Inbound mail (`services/inboundEmail`) | mail tables, watermarks | poll, match, reply, compose | backlog, restart, provider failure | no mail lost or stored twice |
| FieldEZ (`worker/fieldezSyncWorker.ts`, `worker/fieldezSlaJob.ts`) | uploads, SLA rows | scheduled browser sync | retries, timeouts | one upload per slot |
| Payroll (`services/payroll`) | scorecard days, assigned cases | scheduler, push | retry of pushes already done | each day pushed once |
| Inventory (`services/inventorySyncService.ts`) | remote items, token | upsert per part | fire and forget, look-then-create | one item per part |
| Delivery challans (`repositories/deliveryChallanRepository.ts`) | challans, sequences | create, edit | running numbers | dense per branch and year |
| Sign-in (`middlewares/loginRateLimit.ts`, `utils/jwt.ts`) | failure buckets, tokens | log in, check | windows | blocked for the window only |
| RTPL statuses (`services/rtplStatuses`) | statuses, cached buckets | edit, read | stale cache | cache follows edits |
| Special and vendor access | grants, sessions | grant, expire, edit | expiry racing use | no use after expiry |
| Everything else (users, engineers, history, RCA, renewals, feedback, parts, layouts, ticketing, uploads, migrations, scripts) | one table each | single statements | little | |

How they interact: requests and workers share only the database. The closed-call
list puts items into the warranty queue and reads its cache; the quotations are
raised by report generation, their mails are found by the mail worker; geocoding
reads the Flex rows the uploads write. Nothing is sent between processes.

`PROJECT.json` lists every component with what is modelled of it, and the hazards
of the code at the line where each bites with the properties that cover it.

## 2. Modules

### WarrantyQueue

The tables `warranty_job_items` and `hp_warranty_cache` and everything that
writes to them: `createWarrantyJob` (read the cache, insert the job, insert the
items: three steps, since two requests may interleave), `retryWarrantyJob`
(reclaim in two statements, reset of the failed items), the drain lanes of
`warrantyWorker` (claim, cache check, question to HP, cache write, settle, or
failure) and its housekeeping lane (the two reclaim statements). An item is a
pair of a job and a serial, as the unique key has it. `locked_at` is NULL,
recent, or older than the stale threshold; `Age` makes it old. A lane that is
alive may therefore lose its row, exactly as in the code. A statement may fail
anywhere (`dbErrors` bounds how often): inside the `try` the item is marked
failed, outside it the lane dies and `run` closes the pool. A crash forgets the
lanes and restarts the process.

History variables (`resets`, `fetched`, `knew`, `requeued`, ...) record what the
properties speak about and guard nothing but the bounds.

### WarrantyJobStatus

EXTENDS the queue with the four requests about a job: its creation, GET, the
download of its file and Retry. All four end in `loadJobDetail`: it counts the
items (`CountItems`), derives the status and, where it differs from the row the
request read at its beginning, stores it whatever the row says by then
(`StoreStatus`). A file request goes on only when the status it derived is
`completed`, and the file is written from a second reading of the items. Nobody
can ask for a job before its creation has answered, since no route lists the
jobs. A job stands for the request that creates it.

### HpLookup

One look-up. `stage` follows `lookupWarranty`; between any two stages the page
may become another one (`HpMoves`): the form again, the prompt for a product
number, a challenge, a result, a page that cannot be read. So the code judges an
`outcome` reported earlier, and then reads whatever page there is, as the source
does. `elapsed` adds up what each stage waits at most: its timeout where it has
one, Playwright's 30 s for `innerText` (whose failure the code takes for an empty
page), and for the poll of `waitForOutcome` its deadline plus the round that
began before it. `page.evaluate` and a submit by the keyboard have no timeout at
all, so no bound on the whole is stated.

### ClosedCallSweep

The daily budget: each caller (a view of the list, the worker's sweep) reads the
cache and the queue, finds or creates the standing job, counts today's items and
inserts. The worker's sweep returns early when nothing is open; a view goes on to
report the budget. What a view answers as CHECKING is what was in flight when it
read the queue, and the whole slice it handed to the insert. The worker resolves
or fails an item, and may find the answer of a serial in `Shared` for an uploaded
job first; days pass.

### GeocodeCascade

The two tables of migration 045 with two sweepers (the worker's housekeeping
lane and the `geocode:sweep` script), the drain lanes and the outside world: Flex
uploads, outages of the provider, answers that outlive their TTL, failing
statements and crashes. A sweep reads its candidates, plans an answer for each
from the cache, queues the addresses and writes the answers as separate steps. Routing
selects its targets in one step (`FindTargets`) and writes what OSRM answered in
another (`WriteDistances`). The history `given` holds the addresses the provider
has answered for, and `Answered` and `Uploaded` let an instance start from a cache
and uploads that exist.
`LanesMayStall` says whether a live lane may outlast the stale-lock threshold.

### MC modules and cfgs

`MCWarrantyQueue`, `MCWarrantyJobStatus`, `MCClosedCallSweep`,
`MCGeocodeCascade` and `MCQuotationMail` declare the model values of an instance
(lanes, serials, symmetry). `MCDeskAndLookups` holds instances that share
no state: it EXTENDS `QuotationDesk`, takes `ClosedCallSweep` (with two budgets)
and `HpLookup` as instances, and `focus` says which of them a behaviour is about;
the others stand still, so nothing of one is hidden by another. It states the
assumptions of the two as its own and the fairness of each over its own steps.
Definitions marked "Mutant" in the models are plausible wrong forms of
the definition that follows them; no specification uses them, they show that
each property can fail.

### QuotationDesk

`quotations`, `quotation_drafts` and the number counters. The detector's run
(`raiseQuotationDrafts`) finds what is unraised and inserts waiting quotations
one by one. A request that raises by hand (`createQuotation`) or approves
(`approveQuotationDraft`) is a transaction: it takes the row locks it takes in
the code (the waiting quotation by `FOR UPDATE`, the counter row by its upsert),
holds them to COMMIT or ROLLBACK, and what it did becomes visible at COMMIT.
Any statement of it may fail. Removal and the correction of a work order are
single steps. A typed work order may be one no report lists (`Elsewhere`). A
removal waits for a row an approval holds, as the UPDATE does.

### QuotationMail

What happens to raised quotations. The API mails one (`sendQuotationController`:
the mail leaves, then `markQuotationSent`; the request may die in between) and
sets a payment status; people also mail from webmail; mail arrives. The mail
worker's sweep asks the Sent folders about a batch of unsent quotations, records
what it found and what it did not, lists the open quotations, and for each reads
the replies, judges them and records the verdict or takes the flag off. The list
and the verdict are variables of their own: everything else may happen between
the read and the write.

A quotation may have no customer address. It is then never asked of a Sent
folder, and anybody but ourselves and the partners we thread with counts as its
customer when a reply is judged (`IsFromCustomer`). A mail carried out a
quotation when the folder search finds the customer among its recipients
(`FoundBy`) and it left no earlier than `Slack` before the quotation was created
(`CREATED_SLACK_MS`): recorded as the recipient is the first one of the mail
found, which need not be the customer.

Abstractions: which Sent folder answers first is open; a mail sent from here
either is filed there or never is; one mail of a quotation is on its way at a
time; the reads for one quotation are one step (the inbox only grows, and every
fact read stays true); a mail is a sender, the work order the ingest matched (or
none) and one of five letters, for which `Words` and `Picture` give what
`detectPaymentSignal` and `readScreenshotPayment` answer; OCR may read nothing of
a picture; a mail is stored at the moment it is dated, so out-of-order ingest is
not covered; a quotation's address, work order and amount do not change.

## 3. Runs

| Run | Module, cfg | Checks | Shows |
|---|---|---|---|
| `warranty_queue` | `MCWarrantyQueue`, `WarrantyQueue.cfg` | `TypeOK`, `RowCoherent`, `ExclusiveClaim`, `AttemptsBounded`, `NoLateFetch`, `AnswersAreCached`, `AnswersAgree`, `FetchesBounded`, `OnlyRetryReopens` | Two uploads of one serial, two drain lanes, reclaim, a Retry with a higher attempt limit than the worker's, a crash and a failing statement: rows stay coherent, claims exclusive and bounded, what reaches HP, jobs and cache agree, and only a Retry reopens an item. |
| `warranty_job_status` | `MCWarrantyJobStatus`, `WarrantyJobStatus.cfg` | `JobTypeOK`, `CompletedStands`, `FileWhole`, `ItemsSettle` | The upload of a job and two requests about it (GET, file, Retry) over a lane and a worker crash: a job seen completed stays completed and its file whole unless somebody presses Retry, and every queued item settles, one whose worker crashed by being put back and claimed again. |
| `warranty_hiccup` | `MCWarrantyQueue`, `WarrantyHiccup.cfg` | `ItemsSettle` (violated) | One failed statement outside the lane's try block closes the pool of a process that goes on running: the queue is never drained again. |
| `hp_lookup_stale` | `HpLookup`, `HpLookupStale.cfg` | `NeverRobbed` (violated) | The stages' timeouts add up to more than the 300 s after which the lock is taken for abandoned. |
| `closed_call_checking` | `MCClosedCallSweep`, `ClosedCallChecking.cfg` | `CheckingInWork` (violated) | A serial whose look-up has failed is shown as CHECKING although nothing is queued for it. |
| `geocode_cascade` | `MCGeocodeCascade`, `GeocodeCascade.cfg` | `TypeOK`, `RowCoherent`, `ForeignKey`, `AttemptsBounded`, `PointBacked`, `NeverDowngraded` | Worker and script sweeping at once, two lanes that may outlast the stale-lock threshold, an outage, an expiry, and a failed statement or crash: what holds even when a late lane overwrites a row it lost. |
| `geocode_settles` | `MCGeocodeCascade`, `GeocodeSettles.cfg` | `OwnRow`, `PointBacked`, `DoneIsTerminal`, `CentroidsUpgrade`, `WorkOrdersSettle`, `BacklogDrains` | Lanes that stay under the threshold, three work orders against limits of two, the first of which stays in the set: each lane owns its row, every work order with an address ends on the provider's coordinate while fewer than SweepLimit have none, and the backlog of routes drains while fewer than RouteLimit are turned down. |
| `geocode_poison` | `MCGeocodeCascade`, `GeocodePoison.cfg` | `OutageHeals` (violated) | An outage longer than the attempts leaves an address failed for ever. |
| `geocode_backlog` | `MCGeocodeCascade`, `GeocodeBacklog.cfg` | `BacklogAlwaysDrains` (violated) | An address OSRM cannot route, first by key, keeps the only place of the limit, and the address behind it is never routed. |
| `desk_and_lookups` | `MCDeskAndLookups`, `DeskAndLookups.cfg` | `TypeOK`, `NumbersDense`, `ApprovedOnce`, `ListTypeOK`, `OverrunBounded`, `LookupTypeOK`, `AnsweredOnlyLanded`, `DecisionStands`, `RequestEnds`, `ListFills` | Three parts that share no state, one per behaviour. The quotation desk with three requests in flight that may fail: numbers stay dense, a waiting quotation is raised once, a decision stands, nobody waits for ever on a row. The closed-call list with a serial HP never resolves: that with a budget of two the rest is looked up, and how far a budget of one can be overrun. One look-up on a page that HP changes between any two stages: no answer for a serial that never reached a result page. |
| `quotation_mail` | `MCQuotationMail`, `QuotationMail.cfg` | `TypeOK`, `AutoBacked`, `SentBacked`, `DecisionStands` | A Visit and a Part quotation, the second with or without a customer address: sends from here and from webmail, to one or two recipients, some minutes before the quotation is raised included, the Sent-folder check, replies of the customer, of others and of partners, decisions by hand and failures, in every order: what the worker settles and calls sent has the evidence it claims, and a decision stands. |
| `quotation_undo` | `MCQuotationMail`, `QuotationUndo.cfg` | `HandDecides` (violated) | A quotation set back to PENDING by hand is settled again by the next sweep, from the same mail. |

### Bounds, and why they are enough

* Two lanes, two requests or two sweepers: every race found is between two
  actors over one row; a third adds no new kind of interference because the rows
  are only related through the cache.
* Two items of one serial (two jobs) is the least in which the cache matters
  across jobs. Blank serials are in no run (a second serial is too much for the
  instance); the theorem `BlankStaysHome` speaks of them.
* `MaxAttempts = 2` distinguishes a first from a last attempt; in `warranty_queue`
  Retry has a limit of 3, as the two are separate settings in the code. Retry,
  crash, failing statements, outages and expiries are bounded by one or two each:
  every property concerns what one fault does to what ran before and after it.
* The job status: one job, two requests besides the one that creates it, one
  lane. With two attempts an item whose worker crashed is put back and claimed
  again, which `ItemsSettle` needs to say anything; races of two lanes are the
  business of `warranty_queue`. No statement fails there: with one that does,
  `ItemsSettle` is violated (`warranty_hiccup`).
* The look-up runs with the production timeouts; a stage takes no time or all it
  may.
* The closed calls: a budget of two against three serials, the first of which HP
  never resolves and which comes back to the front of every slice, so that the
  serials behind it are served past one that is not; and a budget of one, of which
  three serials show an overrun (the bound of `OverrunBounded` is reached). A
  viewer, the worker's sweep, two standing jobs, one serial shared with an upload. `closed_call_checking` needs one viewer and one serial.
* The quotation desk: both kinds of one work order, one financial year and three
  requests, so that two wait while one holds a row, or two approve what the third
  removes; two quotations may be committed, the least for a race over a number.
* The cascade: `geocode_cascade` has two lanes that may stall, an outage, an
  expiry, and a failing statement or a crash, `geocode_settles` no such faults but
  three work orders and three addresses against `SweepLimit = RouteLimit = 2`:
  the first work order is too thin to have an address and stays in the set, and
  the first address is one OSRM cannot route, so both limits bind, and the third
  entry is reached only because one entry does not fill the limit.
* The quotation mail: a Visit and a Part quotation of one work order, the pair
  the code's comments worry about, the second with the customer's address or
  without. `MaxTime = 4` and `Slack = 2`: a mail may come before, between and
  after the two quotations, within the slack and before it; one mail sent, one
  decision by hand, one failure. `Batch = 1` makes the order in which the Sent
  folders are asked matter.

### Fairness

* Lanes and the housekeeping lane loop for ever and every wait in them has a
  timeout, so each of their steps is weakly fair while the pool is open.
* HP's and the provider's answer: the code turns silence into a failure by its
  timeouts, so *some* answer comes; that it is a good one is never assumed.
* A row lock is granted in turn by Postgres, so a request that can take its next
  step again and again takes it (strong fairness of `Proceed` in
  `QuotationDesk`); that a transaction fails is never owed.
* `QuotationMail` and `HpLookup` state no fairness and no liveness.
* Requests that have begun run on; that somebody uploads, views the list or
  presses Retry is never assumed.
* Time passes: locks grow old and days end.
* Faults (crashes, failing statements, outages, expiries) are never owed.

## 4. What is proved

TLAPS proves the theorems below for every value of the constants (any number of
lanes, jobs, serials, addresses, requests, work orders, any bound), from the
named assumption on the constants each module states (`ASSUME`), which TLC
evaluates in every run.

| Module | Theorem | Property | Says |
|---|---|---|---|
| `WarrantyQueueProofs` | `TypeCorrect` | `TypeOK` | Every variable of the warranty queue keeps its type, for any number of jobs, serials and lanes. |
| `WarrantyQueueProofs` | `RowsCoherent` | `RowCoherent` | The columns of an item agree with its state: lock with processing, look-up status with done, whatever fails, crashes or is reclaimed. |
| `WarrantyQueueProofs` | `ClaimsExclusive` | `ExclusiveClaim` | Two lanes hold one item only if it was put back to the queue under one of them (a stale lock that housekeeping or a Retry reclaims). |
| `WarrantyQueueProofs` | `ClaimsBounded` | `AttemptsBounded` | Attempts stay below the configured limit plus what the Retry requests allow. |
| `WarrantyQueueProofs` | `LateFetchImpossible` | `NoLateFetch` | A serial already cached when its item was claimed is never asked of HP. |
| `WarrantyQueueProofs` | `AnswersKept` | `AnswersAreCached` | Every answer an item carries is in the permanent cache. |
| `WarrantyQueueProofs` | `AnswersConsistent` | `AnswersAgree` | An item's answer is the cached answer of its serial, unless HP was asked for that serial more than once. |
| `WarrantyQueueProofs` | `BlankStaysHome` |  | The blank serial is never asked of HP. |
| `WarrantyQueueProofs` | `ReopenedByRetryOnly` | `OnlyRetryReopens` | No step but a Retry takes a settled item back to pending. |
| `GeocodeCascadeProofs` | `TypeCorrect` | `TypeOK` | Every variable of the geocoding cascade keeps its type. |
| `GeocodeCascadeProofs` | `RowsCoherent` | `RowCoherent` | A done row has an answer and no lock, a pending or failed row no lock, even with lanes that outlast the threshold. |
| `GeocodeCascadeProofs` | `ReferencesHold` | `ForeignKey` | A work order's address key always names an address with a cache row, so the foreign key never fails a write. |
| `GeocodeCascadeProofs` | `AskedBoundedly` | `AttemptsBounded` | An address is never asked of the provider more than MaxAttempts times between two answers. |
| `GeocodeCascadeProofs` | `LanesOwnRows` | `OwnRow` | When lanes stay under the threshold, a lane with a row in hand is the one the row's lock stands for. |
| `GeocodeCascadeProofs` | `AnswersOnlyImprove` | `NeverDowngraded` | A work order on a provider's coordinate never goes back to a centroid. |
| `GeocodeCascadeProofs` | `AnswersStay` | `DoneIsTerminal` | When lanes stay under the threshold, only the expiry reopens an answered address. |
| `GeocodeCascadeProofs` | `PointsBacked` | `PointBacked` | Every provider coordinate a work order shows was given by the provider for the address it is keyed by, whatever stalls, expires or crashes; and while nothing stalls or expires, that address has an answered cache row. |
| `QuotationDeskProofs` | `TypeCorrect` | `TypeOK` | Every variable of the quotation desk keeps its type, for any number of requests, work orders and years. |
| `QuotationDeskProofs` | `LocksAreHeld` |  | A request with a number holds the counter's row and its number is the next one; one that approves holds its waiting quotation's row, which is still WAITING: what makes the other theorems inductive. |
| `QuotationDeskProofs` | `NumbersAreDense` | `NumbersDense` | The numbers of every series are 1, 2, ... up to its counter, each on exactly one quotation. |
| `QuotationDeskProofs` | `ApprovedExactlyOnce` | `ApprovedOnce` | A waiting quotation is approved exactly when one quotation was raised from it, and points at it. |
| `QuotationDeskProofs` | `DecisionsStand` | `DecisionStands` | No step changes an approved or removed waiting quotation. |


The argument for the warranty queue. `TypeOK` is inductive by itself.
`RowCoherent` is not: a lane that settles a row writes `done` with the answer it
has in hand, so the strengthened invariant says what a lane holds in each place
of its loop (an item it claimed and an answer only after HP or the cache gave
one). `ExclusiveClaim` needs that a row that left a lane's hands was requeued
under it, which is what `requeued` records. `AnswersAreCached` and
`AnswersAgree` rest on an invariant about the answers in flight: what a lane
carries to `settle` is already in the cache, and what `createWarrantyJob` read
from the cache is still there when the items are inserted, because the cache
only grows and an upsert never changes what was known. The others follow from
the same step lemmas.

The argument for the cascade. `RowInv` strengthens `RowCoherent` with what a
lane may write. `ForeignKeyInv` adds what a sweep has planned: a planned answer
is only written after the addresses were queued, and rows of `geocode_cache` are
never deleted. `AttemptsInv` bounds the attempts of a pending row by one less
than those of a claimed one. `OwnInv` (only when lanes stay under the threshold)
ties a lane's row to its lock. `PointInv` follows a provider coordinate from the
cache through the plan of a sweep into the work order. Its first half, that the
provider gave the coordinate for that address (`given`), needs no condition: an
answer enters the cache with the address in `given`, and from then on it is only
copied. Its second half, that the cache row still stands behind the coordinate,
is proved where lanes do not stall and nothing has expired; an expiry reopens the
row, and a late lane may overwrite it.

The argument for the quotation desk. `NumbersDense` and `ApprovedOnce` are
statements about committed rows, and are inductive only together with what each
request holds on the way: `LocksHeld` says that a request that approves holds
the waiting quotation's row from its first statement on, one that has a number holds the
counter's row and its number is the next one, and the waiting quotation it holds
is still WAITING. The lock is what keeps the counter and the waiting row still
until COMMIT, so the commit appends exactly number `seq + 1` and approves a row
nobody else decided. `DecisionStands` follows from the same invariant: the only
steps that write a waiting quotation's status are the insert (of none), the
commit and the removal (of a WAITING one).

Only model-checked: every liveness property (TLAPS does not prove ENABLED and
fairness arguments here), `FetchesBounded` (a count over lanes needs induction
over finite sets), `HpLookup`, `ClosedCallSweep`, `WarrantyJobStatus`
and `QuotationMail`.

## 5. Findings

Each is a run that TLC must find violated.

* `warranty_hiccup` / `ItemsSettle` at `src/backend/src/worker/warrantyWorker.ts:140`: src/backend/src/worker/warrantyWorker.ts:197 says "A transient DB hiccup must not kill the lane; back off and retry." Only the claim is guarded: findCachedWarranty (line 140) runs outside processItem's try and markItemFailed (line 179) inside its catch is unguarded, so one failed statement there rejects the lane, Promise.all in run (line 271) rejects, and the pool is closed while the other lanes go on against it; nothing drains the queue until the process is restarted.
* `hp_lookup_stale` / `NeverRobbed` at `src/backend/src/worker/warrantyWorker.ts:60`: src/backend/src/worker/warrantyWorker.ts:60 says the stale threshold is "Generously above the 45s lookup timeout plus the pacing delay, so a slow-but-alive worker is never robbed of its item." The 45 s is the limit of each stage of lookupWarranty, not of the look-up: the stages add up to more than the 300 s threshold.
* `closed_call_checking` / `CheckingInWork` at `src/backend/src/services/warranty/closedCallWarrantyService.ts:84`: src/shared/src/types/warranty.ts:25 says "CHECKING - enqueued, worker not done yet". enqueueUncached returns the whole slice as queued (line 84), and getClosedCallWarrantyStatuses shows it as CHECKING (lines 131, 153), whether or not a row was inserted: for a serial whose look-up has failed the standing job has a row already, ON CONFLICT DO NOTHING inserts none, and the list says CHECKING although nothing is queued, on every view from then on.
* `quotation_undo` / `HandDecides` at `src/backend/src/repositories/quotationWatchRepository.ts:449`: src/backend/src/repositories/quotationRepository.ts:585 says "Set by hand from here on. Someone has looked, so the badge must stop claiming a machine decided it and the watcher must not re-decide." recordQuotationReplyState and listQuotationsAwaitingReply (line 81) look at payment_status = 'PENDING' only, not at payment_source: a quotation somebody sets back to Pending by hand is settled again by the next sweep from the same mail.
* `geocode_poison` / `OutageHeals` at `src/backend/src/repositories/geocodeRepository.ts:251`: src/infra/postgres/migrations/045_work_order_geocoding.sql:90 says "'failed' stays retryable by design - a provider outage must not poison an address forever". retryFailedAddresses only retries rows with attempts < max and nothing resets attempts of a failed row: an outage that lasts MaxAttempts sweeps leaves the address failed for ever.
* `geocode_backlog` / `BacklogAlwaysDrains` at `src/backend/src/services/geo/addressRoutingService.ts:112`: src/backend/src/services/geo/addressRoutingService.ts:29 says "Bounded per office per run; the worker calls this every sweep, so a backlog drains in a few cycles." An address that the pincode gate or OSRM turns down gets no row in office_address_distances (lines 132-156), so it stays first in ORDER BY g.address_key LIMIT $3: as many of them as the limit keep every address behind them unrouted.

### Other behaviour seen while modelling

Not asserted by a run, but visible in the models; a reader of the properties
should know of it.

* The warranty cache is read before HP is asked and written after, with nothing
  reserved: two jobs with one serial on two lanes ask HP twice
  (`FetchesBounded` says how often at most).
* The result file counts the items in one statement and reads them in another: a
  Retry in between leaves a queued serial blank in it.
* `stop_grace_period` of the warranty worker is 90 s; one look-up may need more.
* The daily budget of the closed calls is counted and spent in separate
  statements, so two callers overrun it (`OverrunBounded` says by how much), and
  two first callers create two standing jobs. As many serials as the budget that
  HP never resolves starve the list behind them (`ListFills` is about fewer).
* A look-up whose page becomes a challenge, or cannot be read, after the address
  of the result was seen and the last check for a challenge passed, is answered
  NOT_FOUND and kept in the permanent cache (`AnsweredOnlyLanded` says no more
  than that HP had landed on a result for the serial).
* A job whose items could not be inserted stays without items, and would read as
  completed; nobody is told its id.
* A request may store a status older than the one stored; the next request that
  reads the job repairs it.
* The geocoding sweep takes an ordered LIMIT of work orders; as many as the limit
  without an address or centroid keep those behind them out (`WorkOrdersSettle`
  is about fewer). The same of the routing is a finding, since its comment
  promises otherwise.
* Raising by hand does not look at waiting quotations, and approval looks for
  committed quotations only: done at once they give the work order two.
* Mail of anybody on the work order keeps the customer's unplaced mail from being
  read at all: the fallback is taken only when the work order has no mail, and the
  sender is looked at afterwards.
* One mail on the work order settles the Visit and the Part quotation, if both
  were open when it came; an unplaced mail that was ambiguous between two
  quotations settles the second once the first has been decided by hand.
* Of several mails with pictures only one is read when the words are not enough,
  and a failing look for unplaced mail takes the "replied" flag off.
* A quotation recorded as asked and not found because a mailbox could not be
  opened is not asked again for a day.

## 6. Not modelled, and the plan

Left out of the modelled components: wording and layout, the parsing of
workbooks and pages, distances, paging and search. A graceful
shutdown of the warranty lanes is modelled as a crash (it leaves no more than a
crash does).

The plan, most important behaviour first:

1. **LeasedQueue**: an abstract queue with leases that `WarrantyQueue` and
   `GeocodeCascade` both implement (refinement mappings, then the step
   simulation proved).
2. **ReportGeneration / ReportRowEdit / ClosureDates**: generation with manual
   field carry-forward, synthetic closed rows and the enricher's claims, against
   row edits and imports.
3. **InboundMail**, **InventorySync**, **PayrollSync**, **FieldezSync**: the
   external synchronisations with their retries.
4. **ChallanNumbers**, **SignIn**, **StatusBuckets**, **SpecialAccess**.
5. Pure algorithms as operators against reference definitions:
   de-duplication by ticket, the matching engine, WIP aging, status buckets,
   closure status classification.
6. **QuotationMail**: that a send is noticed in the end whatever the Sent folder
   check met first (liveness, on an instance with one quotation), and that an
   unplaced mail settles only a quotation that was alone open when it arrived.
7. Proofs: `FetchesBounded` by cardinality lemmas, the job status invariants,
   and the safety of each new module.

