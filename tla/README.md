# OmniStock in TLA+

OmniStock is a NestJS/PostgreSQL/BullMQ application with a React frontend. It
keeps the stock of a company in one place, imports orders from marketplaces
(Mercado Livre), reserves stock for them and publishes the availability of
products back to the marketplaces. This directory models the parts of it where
operations of several actors meet: concurrent requests, queue workers,
marketplace notifications, browser tabs, crashes, retries and late answers.
Paths below are relative to `api/src/` unless they begin with `frontend/`,
`docs/` or `README.md`.

## 1. The system

| Component | State it keeps | Operations | Talks to |
|---|---|---|---|
| Central stock (`inventory/`) | balance per product with a version, reservations, ledger of movements, outbox events | entry, exit, adjust, reserve, complete and cancel a reservation, reserve / settle all lines of an order, reverse a sale | kits (availability of dependants), orders (called inside their transactions), outbox |
| Stock synchronisation (`marketplace-connectors/stock/`) | outbox events, one `marketplace_stock_syncs` row per link and version, BullMQ jobs | publish the outbox, fan out, synchronise, request by hand, retry | central stock (read), marketplace API |
| Notifications (`marketplace-connectors/webhooks/`) | event rows with status and generation, advisory locks, queue jobs, cooldowns | receive, publish, recover, process, administrative retry and ignore | handlers |
| Notification handlers (`webhooks/mercado-livre-webhook.dispatcher.ts`) | divergences between stock and marketplace | order, payment, shipment, product, stock location | orders, listings, stock |
| Orders (`orders/`, `marketplace-connectors/orders/`) | order with four statuses, lines with frozen components, shipment, billing outbox | ingest, import, process, cancel, complete, resolve, reprocess | central stock, marketplace API |
| Reconciliation scan (`marketplace-connectors/orders/`) | cursor, lock and date of the last scan of an account | start, read a page, succeed, fail | orders (jobs), marketplace API |
| Mercado Livre connection (`marketplace-connectors/mercado-livre/`, `core/`, `sales-channels/`) | connection row, encrypted tokens, authorization states, sync runs | authorize, callback, renew, edit, disconnect, enqueue and run imports | every call to the marketplace |
| Connector and HTTP client (`mercado-livre.connector.ts`, `mercado-livre-api.client.ts`) | none beyond one operation | requests with attempts, timers, a deadline and classified errors | the provider |
| Fiscal configuration (`fiscal/`) | establishments, document number sequences, profile versions of products, tax rules, reviews | save, set default, review, change a number, save a profile or a rule | readiness of orders |
| Kits (`product_bundles/`, `product_bundle_components/`, `products/`) | composition and status of products | create, add, change and remove components, expand, cycle check, announce changes | central stock, outbox |
| Product links (`product-marketplace-links/`) | links of listings to products, audit rows with idempotency keys | link, accept a suggestion, unlink, validate | orders (lines are resolved by links), stock synchronisation |
| Companies (`companies/`) | company, memberships with roles | create, edit, deactivate, add and change members | guards of every request |
| Accounts (`auth/`, `users/`, `frontend/src/api/`, `frontend/src/contexts/`) | user row with digests of the refresh token and of mailed links, cookie, access tokens in tabs | register, log in, renew, log out, change and reset the password, verify | every page |
| Pages (`frontend/src/pages/`, `components/`) | what a page shows, requests under way, company and filters | load, reload, act, switch the company | every read of the API |
| Connector contracts, mail, configuration, health, schema and seeds | single rows, or none | dispatch, I/O | |

### What is hard, and what makes each part correct

* **Central stock.** Every writer takes the company's advisory lock, but one
  operation walks over many rows and may fail half way. The reserved quantity of a
  balance and the reservations must never drift apart, nothing may be promised that
  is not there, a sale is returned once although two operations return sales, the
  ledger must explain the balance, and the newest outbox event must tell the
  availability.
* **Stock synchronisation.** Three kinds of jobs with reads, slow calls and writes
  that interleave; the balance moves on meanwhile; the queue or the process dies
  between two statements. Nothing may be lost silently, the history must be honest,
  and a marketplace must end up showing the current stock.
* **Notifications.** Several instances, duplicated and lost jobs, handlers slower
  than the recovery's patience, dead handlers, rate limits. One handler per account,
  no event lost, none handled for ever, none reopened. A handler compares an item
  read before the stock with stock read after it: an alarm must be real and noted
  once.
* **Orders.** What a job carries was read earlier and may be old; import and
  processing are different transactions; users cancel and complete meanwhile.
  Statuses must not go back, a cancelled order must not keep stock, a ready order
  must have it, billing must hear of every reserved order. The scan must not step
  over updates that move orders behind its cursor.
* **Connection.** Several jobs find the tokens expired at once, a redirect is
  repeated, a user disconnects while a renewal is under way, and everybody saves the
  whole row read before the network call. A refresh token and a state are
  presented once; an import that was asked for ends. Of a request whose answer is
  lost nobody knows whether it was carried out: writes are not repeated.
* **Accounts.** Two requests present one refresh token, a password changes while a
  login is being checked, answers arrive after the logout.
* **Companies, kits, links, fiscal.** Check-then-write: the last administrator, a
  cycle closed by two changes, a key used by two requests, two defaults, two
  periods, a form older than the row.
* **Pages.** Answers that come after the filter or the company changed.

`PROJECT.json` lists these hazards at their lines, with the properties that
cover them.

## 2. Modules

| Module | Models | Uses |
|---|---|---|
| `Inventory` | `InventoryService` and `queueChanges` | |
| `InventoryProofs` | theorems about it, the ledger and the outbox included | `Inventory`, TLAPS |
| `StockSync` | `MarketplaceStockProcessor`, `MarketplaceStockSyncService` | |
| `StockSyncProofs` | theorems about it | `StockSync`, TLAPS |
| `Webhooks` | `MarketplaceWebhookService`, publisher, worker | `Delivery` |
| `Delivery` | abstract: what the handling of a notification promises | |
| `WebhooksProofs` | theorems about it, and the refinement | `Webhooks`, TLAPS |
| `Orders` | `OrderImportService`, `OrderProcessingService`, parcel handler, `OrdersService` | |
| `OrdersProofs` | theorems about it | `Orders`, TLAPS |
| `Connection` | `MercadoLivreIntegrationService`, `MarketplaceCredentialProvider`, `SalesChannelsService`, `MercadoLivreSyncService` and its processor | |
| `Calls` | `MercadoLivreConnector` over `MercadoLivreApiClient` | |
| `Scan` | the schedule, the queue and the processor of the reconciliation | |
| `Notices` | `product` and `stockLocations` of the dispatcher | |
| `Provider` | composes the four above | `Connection`, INSTANCE of the others |
| `ProviderProofs` | theorems about the four | `Provider`, TLAPS |
| `Fiscal` | `FiscalService` and the page that edits a sequence | |
| `FiscalProofs` | theorems about it | `Fiscal`, TLAPS |
| `Kits`, `Links` | compositions and products; links, audit rows, keys | |
| `Catalogue` | composes them: the status of a product is shared | INSTANCE of both |
| `Members` | `CompaniesService` behind its guards | |
| `MembersProofs` | theorems about it | `Members`, TLAPS |
| `Sessions` | `AuthService`, `JwtStrategy`, HTTP client, `AuthContext` | |
| `Screens` | how seventeen pages load and reload, `CompanyContext` | |
| `Office` | composes `Fiscal`, `Catalogue`, `Members`, `Sessions`, `Screens` | `Fiscal`, INSTANCE of the others |
| `OfficeProofs` | theorems about its parts, but for `Fiscal` | `Office`, INSTANCE of `MembersProofs`, TLAPS |
| `MC...` | instances for TLC, one module per checked module and one `.cfg` per run | the module they instantiate |

Operators whose name ends in an underscore and a word (`Live_Any`,
`Fail_Forgotten`, ...) are broken variants of the definition that follows them.
Nothing uses them; they are there to show that each property notices a plausible
bug (`PROJECT.json`, "mutants").

`Provider` and `Office` put parts side by side that share no variable: a part
holds what it needs of another as data or as a failure that may come at any step. A
variable `part` chooses at the start whose behaviour is looked at, and the
others rest in one initial state (`Resting`), since interleaving them would add no
behaviour to any of them. `Catalogue` is a true composition: a product's status
changes while a link is being made.

### Inventory

`db` holds the committed rows: `current`, `reserved`, `version` per product,
`resv` per line (product and reference), `moves`, the ledger, and `events`, the
outbox. An operation on one balance (`Entry`, `Exit`, `Adjust`,
`CreateReservation`, `ProcessReservation`, `ReverseSale`) is one action, because
its transaction holds the company's lock from its first statement. The operations on all lines of
an order (`BeginReserve`, `BeginSettle`, `BeginRelease`) are transactions of many
steps on `work`, the uncommitted copy, ended by `Commit` or `Rollback`; lines are
taken in the order of their product, as the code sorts them. `Persist` is
`persist`: its legality check, balance, movement, event when availability
changed, and the version and event of every kit that contains the product.
Idempotency keys are used up by the ledger; a repeated key changes nothing, so
only fresh keys are actions. Quantities are naturals (the code computes with
`bigint` thousandths). Kits consist of physical products (`expand` flattens them).

### StockSync

The balance is the history `stock` of its availability by version. `events`,
`rows` (one per link and version), the BullMQ jobs `fan` and `jobs`, and
`external`, the version each marketplace shows, change one statement at a time:
`Claim`, `PublishAdd`, `PublishSave`, `PublishFails`; `FanoutStart`, `FanoutSave`,
`FanoutAdd`, `FanoutFails`; `SyncStart`, `SyncRead`, `SyncSend`, `SyncCheck`,
`SyncFails`, `SyncEnd`. `Change` is a movement, with or without an event,
`Request` the synchronisation asked for by hand, `Toggle` a link or an account
that is lost and found, `Crash` the end of the process, after which BullMQ runs
stalled jobs again. Workers are counted, as the queue limits how many jobs run.
`past` is history only: the events a publisher held when it died (`dropped`) and the
rows a repeated fan-out reopened while their job had not yet ended (`crossed`).

### Webhooks and Delivery

An event has `status`, `attempts` and a generation; since generations are only
compared for equality, a worker remembers whether its generation is still `fresh`.
`Receive`, `AdminRetry`, `AdminIgnore`; `Publish` (recovery of interrupted and lost
events included), `AddJob`, `AddFails`; `Take`, `TryLocks`, `Defer`, `Claim`,
`Dispatch`, `SaveResult`, `Unlock` are the code's steps, with the two advisory
locks as variables. `WorkerCrash` frees the locks with the session,
`PublisherCrash` loses the jobs not yet added, `Stall` hands the job of a slow
worker to another, `PublishDelayed` republishes a job that only looked lost.

`Delivery` says what all of this amounts to for one event: it is accepted or
refused, handled at most `MaxAttempts` times until it has an outcome, never touched
again once it was handled with success, and reopened only from `failed` or
`ignored`, with a new budget. The refinement maps statuses to outcomes (an event that
waits, is queued or being processed is open) and counts the handlers started.

### Orders

One order, seen by several jobs. `ext` and `parcel` are what the marketplace
says; a job reads them (`ReadParcel`, `Fetch`) and writes later (`Import`,
`Process`, `ApplyParcel`), each in a transaction that locks the order's row. The
words of the marketplace and their mapping are translated for the statuses that
occur here; both rank tables of `preserveImportedProgress`, with what a missing
rank does, are kept. The connector imports every order with shipping status
`pending`, so `ImportedRow` does. Whether stock suffices and which lines have an
active link is decided by other parts of the system at any time: `Process` and
`Import` find either. `UserCancels`, `UserCompletes` and `UserEndsReservation`
(the stock screen) run between any two steps, `Fail` ends an attempt anywhere.

### Provider: Connection, Calls, Scan, Notices

*Connection.* `conn` is the row (status and expiry), `cred` the stored pair, `run`
the imports asked for, `lock` the lock in the memory of the process under which
`MarketplaceCredentialProvider` renews. A job or a request (`proc`) remembers the row
it read and saves all of it later, changed columns and old ones; so do a callback
(`back`) and a user (`user`). `shop` is the marketplace: the pairs it issued and
the refresh tokens it still accepts; each is accepted once. A pair of tokens
is the number of its issue.

*Calls.* One operation of the connector and its requests, each in the loop of
`raw()`: the deadline is looked at before an attempt, a GET has three attempts and
anything else one, a deadline leaves the repetition of a 429 or 503 to the worker.
Whether the provider did what it was asked is kept apart from what was heard of it.

*Scan.* Orders are listed by creation from a date, page by page; a scan saves its
cursor after each page, ends after `MaxPages`, and asks from `Overlap` before the last
success. Its lock is a date in a row that is read and then saved. Updates at the
provider move orders into the list behind the cursor.

*Notices.* A handler reads the item, the stock and the last synchronisation one
after the other (`handler`), while balance and synchronisations go on, and judges a
mismatch as an echo, a stale event or an external change; a divergence is looked
for and then noted in two steps that only the account lock protects.

### Office: Fiscal, Catalogue, Members, Sessions, Screens

*Fiscal.* Every write is one transaction under the lock of the company, so one action:
`est`, `setting`, `profile` and `rule` are the rows, `seen` what a user has on the
page when a number is corrected with the version of that row. The exclusion
constraint on profiles and the unique index on defaults are left out on purpose:
the properties show that the code never lets them be the ones to refuse.

*Kits.* Compositions over any number of levels. Every write of a composition and
every movement of a stock holds the advisory lock from its first read, so is one
action; the status of a product is written without it, and an edit saves the whole
row it read (`edit`). `told` is the availability in the newest event of a kit. What a
product is made of is what every closed set with it contains (`Below`): the recursive
descent of `detectCycle`, stated so that it can be proved about.

*Links.* A request is a transaction of two steps: without a lock it looks for an
audit row with its key and reads the product; under the lock of the listing it
decides. The audit row holds key, hash and answer. A batch is a row of single links
with keys of their own.

*Members.* A request enters through the guard with the role its actor has then,
reads the row, counts the administrators when it takes one away, and saves the row it
read, four steps without any lock.

*Sessions.* The row of the user with the digest of one refresh token and of two
mailed links, the cookie, tabs with their access token and the renewal they
share, requests that retry once after a 401. A password is its version; an access
token is the version it was issued under.

*Screens.* A page is a record of how it loads: mounted anew for each company,
watching the company, asking later than its effect, disowning its requests, what
it does after an action, hiding data of another company. The seventeen pages are
values of it, one of which is looked at in a behaviour.

## 3. Runs

| Run | Bounds | Shows |
|---|---|---|
| `inventory` | 2 products, 1 kit of both, 1 order item, 1 manual reservation, 2 keys, 6 movements, quantities to 2 | reserved stock is there and settlements are never refused half way (`ReservationsAreCovered`), sales match completed lines (`SalesMatchReservations`), the ledger chains to the balance, the newest event tells the availability of products and kits, reservations are all or nothing, nothing ended is revived |
| `stock_sync` | 1 link, 2 versions, 2 workers, 2 attempts, 1 manual request, 1 fault, 1 crash | `SUCCESS` rows sent their own version, no event is stranded but those a publisher held when it died, and no pending row is left behind but in three named cases (`NothingDropped`), started work ends (`BegunWorkEnds`) |
| `stock_superseded` | 3 versions | **violated**: see findings |
| `stock_overwrite` | 3 versions | **violated**: see findings |
| `webhooks` | 2 events of one account, 2 workers, 2 attempts, 1 crash, 1 delay, 1 administrative action | one handler per account and recovery spares live ones (`HandlersAreExclusive`), the whole implements `Delivery` (`ImplementsDelivery`: bounded attempts, processed is final), every event settles |
| `orders` | 1 line, 2 jobs, 2 attempts, 2 versions of the order and of the parcel, 1 extra job | cancelled orders hold nothing, ready ones are reserved and billed (`BillingMatchesStock`), paid ones are decided, statuses and documents do not go back (`HistoryAdvances`), a cancellation arrives |
| `orders_parcel` | 1 job, every status of the parcel | **violated**: see findings |
| `provider` | connection: 2 pairs of tokens, 1 import, 1 other caller, 1 redirect, 1 event (disconnection, crash or lost answer); calls: pages of 2 items; scan: 3 orders, 2 pages of 1, overlap 1, lock 2, 3 minutes; notices: 2 handlers, 2 quantities, 2 versions, 1 foreign change | secrets are spent once (`SecretsSpentOnce`), writes are asked once and outcomes told truly (`CallsKeepTheirLimits`), no update slips through the scans (`NoUpdateSlips`), no divergence is open twice, alarms are real, an import ends (`RequestedRunEnds`) |
| `office` | fiscal: 2 users, 2 establishments, 1 sequence, 2 scopes, 3 dates, writes worth 6; catalogue: 3 products, 1 listing, 2 keys, 2 callers, units to 2, 4 changes; members: 2 persons, 2 requests, 3 saves; sessions: 1 tab, 2 requests, 3 tokens, links and passwords together; screens: 2 loads, 2 companies, 2 filters, 3 clicks | periods and rules do not overlap (`PeriodsDisjoint`), what is ready was reviewed, numbers are changed by those who saw them, no cycle of kits, their changes are announced, links, keys and audit agree (`LinksSound`), an administrator stays and only administrators make others, a session belongs to the password, what was ended stays so (`EndedStaysEnded`), pages show what was chosen (`ScreenShowsItsView`) |
| `fiscal_rules` | 1 establishment, 2 scopes, 3 dates, 7 writes | **violated**: see findings |
| `last_admin` | 3 users, 2 requests, 3 saves | **violated**: see findings |
| `screens_switch` | 3 requests, 3 changes | **violated**: see findings |

### Why these bounds

* Two products and a kit of both are the least for transactions over several
  lines that fail half way and for events of dependants; an order line and a manual
  line share a product; six movements allow reserve, complete, reverse and cancel
  after the entries they need.
* Two workers, handlers, requests or callers are the least that race, and every
  property of those runs speaks of one or two of them. Two versions give "old" and
  "new"; the violation runs of `StockSync` need a third one because the change
  without event must come after an event. Two attempts distinguish the last from
  the others.
* One crash, delay, fault or request at any point of any interleaving is what
  the code is written against; `StockSync` says why more than one crash of a job is
  another matter (BullMQ fails a job that stalls twice).
* Three orders in pages of one, with two pages to a scan, let a scan be cut, resumed
  and overtaken by an update before and behind its cursor. One pair of tokens that
  expires and its successor are what callers race for.
* Three products make kits of kits and a cycle of three. Changes, saves and writes
  are budgets: a fiscal write that only prepares weighs less, and a link
  request counts as two catalogue changes, so that the budget is spent on what interferes.
  A session needs a login, a renewal and a new password: three issues.
* `fiscal_rules` needs a seventh write, which is why the finding is not in `office`.

`inventory`, `office` and the violation runs of `Members` and `Screens` use symmetry: their
properties are invariants and action properties. In `office` the parts
share the two model values `a` and `b`, and one permutation exchanges them in
all parts at once. Deadlock is not checked in any run: every bounded system ends, and
most parts stop when nobody asks for anything.

### Conditions in the properties

Some properties of the passing runs carry a condition, because the code does not
promise more. `ClaimedOrDropped` and `EventLeavesOutbox` except exactly the events that a
publisher held when it died, which nothing recovers; every other event is held to them,
before and after a crash. `PendingRowIsServed` holds however often a version is
announced, and excepts a row reopened while its job was ending, a row whose fan-out
failed to add the job, and what a crash leaves when a link or the queue failed too
(the fan-out that runs again may find the link gone); a queue job that died counts
as serving the row because BullMQ runs it again. `NoUpdateSlips`
excepts scans that were cut at their last page or took longer than the overlap.
`AdministratorStays` excepts saves over a change that the request had not seen; `LastAdministratorStays`
without that condition is a finding. `AlarmsAreReal` is about a synchronisation
recorded less than five minutes ago and none under way. `UnrevisedRulesDisjoint` is
about rules no later version replaced; the others are a finding. `EndsWithTheView`
is about pages that disown their requests and, where an action calls `load`
directly, about an action the view did not cross. `TokenSpentOnce` excepts a token
whose successor never reached the credentials. `ChangesAnnounced` excepts the status
of a product, which is written without any event.

### Fairness

All of it is weak fairness of a process's own steps. `StockSync`: the publisher's
schedule is run again and again, and queue jobs are continued; the inventory, the
users and the failures are never forced to act. `Webhooks`: the publisher runs every
two seconds (`onModuleInit`), the queue hands out its jobs, a started worker goes on,
a cooldown expires. `Orders`: a notification becomes a job and a job goes on.
`Connection`: a job that reached the queue takes its steps and the holder of the
renewal lock takes its own (an attempt at the provider has a timer; that an answer that
began to arrive is complete some day is assumed). The other modules only answer
requests and have no fairness.

## 4. Findings

1. **A synchronisation is superseded by nothing** (`stock_superseded`,
   `SupersededIsReplaced`). The user is told that a newer version of the stock
   replaced the send (`marketplace-stock.processor.ts:301`). The version compared is
   that of the balance row, which every movement raises, while an event is only
   written when the availability changes. Completing a reservation raises the version
   and emits nothing: a send that is waiting or being checked ends as `SUPERSEDED`
   and nothing newer exists.
2. **An older quantity may overwrite a newer one** (`stock_overwrite`,
   `NeverShowsOlderStock`). Calls for two versions of one link run in two workers
   without a lock, and the older may reach the marketplace last.
3. **A parcel that came back is pending again** (`orders_parcel`,
   `ParcelNeverGoesBack`). `DELIVERY_FAILED`, `RETURNED` and the like have no rank
   in `preserveImportedProgress`, and an import always says `PENDING`, so the next
   change of the order writes `PENDING` over them; `replaceSnapshots` deletes the
   shipment row, with the timestamp that would have kept old parcel events out.
4. **A revised rule grows over another one** (`fiscal_rules`, `NoAmbiguousRules`).
   `saveRule` (`fiscal.service.ts:566`) ends the revised rule where its new version
   begins, also when it had ended before: the old row now overlaps an active rule
   of the same scope, though `docs/fiscal-module.md:25` calls the detection of
   conflicting rules atomic.
5. **The last administrator can go** (`last_admin`, `LastAdministratorStays`).
   `README.md:183` says that the last active `ADMIN` cannot be demoted or deactivated;
   `updateMember` (`companies.service.ts:180`) counts and saves in two statements
   without a lock, and two requests both count two.
6. **A page shows the company before** (`screens_switch`, `OpenDataIsDiscarded`).
   `DashboardLayout.tsx:82` says that open data is discarded at a switch. A page that
   asks in its effect (`StockSyncPage.tsx:6`) sends the header that `CompanyProvider`
   only changes in an effect that runs after it (`CompanyContext.tsx:7`), and a page that
   does not watch the company keeps its rows.

### Seen while modelling

Without a document that says otherwise (but for the status of kits), and no finding:

* *Stock synchronisation.* Nothing takes an event out of `PROCESSING` whose publisher
  died; a repeated request may reopen a row while its job is about to end, and since
  the job's id is still taken the row stays `PENDING` without a job.
* *Orders.* An operator's reprocessing ignores timestamps, so a document fetched
  earlier can replace a newer import (`OnlyOperatorsGoBack` shows it is the only way); an
  order charged back after its stock was reserved stays `IMPORTING` and keeps the
  stock; reservations of orders can be ended from the stock screen without the order
  noticing.
* *Connection.* A renewal in flight at a disconnection creates the deleted
  credentials again; the last save of an import writes back the row read before it;
  a callback does not take the lock of the renewals.
* *Calls.* The reading of a body has no timer, although `docs/marketplace-webhooks.md:68`
  says that GETs respect timeout and budget; after one item of a page failed, the others
  are still read.
* *Scan.* A scan of more than a hundred pages counts as a success and the rest is
  not listed; one that takes longer than the overlap skips updates behind its
  cursor; its lock is read and then saved, so two processes may scan at once.
* *Notices.* A send that the stock overtook is `SUPERSEDED`, so its echo is judged
  an external change (the dispatcher looks at `SUCCESS` only, line 373); a kit without a
  balance row of its own is never stale; the result of an item is that of its last
  variation.
* *Fiscal.* A review applies to content the reviewer may not have seen; sequences stay
  active when their establishment is deactivated; a stale form overwrites the edits
  of others.
* *Kits.* The status of a product and the edit of a product save the row read
  before, without a lock; a change of status alters what can be sold of kits and
  sends no event: the message at `product_bundles.service.ts:74` advises to inactivate
  a product in order to stop its sales, and yet the marketplaces keep the quantity
  they have until the next movement (the exception in `ChangesAnnounced`).
* *Links.* A duplicate that is under way with the same key may get a conflict instead of the
  stored answer; the hash of an accepted suggestion contains its recomputed origin;
  a 404 of the marketplace ends a link without an audit row.
* *Members.* A manager's late save can demote somebody just promoted; an edit of the
  company under way at its deactivation opens it again.
* *Sessions.* The end of an old renewal may clear the session of a new login for
  a request that waited for it, and may reset the shared promise of a newer
  renewal; the answer of a login under way at the logout sets the cookie again; a wrong
  current password answers 401 and so leads to a renewal and a repetition.
* *Screens.* `apiRequest` turns an aborted fetch into an `ApiError`, so the pages
  that look for `AbortError` show an error; a reload after an action is that of the
  filter at the click, and nothing disowns it.

## 5. Proofs

TLAPS proves, for any number of products, lines, keys, links, events, accounts,
workers, users, requests, pages, establishments, scopes and dates, and any bounds:

| Theorem | States |
|---|---|
| `InventoryProofs!TypeCorrect` | `TypeOK`; quantities never go negative, in committed rows or inside a transaction |
| `InventoryProofs!ReservedIsCovered` | `ReservationsAreCovered`, from `HeldStock` (reserved is the sum of the active reservations and at most the stock) and `SettlementSafe` |
| `InventoryProofs!SettledStaysSettled` | `NeverRevived` |
| `InventoryProofs!ReservesAllOrNothing` | `ReserveAllOrNothing` |
| `InventoryProofs!SalesAreAccounted` | `SalesMatchReservations`, from `BooksStayRight` |
| `InventoryProofs!NewestEventIsTrue` | `NewestEventTellsAvailability`, from `BooksStayRight` |
| `InventoryProofs!LedgerChains` | `LedgerExplainsBalance` |
| `StockSyncProofs!TypeCorrect` | `TypeOK`, with the bounds on claims and attempts |
| `StockSyncProofs!SuccessIsHonest` | `SuccessSentItsVersion` |
| `StockSyncProofs!WorkIsHeld` | `NothingDropped` |
| `WebhooksProofs!TypeCorrect` | `TypeOK`, with the ownership of the locks |
| `WebhooksProofs!HandlersHaveTheirEvents` | `HandlersAreExclusive`, from `AccountsAreExclusive` and `RecoverySparesTheLiving` |
| `WebhooksProofs!AttemptsBounded` | `BudgetRespected` |
| `WebhooksProofs!ProcessedStaysProcessed` | `ProcessedIsFinal` |
| `WebhooksProofs!WebhooksImplementDelivery` | `ImplementsDelivery`: every behaviour of `Webhooks` is one of `Delivery` |
| `OrdersProofs!TypeCorrect` | `TypeOK` |
| `OrdersProofs!CanceledOrdersHoldNothing` | `CanceledHoldsNothing` |
| `OrdersProofs!BillingIsReserved` | `BillingMatchesStock`, from `ReadyOrdersAreReserved` and `ReservedOrdersAreBilled` |
| `OrdersProofs!PaidOrdersAreDecided` | `PaidIsDecided` |
| `OrdersProofs!OrdersAdvance` | `HistoryAdvances`, from `StatusesAdvance` and `DocumentsAdvance` |
| `FiscalProofs!TypeCorrect` | `TypeOK` |
| `FiscalProofs!PeriodsNeverOverlap` | `PeriodsDisjoint` |
| `FiscalProofs!ReadyWasReviewed` | `ReadyAsReviewed` |
| `FiscalProofs!NumbersAreKnown` | `NumberKnown` |
| `MembersProofs!TypeCorrect` | the types of companies, members and requests |
| `MembersProofs!AnAdministratorStays` | `AdministratorStays` of `Members` alone |
| `MembersProofs!RolesAreGiven` | `RolesComeFromAdministrators` of `Members` alone |
| `ProviderProofs!ProviderTypes` | `ProviderTypeOK`, with who holds which lock and the bounds on attempts |
| `ProviderProofs!SecretsOnce` | `SecretsSpentOnce` |
| `ProviderProofs!CallsInLimits` | `CallsKeepTheirLimits` |
| `ProviderProofs!NoUpdateBehind` | `NoUpdateSlips` |
| `ProviderProofs!OneDivergence` | `NoTwinDivergence` |
| `ProviderProofs!AlarmsOfOthers` | `AlarmsAreReal` |
| `OfficeProofs!CompanyKeepsAdministrator` | `AdministratorStays` |
| `OfficeProofs!RolesAreGiven` | `RolesComeFromAdministrators` |
| `OfficeProofs!NoKitInItself` | `CompositionSound` |
| `OfficeProofs!LinksAccounted` | `LinksSound` |
| `OfficeProofs!SessionsOfThePassword` | `SessionOfThisPassword` |
| `OfficeProofs!NothingComesBack` | `EndedStaysEnded` |
| `OfficeProofs!PagesShowTheirView` | `ScreenShowsItsView` |
| `OfficeProofs!KitsAreAnnounced` | `ChangesAnnounced` |
| `OfficeProofs!OfficeTypes` | `OfficeTypeOK`, with the bounds and that a request that waits awaits a renewal |

They rest on the named assumptions of the modules only: finite sets, null values
outside the sets they are null for, positive limits, every kit has a component.

*Inventory.* The invariant `IInv` says of both copies of the rows that they are
well typed, that the reserved quantity of a product is the number of units its
active lines hold and that a completed line has its sale in the ledger
(`RightRows`), and that an open transaction only ever advances the committed
lines (`Follows`). Neither half is inductive alone: a settlement
subtracts what a line holds from the balance, which stays a natural number only
because the balance counts that line; and the commit of `work` preserves
`NeverRevived` only because no step of the transaction revived a line. A sum over
lines is the cardinality of a set of units, so that the library's
theorems on finite sets give its change when one line changes. Each operation
is reduced to one of two lemmas: a movement that leaves the lines alone, or the
change of one line with its movement. `ReservesAllOrNothing` needs `ReserveUnderWay`: the
lines a reserve transaction has yet to come to are as committed, those behind
it hold what was requested.

*Ledger.* `Books` says of both copies of the rows what the two properties say of the
committed one, movement by movement and event by event: a completed line has one sale of its
quantity, an open one none, a canceled one only returned ones (`Told`); a return names a sale
of its product and quantity that no other names (`ReturnRight`); the newest event
of a product or kit is true (`NewsRight`). Each write appends one movement or none and
changes one reservation or none, so one lemma per kind of write (`MoveBooks`, `LineBooks`,
`ResvBooks`) keeps all three, and the operations only show that their movement may be the
return it claims to be (`ReturnFits`) and what the line becomes (`LineFits`). A kit's event is
true because what can be assembled depends on the balances of its components only
(`NowFrom`), and each write announces the kits of the product it moves (`NewsKept`).

*StockSync.* A job's version is at most that of the balance, and what a job has read is the
availability at its own version, since no older job is live and a newer version ends it
(`JobsRight`): so `SuccessIsHonest`. For `WorkIsHeld`, a row that waits has no job under way
unless it was crossed (`WaitsRight`): a job that starts takes its row out of `PENDING`,
and only a fan-out puts it back. So a fan-out that comes to the row, the
first or a repeated one, finds a job that waits or adds one; while nothing failed, every
link is ready and no fan-out has failed (`ReadyRight`, `FansRight`), so that a fan-out that
died comes to the row again.

*Webhooks.* `IInv` adds to the properties what makes them inductive: a worker
past the lock step holds both locks, a handler's event is
`PROCESSING` and its generation fresh, and the attempts consumed bound the handlers
started. Recovery needs the event's lock to be free, which is what spares a live
handler whose event looks stale.

*Delivery.* The refinement has one case per action of `Webhooks`: under `IInv` the
claim of a worker is a `Start` (its event is open and the budget not spent), the
save of a result by a fresh handler is a `Finish`, a `GiveUp` or nothing that
`Delivery` sees, and the publisher, the queue, the locks, crashes, delays and recovery are stuttering
steps.

*Orders.* `IInv` adds what a job carries at each step (`Carries`: a document
before the import, a parcel before it is applied, an order written before it is
processed), that an order known to be cancelled at the marketplace is
`CANCELED` here (`KnownCanceled`: else a late parcel could cancel an order whose stock
nobody releases), and `Served`: an order that is cancelled and holds stock, or that
could be decided and is not, still has a job that will process it. `Served` is
what makes both `CanceledHoldsNothing` and `PaidIsDecided` inductive: an import
may leave the order so, because the same job goes on to `Process`, even when it
skipped its document as old. `PreserveProgress` states what
`preserveImportedProgress` keeps, and the two action properties follow from it
and from the lemma that lists the steps that write the row.

*Fiscal.* `IInv` has a part per table. The one of the profiles adds that an active
period is never empty: superseding a row closes it at the beginning of its
successor, and it is because nothing active was in the successor's way, and because the
closed period is not empty, that the new set is disjoint again. The one of the
rules is about those no later version replaced, since the revision of a rule may
lengthen the old row (finding 4). The one of the establishments relates the review
to the version that was sent.

*Members.* What a request has read and counted stays true until a save overtakes it, and
from then on the request is marked as overtaken (`Sound`). With it, a request
that takes an administrator away has counted another who is still there; and an edit of the
company that was not overtaken has read it open (`EditsSeeOpen`).

In `OfficeProofs` the theorems of `MembersProofs` hold of the part `Members` of
`Office`: its steps are those of the module under other names, and the other parts
leave its variables alone.

*Notices.* The account lock lets one handler run at a time (`OneHandler`), so what it saw
open is open when it notes. `ShownIsOurs` says that the marketplace shows the quantity of
the last send unless somebody else changed it; `ReadRight` relates what a handler has
read to the last success and to the version of the balance it compares with.

*Calls.* `RequestRight` relates of each request its attempts, what it has sent, whether it
has failed and whether the provider did it; `OutcomeRight` carries that to the outcome. For
the writes it needs that their attempts stay at zero, and for the reads of several
requests that all others are idle (`OneByOne`).

*Connection.* `RowsConnected` has the types, the lock of the renewals and the attempts of
the jobs. `TokensRight` says of every pair in the hands of a renewal that the
marketplace still accepts it or its answer was lost (`RenewalAccepted`), that the stored one is
so too unless a successor is about to be stored (`StoredAccepted`), and that the pair of a
redirect is nobody else's yet (`RedirectAccepted`); that a pair is new when it is issued follows
from `PairsIssued`. `StatesRight`: who exchanges a state has consumed it alone. The proof
of the types needs `MaxTokens` to be positive, since `Init` may begin with a stored pair; the
assumption says so.

*Scan.* An order is owed when it was updated, no job has followed and no scan was cut or overtaken
over it. `Kept` says of the row and of each copy a scanner holds that what is owed is not older than the
date the next page asks from, and, if it was updated before the first page, not at a place before
the cursor; `Complete`, that a scan at the end of its list owes nothing older than its beginning.
An update puts an order into the list and moves those after it away from the cursor; an order it
puts before the cursor was updated after the first page, which the next scan asks for. A place in a list is the number of orders before it, so the
library's theorems on finite sets give how it moves.

*Kits.* That nothing is a part of itself is not inductive as stated, since `Below` is an intersection.
`NoCycle` names the reason: for every product there is a closed set of parts that has all its
components and not the product itself. Adding a component that passes the check joins two such sets.

What can be assembled of a kit (`Available`) is computed by a recursive function, `Units`. The
section *Recursion on finite sets* proves that such a definition has the value it says
when the products are finite and each value only depends on those of products nearer the
bottom (`Recursion`, from the library's theorem that inclusion of finite sets is well-founded);
`NoCycle` gives the order (`PartsFounded`). With it `UnitsPositive` (a kit is made of
something), so that there is a least share and `Available` is a quantity within the
bounds (`AvailableFits`); and `AvailableSame`: availability depends only on the
rows of what is below the kit. A change of a product therefore changes nothing but kits
above it, and `Tell` announces each of those: `ChangesAnnounced`.

*Links.* `RowsRight` is the story of the audit rows: each tells what was done to a link by the request
with its key (`Tells`), what was done to a link has its row (`Told`), a key is in one row
(`KeysOnce`) and a listing has one active link (`ActiveOnce`). `CallsRight` keeps that an answer is
about what was asked. Rows and links only grow, or end (`Grows`), so what a row tells stays true.

*Sessions.* `RowRight` says that the refresh token in the row has not been spent and is of the
password in the row, that the links in the row are unused, and that what is not yet issued
has no history. `AskKnows`: a renewal that still finds its token in the row has read the
password of the row. `AskHeard`: what could log in a page the user left is not heard any more.
For the types, `SessionsTyped` adds that who waits awaits a renewal under way and that the
renewal a page shares is its own: the end of a renewal frees all that wait for it and the
page that shares it, so that no reference is left to a request that is over.

*Screens.* What is under way is for the company there is on a page mounted anew (`OfCompany`), and for
the view there is and no older than what the user knows on a page that disowns its requests
(`Fits`). `Comes`: unless a load is waiting, under way or has failed, what the page has is right.
Both need the pages only through two facts: who disowns also watches the company, and a page
whose action does not call `load` disowns all it sends.

Only model-checked: liveness (`BegunWorkEnds`, `EventSettles`, `CancellationArrives`,
`RequestedRunEnds`), which is out of the prover's reach. Every other property that a
passing run checks is stated by a theorem.

## 6. Not modelled

Every component is listed in `PROJECT.json` with its status. Left out for good:
queries, formatting and validation of input, mail, configuration, health, the
connector contracts and registry (dispatch), schema and seeds; write-only rows
(issues, histories, logs), prices and texts.

Within modelled parts: the loss of a database connection without its process
(`marketplace-webhook.worker.ts:56`: it would free the locks of a handler that goes
on); a movement's key repeated with another payload (answered by an error); replay of
`ENTRY` by an `EXIT` of the same body and key; the limits on how often a mail is
sent; codes, permissions and log of the fiscal configuration; a kit created inactive;
categories and images; the refusal of an operation that makes more than 2147483647 kits
available (`bundles-composition.service.ts:169`: announcement and description share the
function, so no property depends on it); the column of the last error of a connection; jobs of the former
notification queue. Of the frontend: forms, rendering and pages that
load once; `ProductMarketplaceLinksPage`, part of whose requests are aborted and part not.

## 7. Plan

Order of the modules, the most important behaviour first. Done: `Inventory`,
`StockSync`, `Webhooks`, `Orders`, `Sessions`, `Members`, `Kits`, `Links`, `Fiscal`,
`Connection`, `Calls`, `Scan`, `Notices`, `Screens`, the compositions of them, the
abstract `Delivery` and the proofs of section 5. Left:

1. Proofs: that `Orders` and the lines of `Inventory` agree.
2. A `StockPromise` (units on hand, units promised per line) that `Inventory`
   implements with `db` as its state, and that `Orders` uses for its lines.
3. The remaining pages of the frontend, and the loss of a database connection
   in `Webhooks`.
