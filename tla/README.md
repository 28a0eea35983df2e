# Kitty Shop backend: formal models

The repository is the backend of a clothing rental shop: NestJS services over
Prisma and PostgreSQL.  Several API replicas run the same code against one
database, so what makes the system hard is not in a single handler but between
them: two clerks and a customer work on the same order, two orders compete for
the same dress, a command is repeated because its answer was lost.  This
directory holds TLA+ models of that core, the TLC configurations that check
them, and machine-checked proofs.

Paths below are relative to the repository's root, so `src/modules/...` is the
application code and `docs/...` its documentation.

## 1. The system

### Components, their state and their operations

| Component | State | Operations that change it | Made correct by |
|---|---|---|---|
| Rental order lifecycle (`src/modules/rentals`) | `rental_orders`, `rental_order_items`, `rental_item_allocations` | create, confirm, start, cancel, reschedule, receive return, settle | no item promised or handed out twice; the three tables agree; legal status order |
| Warehouse inventory (`src/modules/catalog`) | `inventory_items`, `products`, `product_variants` | change of operational status, archive, listing, inspection at return | an item that is out or promised is not taken away by the warehouse |
| Deliveries (`src/modules/deliveries`) | `delivery_jobs` | create, status change, cancel with the order | no charged parcel of a cancelled order travels |
| Money of an order (`src/modules/finance`, `rental-settlement*`, `rental-ledger`) | `payment_transactions`, charges, totals and projected statuses on the order, settlement | create and void payment, add charge, collect at confirmation, settle | refunds covered, projection current, settlement balances, books stay closed |
| Idempotent creation (`src/database/prisma/idempotency.ts`) | `idempotency_records` | claim, take over, complete, release, expire | at most one execution per key and retention period; replayed answers are true |
| Customer self-service (`web-account-rental-orders.service.ts`, `rental-web-order.queries.ts`) | pages read earlier | list and look up orders, cancel own order | only an unpaid order is cancelled; the pages agree and miss no order |
| Pricing (`rentals/domain/rental-cycle-pricing.ts`, `rental-return-fees.ts`) | the snapshot on an order line | price, book, move, take back | an order costs its days at the prices agreed, and can always be taken back |
| Web checkout (`web-rental-*.ts`) | what a plan was made from | quote, check availability, order | what was offered is what is booked; every unit has its item |
| Evidence (`rental-confirmation.service.ts`, `rental-settlement.service.ts`) | objects in storage | upload, delete after failure | committed evidence exists, abandoned evidence is removed |
| Order e-mails (`prisma-rental-email.queue.ts`, `rental-email.service.ts`) | `notification_logs` | enqueue with the order, claim, prepare, sent, failed | one mail per event, in order, none lost silently |
| Scheduler leases and reminders (`src/common/scheduling`, `src/modules/reminders`) | `scheduler_job_leases`, `reminders` | acquire, renew, release; refresh, dismiss | a promised lease is exclusive; the reminders are those the orders need |
| Administrator and web sessions (`src/modules/auth`, `src/modules/web-auth`) | token families and tokens | log in, rotate, log out, change password, deactivate | one live token per family, reuse closes the family |
| Registration (`src/modules/web-auth`) | attempts and verification codes | register, resend, record delivery, verify | the password verified is the one the mailed code belongs to |
| Credential clean-up (`src/modules/auth-cleanup`) | the same tables | delete by age, in batches | nothing that can be continued is deleted; success means drained |
| Loyalty (`src/modules/customers`) | qualifications and rewards | earn at settlement, redeem at booking, back-fill | every full cycle earns one reward, each is spent once |
| Customers (`src/modules/customers`) | customers, addresses | create, change, resolve at booking | one customer per phone, bookings agree on it |
| Cart, favorites (`src/modules/cart`, `src/modules/favorites`) | one versioned row; links | replace; add, remove, list | nothing is overwritten that was not shown |
| Catalog (`src/modules/catalog`) | products, variants, rates, categories, sizes, colours, pictures, inventory | edit, archive, delete, upload, add stock | references and constraints hold between overlapping edits; shown pictures are stored |
| Picture migration (`scripts/sync-product-media-storage.ts`) | rows, bucket, cache | run, stop, run again | a row refers to a stored object, and a run ends |
| Shop settings (`src/modules/settings`) | the saved policy | update, read with defaults | the policy stays usable; what was omitted is retained |
| Members (`src/modules/members`, guards) | members and their roles | create, change | somebody can administrate; roles are as last asked |
| Figures and pages (`src/modules/dashboard`, `reports`, `finance`, `customers`, `rentals` readers) | none | queries over the same rows | pages agree with each other and with what a command will do |
| Audit, logging, HTTP, health, storage adapter | none of their own | write, answer | input and output only |

### How they interact

- Every rental, warehouse and payment command runs in one SERIALIZABLE
  transaction (`src/database/prisma/transaction.ts`), retried up to three times,
  which locks the order row and re-reads what it decides on.  What was read
  *before* the transaction (a selection of items, a page, a settlement preview)
  may be stale.
- The rental commands write other components' tables inside their own
  transaction: allocations and `inventory_items` at a return, `delivery_jobs` at
  booking and cancellation, payments at confirmation and settlement, loyalty
  entries, outbox events and queued e-mails.
- The delivery status endpoint runs at READ COMMITTED and relies on a
  conditional write instead.
- Idempotency claims are taken and released *outside* the transaction they
  protect, one statement at a time, and fenced inside it.
- PostgreSQL's exclusion constraint `rental_item_no_overlap` is the last guard of
  the calendar.

### What is hard

Stale selections and pages; two orders and the warehouse on one item; overdue
rentals in someone else's planned window; takeover of a claim or a lease whose
slow owner wakes up; lost commit answers; expiry while a command is in progress;
partial refunds and voids in any order; a settlement executed on figures that
changed; side effects outside of the transaction (objects, mails); retries that
arrive when the first attempt is still under way; read-merge-write without a
version; the same rule written twice (TypeScript and SQL, preview and execution,
two reports).  `PROJECT.json` lists each hazard with its line and the properties
that would catch it.

## 2. The modules

Each definition that models code is named after it where TLA+ allows; the table
`map` of `PROJECT.json` gives its lines.  `MCRentalOrders` instantiates one module
for TLC.  The other `MC` modules are *suites*: one run over several components that
share no state; `MCSettlement` is `RentalLedger` with two more components, and runs
it alone in `receipts` and `revenue`.  A variable `part`, chosen in the initial
state and never changed, says which component a behaviour runs; the variables of the
others are `"off"` or stay as they began.  The state spaces therefore add up and do
not multiply, and a property of a suite is a conjunction of `part = ... => ...`, one
conjunct per component and named property of its module.

| Module | Subject |
|---|---|
| **Orders and items** | |
| `RentalCalendar` | abstract: for each item a plan of disjoint windows and at most one holder; the items of an order are planned, moved, dropped and handed over together |
| `RentalOrders`, `RentalOrdersProofs` | detailed: orders, lines, allocations, items, deliveries and the commands on them; its theorems |
| `RentalReturn` | the return of several pieces: inspections, fee rows, compensation, agreed fees at the settlement |
| `Inventory` | the warehouse as clerks use it: additions, numbers, history, occupancy and the menu of changes |
| **Money** | |
| `RentalLedger`, `RentalLedgerProofs` | the bill, payments, projection, collateral and settlement of one order, and what its pages compute and announce; its theorems, and those of `EvidenceUpload` |
| `ManualReceipts`, `BookkeepingProofs` | the request that records money by hand, from its validation to its replayed answer; its theorems, and those of `RentalReturn` and `Loyalty` |
| `RentalPricing` | operators: days, cycle prices, accessories, snapshots, return fees |
| `RentalAgreement` | one order priced with `RentalPricing` from request to return while the settings change |
| `Loyalty` | qualifications and rewards between serializable transactions that are retried |
| `ShopFigures` | local days and periods; dashboard, reports, finance and customer figures over the same rows |
| **Commands repeated** | |
| `IdempotentCommand` | abstract: one key, a command executed at most once per retention period, true answers |
| `IdempotencyClaims`, `IdempotencyClaimsProofs` | detailed: the claim protocol, one SQL statement per action; its theorems |
| **Customers of the web shop** | |
| `WebCheckout` | availability, quote, plan and booking with concurrent checkouts and administrators |
| `Storefront` | lists, pages, filters, details: SQL against Prisma |
| `Cart` | the saved cart, the favorites |
| `OrderPages`, `OrderPictures` | lists and pages of orders read while they change; the pictures beside their lines |
| `WebRegistration` | registration, codes, delivery reports, verification |
| **Background work** | |
| `SchedulerLease`, `SchedulerLeaseProofs` | the lease several replicas compete for; its theorems |
| `ReminderRefresh` | the refresh under the lease, page by page, and the rules that choose orders; its proofs are in `SchedulerLeaseProofs` |
| `CredentialCleanup` | the nightly deletion under the lease, in batches; its proofs are in `SchedulerLeaseProofs` |
| `RentalEmailQueue`, `RentalEmailQueueProofs` | leased queue, retries and the provider's idempotency window; its theorems |
| **Administration** | |
| `RefreshTokens`, `RefreshTokensProofs` | token families of administrators and customers, with their purge; their theorems |
| `Members`, `AccountProofs` | guards and changes of members, interleaved; its theorems, and those of `WebRegistration` |
| `Customers` | customers and addresses; canonical phone and search |
| `Catalog` | products, variants, rates, stock, categories, sizes, colours |
| `ProductMedia`, `MediaSync` | pictures and their objects, with theorems in `RentalOrdersProofs`; the command that moves linked pictures |
| `EvidenceUpload` | evidence of confirmations and settlements in the object storage |
| `ShopSettings` | the policy as read, merged, validated and saved |

How they compose: `RentalOrders` implements `RentalCalendar`, and
`IdempotencyClaims` implements `IdempotentCommand`.  `ReminderRefresh` and
`CredentialCleanup` extend `SchedulerLease`, so the work they model really runs
under the lease as modelled, lost and expired ones included.  `RentalAgreement` and
`WebCheckout` use the arithmetic of `RentalPricing`.
`RentalReturn` refines the one time fee of `RentalLedger` to several pieces.

An MC module EXTENDS the components whose joint properties have theorems, so a run
checks the very definition that a theorem states; what such components would both name
bears the component's name (`SessionInit`, `MailTick`, `MembersSpec`).  The others it
takes with INSTANCE.

### RentalOrders

State: `status`, `window`, `bookedAt` are the order's row; `lineStatus` the
status that all its lines share (every command writes them together); `alloc`
its allocations, at most one per item; `stock` the items' operational status,
archive flag, rentability of product and variant (`listed`), and rental counter;
`delivery` the jobs; `clerk` what a status request has read and is about to
write; `now` the clock, which only stamps bookings, since no command compares
dates with the present except the rescheduling rule.

One action per command.  A command is atomic because it is one SERIALIZABLE
transaction with all its reads inside; the selection of items comes from outside
and is therefore *any* set.  `SettleOrder` here is only the change of status:
money is in `RentalLedger`.  Damage is chosen per item at the return.

### IdempotencyClaims

One key and one shop, any number of requests.  A request walks through
`claimIdempotencyRecord` (delete the expired record, insert, on conflict look,
take over a stale claim, at most `Attempts` rounds), then the protected
transaction, then possibly the release in the service's catch block.  The clock
may advance, and the process may die, between any two statements.  `Execute` may
commit without its caller learning of it, which leads to `Release`, as in the
services.  `executions` is a history variable: the commands committed, with the
deadline their record had.

### RentalLedger

One order (orders share no money).  The ledger keeps the sums over payment rows
in force, by purpose, and `payments` those manual rows a clerk may still void;
lifecycle receipts (`RC-*`, `RS-*`) cannot be voided and only count in the sums.
`charges` are the sums of fee rows (which settlement may replace) and all other
rows; `fee` is the fee on the inspection record; `preview` the settlement screen
with its token, of which `current` says whether `updated_at` still matches;
`customer` the page of a self-cancelling customer.  `ledger.reversals` is what
the finance report recognises as reversals.

### ManualReceipts

`rows` are manual payments by the request that created them, `claim` the record
per member and key with the receipt stored in it, `receipts` the net of what
confirmation and settlement collected.  The claim is one step and may be taken
over at any time, because `IdempotencyClaims` has its statements and its clock.
The body is data to the hash: `paidAt` enters as it was sent, which is what makes
a retry recognisable.

### Background work

`SchedulerLease` counts clocks down: `left` is what remains of the row's
`lease_until`, `granted` of what a replica believes it has.  A statement executes
in one action and is answered in a later one, so a renewal may be late or lost.
`RentalEmailQueue` has the same shape for a row of the queue and adds the provider,
which knows a key for `Dedup` units.  `ReminderRefresh` and `CredentialCleanup` act
only between checkpoints of the lease, each of their statements with its own delay.

### Sessions, registration, members

A refresh in `RefreshTokens` is two actions: what its transaction reads (`Present`),
and its commit, refused if a row it writes has changed since.  READ COMMITTED
commands skip rows that no longer match.  `WebRegistration` sends a code after the
commit of the challenge and records the outcome later.  In `Members` a request is
admitted by the guards in one action and takes effect in another.

### Catalog

Products and variants are changed by SERIALIZABLE transactions, which PostgreSQL
arranges one after the other: what such a command reads of these rows holds where it
writes them, and a variant written by another in between refuses the transaction
(`AsRead`; the code then starts it again, up to three times, which here is `Fail` and
another request).  The status of a category, size or colour is changed by a plain
`updateMany` at READ COMMITTED (`size-commands.ts:58-71`).  That writer is not seen by
the serializable check, and the foreign key's row lock lets it pass.  So every command
that assigns one, `createProduct`, `addVariant`, `updateProductVariant`, the
reactivation of a variant and `updateProduct` with another category, is two actions:
it reads the status and starts (`tx`, with what it `checked`), and writes later.

### Objects and rows

`EvidenceUpload`, `ProductMedia` and `MediaSync` have a bucket beside the tables.
Calls fail, time out and may still take effect later.  The key of evidence is
unique to its request; the key of a picture is made of folder and bytes, so
requests share it.

### Pages and figures

These modules have the reader's operators as definitions and let the data change
between two of its statements.  `Storefront` enumerates shops instead of changing
one.  `ShopFigures` runs orders through pay, refund and settle with a local calendar
and compares the readers.

## 3. What the runs check

Ten runs must pass, two (`cleaning`, `revenue`) must find a violation and belong to
section 5.

| Run | Part | Instance | Shows |
|---|---|---|---|
| `calendar` | | 3 orders, 1 item, calendar of 2 half-days, rescheduling up to 1 day; 1 delivery job and 2 status requests | no double booking; one holder; the warehouse leaves rented and reserved items; tables agree; rentals counted; only a return takes a reserved item out; a confirmed order on a damaged item is stuck; no charged parcel of a cancelled order is under way |
| `refinement` | | 2 orders, 2 items | `RentalOrders` implements `RentalCalendar` |
| `claims` | claims | 3 requests, 2 intents, lease 1, retention 2, 2 attempts, time up to 3 | an execution stays on record for its retention; at most one per period; answers are true; the protocol implements `IdempotentCommand` |
| | retries | 3 requests, 2 members, 1 key, receipt and refund of 1 order | a key records once; whoever is told of a receipt gets his own; a recorded command is answered with its receipt for ever after |
| | mistakes | 2 requests, 1 member, 7 bodies, 2 orders | no false receipt; no key blocked by a refusal; no refund uncovered, unless money went out for another purpose |
| `receipts` | | 3 payments of 1 unit, charges up to 2 | the projection is current; refunds are covered; a confirmation collects exactly the rest; a self-cancelled order holds no money |
| `settlement` | books | 1 payment, amounts up to 2, charges up to 2 | charge rows add up; settled stays settled; the rental part of the bill is fixed; settlement balances; an overridden fee is settled as shown; the announced balance is what settling would do; stored status and computed balance agree |
| | return | 2 paid pieces, 1 free, 1 of another order, fees of one and two rows | every piece is inspected once; charges match the inspections; free accessories cost only damage |
| | loyalty | 2 clients, 5 orders of 2 customers, reward every 2 rentals, 3 migrated histories | every full cycle earns one reward; discounts are backed; the summary adds up; accounts and customers never merge |
| `accounts` | sessions, web sessions | 3 tokens, 2 requests; for web sessions also expiry and purge over 5 units | one live token; reuse and password change end a session; an overlap is no reuse; a log-out is final; the purge spares live sessions |
| | registration | 2 requests, 2 attempts, 3 codes, time up to 2 | the verified password is the mailed one; failed deliveries have a way back; outcomes recorded once; the purge spares usable codes |
| | members | 2 requests, 2 people, 2 roles | a manager remains; roles are as last asked; passwords are kept |
| | cleanup | 2 replicas, 2 phases, batches of 1 of 2 rows | success was alone and means drained |
| `shop` | variants, categories | 2 administrators, 2 variants; 2 categories | references exist, combinations are unique, archived products are free and frozen, a size or colour is assigned only if the request read it as active |
| | piece, pieces | 2 clerks, 2 orders; up to 3 items | history is a chain, the menu is what is accepted, occupancy is shown; the next number is free |
| | settings, overlapping | 2 requests, amounts 0, 1, 4, one at a time and overlapping | the policy is usable; the log is a chain; what is omitted is retained, or (overlapping) lost only to a change that overlaps, and then back to the value that the request read |
| | cart, favorites | 2 tabs, version up to 4; 2 tabs, 2 products, pages of 1 | a saved cart is bookable and overwrites only what was shown; favorites keep their order and list what is visible |
| `checkout` | agreement | days of 2 ticks, 12 ticks, 2 starts, 3 saved policies | the price is that of its days; a return is never blocked; lateness costs the added days; a preview is charged |
| | quotes, checkouts | 1 client over all states; 2 rivals for 3 items and a reward | quotes are honoured, availability means rentable, one identity one plan; every unit has its item, accessories are entitled, a reward is spent once |
| | window | 2 products of 39 shapes, all criteria, a product per page | lists are complete, options lead somewhere, views agree, the price range covers |
| | album | 3 pictures, 2 sort orders, one move of the bucket | an order shows the primary picture |
| `office` | dashboard, finance, time | 2 orders or 1 order with an expense, days of 2 ticks, 13 instants; 20 zones, with and without a change of clocks, days of 6 ticks | dashboard and reports agree, customers add up, the most urgent is shown, settling closes what is owed; periods are whole, follow each other, add up, and pages hold every entry |
| | pages | 2 orders, 1 per page | a walk misses nothing that stayed; lists, pages and look-up agree |
| | phone, people, places | 3 customers, everything typed up to 6 characters; 3 requests on 2 phones; 3 requests on addresses | the normal form is canonical, a customer is found while typing; bookings agree and find the winner, eligibility agrees; a new default replaces the old |
| | rules, refresh | days of 4 ticks; 2 orders in pages of 1, 2 days | the coarse query loses nothing; terminal reminders stay, an undisturbed run is exact |
| | mails | 2 mails of one order and 2 workers | in order, sent means sent, final stays |
| | kept, doubtful | 3 requests, commits whose outcome is known, or still under way | recorded evidence is kept; nothing is left without a fault; recorded once |
| | photos, overlapping | 3 requests, 2 products with one folder, one at a time and overlapping | served as what it is; shown pictures are stored; nothing is left behind |
| | moving | 3 rows, 2 at a time, 2 retries, faults | a key has its object and is of its source; success is complete; a dry run changes nothing |
| `progress` | lease | 2 replicas, lease 1, 1 crash | no promise is broken; the job runs again and again |
| | claims | 2 requests, time up to 3 | every request is answered or dead |
| | mails | 1 mail over its window with a deployment | at most one mail, under one payload, and it is settled in the end |
| | sync, moves | 2 or 3 rows, with and without faults | a run ends; repeated runs move every row |

Each property of a passing run has one mutant in `PROJECT.json`: a plausible mistake in one
mapped definition under which the run fails.  The modules hold further mutated forms,
ordinary operators next to the definitions they vary, for the other named
properties: replace the body of the definition by the form and run the suite.

### Bounds, and why they are enough

- *Calendar.*  Two orders make a conflict; the third lets one be overdue while
  another is confirmed and a third is booked.  Windows over instants 0..2 can be
  equal, adjacent or overlapping, and with half-days two windows of different
  length cost the same number of days, which is the case the rescheduling rule
  must allow.  Two items are only needed for commands that treat the items of an
  order together, which is what `refinement` is for; there the state constraint
  `InService` cuts off archived and unlisted items, which `calendar` covers.  In
  `calendar` the constraint `FewDeliveries` only follows a delivery made while the
  clock stands at the start and an order is still to come: jobs meet the calendar
  through the status of their order alone, which needs no clock.
- *Races of requests.*  Two requests make a race, a third overtakes, replays,
  repeats or prepares the ground: deliveries, members, carts and settings have two,
  claims, receipts, evidence, pictures and customers three.
- *Claims and leases.*  The lease is shorter than the retention, as in the code (5
  minutes, 24 hours or 30 days), and time runs past both, so that a key or a lease
  is used again by a replica or request that slept through a takeover.
- *Ledger.*  Three unit payments allow receipt, refund and second refund or
  void.  Amounts up to 2 allow partial payment, over-payment and a fee changed in
  both directions; `MaxCharges` only bounds the sum of later charges.
- *Calendars and prices.*  Days of 2 to 6 ticks put instants at, before and after
  every boundary; thresholds, renewals and horizons are small multiples, so that
  each is reached, passed by one, and passed again.
- *Pages.*  A page of one row, or a limit of one, makes every border of a page a
  place where something can be lost.
- *Tokens and mails.*  Three tokens are a family with an ancestor of the live
  token's parent; two mails of one order have an order; windows of 3 with stalls of
  1 let every answer come before, at and after its deadline.

`CHECK_DEADLOCK FALSE` is used where the system really comes to rest: all
requests answered and time over, or the order closed and all payments made.
Names that begin with `Max`, and the sets of rows and requests, are the only
bounds in guards.  Symmetry is used for rows and requests that a suite keeps
interchangeable in all its parts, and never in `progress`, which checks liveness.

### Fairness

It is stated in `MCProgress`, one assumption per part:

- `claims`: weak fairness of each request's own steps: a handler that was
  started and whose process lives goes on, because Node keeps running its
  continuation.  Nothing is assumed of arrival, failure, crash or time.
- `lease`: the scheduler triggers replicas again and again, the database's
  clock runs and statements end (weak); a replica that finds the lease free, or
  ends its work, does not meet a failing database every single time (strong).
  Crashes are bounded.
- `mails`: the job runs every 15 seconds in some replica, a request to the
  provider ends by its timeout, a late one arrives, time passes (weak).
  Nothing is assumed of the provider's answers.
- `sync`: downloads and calls have deadlines and a counted number of
  retries (weak).  `moves` adds an operator who runs the command with
  `--apply` again and again (strong), with calls that do not fail.

The other modules have no liveness: their commands are started by people.

## 4. What is proved

Proved by TLAPS for every value of the constants, in eight modules.  TLC checks the
same statements on the instances of section 3.  A component's invariants are joined
by one definition (`SessionsAreSafe`, `ReturnIsAccounted`), which a run checks and a
theorem states; in a suite of many components (`AccountSteps`, `OfficeSteps`,
`MessagesAndFilesAreKept`) the conjuncts are proved one by one.

### The calendar (`RentalOrdersProofs`)

For every set of orders, items, deliveries and clerks, assuming only that times are
natural numbers, days have a length, and that the two null values are not rows:

- `TypeCorrect`: `TypeOK` is invariant.
- `SafetyInvariant`: the inductive invariant `IInv`.
- From it `NeverDoubleBooked`, `NeverTwoHolders`, `RentedItemsStay`,
  `ReservedItemsKept` (the last three together are `ItemsKept`),
  `TablesAlwaysAgree`, and the action properties
  `ReservedItemsTakenByReturnsOnly` and `StrandedOrdersStay`.
- `NothingChargedShipsCancelled`, with an invariant of its own about jobs.
- `AllTablesAlwaysAgree`: types, agreement of the tables, and an item's rental counter is the number
  of its rentals that came back.
- `CalendarImplemented`: `RentalOrders` implements `RentalCalendar`.

The argument: `NoDoubleBooking` speaks of the *orders'* dates, while the
constraint protects the *allocations'* dates.  So the invariant joins
`Exclusive` (blocking allocations of one item have disjoint windows, which is what
the constraint checks at each write), `TablesAgree` (allocations carry the
status and window of their order, and are released exactly when it is closed),
`OneHolder`, `RentedItemUntouched` and `ReservedItemNotRetired`.  None is
inductive alone: `RentedItemUntouched` needs `OneHolder` at a return, which
moves the item of one order only; `OneHolder` needs `TablesAgree` at a hand-over,
which makes ACTIVE what was CONFIRMED.  One lemma per action shows what it does
to the calendar part and to the stock part; the lemmas on `SetAllocations`,
`ReleaseAllocations` and `ShiftAllocations` say once what these updates leave
alone.

The refinement adds `BookedWindows` and `OrdersHaveItems` (`CalendarInv`), without
which a step of an order could map to one of an order without items.
`AllocationStep` reduces the six order commands to three effects (allocate, restate,
shift); under the mapping, plans are the windows of blocking allocations and the
holder is the order that holds an item ACTIVE, which `OneHolder` makes a function.
The counter is proved by `Counted`: the orders whose allocation of the item came
back are a finite set, and a return adds one order to it.

### The money of an order (`RentalLedgerProofs`)

For any set of payments and any amounts, assuming only that the two bounds are
natural numbers:

- `LedgerTypeCorrect`, `ProjectionCorrect`, `ChargesCorrect`, `SettledCorrect`:
  `TypeOK`, `ProjectionIsCurrent`, `ChargesAddUp` and `SettledStaysSettled` are
  invariant; `BooksRight` joins types, charges and settled orders.
- `RentalPartCorrect`, `ConfirmationCorrect`, `SettlementCorrect` and
  `OverrideCorrect`: the action properties of the same subjects; `SettlementExact`
  joins the first and the last two.
- `MoneyAlwaysCovered`: refunds are covered, and an order its customer cancelled
  holds no money.
- `ViewsAlwaysAgree`: what the pages announce is what settling would do.

The invariant is `LInv` (`BooksInvariant`).  The first properties are not
inductive without what it adds: `NothingBeforeBooking` (an order is inserted
over empty sums, which its literal initial statuses presuppose),
`NoFeeBeforeReturn` (the return *sets* the fee, so it must have been 0 for the
charges to add up) and `DepositCovered` (the deposit bucket is never overdrawn;
the settlement works on `DepositHeld`, which hides a negative bucket, and would
otherwise not close it).  `SettlementEffect` is the arithmetic core: from covered
buckets, whatever the bill, the fee and the payments, the four receipts
leave the bill paid and the deposit gone.  `ConfirmationCorrect` needs
`DepositCovered` for the same reason.

`MoneyIsCovered` relates the sums of the ledger to the payment rows they sum.  As
induction over data is out of reach, `SumsTo` says "n is the sum of these rows"
without recursion: some additive function of sets of rows gives it.  Lemmas say
that adding a row adds its amount and removing one takes it away, and `Accounted`
(until the confirmation, each bucket is the sum of its rows in force) is then
kept by every command.

### Repeated commands (`IdempotencyClaimsProofs`)

For any requests and intents, any lease, retention and number of attempts; only the
clocks must be natural numbers and the null value no request and no intent:
`KeyExecutesOnceHolds` (an execution stays on record for its retention, and a key
executes at most once per period), `AnswersAreTrueHolds`, and `Implementation`, the
refinement of `IdempotentCommand`.

What was missing for an induction: `ExecutedHasLeft` (who executed is not at its
claim any more, so an execution names its request), `OwnerAskedForIt` and
`CompletedIsExecuted` (what a record says is what its owner asked for and did), and
`ClocksAgree` (a clock that was read is not ahead, so that what was expired then is
expired now).  A slow owner of a claim that was taken over fails the fenced update,
which is why its transaction executes nothing.

### Recording money by hand (`BookkeepingProofs`)

For any requests, members, keys and orders, any set of well-formed bodies (amounts are
positive, as the DTO demands) and any price; the null value is no request and no body:
`KeyRecordsOnce` (`OneReceiptPerKey`), `AnswersTellTheTruth` (`AnswersTellTheReceipt`),
`RefusalsFreeTheKey` (`NoClaimIsLeftBehind`), `RefundsAreCovered` (`RefundsStayCovered`),
together `ReceiptsAreKept` (`ReceiptsAreRecordedOnce`), and the action property
`RecordedIsToldAgain` (`RecordedIsReplayed`).

A receipt is written to three places, which the invariant ties together: a row is
the command of its request, and its scope is held by a completed claim of that request
(`Booked`); every claim is that of a request which asked under this scope, either
completed with its row or unfinished and not yet given back (`Claims`); and
whoever was told of a receipt was told of a row (`Answers`).  Only a void changes
a row, and it leaves these columns alone; a completed claim is never released, which
is why the same command always finds it.

The refunds are about a sum over rows, which the model computes with a fold.  What a
fold returns cannot be proved by induction here, so the module first gives sums
without one: `Additive` says of a function of sets that it adds element by element,
one exists for every finite set (a smallest subset without one would lack it for want
of one of its elements), the fold follows it (`FoldsTo`), and so sums over disjoint
sets add.  `Accounts` is then kept by every command: what an order's own commands
collected together with its rows in force is never negative, unless money went out
for another purpose.

### The return of an order (`BookkeepingProofs`)

For any pieces of which finitely many are out, any fees, damages and overrides:
`ReturnAddsUp` (`ReturnIsAccounted`).  `FeesAssumption` only says that amounts are
natural numbers, that findings and damages are about pieces that are out and that the
value for a charge of no piece is not a piece.

While the order is out only manual charges are there (`StillOut`), and until it is
settled none of the settlement's (`NotSettled`), so what a piece was charged for its
time can be told by the piece and the source of a charge.  A return adds for
each piece its fee rows, whose sum is the fee on the inspection; the settlement
replaces them by the agreed ones on both sides at once.  The bill stays the sum of its rows
by the lemmas on sums of `ManualReceipts`.

### Loyalty (`BookkeepingProofs`)

For any orders, customers, accounts and clients and any bounds: `RewardsAddUp`
(`LoyaltyAddsUp`).  `LoyaltyAssumption` says of the policy what its validation demands
(a reward every one or more rentals, of a value that may be zero) and of a
migrated history that an order is completed once; the migration rewards by the default
policy, so a history is rewarded by the policy of the model.

An entry is that of its order, and of one order (`EntriesAreTrue`); a row belongs to the
owner of its order and to nobody else, whether the back-fill, the count or the page looks
for it (`EntryBelongs`, `RewardBelongs`).  Who earned a reward is who has an entry of some
value (`RewardsAreEarned`), and of an owner's entries as many have one as there are
full cycles (`CyclesAreFull`).  A settlement keeps this because the count it
decided on is still the count when it commits, and one more rental fills a cycle exactly
when it brings the count to a multiple (`DivideNext`); for a migrated history it
follows by induction on its length (`HistoryEarns`: a shortest wrong history would be
right one order earlier).  A reward is spent by the order that names it and no other
(`SpendingIsBooked`).  What a customer is shown then adds up because spent and available
rewards pair off with bookings and with entries (`OneToOne`).

### The lease and the work under it (`SchedulerLeaseProofs`)

For any replicas and tokens, any length of the lease and any crashes; a token must
differ from the value for none, as a UUID does: `LeaseTypeCorrect` and `PromisesKept`
(`PromiseIsKept`), together `LeaseKept` (`LeaseIsKept`), and `SuccessExclusive`
(`SuccessWasExclusive`).  The invariant says that a token is in one process only
(`Distinct`), that a promise not yet over is no longer than the row says (`Backed`),
so the database calls a row free only when nobody counts on it, and that a run that
was overtaken never owns the row again (`Overtaken`), so it cannot end in success.

For any finite set of rows and any size of a batch, `CleanupIsLeased`
(`CleanupKeepsPromises`) and `CleanupSucceeds` say the same of the nightly clean-up
(`CredentialCleanup`): its batches are covered by the promise of the lease, and a run that reports success was
alone and left no row that had expired when it began (`SuccessMeansDrained`).  A batch
that is not full took every old row there was: otherwise the first row it left out
(one exists, the order of the rows being well-founded) would have fitted.  `Drained`
and `Through` keep that for the tables and the run that are behind it.

For any finite set of orders, any days and size of a page, `RefreshTypeCorrect`,
`HandledRemindersStay` (`TerminalStays`) and `UndisturbedRefreshIsExact`
(`RefreshIsExact`) are about the refresh of the reminders (`ReminderRefresh`).  A
refresh that nothing disturbed has met exactly the due orders up to its cursor and has
written them, save the rest of its page (`Exact`).  A page keeps that because it
is closed downwards among the candidates (`PageIs`), so nothing is skipped between two
pages; the last page has left none out, and only then is the rest resolved.
`WorksetIsLossless` (`LosslessWorkset`) and `ReturnsAreAnnounced` (`ReturnIsAnnounced`)
are about the rules that choose orders, at any instant and for a day of any length.

### Order e-mails (`RentalEmailQueueProofs`)

For any e-mails, workers and renderings, and any durations that meet
`WindowAssumption`: retries, lease and stall together fit in the time the provider
remembers a key.  The code has 23 hours of retries and a lease of minutes against the
provider's 24 hours.  Without it `NoMailTwice` is false.

- `NoMailTwice` (`AtMostOneMail`) and `PayloadNeverChanges` (`PayloadIsStable`),
  together `MailsGoOutOnce` (`MailsAreSentOnce`), `MailsInOrder` (`InOrder`),
  `SentMeansMailed` (`SentIsTrue`) and `FinalStatusStays` (`FinalStays`).

The core is the age of the provider's key: while an e-mail may still be tried the
key is no older than the first attempt (`Young`), so a request under way, or one
that was given up and arrives late, still finds it (`InTime`) and mails nothing
again (`Once`).  Two workers never hold the same claim (`Alone`), and whoever sends
sends what the row has stored (`Same`).

### Sessions (`RefreshTokensProofs`)

For any accounts, tokens and requests, and any times that meet `TimesAssumption` (a
refresh takes seconds, an expired row is kept for days):
`TokensTypeCorrect`, `OneTokenLives` (`OneLiveToken`), `ReuseIsTheEnd`
(`ReuseEndsSession`) and `OldSessionsEnd` (`PasswordChangeEndsSessions`), together
`SessionsSafe` (`SessionsAreSafe`), and the action properties `LoggedOutForGood`
(`LogoutIsFinal`), `UsableSessionsAreSpared` (`PurgeSparesSessions`) and `OverlapsAreForgiven` (`OverlapIsNoReuse`).

Every step does one of three things to the rows: it opens a family, replaces a live
token by its child, or lets rows decline (`Opens`, `Replaces`, `Declines`).  Reuse
ends a session although other requests run between its read and its commit, because
of `Snapshots`: either the snapshot saw a live token, which must then still be live
for the commit to succeed and is revoked with it, or the family had none and no step
gives it one.  `Closing` does the same for a password change: what it found closed
stays closed, and what it found open is on its list.

### Members and registration (`AccountProofs`)

For any people, roles and requests; some role manages: `MembersAreWhole` (`MembersTypeOK`),
`SomebodyManages` (`ManagerRemains`) and `RolesAreNeverMixed` (`RolesAreAsLastAsked`),
together `MembersManaged` (`MembersAreManaged`), and `PasswordsStay`
(`PasswordsAreKept`).  Somebody manages because the actor of a command still managed
when it took effect, or was overtaken, and cannot deactivate themselves; the proof
needs `Admitted`, what the guards let a request through with.

For any requests, attempts and codes, and any times of which only the retry delay must
not exceed the cooldown: `RegistrationSafe` (`RegistrationIsSafe`) and
`RegistrationStepsAreSafe` (`DeliveryIsRecordedOnce`, `VerifiedIsFinal`,
`PurgeSparesUsable`).  The password in force is the mailed one because at most one code
can verify and it is of the attempt whose password is pending (`OneActive`,
`AccountAgrees`): every step that changes the attempt ends the code before it.  A failed
delivery leaves a way back because a code issued in place of another remembers it, the
customer holds that one, and both are of one attempt (`IssuedAgrees`).  `CallsAgree` is
what a request still knows after its transaction.

### Evidence (`RentalLedgerProofs`)

For any requests: `EvidenceStaysStored` (`EvidenceIsKept`), if commits are decided by
the time the order is read again, and without this condition `EvidenceLeavesNothing`
(`EvidenceTypeOK` and `NoOrphanWithoutFault`) and `EvidenceIsNeverReplaced`
(`RecordedOnce`).  A picture is stored before its commit, and once the order refers to
it the request that stored it is past the point where it deletes (`RecordedIsStored`).
An undecided commit is alone and holds the order's lock (`OneInDoubt`), so nothing is
recorded that it would overwrite.  The condition is necessary: see section 5.

### Pictures of products (`RentalOrdersProofs`)

For any requests, files and products, which may share folders; `FolderAssumption` and
`FormatAssumption` are only the types of the two constants.  `BucketIsClean`
(`MediaTypeOK`, `ServedAsWhatItIs`, `NothingIsLeftBehind`) holds whether requests
overlap or not: an object that loses its last row or never gets one has a request
that is on its way to the clean-up, or met a fault (`StillWanted`).
`ShownPicturesAreStored` (`ShownPictureIsStored`) is for requests that do not overlap
on a key: then a worker is alone with its key, and a call that is late is its own
upload, which it can only clean up after (`Alone`), so nothing comes to refer to a key
between the count and a deletion, late ones included (`Doomed`), and what is about to
be added is stored (`Ready`).  The condition is necessary: see section 5.

### Only model-checked

- Liveness, all of it: it needs fairness and ENABLED, which are out of the
  prover's reach.
- Everything `shop` and `checkout` check, and of `office` what is not about
  e-mails, reminders, evidence or pictures of products (`FiguresAgree`, and the
  migration of pictures).  These models fold over sequences and sets of data, or compare readers on
  enumerated shops.  What a fold computes can be proved where it is a sum over a set (see
  above); over a sequence it would take induction over data.
- The pictures of `progress`.

## 5. Where code and documents disagree

Two disagreements are runs that must find the violation:

- `cleaning`: `docs/ARCHITECTURE.md:247` says an item always goes to CLEANING
  when its rental ends.  `receiveReturn` follows the inspection; the sentence is out
  of date.
- `revenue`: `docs/FINANCE.md:29` says settlement refunds are not an expense.
  `settleOrder` stamps its ORDER_REFUND with the instant of `completed_at`, and the
  finance page subtracts order refunds with `paid_at >= completed_at`.  An order that
  was overpaid before its settlement counts with its bill *minus* the refund.

The others are kept in the modules as definitions that TLC finds violated in the
instance named; no run lists them.

| Definition | Instance | What the code does |
|---|---|---|
| `CancellationAcceptsConfirmed` (`RentalOrders`) | `calendar` | `docs/BUSINESS_TYPES.md:30` says cancellation accepts confirmed orders; the transition list has only RESERVED |
| `ReportHasTheDaysExpenses` (`ShopFigures`) | `office`, finance | the revenue report selects expenses by UTC dates of local midnights, so a day's report ahead of UTC has the day before's expenses |
| `RevenueMatchesFinance` (`ShopFigures`) | `office`, finance | dashboard revenue counts payments, the finance page completed bills; `docs/DASHBOARD.md:43` says they match |
| `EveryListIsComplete` (`Storefront`) | `checkout`, window | the price-sorted list with a size and a colour selects products by two variants and keeps those with one; pages drop products |
| `ShownPricesAscend` (`Storefront`) | `checkout`, window | that list orders by a price that is not the one shown |
| `EvidenceIsKept` (`EvidenceUpload`) | `office`, doubtful | a commit still under way when the order is read again loses its picture |
| `CleanedUpOnlyUnreferenced` (`ProductMedia`) | `office`, overlapping | a second upload of a file between the count and the deletion of a clean-up loses its object |
| `EveryRowIsMoved` (`MediaSync`) | `progress`, moves, run with a limit of 1 | the same oldest rows are inspected for ever |
| `RerunMovesWhatFailed` (`MediaSync`) | `office`, moving | an error page once cached fails every later run |
| `OmittedIsRetained` (`ShopSettings`) | `shop`, overlapping | two overlapping changes of different prices; the second restores what the first changed |
| `StoredIsShownFromTheBucket` (`OrderPictures`) | `checkout`, album | the public look-up shows the stored address of a picture and not the configured one |

Behaviours worth knowing that no document speaks against:

- `StrandedOrderIsStuck`: when a confirmed order's item comes back DAMAGED or LOST
  from an earlier rental, the order can neither start nor be cancelled, and the
  warehouse may not change the item as long as the order counts on it.
- Two managers' overlapping requests can deactivate each other, and a manager can
  drop his own managing role: `ManagerRemains` names both cases (`demoted`,
  `overtaken`).
- A size or colour may be made inactive, and a category too, between the check of a
  request and its write, which then assigns it all the same: for variants
  `InactiveIsNotAssigned` allows exactly the requests that read it as active.
- A list filtered by status may miss an order that moves on while its pages are
  turned (`left` in `OrderPages`).
- A delivery without a fee may be created for a closed order, and an administrator
  may cancel an order that has received payments (`docs/RENTAL_MONETARY_MUTATION_BOUNDARY.md:23-38`
  draws this line on purpose); a cancelled order's page then still shows an amount due.
- After an independent refund of a completed order its status is PARTIALLY_PAID
  with an amount remaining.
- A PATCH of an address that leaves out `isDefault` clears the flag (the DTO inherits
  the default `false`), and two concurrent default addresses may both stay default.
- Nothing sets the settlement type the SETTLEMENT_CHANGED check could compare beside
  the kind.

## 6. Not modelled, and why

- Platform: HTTP, DTO parsing beyond what a model's inputs state, logging, health,
  the storage adapter's transport and configuration are input and output.
- Texts: mail templates, error messages, names, codes and slugs; search by text
  only narrows a list.
- Access tokens are stateless and expire; permissions come from the seed and no
  operation changes them.
- The audit log is best effort and only ever added to; where it must be a chain
  (settings) or commits with its command, the models have it.  The report of
  products is a read without a counterpart it could disagree with.
- Catalog: the administrators' lists and descriptive fields, a new code of a variant
  (later pieces are numbered under it) among them.  Shop settings: name,
  contact, colour and time zone, single writes of independent fields.  Picture
  rows never get a variant from the API, so only product pictures are modelled.
- Retries of serialization failures are an atomic action where an aborted attempt
  leaves nothing behind; `Loyalty`, `RefreshTokens` and `Catalog`, which depend
  on what is refused or on reads that the serializable check does not protect, have
  the attempts.
- The local calendar of `ShopFigures` leaves out zones behind UTC whose clocks jump over midnight.
- `EvidenceUpload` leaves the format check of a picture to `ProductMedia`, which
  uses the same function.

## 7. Plan

Modelled: all components of section 1 except the platform, with the parts named
above left out.  Proved: section 4.

Next theorems, most important first:

1. `MediaSync`: a key has its object and is of its source.
2. `Cart` and `ShopSettings`: nothing is overwritten that was not shown.

Next models: the order's status and deliveries of `RentalOrders` composed with
the bill of `RentalLedger` for a single order.
