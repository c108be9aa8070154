# Formal models of the maxi shop API

The repository is the NestJS back end of an online shop: clients fill a cart and
check out, stock is held while an order waits for its payment, gateways report
payments by webhook or are polled, a scheduled job expires unpaid orders, and a
back office changes, corrects, refunds and delivers. It runs on PostgreSQL
through TypeORM; requests run concurrently, at READ COMMITTED.

This directory holds TLA+ models of its core (stock, orders, payments, expiry,
refunds), of the shop around it (cart, delivery, promise, catalogue, texts, mail)
and of its people (permissions and routes, staff, customers, addresses), the TLC
configurations that check them on small instances, and TLAPS proofs of what holds for
every instance. `PROJECT.json` maps every definition to the lines
it models.

## Inventory of the system

| Component | State | Operations | What is hard | What makes it correct |
|---|---|---|---|---|
| Inventory (`inventory/`) | physical and reserved units per storage and product; reservation rows; operations and movements | IN, OUT, TRANSFER with rehoming of pickup holds; reserve, confirm and release of an order or of part of a line | rows read without a lock, rows locked in any order, rows split by partial releases | counters match rows; nothing oversold; the ledger reconstructs the stock; history adds up |
| Orders (`orders/`) | status, payment status, cancellation reason, lines | checkout, back-office sale, client cancellation, status change with jumps, reinstatement, payment status, correction, edit of lines | rows read before a transaction and written back whole; many paths between statuses | the stock of an order is what its status says |
| Payments (`payments/payments.service.ts`) | attempts (charges) per order, idempotency keys | create an attempt, webhook, poll, late payment, remove an attempt, proof upload | seconds at the gateway between read and write; repeated and reordered news; removed attempts and reused keys | money that came in is on record and never taken back; a late payment is honoured or refunded |
| Expiry (`payments/order-expiry.service.ts`) | none of its own | sweep, expire | races the payment it waits for | unpaid orders free their stock in the end; paid ones never expire |
| Refunds (`refunds/`) | refunds of an order | request, complete, reject, automatic refund | caps computed from sums that other requests change; refunds and orders saved from stale copies | never more promised and returned than the total; refunded means returned |
| Cart (`cart/`) | lines per client | add, set, remove, clear; checkout empties it; lines of a cancelled order return and leave again | read-then-save; checkout reads outside its transaction | units come back once |
| Payment sealing, delivery promise (`orders/payment-sealing.ts`, `common/business-days.ts`) | paidAt, promised date | seal, unseal | several paths to paid; working days, holidays and clock changes | the first payment dates the order, and the date is the right one |
| Storages, delivery (`stock-locations/`, `fulfillment/`, `geography/`) | storages with coverage and counters; options with zones; the pickup setting | create, update, remove; offer, choice, fee; the panel's warning | two separate computations of where nothing can be offered; zones deleted, then inserted | an accepted choice can be served; dead ends are reported |
| Catalogue, home (`categories/`, `products/`, `cms/`) | departments and categories in one table, products, banners, draft and published home | create, update, remove; public lists, counts and pages; publish | frozen copies that outlive what they point at; counts and lists written apart | what is shown is served |
| Pages and notices (`cms/cms-pages.service.ts`) | drafts, versions, slugs, schedules | create, update, publish, remove | no transaction around version and row | the versions are a complete record |
| Mail and reminders (`mail/`) | e-mail log | send through switch and quota, notices, welcome, daily reminder sweep | answers not heard, rows refused, days missed, restarts | no reminder skipped, none repeated without a cause |
| Permissions, routes (`permissions/`, `common/guards/`, controllers) | permissions, managed roles, grants, assignments | seed, create, edit, delete, assign; guards | statements outside transactions; order of routes | a route serves its own path to those it names |
| Staff (`users/`, `auth/`, `webhooks/`) | members, invitations | create, update, remove, restore; invite, revoke, resend; Clerk events | redelivered and reordered events, handlers that die half way | nobody in without an administrator; a super admin remains |
| Customers (`clients/`, `auth/client-auth.service.ts`, `webhooks/`) | clients linked to Clerk | create, update, remove; events; recovery at login; gated customer of a member | login, webhook and provisioning write the same row | gated until approved; nobody kept out by a lost event |
| Client addresses (`client-addresses/`) | addresses, one default | create, update, set default, remove | a statement at a time | exactly one default |
| Payment methods, contact, FAQ, services, staff cards, settings, nomenclators | rows | create, read, update, delete | – | – |
| Reports, PDFs, dashboard, uploads, configuration | none | queries and I/O | – | – |

Interactions: OrdersService, PaymentsService and OrderExpiryService call
InventoryService inside their own transactions, passing the entity manager;
PaymentsService writes orders and opens refunds; RefundsService locks orders and
turns them refunded; the expiry job is an HTTP call
from a scheduler; webhooks, polls, clients and staff reach the same order at once.

## Modules

| Module | Models | State |
|---|---|---|
| `Stock` | InventoryService as operators from books to books | none |
| `Inventory` | InventoryService called by anybody, one transaction per step | `stock`, `pickup` |
| `Settlement` | inside confirm and release: statements, row locks, commits, deadlocks | `stock`, `job`, `tx`, `lock` |
| `Orders` | OrdersService, PaymentsService, OrderExpiryService over the books | `stock`, `orders`, `items`, `charges`, `due`, `refund`, `req` |
| `Sale` | abstract: what orders and warehouse promise each other, with one shelf and single steps | `shelf`, `status`, `lines` |
| `Refunds` | RefundsService on one order, statement by statement, and the other writers of its total and payment status | `order`, `refunds`, `req`, `shared` |
| `Attempts` | the attempts of one order: keys and numbers, the gateway's memory of a key, reuse, polls, webhooks, proofs, removal | `payment`, `charges`, `gateway`, `handling`, `removed` |
| `Cart` | CartService, checkout's use of it, `devolver-al-carrito.ts` | `cart`, `bought`, `pending`, `asked`, `source` |
| `Promise` | `payment-sealing.ts`, `business-days.ts` and the callers | `now`, `order` |
| `Delivery` | StockLocationsService, FulfillmentService, GeographyService | `storages`, `points`, `options`, `pickupEnabled`, `saving` |
| `Catalogue` | CategoriesService, ProductsService, CmsService (banners), CmsHomeService | `categories`, `products`, `inventory`, `storages`, `banners`, `home` |
| `Content` | CmsPagesService | `pages`, `versions`, `requests` |
| `Mail` | MailService, OrderMailer, ClientMailer, PickupRemindersService | `today`, `configured`, `order`, `log`, `sweep`, `sending`, `copies`, `unheard`, `missed` |
| `Routes` | every controller as a table of routes | none |
| `Access` | PermissionsService, AuthGuard, RolesGuard, PermissionGuard | `permissions`, `roles`, `grants`, `userRoles`, `process`, `edit` |
| `Staff` | UsersService, InvitationsService, the admin Clerk's events | `users`, `invitations`, `clerk`, `sent`, `accepting`, `request`, `opened`, `chosen`, `abandoned` |
| `Clients` | ClientsService, provisioning, invitations, recovery, the store Clerk's events | `clients`, `clerk`, `sent`, `provisioning`, `member`, `invited`, `mirrored`, `unlocked` |
| `Addresses` | ClientAddressesService | `book`, `at` |
| `Sums` | sums over finite sets | none |
| `MCInventory`, `MCSettlement`, `MCOrders`, `MCRefunds` | instances for TLC | |
| `Shop` | `Cart`, `Attempts`, `Promise`, `Delivery`, `Catalogue`, `Content` and `Mail` side by side | theirs |
| `People` | `Access`, `Staff`, `Clients` and `Addresses` side by side | theirs |
| `MCShop`, `MCPeople` | instances of `Shop` and `People`, one behaviour about one component | `focus` |
| `SumsProofs`, `StockProofs` | lemmas on sums and on each stock operation | |
| `InventoryProofs`, `SettlementProofs`, `OrdersProofs`, `RefundsProofs`, `ShopProofs`, `PeopleProofs` | theorems about `Inventory`, `Settlement`, `Orders`, `Refunds`, `Shop` and `People` | |

### Stock

Books are a record: `quantity` and `reserved` per inventory row (a pair of storage
and product), the table `rsv` of reservation rows in order of age, and `ledger`,
the units that the movement table adds up to. Each operator is one service
method: `addStock`, `removeStock`, `rehomeReservations`, `reserve`,
`confirmReservations`, `releaseReservations`, `releaseProductUnits`,
`confirmProductReservations`. Three loops of the code become declarative:

* `reserve` drains storages one after the other, the preferred one first and then
  the fullest. `Allocations` is the set of outcomes of that loop: all is covered,
  nothing exceeds what is available, no storage gives before those ahead of it
  are drained, at most one is left part full. It is empty exactly when the code
  answers 409.
* `rehomeReservations` goes through misplaced holds by age and moves each one
  that still fits. `RehomesExactly(..., M)` says that `M` is what it moves.
* `releaseProductUnits` lets go held rows before taken ones, oldest first: `Take`
  is how much each row gives, from the sum of the rows before it.

Rows written by one transaction share `created_at`, so the order among them is any
order (`RowOrders`). Where the code reads `inventory` rows that do not exist the
books have a row of zeros. Sums are cardinalities of disjoint unions (`Total`),
which needs no recursion and so can be reasoned about by the prover.

### Inventory

One action per call. Callers are arbitrary: any order may reserve, confirm or
release at any time, from any set of storages. What holds here holds whatever the
rest of the system does, as long as each call is one atomic step.

### Settlement

Whether that is so. `confirmReservations` and `releaseReservations` read the
reservations of an order without a lock, then take each inventory row FOR UPDATE,
in whatever order the rows came back. A transaction sees its own writes and the
committed books; a wait cycle is broken by the database. `AtomicTransactions`
says that each commit is one call of `Inventory` on the books it finds: a
refinement of the actions of `Inventory` through `Calls`.

### Orders

A handler reads the order row, decides, and later writes the row back whole with
its stock calls in one transaction. So each handler is a request slot: `Start...`
reads and computes the row to write (`req[r].new`), the commit action writes it.
Between the two, others run; `Requests` is how many handlers can overlap.
`createChargeForOrder` has three steps (read, store the charge, save the order),
as the gateway call lies in between. The webhook and the poll share
`News`/`ApplyNews`/`SavePayment`, followed by `LateReinstated` or `LateOutOfStock`
for an order the sweep had cancelled. Time is one flag per order, `due`: its
payment window has passed; it is reset where the code restarts the window.
`checkout` and `crearParaCliente` are single steps, because everything they
write is written in one transaction and the order does not exist before.
An edit of the lines changes and removes the lines it has read; what another edit has
inserted since stays (`Rewritten`). Lines are a quantity per product, so two rows that
two overlapping edits insert for one product count as one line of both.

### Sale

The abstract specification of the two together. There are no storages, holds,
movements, payments or handlers: one shelf per product, the status and the lines of
each order. An order is placed, served (only forwards), cancelled (unless delivered),
reinstated, edited, and, where the back office may correct mistakes, put in any status;
goods arrive and leave. Every step that changes an order moves exactly the goods that
its old and its new status and lines differ in, and leaves on the shelf what the pending
orders wait for (`Fits`). `SellsFromOneShelf` is the refinement: the shelf is the sum of
the stock of a product over all storages (`OnShelf`), the status and the lines are the
columns of the same names. It asks more than the three invariants on `Units`, which compare
reservation rows with lines: it says that physical stock changed by as much, in the
same step, and by no other step.

### Refunds

One order, as refunds of different orders never meet. `request` reads the order FOR
UPDATE (`RequestLock`), sums the refunds that are requested or completed
(`RequestCount`) and inserts or is refused; the lock is owned from the first step to
the last, so it is a function of the steps (`Locked`). `complete` reads the refund
and then the order without locks, saves the refund in a transaction
(`CompleteWrite`; others do not see it, and wait for its row), sums the completed
refunds it can see (`CompleteTally`), and commits, with the whole order it read if
that total has been returned (`CompleteClose`). The event it records refers to the
order row and therefore waits for the lock of a request. `reject` reads and saves
later. The order is also written by `MarkFind`/`MarkSave` (payment status by hand,
by correction or by the gateway: read, then saved whole) and by `EditTotal` (the
edit of the lines updates the total only). Amounts are whole cents, as in the code.
Nothing keeps two handlers from working on one refund: each checks that it is requested
on a row it read without a lock. `shared` is history: it has happened. From then on a
completion may bring back a refund that was rejected meanwhile, and the cap fails, so
`WithinCap`, `RefundedMeansReturned` and `FullReturnShows` speak of the time before. What
always holds is `RequestsFit`: a new request never goes beyond the total, because the
lock covers its read, its sum and its insert.

### The shop

These components meet the core only through values (a delivery option, a paid
order, what is available of a product), which are small sets of inputs here. They share no
state: `Shop` instantiates each with variables of its own, a step of `Shop` is a step of
one of them, and it states what each promises. `MCShop` extends it, chooses one component
at the start (`focus`) and lets only that one move.

* `Attempts`. `Orders` has attempts with the stock and status of their order; here is what
  `Orders` leaves out: the number of an attempt is a count of rows, the reference stands
  for the idempotency key, a repeated key is answered with the charge the gateway has,
  an answer may be lost, an attempt may be removed, and a stale `save()` of a removed
  row inserts it again. `dead` is what was over when a request came.
* `Cart`. A handler reads its rows (`Begin`) and writes in one transaction (`Commit`)
  or fails (`Abort`: the unique index on client and product). `save()` of a row whose id
  is gone inserts it. `asked` and `source` are history: what the client put in by hand
  and which orders came back into a line.
* `Promise`. Dates are day numbers and instants hours; the offset of Havana, the fixed
  holidays and Easter are computed as the code computes them. The deadline counts days in
  a recursive function, up to the end of 2030; `IsDeadline` says the same by counting
  working days. The seal is
  put on by the gateway, by `updatePaymentStatus` and by `correct`, and taken off
  only by `correct`.
* `Delivery`. `replaceZones` is a step of its own after `createOption` and
  `updateOption`, as the code has no transaction there; in between an option reaches
  every place. A choice is checked and its storages are found on the same tables:
  checkout awaits the cart and the payment method between `resolveChoice` and
  `resolveAllowedLocationIds`, and what an administrator changes in that time is not modelled.
* `Catalogue`. The two families of queries behind the navigation (counts in SQL) and
  behind a listing are separate definitions. Handlers run one at a time.
* `Content`. A request keeps the row it read; `InsertVersion` and `PointAtVersion` are
  the two saves of `publish`, `FreeSlug` and `SoftDelete` those of `remove`.
  `Restart` forgets all requests.
* `Mail`. `send` decides (switch, quota), the provider answers, is not heard
  (`Timeout`) or refuses, `record` writes the log or fails. `copies` is what reached
  people, `unheard` what the log does not know of, `missed` what a pass tried and did not
  get into the log.

### The people

`People` and `MCPeople` are built the same way. `Access` appears twice: with a member of each tier and one
edit at a time, and with two edits in progress on one role.

* `Routes` and `Access`. One table per controller, in registration order; `AnswerOf` is
  the first route that takes a path. The guards are evaluated for every route; an edit
  of grants or assignments wipes and saves in two statements, and the service may
  crash and seed again between them.
* `Staff`. Events of Clerk are a set of what was ever sent: each may be delivered late,
  again, never, and in any order. `update` and `remove` read and count in one step; `update`
  saves in another, and `remove` shuts the row, deletes it and withdraws the invitations in
  three (`Deactivate`, `SoftDelete`, `revokePendingForEmail`); the service may restart between
  any two (`RequestDies`). An invitation is checked before Clerk is asked and its row is
  saved after the answer (`SaveInvitation`), so that two of one address may overlap. `opened`, `chosen`
  and `abandoned` are history: whom an administrator let in, with which tier, and whether
  Clerk took a super admin away.
* `Clients`. The same for the store's Clerk; `CreateUser` and `SaveMirror` are the two
  writes of provisioning, between which the webhook or a login may come.
* `Addresses`. Each statement is a step.

External: the payment gateways (a charge is accepted or fails; any status may be
reported, repeatedly, in any order), PostgreSQL (locks, rollback, deadlock
detection, unique indexes), the two Clerk instances (accounts and their events) and
the mail provider.

## Runs

| Run | Bounds | Shows |
|---|---|---|
| `inventory` | 2 storages (one a pickup counter), 1 product, 2 orders, quantities to 2, 4 units, 3 reservation rows, let go as cancelled only (`Marks`) | counters match rows, no overselling, the ledger reconstructs the stock, history adds up, a transfer moves every hold that fits |
| `settlement` | 2 transactions on different orders out of 3, over both storages | transactions on different orders are atomic, settle once, and all end, deadlocks included |
| `orders_serial` | 1 order, 1 handler at a time, all operations, quantities to 2, 1 attempt | the stock of an order is what its status says, after any path through edits, jumps, corrections, reinstatements, expiries; a paid order stays paid; `Sale` is implemented |
| `orders_payments` | 1 order, 2 attempts, gateway and cash | succeeded charges are on record; a late payment is honoured or flagged with its refund; an unpaid order frees its stock |
| `orders_overlap` | 1 order, 2 overlapping handlers | books stay sound; goods taken return only by staff |
| `retry_revives` (violated) | 2 overlapping handlers | a payment attempt stored after a cancellation brings the order back without stock |
| `sweep_over_payment` (violated) | 2 overlapping handlers | a payment saved between the re-check and the save of the sweep is overwritten |
| `double_news` (violated) | 2 overlapping handlers | webhook and poll apply one late success twice and hold the stock twice |
| `refunds` | 2 overlapping handlers, also on one refund, up to 3 refunds, totals of 1 and 2, amounts to 2 or "the rest", the payment status set to paid or refunded by hand (pending and failed make no difference to a refund) | a new request fits into what is left, every handler ends; until a refund has been in two pairs of hands the cap holds against every overlap and refunded means returned |
| `refund_halves` (violated) | 2 overlapping handlers, total 2 | two halves completed at once: all is returned and the order still shows paid |
| `shop` | one component per behaviour: 2 attempts of one method and 2 handlers; a cart of 2 products, 2 orders and 1 handler; 16 instants of 2026 around weekends, holidays, both clock changes and the turn of the year, terms of 0, 1, 2 and 5 days; 2 storages, 3 municipalities of 2 provinces, 1 option, 2 counters; 2 rows of the categories table, 1 product, 1 storage, 1 banner; 1 page with 2 requests, 3 texts, 2 versions; 1 order, 2 milestones, 3 days, a quota of 3 | a retry is never handed a finished attempt unless an older one was removed; units return to the cart once; the promise follows the payment and stands; dead ends are reported and accepted choices can be served; banners and counts of the navigation lead to pages that answer; versions are a complete record; missed reminders are made up and none is repeated without a cause |
| `people` | one component per behaviour: all controllers, 3 members, a base and a custom role, and 2 edits at once; 2 people, 2 accounts, and either requests of the panel with 1 invitation or 2 overlapping invitations with no such request; 1 customer with 2 accounts; 3 addresses | routes serve their own path to those they name; granted work comes with the reads it needs; nobody is in without an administrator; a super admin remains; a member's customer stays gated; nobody is kept out by a lost event; exactly one default address |

Why these bounds are enough for the interesting cases: two storages give splits,
preferences, transfers and opposite lock orders; two orders compete for the last
of four units, enough for an older hold that does not fit a counter beside a
younger one that does; quantities of 2 give partial releases and rows split in two;
three reservation rows hold a row, its split-off and a second hold; two attempts
give a failed one and a retry; two handlers give every read-write race; three
refunds on a total of 2 give two halves and one too many; two provinces and a list with
a municipality of the wrong one give every kind of coverage; two rows of the
categories table give a department, its category and a department made a category; two
versions and two requests give every order of two publications, edits and a
removal; three days give both milestones, a missed one and the end of custody; two
accounts of one address give a second registration. Reservation
rows only grow, so their number (`MaxRows`), the units (`MaxUnits`) and the
attempts (`MaxAttempts`) are bounded in the guards; handlers that may add rows
start only while there is room (`Room`); `MaxRowIds`, `MaxVersions`, `MaxDay`,
`MaxCopies`, `MaxInvitations` and `MaxCreated` bound the rest in the same way. At these bounds nothing may be left
to do, hence no deadlock check (`refunds` has it: edits of the lines never end). In
`orders_overlap` the payment handlers are left out, as they make no stock call that the others do not make; the proofs below
cover them.

Fairness (`orders_payments`, `settlement`): handlers in progress finish and time
passes (weak fairness), and the scheduler keeps calling the sweep: an order that
is due again and again is swept in the end (strong fairness per order, as every
sweep scans all due orders). No fairness is assumed of clients, staff or
gateways. In `settlement` every transaction that can run does. In `refunds` a
handler that has begun goes on (strong fairness: the database grants a row lock to
whoever waits for it, though others may own it in between). In `people` a person of
the store who is not registered keeps coming back (weak fairness of `Login`):
`recuperarDesdeClerk` runs at an authenticated request and at no other time. Nothing is
assumed of the delivery of events. The steps of `shop` need no fairness.

`orders_payments` leaves out manual changes of the payment status: marking an
expired order as paid by hand does not go through `reinstateIfExpired`, so
`LatePaymentResolved` speaks of payments that a gateway reports.

### What the violated runs mean

All four come from rows read without a lock. `createChargeForOrder` saves an order as old
as the call to the gateway; `expire` re-reads the order inside its transaction,
but READ COMMITTED without a lock lets a payment commit before the save; the
duplicate check of `handleWebhook` compares with a status read at the start;
`complete` does not lock the order as `request` does. With two overlapping handlers
`CommittedIsTaken` and `PaidStaysPaid` fail for the same reason, which is why `orders_serial` states them for one handler at a time. What it shows is about
long sequences (jumps, corrections, repeated and late news); of the stale rows of
overlapping handlers it shows nothing, and these are the matter of the violated runs and of
`orders_overlap`.
`findings` in `PROJECT.json` quotes the comment or document each one contradicts.

### What else the models show

Other constants of the same modules give these behaviours; most are relatives of the
four above. `NoGrandchildren`, `PublishedIsLatest`, `SuccessIsKept` and `NeverMoreThanPaid`
state what a comment says: give one of them to TLC as the only property of `MCShop` (the
last one: of `MCRefunds`) for the trace.

* Two requests that settle the same order (`Settlement` with `Jobs` on one order) both
  read its holds before either locks a row, and both subtract them.
* `NeverMoreThanPaid` of `Refunds` (`MCRefunds`) fails: a completion reads a refund of the
  whole total while it is requested; a rejection of it is saved; a new request of the whole
  total is accepted; then the completion commits, by id, and the rejected refund is
  returned after all, beside the new one: 4 of 2. Rule 2 in the comment of the service
  (`refunds.service.ts:59`) says that never more is returned than was charged, and that two
  open requests cannot add up to more than the total. In the same way a rejection saved late
  takes back a refund that another completion has counted, and the order shows refunded.
* `SuccessIsKept` of `Attempts` (`MCShop`) fails: `removeAttempt` reads an attempt that is not
  a success, the webhook saves the success and the order is paid, and the row is
  deleted by its id. The comment there says a successful charge is never touched.
* After the removal of an older attempt the count falls back: a retry computes the key of
  an attempt on record and is handed that one though it is over, again and again until
  another method adds a row. `RetryIsFresh` names this exception; the comment of
  `createChargeForOrder` says a retry never collides.
* `NoExcess` fails with two cart handlers: an addition that overlaps a clear brings the
  cleared units back. Of two clicks one can be lost, and two submissions make two orders.
* An order that a correction turns back to pending from refunded keeps its seal:
  `deshacerCobro` is called only when the status before was paid.
* Two overlapping address handlers can leave two defaults.
* `NoGrandchildren` (`MCShop`) fails: create a department, then `updateCategory` with that
  department as its own parent. `updateCategory` loads any row of the table, while the
  comment of `createCategory` says that its check "is what prevents grandchildren".
* `PublishedIsLatest` (`MCShop`) fails: create, publish, and a restart between the version
  and the row. The number is taken, the row still points at nothing, and each later
  publication computes the same number and fails on the unique index. The comment in
  `publish` (`cms-pages.service.ts:143`) says the published version is always the latest.
* Two super admins who demote each other at the same time both pass
  `assertNotLastSuperAdmin`; `Staff` therefore has one panel request at a time.

## Proofs

`InventoryProofs` proves, for any finite sets of storages and products, any orders
and any quantities,

* `TypeCorrect`: `Spec => []TypeOK`
* `CountersMatchRows`: `Spec => []HoldsMatchRows`
* `NothingOversold`: `Spec => []NoOversell`
* `LedgerAddsUp`: `Spec => []LedgerReconstructs`
* `HistoryIsKept`: `Spec => HistoryKept`
* `TransfersRehome`: `Spec => TransferRehomesAll`

from the inductive invariant `IInv`: the type and `Sound(stock)`, the conjunction of
the three promises. They are inductive only together: a confirmation subtracts
what rows hold from both counters, which keeps `reserved <= quantity` and
`reserved >= 0` only because the counter is the sum of the rows. `SumsProofs` and
`StockProofs` have
one lemma per idea and per operation:

* sums (`Total`): disjoint unions, differences, single elements, equal weights,
  zero weights, sums of weights, larger weights, sums by group;
* closing rows lowers the holds by what they held (`SettledHolds`), appending rows
  adds what they hold (`AppendedHolds`);
* a partial release: weights split into what is let go and the rest
  (`ReleaseUnitsSound`); the split-off rows hold nothing;
* rehoming: what arrives at the counter fits (`RehomedFits`), by looking at the
  youngest hold that moved, whose older companions were all counted when it was
  let in; that a youngest exists is well-foundedness of strict inclusion on
  finite sets (`YoungestExists`).

The two action properties follow from `IInv` step by step. `Remembers(s, z)` says that books
`z` have the history of `s`: statuses and storages may change (`SameUnits`), rows may be
appended (`AppendRemembers`), and in a partial release the parts split off are, one to one,
what the rows have lost (`PartsSplitOff`, `LinesRemember`). `LeftDoesNotFit`: a hold that
rehoming left elsewhere was refused when only older ones had been moved, and the counter
had then at least what it has in the end; a call of an order never lowers one count and
raises another (`OneWay`).

`SettlementProofs` proves, for any number of transactions on different orders
(`DistinctOrders`), any storages, products and rows, and any sound books to start from
(as `BooksStaySound` shows them to be),

* `SettledExactlyOnce`: `Spec => []SettledOnce`
* `TransactionsAreAtomic`: `Spec => AtomicTransactions`

from `StInv`: the committed books are sound, and for each transaction what it has marked and
has yet to mark are the rows of its order in the state it needs (`Planned`), it owns the
inventory rows of what it has marked and no others (`Owns`), and its own counters are the
committed ones less what it has marked (`Counts`). The last is relative to the books as they
are now: nobody else can commit to a row it owns, and other commits do not touch the rows of
its order (`CommitTouches`, `OthersGoOn`). So at the commit the counters it writes are those
of one call on the books it finds (`CommitIsCall`). On one order the theorem is false, as
"What else the models show" says; there the guard is with the caller.

`OrdersProofs` proves, for any number of handlers in progress,

* `OrdersTyped`: `Spec => []TypeOK`
* `BooksSoundAlways`: `Spec => []BooksSound`
* `OnlyStaffRestocks`: `Spec => RestockOnlyByStaff`

However stale the rows they write, handlers reach the books only through operations that
keep them sound. The inductive invariant `OInv` adds that a handler about to store or
update a charge has one in hand. The theorems take each stock call as one step.
`Settlement` justifies that for `confirmReservations` and `releaseReservations` on different
orders, and for nothing else: the statements of a reservation, of a partial release or of a
transfer that rehomes holds are not modelled, nor is a transfer that overlaps the settlement
of an order whose holds it moves.

For one handler at a time (`Requests = {h}`: the violated runs show what overlapping
handlers do) and any orders, products, quantities and attempts, it proves

* `PendingReserved`, `CommittedTaken`, `CancelledKeeps`: `PendingIsReserved`,
  `CommittedIsTaken` and `CancelledKeepsNothing` always hold
* `SerialHoldsAtMostItsLines`: `HoldsAtMostItsLines`, which `double_news` violates
* `PaidStays`: `Spec => PaidStaysPaid`
* `OrdersAreASale`: `Spec => SellsFromOneShelf`

from `SInv` (theorem `OrdersServeStock`). `Owing` ties the units each order holds and has
taken to its lines and status. A handler writes a row it computed earlier, so `Fresh` says
that its copy is the row and the lines on record and that what it decided follows from
them: with one handler nobody writes in between. The lemmas of `StockProofs` on `Units`
say what each stock call does to the units of every order and line, the partial release
included, and `OnlyRowsOf` that a call touches the rows of one order.

The refinement of `Sale` maps every commit to one step of the sale and every other step to
a stutter. `GoodsKept`: a stock call for an order keeps the sum of what is on the shelves
and what the order has taken, product by product; it is proved of confirming, releasing,
restocking, and letting go part of a line, by adding up the storages (`PerColumn`), and it
chains over the calls of one transaction. With `Owing` before and after the step, what the
order has out is what its status says, so the shelf moves as `Moves` demands
(`SaleMoves`). `HeldIsOnShelves` gives `Fits`: the holds of all orders, added up by order or by
storage (`TotalByGroup`), are the counters, and those are at most the stock.

Without manual changes of the payment status and corrections (`Operations` has neither
`"payment"` nor `"correct"`; a person may write any status) it also proves
`SucceededPaid` (`SucceededIsPaid`) and `LateResolved` (`LatePaymentResolved`), from `MInv`
(theorem `MoneyAgrees`). After a payment is saved and before the late one is resolved the
order breaks the promise; `Agree` says which handler owes what to which order, and
`Meant` what each is about to write.

`RefundsProofs` proves, for any number of handlers, refunds and amounts,

* `RequestsAlwaysFit`: `Spec => RequestsFit`
* `CapHolds`: `Spec => WithinCap`
* `RefundedIsReturned`: `Spec => RefundedMeansReturned`

A request compares what it read in two earlier steps, so the invariant (`IInv`, until a
refund is `shared`) says why that still holds when it inserts: the lock has one owner (`OneLock`), its copy of the order
is current (`CopyIsCurrent`), and its sum still bounds what is committed
(`SumIsBound`). The last needs that no completion raises the sum, that is, that a
refund in hand is still requested (`InHandIsOpen`) and in one pair of hands (`OneHand`):
exactly what two handlers on one refund break. `RequestsAlwaysFit` needs less (`LockInv`): a
completion that brings a rejected refund back commits only when nobody owns the lock of the
order row, as its event refers to that row; a rejection only lowers the sum; so
what a request has summed still bounds what is committed when it inserts. `TallyIsBound`
says the same of the sum of a
completion. Steps that only read share one lemma (`ReadStep`), last steps another
(`WriteStep`).

`PeopleProofs` proves, for any members, accounts, customers, roles, invitations and events,

* `PeopleTyped`: the types of all four components (`TypesOK`, proved and not asked of a run)
* `GrantsCanBeUsed` (`ReadsComeAlong`), for any number of overlapping edits and a crash
  after any statement. The invariant says that what an edit carries is complete between
  its two statements and that a union of complete sets is complete.
* `GuardsAdmit`: `Spec => []Ac!GuardsAdmitTheirOwn`, the half of `RoutesServeTheirOwn` that
  depends on the state. `ControllersFormed` goes through the controllers: whatever a route
  demands, the guards know how to read it, and a permission is one of the catalogue
  (`Offered`). `GuardsAgree`: on such a gate the three guards and the decorators agree in
  every state in which the catalogue is complete, and the invariant says that it is when the
  service is up.
* `NobodyLetsThemselvesIn` (`ChosenByAnAdmin`), by following every place from which a tier
  can reach a row: rows, invitations of any status, saves to come.
* `BackOfficeKeepsASuperAdmin` (`SuperAdminRemains`). `StaffKept`: while a request is about to
  demote or remove somebody, there is another super admin.
* `MirrorGated` (`MirrorStaysGated`). `Gated`: once its two writes are over, the row of a
  provisioned customer is there to stay, so no later webhook or login makes another.
* `OneDefaultAddress` (`OneDefault`), for one handler at a time (`BookRequests = {r}`).
  `AddressBook` says at which statements there is no default.

`ShopProofs` proves, for any constants of `Shop`,

* `PromiseHolds`: `Spec => PromiseStands`. The invariant: the promise on record is the one
  that the recorded date of payment gives, there is none without a date, and a paid order
  has a date.
* `PromiseIsRight`: `Spec => []PromiseMatchesPayment`, for every instant and every term of at
  most 60 days that the calendar of the model reaches (`CalendarAssumption`; TLC evaluates
  it). `LoopStopsRight`: the loop, from any day and with any number of days left, stops on a
  working day and leaves as many working days behind it as were asked for. It is proved from
  the last day of the calendar backwards, by taking the latest day from which it would be
  false; `CountExists` shows in the same way that the recursion defines a function. `DayEnds`:
  the offset taken at midnight UTC is the one at which the day ends in Cuba, also in the
  nights in which the clock changes.
* `RecordIsComplete` (`RecordComplete`), for any number of overlapping requests and restarts. The
  numbers of the versions of a text are exactly `1 .. n`; the row, and every number a
  request has computed, is at most one more.
* `RetriesAreFresh` (`RetryIsFresh`), for any number of handlers. A key is a count of rows:
  `Settled` says that below a number in use with no removal there are as many rows as
  numbers, so that the next count is a new number.
* `PanelNamesDeadEnds` (`DeadEndsReported`): the shortcut and the query of the panel agree
  with the offer for every geography; no step is involved.
* `AcceptedCanBeServed` (`AcceptedIsServable`): storages keep their counters and options
  their amounts through every edit, so that what checkout accepts can be served.
* `StoreShowsWhatItServes` (`ShownIsServed`): the two families of queries agree
  (`QueriesAgree`); banners and products point at rows that are there (`CatalogueInv`).
* `MissedAreMadeUp` (`MissedIsMadeUp`), for any number of overlapping passes. A pass walks
  milestones and orders in order: `Paid` says that all it has left behind is logged or was
  tried by it, `Waiting` that its list still has whoever waits.
* `RemindersAreBounded` (`RemindersBounded`). `Tally` counts copies against passes in flight: while
  the log has no row, each copy is unheard or in the hands of a pass whose answer is to be
  recorded; afterwards no pass starts another.
* `UnitsReturnOnce` (`NoExcess`), for one handler at a time (`CartRequests = {r}`). `CartInv`: the
  cart satisfies the promise, and so will it after the write the handler has computed.

Assumptions: `Stock` (finite storages and products, order numbers are naturals,
the "no counter" value is no storage, quantities are bounded by a positive number),
`Inventory` (counters are storages, `Marks` are final statuses: `Marks` are those
that a run explores, as neither the code nor a property tells cancelled from
expired), `Orders` (a positive number of attempts),
`Settlement` (jobs are well formed), `Refunds` (totals are naturals, amounts integers,
"the rest" is no number), `Shop` (bounds, quantities, days and prices are naturals, a
delivery fee is not zero, rows and passes are finitely many, null is no id, milestones are
at least a day, pickups are orders, every term ends within the 400 days that the loop tries and the
calendar of the model), `People` (base roles and tiers are those of the code, the
installation starts with one of finitely many members, an account has one address).

Only model-checked, and why:

* liveness (`UnpaidIsReleased`, `EveryoneEnds`, `EveryHandlerEnds`, `EventuallyRegistered`): the
  prover has no rule for fairness;
* the other half of `RoutesServeTheirOwn`, `AllReached`: a closed formula about the table of
  routes, which TLC evaluates in full; there is no parameter a proof would generalise.

## Not modelled

* Failure of the database in the middle of `reinstateIfExpired` other than missing
  stock, and a failure of the automatic refund itself.
* Prices, currencies and product prices of an order. `updatePaymentStatus` may also
  mark a paid order refunded without any refund; `RefundedMeansReturned` speaks of the
  orders that `complete` turns refunded.
* Statement-level detail of `reserve` and of the manual operations (they read the counters FOR
  UPDATE before they decide), and of `releaseProductUnits` and `rehomeReservations`. These
  two read the reservation rows without a lock (`inventory.service.ts:858`, `:523`) and lock
  the counters afterwards, as confirm and release do: a call on the same rows that commits in
  between is not explored.
* What an administrator changes between `resolveChoice` and `resolveAllowedLocationIds` of
  one checkout; the `is_active` column of municipalities, which no code clears.
* Overlapping handlers of the catalogue; slugs, images, search and sorting of products.
* Payment methods, contact messages and their replies, FAQ, services, staff cards, site
  settings, nomenclators: rows of content or configuration that nothing else decides on.
  Their routes and permissions are in `Routes`.
* Order events: an append-only log the logic never reads back. Notices of an order
  other than the three in `Mail`: they go through the same `dispatch`.
* The text of mails, PDFs, reports, the dashboard and listing queries; the HTTP clients
  of the gateways, uploads, revalidation, configuration: layout, reads and I/O.

## Plan

1. `Orders` composed with `Refunds` and `Cart` through order totals and checkout; payment
   methods and contact.
2. Prove that the settled calls of `Orders` may be replaced by the transactions of
   `Settlement`.
