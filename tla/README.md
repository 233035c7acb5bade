# A TLA+ model of The Bottle Club's backend

The repository is the API of a wine shop with several branches: a FastAPI
application (`src/app`) over PostgreSQL, with RabbitMQ for user events, MongoDB for
logs and a seed script. This directory holds TLA+ modules of it, the TLC
configurations that model-check them, and TLAPS proofs.

Run a configuration with `tlc -config X.cfg M`, where `M` is the module
`PROJECT.json` gives for it, and the proofs of a module with `tlapm M.tla`, for the
seven modules whose names end in `Proofs` and for `Tables`.

## 1. The system

### How a request runs

A router (`app/domains/*/router.py`) is a synchronous function, so FastAPI runs it
in a thread pool: requests of one process run concurrently. The container starts two
processes (`Dockerfile:49`). The router gets a SQLAlchemy session from `get_db`
(`app/db/session.py`), calls one service method, and the service calls repositories.
The session has `autoflush=False` and PostgreSQL's default isolation READ COMMITTED;
the service commits, usually at the end. An exception leaves through `close()`, which
rolls back, and `app/main.py:59-86` turns it into a response: an `AppException` into
4xx, an `SQLAlchemyError` into 500. Events are published after the commit and never
raise.

So two requests meet only in the database, and what decides is *which statement locks
what*. Most services read rows without a lock, decide in Python and write absolute
values; a few write with guarded or relative UPDATEs; only slip moderation uses
`SELECT ... FOR UPDATE`. What two requests insert at once meets only in unique
indexes, and whether there is one, and over which rows, differs from table to table.

### Components

| component | state | operations | hard behaviour | what makes it correct |
|---|---|---|---|---|
| Settlement: `orders`, `payments` services | `orders` row, `payments`, `refunds` rows | checkout, payment, refund, cancel, complete, status workflow | decisions on unlocked reads, writes of absolute values, points as money | amounts are backed by payments, paid orders are covered, one checkout per order, terminal states stay |
| Loyalty | points balance, `loyalty_transactions` | earn, redeem; points of checkouts and slips | lost updates of the balance | balance = ledger, never negative |
| Slip moderation | `payment_verifications`, and what an approval writes | approve, reject | several administrators, races with the unlocked writers of orders | one payment per slip, locked rows stay as read |
| Slip upload (`slip_verify`, `fraud_detection`) | `payment_verifications`, `verification_attempts` | upload | the check looks at rows the same upload has written; two processes | duplicates have an original, one live slip per image and reference |
| Orders and stock (`orders`, `inventory`, `returns`) | `inventory`, `stock_movements`, `orders`, `document_sequences` | create and cancel an order, return, adjust | row locks taken in item order, reads before locks, retries with an idempotency key | the ledger explains the stock, no duplicate numbers or orders, everybody ends |
| Kitchen and bar | `order_items.kitchen_status` | move an item | two stations move one item | nothing is served that was not prepared, final items do not move |
| Returns and refund requests as documents | `returns`, `refunds`, `document_sequences` | return, process, refund | a return takes two numbers and may fail between them | numbers are gapless, a return and its refund go together |
| Transfers | `stock_transfers`, items, `inventory` of two branches | create, approve, ship, receive, cancel | status checked without a lock, damages, statuses the schema refuses | no bottle appears or vanishes on the way, closed transfers stay |
| Purchases | `purchase_orders`, receivings, lots, `inventory` | create, update, approve, cancel, receive | quantities from stale reads, numbers by count + 1, edits replace item rows | received = delivered = lots = stock |
| Login, lockout, refresh tokens | `users`, `login_attempts`, `refresh_tokens` | login, Google login, refresh, logout, status | three commits per login, two per refresh, crashes in between | one live token per login, lockout counts failures |
| Users and roles | `users`, `roles`, `role_permissions`, `user_roles` | register, create, update, delete, assign, remove | lookups before inserts; case, NULL and deleted rows | one user per mailbox, a role has what it was given |
| Shifts and cash drawer | `shifts`, `cash_movements` | open, cash in and out, close, X report | check-then-insert, movements during a close | one open shift per register, the report is complete |
| Catalog, suppliers | categories, products, suppliers, links | create, update, delete | checks see live rows, indexes see all | references stay in the organization, checks foresee inserts |
| Branches, customers, reviews | those tables | create, update, delete, moderate | deleted customers keep their phone in the index | as above |
| Promotions, coupons | those tables | create, update, bulk, delete, validate | commit before the answer is read; no foreign key | only named columns change, a closed code stays closed |
| Settings, addresses | those tables | update a setting; add, edit, delete an address | NULL branches are all different; a flag that spans rows | reads that expect one row find it, one default |
| RabbitMQ user events | connection, channel, lock of a process | publish | broker restarts, threads share a channel, errors under a lock | what is reported as published is queued, nobody waits for ever |
| MongoDB log client | module globals, a cooldown | get, reset, insert | unlocked globals | logging never raises, clients are closed |
| Seed script | every table | one run | overlapping runs, crashes, an older installation | a run completes what is missing and a second changes nothing |
| Reports, audit, wine products, middleware, permission checks, migrations | - | queries, wrapping | - | not modelled, section 5 |

Calls between components: checkout and slip approval write `customers` and
`loyalty_transactions`; cancelling an order writes `inventory`; transfers, purchases,
returns and adjustments share `inventory` and `stock_movements`; orders, returns and
refunds share `document_sequences`; the writers of users publish events. There is no
messaging between components: events leave the system.

`PROJECT.json` lists the hazards with their lines and the properties that cover them.

## 2. Modules

| module | what it is |
|---|---|
| `Till` | abstract: what a till promises about orders, payments and refunds |
| `Settlement` | orders' money: checkout, payments, refunds, cancellation, completion, status workflow, points, slip moderation |
| `OrderStock` | orders' goods: creation, cancellation, returns and adjustments, statement by statement with their locks |
| `SlipVerify`, `SlipPhotos` | slip uploads: duplicate checks, fraud score, final status, several processes; every way an image can be read |
| `Kitchen` | items of orders on the displays of kitchen and bar |
| `Claims` | returns with the refund they may make, refund requests, processing |
| `Transfers` | transfers between two branches, with damages; schema as it is or widened |
| `Purchases` | purchase orders, their editing, deliveries, lots and stock |
| `LoginChains` | abstract: what refresh tokens promise a client |
| `AuthSessions` | logins, lockout and refresh tokens over a clock |
| `Staff` | users, roles, their permissions and assignments, of several organizations |
| `Shifts` | shifts and cash movements; the build as pinned or one that forms the sums |
| `Catalog` | categories, products, suppliers, links |
| `Directory` | branches, customers, reviews |
| `Promotions` | promotions of the public site and coupons |
| `Settings`, `CustomerAddresses` | settings per organization and branch; addresses with a default |
| `UserEvents` | the RabbitMQ publisher of a process and its threads, over a broker that restarts |
| `MongoLog` | the log client's globals, with threads between them |
| `Seed` | runs of the seed script, with a manager's edits in between |
| `MCSettlement`, `MCSettlementRequests` | instances of `Settlement` and `SlipVerify` |
| `MCOrderStock`, `MCStockRequests` | instances of `OrderStock` |
| `MCSlipVerify` | an instance of `SlipVerify` |
| `MCInbound` | instances of `Purchases`, `Transfers`, `Claims` |
| `MCPeople` | instances of `AuthSessions`, `Staff`, `Shifts` |
| `MCBackOffice` | instances of `UserEvents`, `MongoLog`, `Catalog`, `Directory`, `Promotions`, `Kitchen`, `Settings`, `CustomerAddresses`, `Seed` |
| `Sums` | SUM of a column, as a recursive function |
| `SettlementProofs`, `OrderStockProofs`, `PurchasesProofs`, `InboundProofs`, `PeopleProofs`, `BackOfficeProofs`, `SiteProofs` | theorems, section 4 |
| `Tables` | lemmas on tables as sequences of rows and on their sums, for the proofs |

A definition whose comment begins "Wrong on purpose" is not part of a specification:
it is a plausible bug, and replacing the definition after it by it makes the property
named in `PROJECT.json` fail.

### How a handler becomes actions

All modules of services share one form. A request in flight is a record in
`session[r]` (or `<component>_session[r]`): the stage of its handler and the rows it
has loaded. An action is a piece of the handler between two points where another
request can get in: a SELECT whose result is used later, a statement that takes a lock,
or a commit. Flush and commit are one step where the locks of the flush are taken
directly before the commit and waited for by nobody who already holds one. Where that
is not so (`OrderStock`, `Transfers`, `Purchases`, `Claims`, `Seed`) the locks are in
the state and the statements are steps. Errors, failed checks and lost connections
are actions that end the session and leave the tables alone (`Rollback`, `Fail`,
`Abort`, `Crash`); handlers that commit twice (`AuthSessions`) may stop between the
commits.

The remaining subsections give what is particular to a module.

### Settlement

`order`, `paid`, `refunded`, `balance`, `ledger`, `slip` are the tables; `spent`,
`awarded`, `restocked`, `settled` and `slip_payments` are sums over append-only rows
(or over `stock_movements`, which `OrderStock` treats in full).

* `LoadOrder`, `LoadOrdersCustomer`, `LoadCustomer` are the plain SELECTs;
  `LoadOrderForUpdate` is the pair of `FOR UPDATE`s of `moderate_verification`.
* One action per handler does the rest in one step, checks, flush and commit.
* `Flush`/`Column`: SQLAlchemy's UPDATE sets only the columns whose value differs from
  the loaded one. Two writers of one order therefore overwrite each other column by
  column and not row by row, which decides which races lose what.
* `MayWrite`: no write of an order row, nor an INSERT of a row that references it,
  passes another session's `FOR UPDATE`.

Amounts are in satang. An order's total, its customer and the amount a slip shows are
constants. A total that is negative is left out. Slips are rows that exist at the
start with a status of `SlipStart`; the instances use `pending`, the column's default,
and `amount_mismatch`.

**A caveat.** `slip_verified` (section 3) shows that `verify_slip` does not file a good
slip as verified; by the lemma `SlipsAreNeverApprovable` (section 4) it files none an
administrator may approve. `Settlement` models what
`moderate_verification` does with a row it accepts, wherever that row comes from
(the default status, an import, a corrected upload); neither of the refuted
statements about `Settlement` uses a slip. An approved slip revives a cancelled order
and overwrites a refunded `amount_paid`, which is why the properties of the till
(`AtTheTill`) are checked without slips.

### OrderStock

One step per SQL statement that reads or locks shared rows. `session[r].held` are the
locks of a transaction: inventory rows it has updated, the `document_sequences` row
it has advanced (`ORD-<branch>` or `RET`), and an inserted idempotency key, for which
an insert of the same key waits. `new` and `after` are its uncommitted quantities.
Locks are released by `Commit` and `Rollback` only.

Of `stock_movements` the module keeps the sum per inventory row (`ledger`), the share
of adjustments and returns (`inbound`) and the newest `quantity_after`
(`last_after`). Abstractions: every product tracks inventory and has an inventory row
in every branch (the code skips other products); an order is pending or cancelled;
return items without `restock` move no stock and are left out; one business day, so
one sequence per branch.

### SlipVerify

`Text[i]` is what recognition and parsing make of image `i`. `session[w]` is the upload
that worker process `w` is serving: the upload handler is `async` but its body from
`verify_slip` to the commit has no `await`, so a process serves one upload at a time,
while moderation and the orders' own life go on in threads (`RejectVerification`,
`CloseOrder`). `Texts` says what a reading can be: nothing is found in an image that is
refused or not recognized, and what is not found has confidence 0. `CheckFails` is an
upload that ends in an error response: `ocr_time` is a TIMESTAMP column, so the INSERT
of a slip with a readable time fails (`models.py:1488`), and `scalar_one_or_none` raises
when two rows carry the reference.

`GoodSlipsAreVerified` is the documented answer (`API_CONTRACT.md:636`), which the code
refutes. How live slips pile up depends on how many uploads overlap, whatever becomes
of them: `LivePerImage(n)` and `LivePerReference(n)` state it for `n` at a time.

### Transfers, Purchases, Claims

* `admitted` is the CHECK of `stock_transfers`, one of the sets in `Schemas`, chosen at
  the start. In the schema of `models.py` (`CheckedStatuses`) no approval can be stored
  and nothing ships; the properties of shipping and receiving are checked with the two
  statuses the service writes admitted as well.
* A delivery's number is `count + 1` under a unique index, inserted before the delivery
  reads anything: an accident that keeps deliveries apart. `edition` names the set of
  item rows an update has made. Lots are written from loaded quantities.
* `Claims` keeps the documents and their numbers; what a return does to the stock is in
  `OrderStock`.

### AuthSessions, Staff, Shifts

* A login commits three times and a refresh twice. Time is in whole seconds, as in
  the tokens; two tokens of one client in one second are one token and collide in the
  unique index. A client is a device at an address.
* In `Staff` an e-mail address is a mailbox and the way it is typed, since some lookups
  and no index ignore case. `update_role` is modelled for `permission_ids`.
  `user_roles` counts the rows of an assignment, as the same role can be assigned twice.
  The DELETE of `replace_role_permissions` finds its rows (`FindPermissions`), waits for
  those another request has deleted and then deletes what is left of them
  (`DeletePermissions`): rows inserted meanwhile stay, so overlapping updates can leave
  the union of two requests.
* `Shifts` has the variable `formed`, chosen at the start. `close_shift` calls
  `func.case(..., else_=0)` (`shift_repository.py:37`), which the pinned SQLAlchemy
  refuses with a TypeError, so in that build (`FALSE`) the request fails (`SumFails`) and
  no shift is ever closed, which the run `shift_close` shows; `TRUE` is the handler as
  written.

### Catalog, Directory, Promotions, Settings, CustomerAddresses, Kitchen

The SELECTs of a request are one step and its flush and commit another; the unique
indexes of `models.py` decide whether the flush succeeds. `NoRow` and `Null` tell a
missing row from an SQL NULL, `Blank` is the empty string, which passes the checks as
"no value" and is stored as a value. A bulk update of promotions that names one id twice
changes one row by what both items say (`Later`). `clear_default` finds its rows
(`FindDefaults`) before it waits for them, and does not see an address inserted
meanwhile.

### UserEvents, MongoLog, Seed

* In `UserEvents` the broker has numbered runs; a connection belongs to a run and fails
  when it is used after it. `lock` is the publisher's module lock, taken a second time
  to drop the cached client after a failure.
* `MongoLog` reads the module variable `_client` anew at every place the code does.
* `Seed` takes the tables in the script's order; what a run inserted is its own until
  it commits, and whoever inserts the same key waits. A manager's edit is one step.

## 3. What the runs show

Five runs are larger: their MC modules choose in `Init` one *workload* (a component,
how many requests are in flight at a time, which handlers they may be, how many), and
properties say for which workloads they hold. A behaviour is of one component; the
others' variables do not move. `Workloads` is a constant: the runs give it the workloads
below, and the theorems of section 4 hold for every set of workloads.

| run | workloads | shows |
|---|---|---|
| `settlement_requests` | two orders, one request at a time, 5 in all; one order with two slips, one at a time, 6; the same with two in flight, 4; uploads for two orders, one at a time, 2 rows; for one order, two at a time, 3 rows; 3 attempts | one at a time `Settlement` implements `Till`, balance = ledger, one checkout, refunds are covered, the stock is back exactly for cancelled orders; in every interleaving amounts are backed, settled orders are covered, points are not overdrawn and a slip pays once; an image and a reference have no more live slips than uploads overlap |
| `stock_requests` | sales, two in flight, two branches and a key, 3; create, cancel, adjust, two in flight, 4; all handlers, one at a time, 4 | numbers are gapless, a key makes one order, sales do not deadlock, the ledger tells the stock, every request ends |
| `goods_inbound` | purchases serial (6), receiving (5) and editing (4) with two in flight; transfers in the deployed schema (4), in the widened one serial (5) and with two (5); claims with two (4) | deliveries exclude each other and match lots and stock; numbers are gapless; a return and its refund go together; bottles are conserved; approved orders and closed transfers stay |
| `people` | logins: guessing (2 in flight, 6), passwords (6), all (2 in flight, 3), tokens (4); staff: five mixes, two of organizations, three with two in flight; shifts: deployed (5), as written (5; 2 in flight, 4) | one at a time token rotation implements `LoginChains`; nobody is locked out early; one user per mailbox while users only register themselves; checks foresee inserts; the report of a shift that is closed is complete |
| `back_office` | two publishers; one logging thread; catalog x6, kitchen x2, settings x2, addresses x2, directory x4, promotions x5, seed x2, with one and with two in flight | what is reported as published is queued; organizations stay apart; only prepared items are served; a coupon code closed stays closed; a seed run completes what is missing, a second changes nothing, and each ends |

Statements of the code, its comments or its design documents that the code does not
keep, each with the shortest behaviour TLC finds (quotes are in `PROJECT.json`):

| run | statement | behaviour |
|---|---|---|
| `settlement_double_charge` | a retry cannot double-charge | two checkouts pass the status check before either commits |
| `settlement_points_never_complete` | a paid order can be completed | `amount_paid` excludes the points, completion compares it with the whole total |
| `stock_deadlock` | rows are locked in the order of products | they are locked in the order of items |
| `slip_verified` | a good slip is answered with `"status": "verified"` | the lookup of its reference finds the row just flushed, and the slip is filed as a duplicate of itself |
| `refunds_within_total` | refunds of an order stay within its total | each is compared with the total alone |
| `transfer_approval` | a draft transfer can be approved | the service writes a status the CHECK refuses |
| `shift_close` | an open shift can be closed | the pinned SQLAlchemy refuses the sum of the cash movements with a TypeError |

### Other statements TLC refutes

These definitions are in the modules but in no run. Adding one (through the instance's
name) to the invariants or properties of the run's configuration shows the behaviour.

| definition | run | behaviour |
|---|---|---|
| `OrderStock.WriteOffsWithinStock` | `stock_requests` | a negative adjustment is proposed for insertion, and its CHECK fails before the conflict is seen (`inventory_repository.py:26`), although the schema says "negative = write-off" (`inventory/schemas.py:69`) |
| `SlipVerify.DuplicateHasOriginal` | `slip_verified` | a slip is filed as the duplicate of a reference no other slip carries (`slip_verify/service.py:466`) |
| `Purchases.StatusFollowsItems` | `goods_inbound` | `all_fully_received` looks at the items of this delivery alone (`purchases/service.py:257`): one complete item makes an order of two received |
| `Purchases.ErrorsChangeNothing` | `goods_inbound` | the delivery is committed before an answer is built that cannot be built (`purchases/router.py:103`) |
| `Claims.ReturnedWithinOrdered` | `goods_inbound` | return lines are compared with the order alone (`returns/service.py:59`), not with earlier returns; any status may be returned |
| `AuthSessions.LogoutEndsSessions` | `people` | the router looks for a hash of the token that nothing sets, so `logout` revokes nothing (`PHASE_5_OUTPUT.md:35`: "revoke refresh tokens") |
| `Catalog.CategoriesFormForest` | `back_office` | a parent is checked against the category itself only: two updates make a cycle |
| `Catalog.LinkedProductsAreLive` | `back_office` | deleting a product leaves its supplier links |
| `Kitchen.OnlyVisibleItemsChange` | `back_office` | items of cancelled orders still move |
| `Settings.OrganizationSettingsReadable` | `back_office` | two first updates insert two rows without a branch; from then on every read raises |
| `Seed.SkipsFilledTables` | `back_office` | the reconciliation of roles gives back what a manager took (`seed.py:7`) |
| `Directory.FreedNumbersCanBeStored` | `back_office` | the phone of a deleted customer, or `""`, passes the check and fails in the index |
| `Promotions.PublicListReadable` | `back_office` | `images: null` is committed, answered with 500, and the public list fails from then on |
| `Promotions.CouponsHavePromotions` | `back_office` | no foreign key: deleting a promotion leaves its coupons |

### Where the concurrency ends that the code copes with

Many properties hold one request (or one process) at a time only. Dropping the guard
`Serial =>` (`AtTheTill =>`, or the condition on handlers) of the property in the MC
module, or giving the workload the change named here, makes TLC show the behaviour:

| property (run) | change | behaviour |
|---|---|---|
| `SerialBooksAgree` (`settlement_requests`) | two in flight | two writers of the balance from one stale read (`loyalty/service.py:48`); two refunds pass the check (`payments/service.py:82`); two cancellations restore the stock twice (`orders/service.py:360`) |
| `TillIsImplemented` (`settlement_requests`) | two in flight | an order settles twice, or a cancellation that read `pending` commits after the completion (`orders/service.py:360`) |
| `LiveSlipsWithinWorkers` (`settlement_requests`) | 1 for `workload.width` | two processes look before either commits, and an image has two live slips (`slip_verify/service.py:64`, `:145`) |
| `MovementsTellStock` (`stock_requests`) | two in flight with returns | a return writes an absolute value over a sale (`returns/service.py:86`) |
| | newest movement, with cancellations | `quantity_before` is read before the row is locked (`orders/service.py:172`, `:369`) |
| `SalesNeverDeadlock` (`stock_requests`) | with cancellations | this is `stock_deadlock` |
| `PurchasesMatchDeliveries` (`goods_inbound`) | editing with two in flight | an update replaces items a delivery has read; two edits add up the wrong total (`purchases/service.py:106`) |
| `TransfersConserveBottles`, `ApprovedAndClosedStay` (`goods_inbound`) | two in flight | a transfer ships twice, or is shipped and cancelled (`transfers/service.py:127`); a stale total at the destination (`:234`) |
| `FoundAtMostOnce` (`people`) | two in flight | two live successors of one token (`auth/service.py:187`), two open shifts (`shifts/service.py:20`), a role assigned twice |
| `LockoutCountsFailures` (`people`) | two in flight | two wrong passwords count once (`auth/service.py:99`) |
| `ShiftReportAddsUp` (`people`) | two in flight | a movement commits between the sum and the close (`shifts/service.py:52`) |
| `LogIsHarmless` (`back_office`) | two threads | one closes the client another is using, or both create one (`mongodb/client.py:94`) |
| `ChecksForeseeInserts`, `ReadersFindOneRow`, `ClosedStaysClosed`, `UpdatesAreExact` (`back_office`) | two in flight | two lookups before either insert; two defaults; a move of a kitchen item that had become final |

Sales alone do not deadlock and their movements are exact because the upsert of the
branch's document sequence serialises them before the first inventory row is read;
cancellations and returns take no such lock.

### Bounds

Bounds are CONSTANTS whose comment says "bound of the model": requests begun
(`MaxServed`, `MaxRequests`, `MaxLogins`, `MaxTasks`, ...), rows of a table, the clock.
They are guards of the actions that begin a request or insert a row; a workload's
limit narrows them, and in `back_office` one constant, `MaxRequests`, bounds the requests
of every component. Four to six requests in sequence reach every status of the
workflows and every pair of handlers on them; where two are in flight, two are all that
a race of two reads and two writes needs, and the third and later ones meet what the
race left behind. Two products, in two orders and twice in one cart, are the smallest
case of lock ordering. Amounts are chosen so that an order is paid exactly with and
without points, overpaid and underpaid; deliveries and receipts so that they are
partial, complete, too much and damaged; two lots of one item and one lot number for two
items. Two organizations are what isolation needs; a time of four seconds passes a
lockout of one and an expiry of two. Three runs of the broker are two restarts. Deadlock
checking is off because the bounds stop a behaviour; `EveryRequestEnds` and
`EveryRunEnds` state progress instead.

### Fairness

* `OrderStock`: weak fairness of `Step(r)`, the next statement of a request (threads are
  scheduled, and PostgreSQL serves lock waiters in turn), and of `Abort(r)`, what
  happens to a request that failed or is part of a lock cycle (the error reaches the
  session's `close()`; PostgreSQL detects deadlocks after `deadlock_timeout`).
* `UserEvents`: weak fairness of `Work(t)`, a thread's next step. It includes taking
  the lock, so a thread is served when the lock stays free; with the bounded number of
  events the instances have, nobody can be overtaken for ever. The broker
  has no fairness: it may stay down.
* `Seed`: weak fairness of `Work(t)`, a run's next statement, which an insert of a
  locked key disables until the other run has ended.

There is none for what nobody has to do: begin a request, lose a connection, crash. The
other modules state no liveness: their requests take no lock they wait for.

## 4. What is proved

| module | theorem | what it says |
|---|---|---|
| `SettlementProofs` | `Inductive` | the inductive invariant `IInv` of `Settlement` |
| | `TypeCorrect`, `AlwaysBacked`, `AlwaysCovered`, `NeverOverdrawn`, `OnePaymentPerSlip`, `LockProtects` | `TypeOK`, `AmountPaidIsBacked`, `SettledIsCovered`, `PointsNeverOverdrawn`, `SlipPaidOnce`, `LockedRowIsCurrent` |
| | `SerialBooks`, `TillImplemented` | one request at a time: points ledger, refunds and restored stock add up; `Settlement` implements `Till` |
| | `RequestsAreTyped`, `FewSlipsLive` | types with the uploads; an image of an order, and a reference, has at most as many live slips as uploads overlap: one with one worker process |
| `OrderStockProofs` | `LocksCarryTheTables` | the inductive invariant `IInv` of `OrderStock` |
| | `TypeCorrect`, `NumbersAreGapless`, `KeysAreUsedOnce`, `StockStaysNatural`, `LocksProtectWrites` | `TypeOK`, `NumbersGapless`, `OneOrderPerKey`, no negative balance or `quantity_after`, `WritesAreLocked` |
| | `SalesAreDeadlockFree`, `MovementsTell` | sales never wait in a circle; the ledger tells the stock |
| `PurchasesProofs` | `GoodsAreBooked` | deliveries keep apart; received = delivered = lots = stock |
| `InboundProofs` | `BottlesAreConserved`, `ClosedDocumentsStay` | no bottle appears or vanishes in a transfer; approved orders and closed transfers stay |
| | `DocumentsAreNumbered`, `RefundsComeWithReturns`, `InboundIsTyped` | numbers are 1, 2, 3, ...; a return has its refund; types |
| `PeopleProofs` | `ReportsAddUp`, `LockoutsAreCounted`, `TokensAreChained`, `LocksAndClosuresStay` | reports of shifts; nobody is locked out early; tokens implement `LoginChains`; locks and closed shifts stay |
| | `OneRowIsFound`, `RequestsEndAsAsked`, `PeopleAreTyped` | unique rows; users and roles as asked; types |
| `BackOfficeProofs` | `PublishedEventsAreQueued`, `ChannelsAreConfigured`, `FailuresAreTheBrokers`, `PublishersDoAgree` | what is reported as published is queued; channels in use are configured; publishing fails only because of the broker |
| | `LoggingIsHarmless`, `OneRowIsRead`, `ServedItemsWereReady` | the log client; settings and default addresses; kitchen items |
| | `SeedsLeaveComplete`, `SeedsChangeNothing` | what a run of the seed script leaves |
| `SiteProofs` | `OrganizationsStayApart`, `LookupsForesee`, `WhatIsClosedStays`, `UpdatesDoWhatTheyName`, `BackOfficeIsTyped` | references stay in an organization; checks foresee inserts; closed stays closed; updates are exact; types |

Every invariant and every action property of the passing runs is the statement of one
of these theorems, and so are the two refinements. What stays with TLC is liveness,
`EveryRequestEnds` and `EveryRunEnds`: they rest on fairness and so on ENABLED,
which is out of the prover's reach. The refuted statements of section 3 are TLC's too.

### For which systems

For any sets of orders, customers, products, branches, users, slips, images, values;
any amounts, carts, deliveries and readings; any set of workloads; any number of
requests in flight, of rows and of steps: no bound of a run is used. A property that
begins `Serial =>` is proved for one request at a time, as it is stated.

The theorems assume the named assumptions of the modules, which TLC evaluates in the
runs:

| assumption | says |
|---|---|
| `SettlementAssumption`, `OrderStockAssumption`, `PurchasesAssumption`, `TransfersAssumption`, `ClaimsAssumption`, `AuthAssumption`, `PeopleAssumption`, `PromotionsAssumption` | the types of the constants, as request schemas validate them (quantities and amounts of payments and refunds are positive), and that `None` is no value; no slip starts `verified`; a schema admits at least the statuses of `models.py`; the seed has written one role |
| `UploadsAssumption` | totals are natural numbers and readings are among `Texts` |
| `UserEventsAssumption`, `NullIsNoValue` | `NoThread` is no thread; `Null` is no branch and no setting |
| `RequestsAreBounded`, `RequestsAreFinite`, `ThreadsAreBounded` | finitely many requests (or threads) at a time, so that "how many are in flight" is a number |

### Why the properties hold

None is inductive alone, because handlers act on what their session read earlier. Every
proof therefore strengthens it by what a session knows: of rows that only grow, of rows
it has locked, or, one request at a time, of all rows, as nobody else is there to change
them.

* **Settlement.** `SessionInv`: the row a request loaded is a row of its order, and
  its `amount_paid` is at most the order's payments, which only grow: so a stale row
  never makes a write claim more than was paid, and a completion that finds a stale
  row fully paid is covered now. A points balance a request loaded is not negative.
  `LockExclusive`: two sessions never hold one order; with `MayWrite` this gives
  `LockedRowIsCurrent`, and this `SlipPaidOnce`, as an approval reads `payment_id`
  under the lock. `SlipPaymentCounted`: the payments of an order include the one of
  each of its slips that has a payment. `PointsNeverOverdrawn` needs only that balances
  read are not negative and that writes are absolute, which is also why the ledger
  drifts once requests overlap. A request that is alone has rows as they are; then its
  writes add to balance and ledger what they should, and each of its steps is one of
  `Till` or a stutter.
* **Slip uploads.** `UploadsInv`: what a session knows after its lookup. If a reference
  was read, the lookup has found the row the session itself has flushed, so the
  slip is a duplicate; if none was, the missing reference alone scores 80, since the score
  is a sum over checks and is at least each of them. Either way the status is none that
  may be approved. `SlipsInv`: the live rows of an image (or
  reference) and the uploads that are past its lookup together are at most as many as may
  overlap, since an upload passes the lookup only where there is no row, and when it
  commits it turns from the one into the other.
* **OrderStock.** What a transaction knows of the tables because of the locks it holds
  (`Own(session[r])`): its stage fits its handler (`Placed`); from the moment it has
  its number it holds its branch's sequence, and the number is the next one
  (`HasNumber`); from the INSERT on it holds its key and no order has it (`HasKey`);
  an uncommitted quantity of a sale, cancellation or adjustment is under the lock of
  its row (`HoldsItsWrites`). `Exclusive`: no lock is held twice. A commit then appends
  the next number, with a key nobody has. Sales do not deadlock because a sale waits for
  its branch's sequence before it holds anything, for its key while it holds the sequence
  alone, and then for nothing: only holders of the sequence lock the branch's stock. Each
  UPDATE adds, under its row's lock, what its movement records, so sums of movements
  and the stock move together; a return writes what it has read and added to, which is why
  it must not overlap.
* **Purchases.** A number is one more than a count; rows are never deleted, so when it is
  used it is not beyond the next number, and of the numbers there are the unique index
  refuses every one but the next. Of two deliveries that have inserted theirs the
  second would have had to wait for the first (`DeliveriesExclusive`): there is one at a
  time, and what it has read of lots, stock and items is what is there, with what it has
  booked itself. So the sums per item, lot and product over the receivings
  (`PurchaseBooks`) grow by what the delivery brought.
* **Transfers.** A request at work has the items of its transfer, no more and no fewer
  (`HasItems`), so the CHECKs it passes cover every item that is there, and no item is
  received beyond its shipment. A shipment holds the rows it has taken from
  (`CarrierKnows`); a receipt writes totals it has read, so bottles are
  conserved where it is alone (`CarrierAlone`). With the CHECK of `models.py` every
  transfer is a draft or cancelled: an approval writes a status it refuses.
* **Claims.** A request that has a number holds the sequence's row and the number is one
  more than the documents there are; nobody else has a number of the sequence until it
  commits. So numbers have no gap, and the id a return keeps of its refund is that of the
  row the same commit inserts.
* **Shifts.** The sums a closing request has read are those of the movements there are
  (`ShiftsInv`), as nobody else adds one. With `formed = FALSE` no closing gets past its
  sums.
* **AuthSessions.** A login's counter, in the row and in what sessions have read, is at
  most the failures since the last success (`LockInv`), so nobody is locked out
  early; lost updates only lower it. Logins opened, with those that still owe their row,
  are at most the successes recorded (`RecordInv`). One at a time a login's
  tokens form a chain of which the last alone may be live (`ChainInv`); the two commits of a
  refresh are `Renew` and `Renewed`, and a request that stops between them is `Lose`.
* **Staff.** Unique indexes keep users, roles and assignments to a branch apart;
  registration and Google write addresses in lower case, so one mailbox is one row
  (`StaffInv`). Equal assignments to all branches are kept apart only by the lookup of a
  request that is alone. Such a request inserts only where its lookups found nothing,
  and the permissions it removes are all that the role has.
* **UserEvents, MongoLog.** Whoever works on the cached client has the lock (`LockHeld`), a
  cached client is of one run of the broker (`CacheAgrees`), and a run that is over
  never comes back; so nobody closes a channel another thread is publishing on. The
  logger's state says which client is open (`OpenIsKnown`).
* **Kitchen, Settings, CustomerAddresses.** A cook writes a status tested on an old read,
  but the statuses an item *has had* only grow, so what allowed the move then allows it
  now. Rows of a setting with a branch differ by the index (`BranchRowsDiffer`),
  rows without one only while a single request looks and inserts.
* **Seed.** A run knows for each table what it found, what it inserted and what is
  missing (`SeedInv`): keys are apart by their index (`KeysApart`), the tables it fills only
  when they are empty come with the organizations, which one run alone can insert
  (`PlainTogether`), and what its steps have settled stays settled, since nothing but a
  manager's edit takes a row away (`StepsSettled`). A run's commit leaves
  every configured permission (`CompleteSeed`).
* **Catalog, Directory.** No update changes whose row it is, and deletions keep rows, so
  what a request has checked of organizations holds when it writes, however old
  (`GoodsInv`, `DirectoryInv`). The indexes keep keys apart; a request that is alone
  collides only with rows its lookup does not see.
* **Promotions.** A flush writes the columns a request names, and of a bulk
  update either all rows or none (`PromosInv`). Without deletions the row a request has
  committed is there when it is read back. A code refused as inactive or expired is that
  of a coupon, codes are never used twice, and neither its flag nor its last day comes
  back (`CouponsInv`).
* **The composed workloads.** `OfficeInv` and its like in the other modules join the
  components' invariants; a step of one component leaves the others' variables alone.

Sums over tables are recursive functions on natural numbers (`Sums`), not RECURSIVE
operators. That they have the values their definition says is proved once in `Tables`, by
well-founded induction on the number of rows; from there appending a row, replacing one
and bounding a sum are lemmas, which the books of orders, purchases, transfers and
claims rest on. `SettlementProofs` has the same for the score of a slip, a sum over a
finite set.

## 5. What is not modelled

* Prices, taxes and discounts: an order's total is a constant. A valid coupon carries no
  discount in the code, and nothing counts its use.
* Text recognition, parsing and image hashing: each image has its constant result.
* Password hashing and the contents of tokens; permission and branch checks
  (`middleware/auth.py`, `branch_scope.py`), which are pure functions of a token.
* HTTP middleware, wine products, reports and the audit log: read-only or wrapping.
* Connection-pool limits, retries inside pika, MongoDB queries.
* Of `update_role` the name, of most seed tables anything but that they have rows, of
  CRUD rows the columns no check or constraint reads.
* Migrations and tests.

`PROJECT.json` gives each component's status and note.

## 6. Plan

What further work would add, in this order:

1. The token chains and the till with requests that overlap, for the weaker promises that
   still hold then.
2. `update_role` with names, and the permissions of the endpoints against the roles of
   the seed script.
3. An abstract stock ledger, implemented by `OrderStock`, `Transfers` and `Purchases`
   alike, not by returns.
