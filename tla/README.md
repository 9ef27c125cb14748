# Micro Market: a TLA+ model

This directory models the business logic of Micro Market: how
`checkout-service`, `inventory-service` and `invoice-service` keep their
databases, their answers and their messages consistent while requests run
concurrently, calls time out, faults are injected and processes die.

## The system

| Part | State | Operations | Talks to |
| --- | --- | --- | --- |
| checkout-service | `data/checkout.db`: users, a copy of each product (SID, name, price), orders | `POST /orders` (`PlaceNewOrder`); gRPC `AddNewProduct`, `UpdateProduct`, `DeleteProduct`; lists | inventory (gRPC `ReserveProduct`, `RegisterOrder`), Redis (`PUBLISH create_invoice`) |
| inventory-service | `data/inventory.db`: products with stock and `out_of_stock`, registered orders | gRPC `ReserveProduct`, `RegisterOrder`; `POST/PUT/DELETE/GET /products`; seeding | checkout (gRPC product calls, from inside its transactions) |
| invoice-service | `data/invoice.db`: `invoice_models`; `data/<order>.pdf` files | the Redis subscription (`invoiceGenCallback`); `POST /invoices`, `POST /gen-invoice`, list | Redis |
| common | one fault-injection window per operation | `MaybeError`, `AppError`, `SendJsonError` | used by both Go services |
| load generator | product list, semaphore, wait group | a ticker that starts goroutines with one request each | both services (HTTP) |
| telemetry, collector | none that matters to the above | logs, spans, metrics; log rewriting | - |

What is hard:

* **An order is one transaction of two databases.** `PlaceNewOrder` of the
  checkout opens a transaction, inserts the order and, still inside it, calls
  `RegisterOrder` of the inventory, which runs a transaction of its own. The
  inner one commits first. Nothing undoes it if the outer one fails.
* **A call that ends for its caller goes on for its callee.** Deadlines (one
  minute at the checkout, thirty seconds at the inventory), cancelled requests
  and crashes separate the two handlers.
* **Write locks.** SQLite admits one writing transaction per file. The checkout
  holds the lock of its file during the remote call.
* **Reads outside transactions.** `RegisterOrder` and `UpdateProduct` read the
  product row first and write a row computed from that read later.
* **Circular waits.** An order holds the lock of `checkout.db` and wants that of
  `inventory.db`; a change of a product holds them the other way round. Only the
  deadlines of the contexts end it.
* **Seeding is a saga.** The inventory's seed adds its products to the checkout
  one remote call at a time, inside a transaction that is rolled back when one
  fails; what the checkout has inserted stays.
* **Code translation.** HTTP code, gRPC code, and again HTTP code: what the
  client finally sees decides whether it may try again.
* **The invoice callback** is a sequence of durable steps with a rollback, over
  ids and amounts kept in one byte.

## Modules

| Module | Models | Extended by |
| --- | --- | --- |
| `Stores` | the product tables of the two files, their write locks, the `int32` conversion | `Orders`, `Catalog` |
| `AppErrors` | the code tables of `common/` and of the checkout | `Orders`, `Catalog`, `Chaos` |
| `Orders` | placing an order, both services | `MCOrders`, `OrdersProofs` |
| `Catalog` | creating, updating and deleting a product, both services | `MCCatalog`, `CatalogProofs` |
| `OrderLedger` | the abstract promise about a request two services carry out | instantiated in `Orders` and in `Catalog` |
| `Chaos` | one key of fault injection | `ChaosProofs` |
| `Invoice` | the invoice service | `MCInvoice`, `InvoiceProofs` |
| `Market` | `Orders` and `Catalog` together, on the same `Stores` | `MCMarket`, `MarketProofs` |
| `Seeding` | starts of the inventory with its seed, creations, the row ids of both tables | `MCSeeding`, `SeedingProofs` |
| `LoadGenerator` | the load generator's main loop and goroutines | `MCLoadGenerator`, `LoadGeneratorProofs` |
| `MC...` | instances for TLC (symmetry, model values) | |
| `...Proofs` | theorems | |

In a module, a definition whose comment starts with "Mutant" is a plausible bug
of the definition that follows it. No specification uses it; it exists to see
that the properties can fail.

### Orders

A request is named by the SID of the order it would create. `stage[r]` is where
its HTTP handler is in `PlaceNewOrder` of the checkout:

    idle -> located -> reserved -> registering -> placed -> published -> done

`lost` is a handler whose process died. `call[r]` is where the handler of its
`RegisterOrder` call is in the inventory:

    none -> called -> checked -> writing -> replied      (or dead)

| Code | Action |
| --- | --- |
| user and product are read, the price is fixed | `Locate`; `Decline` for every early error |
| `ReserveProduct` | `Reserve`, `NotAvailable`, `ReserveFails` |
| `tx.Create` takes the lock, `RegisterOrder` is sent | `Insert`, `InsertFails` |
| reply OK, commit | `Commit`, `CommitFails` |
| reply with an error, rollback | `Refused` |
| deadline, lost connection, cancelled request, rollback | `GiveUp` |
| Redis message, answer | `Publish`, `Respond` |
| `MaybeError` of the inventory | `InjectedFault` |
| row is read and checked outside the transaction | `CheckStock`, `RefuseOrder` |
| `tx.Updates` takes the lock | `TakeStock` |
| order row, commit, reply | `RegisterCommit` |
| failing query, busy database, end of the context | `RegisterFails` |
| death of a process, rollback of its open transaction | `CheckoutCrash`, `InventoryCrash` |

`Taken` is the row `tx.Updates` writes: every column of the row that was *read*,
less the quantity; gorm leaves out a zero price and skips a row that was deleted.

Atomicity: an action is one statement on a database or one message, the two
writes and the commit of the inventory's transaction being one action because
the lock keeps every other writer out and readers do not see uncommitted rows.

`OrderLedger` knows only `registered`, `placed`, `announced` and `answer`. It
says: registered before placed, placed before announced or confirmed, one
answer per client, and a 4xx answer only for an order that is not and will
never be registered. `ImplementsLedger` is that specification under the
identity mapping of these four variables.

What may be said of the stock: `SoldUnits(p)` is the set of the units registered
orders carry away, each under its order, and `UnitsSold(p)` its cardinality.

* `NoUnitVanishes`: what is left and what was sold never fall below what there
  was. Stale writes lose sales, not units.
* `StockBalances`: they are *equal*, unless the product was upset (`Upset`): an
  orphan was registered for it, that is, an order whose request had ended without
  placing it, or a quantity that `int32` makes negative. The transaction that the
  checkout holds during `RegisterOrder` serialises all other handlers, although the
  inventory reads the row outside its own.

### Catalog

Here the inventory is the caller. Its handler opens a transaction, writes, and
calls the checkout before it commits. `adm[o]` is where the handler of HTTP
request `o` is, `rpc[o]` where the handler it called in the checkout is:

    adm:  idle -> found -> calling -> committed -> done      (or lost)
    rpc:  none -> called -> found -> replied                 (or dead)

| Code | Action |
| --- | --- |
| an update or delete reads the row, outside its transaction | `Find`; `Reject` for every early error |
| `tx.Create` / `tx.Save` / `tx.Delete` takes the lock, the checkout is called | `Write`, `WriteFails` |
| reply OK, commit | `Commit` |
| any error of the call, time-out, failing commit: rollback, 500 | `Abort` |
| answer | `Respond` |
| the checkout's update or delete reads its row | `LookUp` |
| `Create` / `Save` / `Delete`, one statement that commits by itself | `Apply` |
| injected fault, no such product, failing query, end of the context | `HandlerFails` |
| death of a process, rollback of its open transaction | `InventoryCrash`, `CheckoutCrash` |

The inventory's row changes in `Commit`, because nobody sees it before. The rows
are compared by status and price (`Same`); names and currencies travel with the
price. `Save` writes every column and, when the row was deleted since it was read,
inserts it again with `deleted_at` cleared; `StockAfter` and `CatalogAfter` are
`live` after an update whatever the row was. A new product has a fresh SID, so a
creation shares its row with no other creation (`Init`).

What may be said of the two tables:

* `StockIsInCatalog`: a product of the inventory has a row in the checkout.
* `DisagreementHasACause`: the rows differ only if some request was *applied* by
  the checkout and not *committed* by the inventory (an orphan).
* `HalfDeletedForEver`: an orphan delete freezes the product; the checkout
  refuses every later update and delete, and the inventory rolls back with it.
* `RevivedByAStraggler`: a product deleted in the checkout comes back only through
  the `Save` of an update that had found the row before. Either that update has
  outlived its caller, or it met a delete that has. An update whose caller holds the
  lock of the inventory while nothing else went wrong revives nothing.
* `ImplementsLedger`: `OrderLedger` with `applied` for `registered` and
  `committed` for `placed`. The promise of an order holds with the two services
  in each other's place.

### Market

`Market` instantiates `Orders` and `Catalog` over one set of tables and locks;
the replies and answers of changes are `opReply` and `opAnswer`. A step is a step
of one order or of one change, with the other part's own variables unchanged, or
the crash of a process, which takes the handlers of both parts that run in it:

| Process | Handlers that die with it |
| --- | --- |
| checkout-service | `PlaceNewOrder` (`stage`), `AddNewProduct`/`UpdateProduct`/`DeleteProduct` (`rpc`) |
| inventory-service | the product requests (`adm`), `RegisterOrder` (`call`) |

What the composition adds to the parts:

* `DriftHasACause`: the two rows of a product also come to differ without any
  failure. `RegisterOrder` reads the row, an administrator's update of the price
  commits in both services, `tx.Updates` writes the old price back into the
  inventory. The property says that this and an orphaned change are the only ways.
* `NoNegativeStock`, `FlagTracksStock`: an order may now be computed from a row
  that an update has replaced, an update may save a row that an order has
  replaced, or bring back a deleted row; neither property breaks. A negative
  stock needs an administrator who sets one (the code does not refuse it).
* `LocksAreOwned`: write locks are held exactly by open transactions, and a failure
  of one protocol gives back its own lock only. It is checked here, where both
  protocols compete for the locks, and proved for each part as well.
* `CircularWaitEnds`: an order and a change that wait for each other's lock do
  occur, and the contexts end it each time.

### Seeding

`inv` and `co` are the two tables as sequences of SIDs; a position is a row id.
Both HTTP APIs name products by that id, and the load generator sends an id it
got from the inventory to the checkout.

| Code | Action |
| --- | --- |
| a start counts the products and seeds, or goes on to serve | `Start` |
| `POST /products` | `CreateProduct` |
| `AddNewProduct` for the next product, its reply | `Call`, `Confirmed` |
| the connection breaks | `Disconnect` |
| commit; error and rollback (of a seed: `LogFatallnf`, the process ends) | `Commit`, `Rollback` |
| deletion of a product | `DeleteProduct` |
| the checkout inserts; refuses, fails or runs out of time | `AddNewProduct`, `AddFails` |
| death of a process | `Crash`, `CheckoutCrash` |

A handler in the checkout (`handlers`) may insert after its caller has rolled
back, died and started again. So a failed seed or creation leaves products in the
checkout that the inventory never had, and from then on the ids of the two tables
differ. What remains is `SameOrder`: the inventory's products are in the checkout
in the same order, each no earlier than in the inventory, and no closer together.
`ServesWhatItSeeded` is why counting *one* product is enough for a start to skip
the seed: a seed is committed as a whole or not at all.

### LoadGenerator

| Code | Action |
| --- | --- |
| `ensureProducts` | `Fetch`, `CreateProductOnce`, `SeedFails`, `SeedReady` |
| `ticker.C`, `ctx.Done()` | `Tick`, `Expire` |
| `select`: a tick with a free slot; with none; the end | `Launch`, `Skip`, `Drain` |
| a goroutine draws an operation and sends it, or has nothing to send | `Request`, `NoRequest`, `Answered` |
| deferred `<-sem`, deferred `wg.Done` | `Release`, `Finish` |
| `wg.Wait` | `Return` |

### Chaos

`requests`, `windowEnd` and `failAt` are the fields of `chaosState`. A call is
one action because it runs under the mutex of its key. The history variables
`failed` and `streak` remember what the calls returned. A key is shared by all callers
of its operation, and so is `streak`: `StreakIsBounded` bounds the retries of one caller
only while no other calls in between.

### Invoice

`step` is where `invoiceGenCallback` is. The service has one event loop, so
HTTP requests are served only when `step` is `idle`, but the process may die
between any two steps and each step is durable. `ToByte` is the assignment to
a `uint8_t`, applied where the code assigns.

`sends[m]` counts how often the message `m` has reached Redis. The checkout publishes
one message for an order, but its client (`redis_db.go` makes it with the default
options of go-redis) sends a `PUBLISH` again when the reply does not come, so the
service may handle an order twice, or never if nobody was subscribed.
`total = 0` in a message stands for one that lacks a field.

`DeletesOwnRow` is what the code promises of the rollback and breaks; where exactly it
begins to break is `DeletesOwnRowWhileIdsFit`: as long as the ids handed out fit the
field, a row disappears only when the rollback of the message that stored it takes it,
so no invoice made over HTTP does.

`PdfShowsItsOrder` is what may be said of a file: an amount in it is the amount of the
one message of its order, cut to a byte. It relates files on disk to messages that may
have come before a crash, and depends on each callback having a model of its own and on
every failure leaving before the printing. With it, handling a message twice does no
harm to the file (`RedeliveryPrintsTheSame`, proved and not in a run), although each
delivery stores a row of its own.

## Runs

| Run | Instance | Shows |
| --- | --- | --- |
| `orders` | 3 requests, 1 product, stock up to 2, `int32` up to 3 | safety of placing an order, when the stock balances, refinement of `OrderLedger` |
| `orders_sold_twice` | 2 requests, stock of 1 | *violated*: `SoldWithinStock` |
| `orders_books` | 2 requests | *violated*: `BooksAgree` |
| `catalog` | 3 requests, 1 product, 2 prices | how the two product tables may differ, what can bring a deleted product back, refinement of `OrderLedger` |
| `market` | 1 order, 1 change, stock up to 1, fairness | how the two overwrite each other, that requests and handlers of both end, that circular waits end and locks come free |
| `catalog_deleted` | 2 requests | *violated*: `DeletedStaysDeleted` |
| `seeding` | seeds of 2, 3 starts, 6 SIDs, fairness | the rows and row ids both tables keep after failed seeds, that a start ends |
| `load_generator` | 3 goroutines, 2 slots, fairness | concurrency, shutdown |
| `chaos` | window of 7, 2 to 4 failures | quota of a window, bound on failures in a row |
| `invoice` | 2 orders, 2 deliveries each, ids of 3 values, 4 rows | which rows a message may delete, when a PDF may be printed and whose amount it shows, progress of the queue |
| `invoice_persisted` | as `invoice` | *violated*: `InvoicePersisted` |
| `invoice_wrong_row` | as `invoice` | *violated*: `DeletesOwnRow` |

The violated properties say what the documentation says of the program. The
counterexamples:

* `SoldWithinStock`: request 1 reaches `RegisterOrder`, whose handler reads the
  row (one unit left); the checkout gives up on request 1 and releases its lock;
  request 2 registers and takes the unit; the handler of request 1 now writes
  the row it computed and registers order 1 as well.
* `BooksAgree`: `RegisterOrder` commits, the checkout gives up (or dies) before
  it commits; the order exists in the inventory only.
* `DeletedStaysDeleted`: the handler of an update looks the row up in the
  checkout; its caller gives up; a delete is applied, committed and confirmed;
  the handler of the update saves its row, which inserts the product again.
* `InvoicePersisted`: store, print, and the fall-through into the rollback.
* `DeletesOwnRow`: the row after the last id that fits the field is created by a
  message; its rollback deletes the row with the truncated id.

### Bounds, and why they are enough

* *Requests*. Requests meet only in the two locks and in the row of their
  product. Two suffice for a race, a third one lets a request run between two
  that race (an order placed on a stock two handlers have read). The proofs
  cover any number.
* *Products*. One: requests for different products meet only in the locks, where
  the product plays no part. Proved for any number.
* *Changes of a product*. A third request lets an orphan act while another one
  holds the lock and a third has yet to read. Two prices tell two updates apart;
  `Stocks` is one quantity since the checkout does not keep it.
* *Stock and quantities*. A stock of 0, 1 or 2 with quantities 1 and 2 reaches
  each side of every comparison. `Int32Max` stands for 2147483647; in `orders` it is 3,
  and a third quantity, 4, becomes negative in the messages. In the other runs
  everything fits. The theorems cover all quantities, with one exception that says so
  in its assumption (`OversoldMeansOrphaned`).
* *Symmetry*. Requests are interchangeable in `orders` and `catalog`, whose
  temporal properties (the refinement, `HalfDeletedForEver`,
  `RevivedByAStraggler`) are safety properties. The runs with liveness have none.
* *Market*. One order and one change: enough for each to overwrite the other, to
  cross at the two locks, and for a crash to take one of each. A second change
  multiplies the states by more than the liveness check can bear in minutes. The
  theorems about `Market` cover any number of both.
* *Seeds*. `Batch = 2` instead of 10 distinguishes a seed that fails at its first
  product, after it, and at its commit. Three starts and six SIDs allow two failed
  seeds before a good one, or a good one, deletions and a second seed.
* *Goroutines*. Three for two slots: one tick finds no slot and another a slot that
  was given back. `Workers` bounds the ticks that start something.
* *Window*. 7 instead of 20 leaves room for two drawn failures on each boundary;
  the theorems cover every size.
* *Byte and rows*. `Byte = 3` gives ids 1 and 2 that fit, 3 that becomes 0 and 4
  that becomes 1. `MaxRows` ends a run; `Byte = 256` in the code. Of the totals 2, 3 and
  4, one is printed as it is, one is cut to 0 and its message refused like one that
  lacks a field, and one is cut to 1.
* *Deliveries*. `MaxSends = 2`: a second delivery may come at once, after a message of
  the other order, or after a crash and a restart. The theorems cover any number.

### Fairness

`market` assumes weak fairness of every handler: of an order and of a change, in
the service that was asked and in the one that is called. Go schedules every
runnable goroutine, and each wait of a handler is bounded. A context of one minute
(an order in the checkout) or thirty seconds (everything else) ends queries and
calls, the busy time-out ends a wait for a lock, so some step of a handler that has
not ended is always enabled, if only a failing one. Nothing is assumed about
*which* step: a commit need never succeed. `FairnessWithoutDeadlines` is the same
without the steps that a deadline is responsible for; circular waits then last.

`seeding` assumes it of the seed's own work and of the checkout's handlers. The
seed runs under `context.Background()`, so its calls have no deadline; one ends when
the checkout's context of thirty seconds does or, with its handler gone, when
gRPC's connection breaks. A crash of the inventory ends a seed as well.

`load_generator` assumes that time passes, that goroutines run and that requests
end (`client.Timeout`). `Drain` has a fairness of its own: `select` draws among the
ready channels at random, so ticks cannot win for ever.

`invoice` assumes weak fairness of the callback: the loop runs it to its
end. No crash is fair, and none is forbidden.

## Proofs

`tlapm` checks, for all values of the constants that satisfy the named
assumptions (`NoOneAssumption`, `PricesAssumption`, `Int32Assumption`,
`RequestsAssumption`, `QuantitiesAssumption`, `MaxStockAssumption`,
`OpsAssumption`, `StocksAssumption`, `ActorsAssumption`, `BatchAssumption`,
`WorkersAssumption`, `ConcurrencyAssumption`, `SeedProductsAssumption`,
`WindowAssumption`, `ByteAssumption`, `TotalsAssumption`, `MaxRowsAssumption`,
`MaxSendsAssumption`; TLC evaluates them in the runs):

* `OrdersProofs`: `TypeCorrect`; then `ProtocolCorrect`, the inductive invariant
  of the protocol. It ties the stages of the two handlers together (a handler
  serves only for a request that called it, a reply OK means the order is
  registered and nothing else does, a request that was refused with a 4xx has
  a handler that ended without registering, locks are held exactly by open
  transactions). None of the safety properties is inductive alone:
  `PlacedIsRegistered`, for instance, needs that a reply OK implies a
  registered order. From it follow `PlacedIsRegisteredAlways`,
  `AnswersAreTrue`, `RefusalsAreFinal`, `LocksAreOwnedAlways`, and
  `Implementation` (each action maps to a ledger step or to a stutter). Three
  further invariants are about the rows that handlers have read:
  * `StockInv` gives `StockNeverNegative` and `FlagAgrees`: a row in a handler's
    hands was checked against the quantity, whatever the table says by now.
  * `SalesInv` gives `NoUnitEverVanishes`. `NoUnitVanishes` is not inductive, since
    `RegisterCommit` writes a number computed from an old row; `SaleCovered` says
    that the old row, with what has been sold *by now*, covers the opening stock.
    It holds when the row is read, and sales only add to it. Counting is by
    cardinality (`SaleIsAdded`: a registration adds its units to the set of its own
    product and to no other's), which replaces the induction a sum would need.
  * `BalanceInv` gives `StockAlwaysBalances`. `Fresh` says that a handler whose
    caller still waits has read the row as it is, unless an orphan has sold since.
    By the lock of `checkout.db` at most one caller waits, so whoever else commits to
    the stock has been given up by then, and is an orphan for good (`UpsetForGood`).

  Together they say what the two violated properties have to do with each other.
  `SoldTwiceOnlyByOrphans`: only an orphan, or a quantity that wrapped, sells a unit
  twice. `OversoldMeansOrphaned`: if quantities fit an `int32`, `BooksAgree` implies
  `SoldWithinStock`, at all times. The double sale is a symptom of the books that
  disagree and never occurs without them.
* `CatalogProofs`: `TypeCorrect` and `ProtocolCorrect` as for orders, giving
  `LockIsAlwaysOwned` and `Implementation`. The invariants about the tables come in
  three layers. `SidsInv` is about the existence of rows: a creation that was not
  applied has no row anywhere and no handler has found one, what is applied or
  was found has a row. `RowsInv` adds contents: while the holder of the lock waits
  and its request is applied, the row of the checkout is what its commit will agree
  with *or* an orphan has changed it since. They give `StockAlwaysInCatalog`,
  `DisagreementsHaveACause` and `HalfDeletedIsFrozen`. `FoundAlive` says that a
  handler whose caller waits finds its row alive or deleted by a delete the inventory
  has not committed; since the lock admits one waiting caller, that delete belongs to
  somebody who waits no longer. It gives `OnlyStragglersRevive`.
* `MarketProofs` instantiates the two proof modules (`OP`, `CP`) and uses their
  lemmas again: a step of an order in `Market` is a step of `Orders` for which the
  protocol variables of changes do not move, and the other way round. So the two
  `ProtocolInv` hold together (`ProtocolsCorrect`), which gives
  `LocksAreOwnedByAll` and, twice, the promise of `OrderLedger` (`PromisesKept`).
  The invariants about rows must be proved against the other part: a change may
  write any stock, but a row it writes has a flag computed from that stock, which
  keeps `StockInv` of orders (`FlagAgreesForAll`, `StockNeverNegative`). For
  `DriftAlwaysHasACause` the inductive `DriftInv` adds two facts: the price in an
  order's hands is that of the row unless a change has committed meanwhile
  (`SnapIsRow`), and while a change waits for its reply the checkout shows what its
  commit will write, or an orphan came between (`CommitWillAgree`). An order
  changes the price, the number and the flag of a row and never its existence, so
  `SidsInv` and `FoundAlive` of changes hold beside it (`ExistenceKept`,
  `ProductsStayInCatalog`, `OnlyStragglersRevive`).
* `SeedingProofs`: `TypeCorrect`; `SeededInv` (a table is empty or holds a whole
  seed) gives `ServesAWholeSeed`. `OrderInv` is the order of committed *and*
  confirmed products: they are in the checkout, in increasing positions, and a
  product that is not confirmed was drawn later than each of them. It gives
  `RowsInTheSameOrder`.
* `LoadGeneratorProofs`: `CountersCorrect` says that the types hold and that `sem` and
  `wg` are the numbers of goroutines that hold a slot and that are not done, by
  cardinalities of finite sets (the types alone are not inductive: that `sem` stays a
  number needs that whoever releases a slot holds one); `ConcurrencyIsBounded` and `NothingIsLeftBehind` follow.
* `ChaosProofs`: the invariant is that the failures of a window so far are the
  drawn positions up to the current call; with a bound on the streak that
  counts the failures of the current window and of the one before it, this gives
  `QuotaIsMet` and `StreaksEnd`.
* `InvoiceProofs`: the invariant `RowsInv` is that ids in use were handed out, and
  that while the callback is past its insert the last id is the id of its own row,
  and `inv.id` that id cut to the field. The second part is what the single thread
  buys. With `OnlyRollbackDeletes` it gives `RollbackDeletesItsOwn`, and
  `PrintsAreStored`. `PdfInv` follows an amount from its message to the file: what
  waits in the queue has been published, the model of a callback under way holds the
  amount of a message of its order, an order has one message. `PdfShowsItsOrder` alone
  is not inductive, since `PrintPdf` prints what the callback received several steps
  earlier. It gives `PdfsShowTheirOrders` and `PrintingIsIdempotent`.

Every invariant and every action property of a passing run is stated by a theorem.
Only model-checked are the liveness properties (`EveryRequestEnds`,
`EveryHandlerEnds`, `CircularWaitEnds`, `LocksComeFree`, `StartsEnd`, `Stops`,
`InboxMoves`), since the prover does not reason about fairness and `ENABLED`.

## Assumptions

* One process per service, as deployed (`k8s/`, one replica each).
* A crash loses the handlers and the open transaction and nothing else.
* `Prices` is closed under the `int32` conversion of the messages
  (`PricesAssumption`), as the set of all Go integers is.
* Stock is not negative when orders begin, as seeding leaves it.
* In `Orders` alone products do not change; `Market` lifts this.
* The checkout's ids are handed out in the order of its inserts, and an insert that
  fails uses none up (`AUTOINCREMENT`).

## Not modelled

* *Telemetry* (`common/otel`): logs, spans, metrics and middlewares around the
  handlers. They neither read nor write any of the state above.
* *The collector* rewrites log records one at a time, without state; the rest of it
  is generated wiring.
* *Lists, resources and JSON layout* change nothing and decide nothing.
* *Seeding of users*: one transaction in one database before any server listens.
* *The JSON scanner and the PDF layout* of the invoice service are abstracted to
  "parses or not" and "the total that is printed". Their character-level code has
  no interaction, and unit tests reach it.
* *Opening ports, files and connections* at start-up is I/O. A signal handler that
  runs in the middle of a C handler is a crash.
* *Delivery of invoices*: a failed `PUBLISH` is only logged and Redis keeps nothing
  for an absent subscriber. The models have the steps, but the code promises
  nothing that a property could state. What a delivery that comes twice does is in
  `Invoice`.
* *An error that is no gRPC status* during seeding (`seed.go:62`) would only be logged,
  and the loop would go on. The generated client returns status errors only, so the
  branch is never taken and `Seeding` leaves it out.

## What was planned, and what is left

1. Done: `Stores`, `AppErrors`, `Orders` and `Catalog` with `OrderLedger`,
   `Chaos`, `Invoice`, and their proofs.
2. Done: `Market`, its liveness, the proofs that the parts' guarantees survive, and
   the drift that only the composition has.
3. Done: `Seeding` and `LoadGenerator`, with proofs.
   Done: the proofs about quantities and stragglers (`StockAlwaysBalances`,
   `NoUnitEverVanishes`, `OversoldMeansOrphaned`, `RollbackDeletesItsOwn`,
   `OnlyStragglersRevive`), so that each invariant that is checked is also proved.
4. Left: liveness of `Market` with more than one order and one change (an abstraction of the
   rows would be needed). Of the proofs: how far the balance of the stock
   survives administrators who set it (`StockBalances` is about orders alone).
