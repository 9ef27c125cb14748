------------------------------- MODULE Orders -------------------------------
(***************************************************************************)
(* Placing an order: PlaceNewOrder of checkout-service, which runs inside  *)
(* the HTTP handler of the request, and PlaceNewOrder of inventory-service,*)
(* which runs inside the gRPC handler RegisterOrder that the first one     *)
(* calls in the middle of its own database transaction.                    *)
(*                                                                         *)
(* Both services may crash and restart at any point, a call may time out   *)
(* or lose its reply while its handler goes on, and any number of requests *)
(* are in flight.  A request is named by the SID of the order it creates.  *)
(***************************************************************************)
EXTENDS Stores, AppErrors, FiniteSets

CONSTANTS
  Requests,    \* HTTP requests, each with the SID its order would get
  Quantities,  \* quantities that pass validate:"required,min=1"
  MaxStock     \* largest stock a product starts with

ASSUME RequestsAssumption == Requests \subseteq Clients
ASSUME QuantitiesAssumption == Quantities \subseteq Nat \ {0}
ASSUME MaxStockAssumption == MaxStock \in Nat

VARIABLES
  want,        \* the body of each request: a product and a quantity
  stage,       \* where the HTTP handler of the checkout is
  price,       \* the price it read, which the order will carry
  call,        \* where the RegisterOrder handler of the inventory is
  snap,        \* the stock row that handler read
  reply,       \* the gRPC code it ended with
  registered,  \* order_models of the inventory
  placed,      \* order_models of the checkout
  announced,   \* orders published on the Redis channel
  answer,      \* what the client was told
  opening      \* the stock of each product before any order (history)

httpVars == <<stage, price, placed, announced, answer>>
rpcVars == <<call, snap, reply, registered>>
vars == <<storeVars, httpVars, rpcVars, want, opening>>

\* The codes the handler RegisterOrder can end with.
Codes == {"NotFound", "Unknown", "InvalidArgument", "Internal"}
Stages == {"idle", "located", "reserved", "registering", "placed",
           "published", "done", "lost"}
Running == {"located", "reserved", "registering", "placed", "published"}
Calls == {"none", "called", "checked", "writing", "replied", "dead"}
Serving == {"called", "checked", "writing"}

TypeOK ==
  /\ StoresTypeOK
  /\ want \in [Requests -> [product : Products, quantity : Quantities]]
  /\ stage \in [Requests -> Stages]
  /\ price \in [Requests -> Prices]
  /\ call \in [Requests -> Calls]
  /\ snap \in [Requests -> StockRow]
  /\ reply \in [Requests -> Codes \cup {"none", "ok"}]
  /\ registered \subseteq Requests
  /\ placed \subseteq Requests
  /\ announced \subseteq Requests
  /\ answer \in [Requests -> Failures \cup {"none", "ok"}]
  /\ opening \in [Products -> Nat]

Item(r) == want[r].product

\* The quantity the inventory is sent: int32(req.Quantity).
Units(r) == ToInt32(want[r].quantity)

----------------------------------------------------------------------------
(***************************************************************************)
(* A product may be known to both services, to one of them (a product saga *)
(* that broke half way) or to none; seeding draws out_of_stock             *)
(* independently of the quantity.                                          *)
(***************************************************************************)
StartRow == [status : {"live"}, price : Prices, avail : 0 .. MaxStock,
             oos : BOOLEAN]

NoRow == [status |-> "none", price |-> CHOOSE x \in Prices : TRUE,
          avail |-> 0, oos |-> FALSE]

Init ==
  /\ stock \in [Products -> StartRow \cup {NoRow}]
  /\ catalog \in [Products -> [status : {"none", "live"}, price : Prices]]
  /\ coWriter = NoOne
  /\ invWriter = NoOne
  /\ want \in [Requests -> [product : Products, quantity : Quantities]]
  /\ stage = [r \in Requests |-> "idle"]
  /\ price = [r \in Requests |-> catalog[Item(r)].price]
  /\ call = [r \in Requests |-> "none"]
  /\ snap = [r \in Requests |-> stock[Item(r)]]
  /\ reply = [r \in Requests |-> "none"]
  /\ registered = {}
  /\ placed = {}
  /\ announced = {}
  /\ answer = [r \in Requests |-> "none"]
  /\ opening = [p \in Products |-> stock[p].avail]

----------------------------------------------------------------------------
(***************************************************************************)
(* checkout-service                                                        *)
(***************************************************************************)
Goto(r, s) == stage' = [stage EXCEPT ![r] = s]

\* common.SendJsonError ends the handler with an error answer.
Fail(r, a) ==
  /\ Goto(r, "done")
  /\ answer' = [answer EXCEPT ![r] = a]
  /\ UNCHANGED <<price, placed, announced>>

\* The user and the product are read; the price of the order is fixed here.
Locate(r) ==
  /\ stage[r] = "idle"
  /\ Live(catalog[Item(r)])
  /\ Goto(r, "located")
  /\ price' = [price EXCEPT ![r] = catalog[Item(r)].price]
  /\ UNCHANGED <<storeVars, rpcVars, want, placed, announced, answer, opening>>

\* An injected error, an unknown user or product (400), a failing query (500).
Decline(r) ==
  /\ stage[r] = "idle"
  /\ \E http \in InjectedHttp : Fail(r, AnswerTo(http))
  /\ UNCHANGED <<storeVars, rpcVars, want, opening>>

\* ReserveProduct only looks at the row of the product.
HasStock(row, n) == ~row.oos /\ row.avail >= n

Reserve(r) ==
  /\ stage[r] = "located"
  /\ Live(stock[Item(r)])
  /\ HasStock(stock[Item(r)], Units(r))
  /\ Goto(r, "reserved")
  /\ UNCHANGED <<storeVars, rpcVars, want, price, placed, announced, answer,
                 opening>>

NotAvailable(r) ==
  /\ stage[r] = "located"
  /\ ~Live(stock[Item(r)]) \/ ~HasStock(stock[Item(r)], Units(r))
  /\ Fail(r, AnswerTo(400))
  /\ UNCHANGED <<storeVars, rpcVars, want, opening>>

ReserveFails(r) ==
  /\ stage[r] = "located"
  /\ \E code \in CallerCodes \cup {"Unknown"} : Fail(r, AnswerToCode(code))
  /\ UNCHANGED <<storeVars, rpcVars, want, opening>>

\* Mutant: the insert does not wait for the lock, so that calls overlap.
InsertUnlocked(r) ==
  /\ stage[r] = "reserved"
  /\ coWriter' = r
  /\ Goto(r, "registering")
  /\ call' = [call EXCEPT ![r] = "called"]
  /\ UNCHANGED <<catalog, stock, invWriter, want, price, snap, reply,
                 registered, placed, announced, answer, opening>>

\* tx.Create takes the write lock; RegisterOrder is called inside the
\* transaction, before the row is committed.
Insert(r) ==
  /\ stage[r] = "reserved"
  /\ coWriter = NoOne
  /\ coWriter' = r
  /\ Goto(r, "registering")
  /\ call' = [call EXCEPT ![r] = "called"]
  /\ UNCHANGED <<catalog, stock, invWriter, want, price, snap, reply,
                 registered, placed, announced, answer, opening>>

\* SQLITE_BUSY after the busy timeout, or the context is done.
InsertFails(r) ==
  /\ stage[r] = "reserved"
  /\ Fail(r, AnswerTo(500))
  /\ UNCHANGED <<storeVars, rpcVars, want, opening>>

Unlock(r) ==
  /\ coWriter = r
  /\ coWriter' = NoOne
  /\ UNCHANGED <<catalog, stock, invWriter>>

\* Mutant: the error of RegisterOrder is ignored.
CommitAnyway(r) ==
  /\ stage[r] = "registering"
  /\ reply[r] # "none"
  /\ Unlock(r)
  /\ Goto(r, "placed")
  /\ placed' = placed \cup {r}
  /\ UNCHANGED <<rpcVars, want, price, announced, answer, opening>>

\* RegisterOrder answered OK and the transaction commits.
Commit(r) ==
  /\ stage[r] = "registering"
  /\ reply[r] = "ok"
  /\ Unlock(r)
  /\ Goto(r, "placed")
  /\ placed' = placed \cup {r}
  /\ UNCHANGED <<rpcVars, want, price, announced, answer, opening>>

\* Mutant: the row was written outside the transaction that fails.
FailWithoutRollback(r) ==
  /\ stage[r] = "registering"
  /\ reply[r] = "ok"
  /\ Unlock(r)
  /\ Goto(r, "done")
  /\ answer' = [answer EXCEPT ![r] = AnswerTo(500)]
  /\ placed' = placed \cup {r}
  /\ UNCHANGED <<rpcVars, want, price, announced, opening>>

\* RegisterOrder answered OK but the commit itself fails: rolled back, 500.
CommitFails(r) ==
  /\ stage[r] = "registering"
  /\ reply[r] = "ok"
  /\ Unlock(r)
  /\ Fail(r, AnswerTo(500))
  /\ UNCHANGED <<rpcVars, want, opening>>

\* RegisterOrder answered with an error: the transaction rolls back.
Refused(r) ==
  /\ stage[r] = "registering"
  /\ reply[r] \in Codes
  /\ Unlock(r)
  /\ Fail(r, AnswerToCode(reply[r]))
  /\ UNCHANGED <<rpcVars, want, opening>>

\* Mutant: the call has no deadline, only a reply ends it.
GiveUpOnReplyOnly(r) ==
  /\ stage[r] = "registering"
  /\ reply[r] # "none"
  /\ Unlock(r)
  /\ \E code \in CallerCodes : Fail(r, AnswerToCode(code))
  /\ UNCHANGED <<rpcVars, want, opening>>

\* The call ends without the reply of the handler, which may still be running
\* or may have committed: the transaction rolls back.
GiveUp(r) ==
  /\ stage[r] = "registering"
  /\ Unlock(r)
  /\ \E code \in CallerCodes : Fail(r, AnswerToCode(code))
  /\ UNCHANGED <<rpcVars, want, opening>>

\* A failed PUBLISH is only logged.
Publish(r) ==
  /\ stage[r] = "placed"
  /\ Goto(r, "published")
  /\ announced' \in {announced, announced \cup {r}}
  /\ UNCHANGED <<storeVars, rpcVars, want, price, placed, answer, opening>>

Respond(r) ==
  /\ stage[r] = "published"
  /\ Goto(r, "done")
  /\ answer' = [answer EXCEPT ![r] = "ok"]
  /\ UNCHANGED <<storeVars, rpcVars, want, price, placed, announced, opening>>

\* A crash of the checkout takes every request it serves with it.
RequestsLost ==
  [r \in Requests |-> IF stage[r] \in Running THEN "lost" ELSE stage[r]]

\* Mutant: the row of an open transaction survives the crash.
CrashKeepsOpenRow ==
  /\ \E r \in Requests : stage[r] \in Running
  /\ stage' = RequestsLost
  /\ coWriter' = NoOne
  /\ placed' = placed \cup {r \in Requests : stage[r] = "registering"}
  /\ UNCHANGED <<catalog, stock, invWriter, rpcVars, want, price, announced,
                 answer, opening>>

\* The process dies with its handlers; SQLite rolls the open transaction back.
CheckoutCrash ==
  /\ \E r \in Requests : stage[r] \in Running
  /\ stage' = RequestsLost
  /\ coWriter' = NoOne
  /\ UNCHANGED <<catalog, stock, invWriter, rpcVars, want, price, placed,
                 announced, answer, opening>>

----------------------------------------------------------------------------
(***************************************************************************)
(* inventory-service                                                       *)
(***************************************************************************)
Finish(r, code) ==
  /\ call' = [call EXCEPT ![r] = "replied"]
  /\ reply' = [reply EXCEPT ![r] = code]

\* The row of the product is read outside any transaction.
CheckStock(r) ==
  /\ call[r] = "called"
  /\ Live(stock[Item(r)])
  /\ HasStock(stock[Item(r)], Units(r))
  /\ call' = [call EXCEPT ![r] = "checked"]
  /\ snap' = [snap EXCEPT ![r] = stock[Item(r)]]
  /\ UNCHANGED <<storeVars, httpVars, want, reply, registered, opening>>

\* No such product is a 404, too little stock a 400.
RefuseOrder(r) ==
  /\ call[r] = "called"
  /\ \/ ~Live(stock[Item(r)]) /\ Finish(r, GrpcCode(404))
     \/ /\ Live(stock[Item(r)])
        /\ ~HasStock(stock[Item(r)], Units(r))
        /\ Finish(r, GrpcCode(400))
  /\ UNCHANGED <<storeVars, httpVars, want, snap, registered, opening>>

\* tx.Updates takes the write lock.
TakeStock(r) ==
  /\ call[r] = "checked"
  /\ invWriter = NoOne
  /\ invWriter' = r
  /\ call' = [call EXCEPT ![r] = "writing"]
  /\ UNCHANGED <<catalog, stock, coWriter, httpVars, want, snap, reply,
                 registered, opening>>

\* Mutant: the quantity is taken off the row as it is now, unchecked.
TakenRelative(row, read, n) ==
  IF ~Live(row) THEN row
  ELSE [row EXCEPT !.avail = row.avail - n, !.oos = row.avail - n <= 0]

\* Mutant: the flag is raised one unit too late.
TakenFlagLate(row, read, n) ==
  IF ~Live(row) THEN row
  ELSE [row EXCEPT !.avail = read.avail - n,
                   !.oos = read.oos \/ read.avail - n < 0]

\* Mutant: the row is saved, which inserts it over one deleted meanwhile.
TakenRevives(row, read, n) ==
  [read EXCEPT !.avail = read.avail - n, !.oos = read.avail - n <= 0]

(***************************************************************************)
(* The row tx.Updates writes: the row that was read, less the quantity.    *)
(* Updates leaves out a zero price, and skips a row deleted meanwhile.     *)
(***************************************************************************)
Taken(row, read, n) ==
  IF ~Live(row) THEN row
  ELSE [row EXCEPT !.avail = read.avail - n,
                   !.oos = read.oos \/ read.avail - n <= 0,
                   !.price = IF read.price = 0 THEN row.price ELSE read.price]

\* Mutant: stock and order are two transactions, and the second one fails.
RegisterHalf(r) ==
  /\ call[r] = "writing"
  /\ invWriter = r
  /\ stock' = [stock EXCEPT ![Item(r)] = Taken(@, snap[r], Units(r))]
  /\ invWriter' = NoOne
  /\ Finish(r, "Unknown")
  /\ UNCHANGED <<catalog, coWriter, httpVars, want, snap, registered, opening>>

RegisterCommit(r) ==
  /\ call[r] = "writing"
  /\ invWriter = r
  /\ stock' = [stock EXCEPT ![Item(r)] = Taken(@, snap[r], Units(r))]
  /\ registered' = registered \cup {r}
  /\ invWriter' = NoOne
  /\ Finish(r, "ok")
  /\ UNCHANGED <<catalog, coWriter, httpVars, want, snap, opening>>

\* common.MaybeError, before anything else.
InjectedFault(r) ==
  /\ call[r] = "called"
  /\ \E http \in InjectedHttp : Finish(r, GrpcCode(http))
  /\ UNCHANGED <<storeVars, httpVars, want, snap, registered, opening>>

\* Mutant: the failed transaction is not rolled back.
FailLeaksLock(r) ==
  /\ call[r] \in Serving
  /\ Finish(r, "Unknown")
  /\ UNCHANGED <<storeVars, httpVars, want, snap, registered, opening>>

\* A failing query or commit, a busy database, the end of the context: an error
\* that is no AppError.  The transaction, if open, rolls back.
RegisterFails(r) ==
  /\ call[r] \in Serving
  /\ Finish(r, "Unknown")
  /\ invWriter' = IF invWriter = r THEN NoOne ELSE invWriter
  /\ UNCHANGED <<catalog, stock, coWriter, httpVars, want, snap, registered,
                 opening>>

\* A crash of the inventory takes every call it serves with it.
CallsLost ==
  [r \in Requests |-> IF call[r] \in Serving THEN "dead" ELSE call[r]]

\* As for the checkout: handlers die, an open transaction is rolled back.
InventoryCrash ==
  /\ \E r \in Requests : call[r] \in Serving
  /\ call' = CallsLost
  /\ invWriter' = NoOne
  /\ UNCHANGED <<catalog, stock, coWriter, httpVars, want, snap, reply,
                 registered, opening>>

----------------------------------------------------------------------------
RequestStep(r) ==
  \/ Locate(r) \/ Decline(r)
  \/ Reserve(r) \/ NotAvailable(r) \/ ReserveFails(r)
  \/ Insert(r) \/ InsertFails(r)
  \/ Commit(r) \/ CommitFails(r) \/ Refused(r) \/ GiveUp(r)
  \/ Publish(r) \/ Respond(r)

HandlerStep(r) ==
  \/ InjectedFault(r) \/ CheckStock(r) \/ RefuseOrder(r)
  \/ TakeStock(r) \/ RegisterCommit(r) \/ RegisterFails(r)

Next ==
  \/ \E r \in Requests : RequestStep(r) \/ HandlerStep(r)
  \/ CheckoutCrash
  \/ InventoryCrash

Spec == Init /\ [][Next]_vars

(***************************************************************************)
(* The scheduler runs every goroutine, and every wait of one is bounded: a *)
(* context of 1 minute (checkout) or 30 seconds (inventory) covers each    *)
(* query and call, and the busy timeout covers the wait for a write lock.  *)
(***************************************************************************)
Fairness ==
  \A r \in Requests : WF_vars(RequestStep(r)) /\ WF_vars(HandlerStep(r))

FairSpec == Spec /\ Fairness

----------------------------------------------------------------------------
(***************************************************************************)
(* Safety                                                                  *)
(***************************************************************************)

\* The checkout never keeps an order the stock ledger does not have: its row is
\* committed only after RegisterOrder answered OK (orders_controller.go, the
\* call inside the transaction).
PlacedIsRegistered == placed \subseteq registered

\* A client told 200 has an order in both services; a client told anything else
\* has none in the checkout, then or later.
AnswerMatchesBooks ==
  \A r \in Requests :
    /\ answer[r] = "ok" => r \in placed \cap registered
    /\ answer[r] \in Failures => r \notin placed

\* A client told 4xx may forget the order: no handler that is still running can
\* register it, and none has.
RefusalIsFinal ==
  \A r \in Requests :
    answer[r] = "client_error" => r \notin registered /\ call[r] \notin Serving

\* Two handlers that race on one product never drive its stock below zero: each
\* writes the number it computed from the row it checked.
NoNegativeStock == \A p \in Products : stock[p].avail >= 0

\* Once a product has sold, its out_of_stock flag says exactly that nothing is
\* left, through stale writes too.
FlagTracksStock ==
  \A r \in registered :
    Live(stock[Item(r)]) => stock[Item(r)].oos = (stock[Item(r)].avail <= 0)

\* A write lock is held exactly by the transaction that is open: no error path,
\* timeout or crash leaks it.
LocksAreOwned ==
  \A r \in Requests :
    /\ coWriter = r <=> stage[r] = "registering"
    /\ invWriter = r <=> call[r] = "writing"

\* The units of a product that registered orders carry away, each under the order it
\* goes to.
SoldUnits(p) == UNION {{r} \X (1 .. Units(r)) : r \in {x \in registered : Item(x) = p}}

UnitsSold(p) == Cardinality(SoldUnits(p))

\* The stock of a product plus what was sold of it never falls below what there
\* was: a race of stale writes may forget a sale but loses no unit.
NoUnitVanishes ==
  \A p \in Products : stock[p].avail + UnitsSold(p) >= opening[p]

\* The inventory has the order and the checkout never will.
Orphan(r) == r \in registered \ placed /\ stage[r] \in {"done", "lost"}

\* What can upset the stock of a product: an order whose caller had given up when it
\* was registered, or a quantity that int32 makes negative.
Upset(p) == \E r \in registered : Item(r) = p /\ (Orphan(r) \/ Units(r) < 0)

\* As long as no order of a product is an orphan, every sale is booked: concurrent
\* handlers read stale rows only of products that an orphan upsets as well.
StockBalances ==
  \A p \in Products : Upset(p) \/ stock[p].avail + UnitsSold(p) = opening[p]

(***************************************************************************)
(* What the two services promise, see OrderLedger.tla                      *)
(***************************************************************************)
Ledger == INSTANCE OrderLedger

\* Each step of the two services is one step of the ledger, or none of its
\* business.
ImplementsLedger == Ledger!Spec

(***************************************************************************)
(* Liveness                                                                *)
(***************************************************************************)

\* Every request ends, answered or with its process: it cannot wait forever for
\* the lock of checkout.db or for an inventory that died.
EveryRequestEnds == \A r \in Requests : <>(stage[r] \in {"done", "lost"})

\* Every RegisterOrder handler ends, its caller gone or not.
EveryHandlerEnds ==
  \A r \in Requests :
    call[r] = "called" ~> call[r] \in {"replied", "dead"}

\* Both databases become writable again and again.
LocksComeFree == []<>(coWriter = NoOne) /\ []<>(invWriter = NoOne)

(***************************************************************************)
(* What the documentation says and the code does not do                    *)
(***************************************************************************)

\* Every order that is registered takes its units off the stock: a product
\* cannot be sold twice.
SoldWithinStock == \A p \in Products : UnitsSold(p) <= opening[p]

\* An order the inventory registered exists in the checkout once the request
\* that made it has ended.
BooksAgree ==
  \A r \in registered : stage[r] \in {"done", "lost"} => r \in placed
=============================================================================
