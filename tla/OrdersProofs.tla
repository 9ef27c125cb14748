---------------------------- MODULE OrdersProofs ----------------------------
(***************************************************************************)
(* Proofs about Orders, for any number of requests, products and units.    *)
(***************************************************************************)
EXTENDS Orders, FiniteSetTheorems, TLAPS

----------------------------------------------------------------------------
(***************************************************************************)
(* Facts about the operators                                               *)
(***************************************************************************)

\* The conversion to int32 yields an integer: sizes of stock stay integers.
LEMMA ToInt32Type == ASSUME NEW n \in Int PROVE ToInt32(n) \in Int
<1>1. 2 * Int32Max + 2 \in Int /\ 2 * Int32Max + 2 > 0
  BY Int32Assumption
<1>2. (n + Int32Max + 1) % (2 * Int32Max + 2) \in Int
  BY <1>1, Int32Assumption
<1> QED BY <1>2, Int32Assumption DEF ToInt32

\* A request names a known product and moves an integer number of units,
\* whatever quantity it asks for.
LEMMA RequestType ==
  ASSUME TypeOK, NEW r \in Requests
  PROVE  Item(r) \in Products /\ Units(r) \in Int
<1>1. want[r] \in [product : Products, quantity : Quantities]
  BY DEF TypeOK
<1>2. want[r].product \in Products /\ want[r].quantity \in Quantities
  BY <1>1
<1>3. \A q \in Quantities : q \in Int
  BY QuantitiesAssumption
<1> QED BY <1>2, <1>3, ToInt32Type DEF Units, Item

\* The row written by tx.Updates is a stock row.
LEMMA TakenType ==
  ASSUME NEW row \in StockRow, NEW read \in StockRow, NEW n \in Int
  PROVE  Taken(row, read, n) \in StockRow
<1>1. row.price \in Prices /\ read.price \in Prices
  BY DEF StockRow
<1>2. read.avail - n \in Int /\ (read.oos \/ read.avail - n <= 0) \in BOOLEAN
  BY DEF StockRow
<1>3. row.status \in RowStatus
  BY DEF StockRow
<1>4. CASE ~Live(row)
  BY <1>4 DEF Taken
<1>5. CASE Live(row)
  <2>1. Taken(row, read, n) =
          [status |-> row.status,
           price |-> IF read.price = 0 THEN row.price ELSE read.price,
           avail |-> read.avail - n,
           oos |-> read.oos \/ read.avail - n <= 0]
    BY <1>5 DEF Taken, StockRow
  <2> QED BY <2>1, <1>1, <1>2, <1>3 DEF StockRow
<1> QED BY <1>4, <1>5

\* Every error answer is one of the three kinds a client can tell apart.
LEMMA AnswerType ==
  /\ \A http \in Int : AnswerTo(http) \in Failures
  /\ AnswerTo(500) = "server_error" /\ AnswerTo(503) = "unavailable"
  /\ \A code : AnswerToCode(code) \in Failures
  /\ \A code \in CallerCodes \cup {"Unknown"} :
        AnswerToCode(code) \in {"unavailable", "server_error"}
  /\ \A code : AnswerToCode(code) = "client_error" => code # "ok"
BY DEF AnswerTo, AnswerToCode, Failures, CallerCodes

\* The codes the inventory answers an error with.
LEMMA GrpcCodeType ==
  /\ \A http : GrpcCode(http) \in Codes
  /\ GrpcCode(404) \in Codes /\ GrpcCode(400) \in Codes
BY DEF GrpcCode, Codes

----------------------------------------------------------------------------
(***************************************************************************)
(* Types                                                                   *)
(***************************************************************************)
LEMMA TypeStep == TypeOK /\ [Next]_vars => TypeOK'
<1> SUFFICES ASSUME TypeOK, [Next]_vars PROVE TypeOK'
  OBVIOUS
<1> USE DEF TypeOK, StoresTypeOK, Stages, Calls, vars, storeVars, httpVars, rpcVars
<1>1. ASSUME NEW r \in Requests, RequestStep(r) PROVE TypeOK'
  <2>1. CASE Locate(r)
    BY <2>1 DEF Locate, Goto, CatalogRow, Item, Live
  <2>2. CASE Decline(r)
    BY <2>2, AnswerType DEF Decline, Fail, Goto, InjectedHttp
  <2>3. CASE Reserve(r)
    BY <2>3 DEF Reserve, Goto
  <2>4. CASE NotAvailable(r)
    BY <2>4, AnswerType DEF NotAvailable, Fail, Goto
  <2>5. CASE ReserveFails(r)
    BY <2>5, AnswerType DEF ReserveFails, Fail, Goto
  <2>6. CASE Insert(r)
    BY <2>6, RequestsAssumption DEF Insert, Goto
  <2>7. CASE InsertFails(r)
    BY <2>7, AnswerType DEF InsertFails, Fail, Goto
  <2>8. CASE Commit(r)
    BY <2>8 DEF Commit, Unlock, Goto
  <2>9. CASE CommitFails(r)
    BY <2>9, AnswerType DEF CommitFails, Unlock, Fail, Goto
  <2>10. CASE Refused(r)
    BY <2>10, AnswerType DEF Refused, Unlock, Fail, Goto
  <2>11. CASE GiveUp(r)
    BY <2>11, AnswerType DEF GiveUp, Unlock, Fail, Goto
  <2>12. CASE Publish(r)
    BY <2>12 DEF Publish, Goto
  <2>13. CASE Respond(r)
    BY <2>13 DEF Respond, Goto
  <2> QED
    BY <1>1, <2>1, <2>2, <2>3, <2>4, <2>5, <2>6, <2>7, <2>8, <2>9, <2>10,
       <2>11, <2>12, <2>13 DEF RequestStep
<1>2. ASSUME NEW r \in Requests, HandlerStep(r) PROVE TypeOK'
  <2>1. CASE InjectedFault(r)
    BY <2>1, GrpcCodeType DEF InjectedFault, Finish
  <2>2. CASE CheckStock(r)
    <3>1. stock[Item(r)] \in StockRow
      BY RequestType
    <3>2. snap' \in [Requests -> StockRow]
      BY <2>2, <3>1 DEF CheckStock
    <3> QED BY <2>2, <3>2 DEF CheckStock
  <2>3. CASE RefuseOrder(r)
    <3>1. PICK code \in Codes : Finish(r, code)
      BY <2>3, GrpcCodeType DEF RefuseOrder
    <3> QED BY <2>3, <3>1 DEF RefuseOrder, Finish
  <2>4. CASE TakeStock(r)
    BY <2>4, RequestsAssumption DEF TakeStock
  <2>5. CASE RegisterCommit(r)
    <3>1. stock[Item(r)] \in StockRow /\ snap[r] \in StockRow
      BY RequestType
    <3>2. Taken(stock[Item(r)], snap[r], Units(r)) \in StockRow
      BY <3>1, RequestType, TakenType
    <3>3. stock' \in [Products -> StockRow]
      BY <2>5, <3>2 DEF RegisterCommit
    <3> QED BY <2>5, <3>3 DEF RegisterCommit, Finish
  <2>6. CASE RegisterFails(r)
    BY <2>6 DEF RegisterFails, Finish, Codes
  <2> QED BY <1>2, <2>1, <2>2, <2>3, <2>4, <2>5, <2>6 DEF HandlerStep
<1>3. CASE CheckoutCrash
  BY <1>3 DEF CheckoutCrash, RequestsLost
<1>4. CASE InventoryCrash
  BY <1>4 DEF InventoryCrash, CallsLost
<1>5. CASE UNCHANGED vars
  BY <1>5
<1> QED BY <1>1, <1>2, <1>3, <1>4, <1>5 DEF Next

LEMMA TypeInit == Init => TypeOK
<1> SUFFICES ASSUME Init PROVE TypeOK
  OBVIOUS
<1>1. StartRow \subseteq StockRow
  BY MaxStockAssumption DEF StartRow, StockRow, RowStatus
<1>2. NoRow \in StockRow
  BY PricesAssumption DEF NoRow, StockRow, RowStatus
<1>3. stock \in [Products -> StockRow]
  BY <1>1, <1>2 DEF Init
<1>4. want \in [Requests -> [product : Products, quantity : Quantities]]
  BY DEF Init
<1>5. catalog \in [Products -> CatalogRow]
  BY DEF Init, CatalogRow, RowStatus
<1>6. \A r \in Requests : Item(r) \in Products
  BY <1>4 DEF Item
<1>7. \A p \in Products : stock[p].avail \in Nat
  <2> SUFFICES ASSUME NEW p \in Products PROVE stock[p].avail \in Nat
    OBVIOUS
  <2>1. CASE stock[p] \in StartRow
    BY <2>1, MaxStockAssumption DEF StartRow
  <2>2. CASE stock[p] = NoRow
    BY <2>2 DEF NoRow
  <2> QED BY <2>1, <2>2 DEF Init
<1>8. \A p \in Products : catalog[p].price \in Prices
  BY <1>5 DEF CatalogRow
<1> QED
  BY <1>3, <1>4, <1>5, <1>6, <1>7, <1>8
     DEF Init, TypeOK, StoresTypeOK, Stages, Calls

\* In every reachable state the variables have their types (TypeOK).
THEOREM TypeCorrect == Spec => []TypeOK
BY TypeInit, TypeStep, PTL DEF Spec

----------------------------------------------------------------------------
(***************************************************************************)
(* The inductive invariant of the order protocol                           *)
(*                                                                         *)
(* None of the safety properties is inductive alone.  What ties them       *)
(* together is where the handlers of one order are: the inventory works on *)
(* an order only after the checkout has opened its transaction for it, an  *)
(* order is in the stock ledger exactly when its handler ended with "ok",  *)
(* and the checkout holds an order only past that point.                   *)
(***************************************************************************)

\* Before the checkout inserts the row, the inventory has not heard of the order.
NotYetCalled(r) ==
  stage[r] \in {"idle", "located", "reserved"} => call[r] = "none"

\* A reply ends the handler, and "ok" is the reply of exactly the registered.
ReplyTells(r) ==
  /\ reply[r] # "none" <=> call[r] = "replied"
  /\ reply[r] = "ok" <=> r \in registered

\* The order is in the checkout only when it is registered and past its commit.
PlacedLate(r) ==
  /\ r \in placed => r \in registered
  /\ stage[r] \in {"placed", "published"} => r \in placed
  /\ stage[r] \in {"idle", "located", "reserved", "registering"} => r \notin placed
  /\ r \in announced => r \in placed
  /\ stage[r] = "placed" => r \notin announced

\* A client has its answer at the end, and it is the truth.
Told(r) ==
  /\ answer[r] # "none" => stage[r] = "done"
  /\ answer[r] = "ok" => r \in placed
  /\ answer[r] \in Failures => r \notin placed
  /\ answer[r] = "client_error" => r \notin registered /\ call[r] \notin Serving

\* Whoever has an open transaction holds the lock of its database.
Locked(r) ==
  /\ coWriter = r <=> stage[r] = "registering"
  /\ invWriter = r <=> call[r] = "writing"

OrderInv(r) ==
  NotYetCalled(r) /\ ReplyTells(r) /\ PlacedLate(r) /\ Told(r) /\ Locked(r)

ProtocolInv == \A r \in Requests : OrderInv(r)

LEMMA ProtocolInit == Init => ProtocolInv
BY NoOneAssumption, RequestsAssumption
   DEF Init, ProtocolInv, OrderInv, NotYetCalled, ReplyTells, PlacedLate, Told,
       Locked, Failures, Serving

LEMMA ProtocolStep == TypeOK /\ ProtocolInv /\ [Next]_vars => ProtocolInv'
<1> SUFFICES ASSUME TypeOK, ProtocolInv, [Next]_vars, NEW q \in Requests
             PROVE  OrderInv(q)'
  BY DEF ProtocolInv
<1> USE DEF OrderInv, NotYetCalled, ReplyTells, PlacedLate, Told, Locked,
        Serving, Failures, Codes, vars, storeVars, httpVars, rpcVars
<1>0. OrderInv(q)
  BY DEF ProtocolInv
<1>1. ASSUME NEW r \in Requests, RequestStep(r) PROVE OrderInv(q)'
  <2>0. OrderInv(r)
    BY DEF ProtocolInv
  <2>1. CASE Locate(r)
    BY <1>0, <2>0, <2>1 DEF Locate, Goto, TypeOK
  <2>2. CASE Decline(r)
    BY <1>0, <2>0, <2>2, AnswerType DEF Decline, Fail, Goto, InjectedHttp, TypeOK
  <2>3. CASE Reserve(r)
    BY <1>0, <2>0, <2>3 DEF Reserve, Goto, TypeOK
  <2>4. CASE NotAvailable(r)
    BY <1>0, <2>0, <2>4, AnswerType DEF NotAvailable, Fail, Goto, TypeOK
  <2>5. CASE ReserveFails(r)
    <3>1. PICK a \in Failures : Fail(r, a)
      BY <2>5, AnswerType DEF ReserveFails
    <3> QED BY <1>0, <2>0, <2>5, <3>1 DEF ReserveFails, Fail, Goto, TypeOK
  <2>6. CASE Insert(r)
    BY <1>0, <2>0, <2>6, RequestsAssumption, NoOneAssumption DEF Insert, Goto, TypeOK
  <2>7. CASE InsertFails(r)
    BY <1>0, <2>0, <2>7, AnswerType DEF InsertFails, Fail, Goto, TypeOK
  <2>8. CASE Commit(r)
    BY <1>0, <2>0, <2>8,
       RequestsAssumption, NoOneAssumption
     DEF Commit, Unlock, Goto, TypeOK
  <2>9. CASE CommitFails(r)
    BY <1>0, <2>0, <2>9, AnswerType,
       RequestsAssumption, NoOneAssumption
     DEF CommitFails, Unlock, Fail, Goto, TypeOK
  <2>10. CASE Refused(r)
    BY <1>0, <2>0, <2>10, AnswerType,
       RequestsAssumption, NoOneAssumption
     DEF Refused, Unlock, Fail, Goto, TypeOK
  <2>11. CASE GiveUp(r)
    BY <1>0, <2>0, <2>11, AnswerType,
       RequestsAssumption, NoOneAssumption
     DEF GiveUp, Unlock, Fail, Goto, TypeOK
  <2>12. CASE Publish(r)
    BY <1>0, <2>0, <2>12 DEF Publish, Goto, TypeOK
  <2>13. CASE Respond(r)
    BY <1>0, <2>0, <2>13 DEF Respond, Goto, TypeOK
  <2> QED
    BY <1>1, <2>1, <2>2, <2>3, <2>4, <2>5, <2>6, <2>7, <2>8, <2>9, <2>10,
       <2>11, <2>12, <2>13 DEF RequestStep
<1>2. ASSUME NEW r \in Requests, HandlerStep(r) PROVE OrderInv(q)'
  <2>0. OrderInv(r)
    BY DEF ProtocolInv
  <2>1. CASE InjectedFault(r)
    BY <1>0, <2>0, <2>1, GrpcCodeType DEF InjectedFault, Finish, TypeOK
  <2>2. CASE CheckStock(r)
    BY <1>0, <2>0, <2>2 DEF CheckStock, TypeOK
  <2>3. CASE RefuseOrder(r)
    BY <1>0, <2>0, <2>3, GrpcCodeType DEF RefuseOrder, Finish, TypeOK
  <2>4. CASE TakeStock(r)
    BY <1>0, <2>0, <2>4, RequestsAssumption, NoOneAssumption DEF TakeStock, TypeOK
  <2>5. CASE RegisterCommit(r)
    BY <1>0, <2>0, <2>5,
       RequestsAssumption, NoOneAssumption
     DEF RegisterCommit, Finish, TypeOK
  <2>6. CASE RegisterFails(r)
    BY <1>0, <2>0, <2>6,
       RequestsAssumption, NoOneAssumption
     DEF RegisterFails, Finish, TypeOK
  <2> QED BY <1>2, <2>1, <2>2, <2>3, <2>4, <2>5, <2>6 DEF HandlerStep
<1>3. CASE CheckoutCrash
  BY <1>0, <1>3, NoOneAssumption, RequestsAssumption
     DEF CheckoutCrash, RequestsLost, Running, TypeOK
<1>4. CASE InventoryCrash
  BY <1>0, <1>4, NoOneAssumption, RequestsAssumption DEF InventoryCrash, CallsLost, TypeOK
<1>5. CASE UNCHANGED vars
  BY <1>0, <1>5
<1> QED BY <1>1, <1>2, <1>3, <1>4, <1>5 DEF Next

\* The protocol invariant holds in every reachable state.
THEOREM ProtocolCorrect == Spec => []ProtocolInv
BY TypeCorrect, ProtocolInit, ProtocolStep, PTL DEF Spec

\* An order of the checkout is in the stock ledger (PlacedIsRegistered).
THEOREM PlacedIsRegisteredAlways == Spec => []PlacedIsRegistered
<1>1. TypeOK /\ ProtocolInv => PlacedIsRegistered
  BY DEF TypeOK, ProtocolInv, OrderInv, PlacedLate, PlacedIsRegistered
<1> QED BY <1>1, TypeCorrect, ProtocolCorrect, PTL

\* 200 means an order in both services, an error none in the checkout
\* (AnswerMatchesBooks).
THEOREM AnswersAreTrue == Spec => []AnswerMatchesBooks
<1>1. ProtocolInv => AnswerMatchesBooks
  BY DEF ProtocolInv, OrderInv, Told, PlacedLate, AnswerMatchesBooks
<1> QED BY <1>1, ProtocolCorrect, PTL

\* A 4xx answer is final (RefusalIsFinal).
THEOREM RefusalsAreFinal == Spec => []RefusalIsFinal
<1>1. ProtocolInv => RefusalIsFinal
  BY DEF ProtocolInv, OrderInv, Told, RefusalIsFinal
<1> QED BY <1>1, ProtocolCorrect, PTL

\* Write locks are held by open transactions only (LocksAreOwned).
THEOREM LocksAreOwnedAlways == Spec => []LocksAreOwned
<1>1. ProtocolInv => LocksAreOwned
  BY DEF ProtocolInv, OrderInv, Locked, LocksAreOwned
<1> QED BY <1>1, ProtocolCorrect, PTL

----------------------------------------------------------------------------
(***************************************************************************)
(* Stock                                                                   *)
(*                                                                         *)
(* A handler that passed its check carries a snapshot with enough stock    *)
(* and the flag down; what it writes is computed from that snapshot alone, *)
(* so it does not matter how old the snapshot is.                          *)
(***************************************************************************)
SnapshotCovers(r) ==
  call[r] \in {"checked", "writing"} =>
    snap[r].avail >= Units(r) /\ ~snap[r].oos

StockInv ==
  /\ \A r \in Requests : SnapshotCovers(r)
  /\ FlagTracksStock

LEMMA StockInit == Init => StockInv /\ NoNegativeStock
<1> SUFFICES ASSUME Init PROVE StockInv /\ NoNegativeStock
  OBVIOUS
<1>1. \A r \in Requests : SnapshotCovers(r)
  BY DEF Init, SnapshotCovers
<1>2. NoNegativeStock
  <2> SUFFICES ASSUME NEW p \in Products PROVE stock[p].avail >= 0
    BY DEF NoNegativeStock
  <2>1. CASE stock[p] \in StartRow
    BY <2>1, MaxStockAssumption DEF StartRow
  <2>2. CASE stock[p] = NoRow
    BY <2>2 DEF NoRow
  <2> QED BY <2>1, <2>2 DEF Init
<1>3. FlagTracksStock
  BY DEF Init, FlagTracksStock
<1> QED BY <1>1, <1>2, <1>3 DEF StockInv

LEMMA StockStep == TypeOK /\ StockInv /\ [Next]_vars => StockInv'
<1> SUFFICES ASSUME TypeOK, StockInv, [Next]_vars PROVE StockInv'
  OBVIOUS
<1> USE DEF StockInv, SnapshotCovers, FlagTracksStock,
        vars, storeVars, httpVars, rpcVars
<1>a. ASSUME UNCHANGED <<stock, want, registered>>,
             \A r \in Requests : SnapshotCovers(r)'
      PROVE  StockInv'
  BY <1>a DEF Item
<1>1. ASSUME NEW r \in Requests, RequestStep(r) PROVE StockInv'
  <2>1. UNCHANGED <<stock, want, registered, snap>>
    BY <1>1 DEF RequestStep, Locate, Decline, Reserve, NotAvailable,
       ReserveFails, Insert, InsertFails, Commit, CommitFails, Refused, GiveUp,
       Publish, Respond, Unlock
  <2>2. call' = call \/ call' = [call EXCEPT ![r] = "called"]
    BY <1>1 DEF RequestStep, Locate, Decline, Reserve, NotAvailable,
       ReserveFails, Insert, InsertFails, Commit, CommitFails, Refused, GiveUp,
       Publish, Respond
  <2>3. \A q \in Requests : SnapshotCovers(q)'
    BY <2>1, <2>2 DEF Units, TypeOK
  <2> QED BY <1>a, <2>1, <2>3
<1>2. ASSUME NEW r \in Requests, HandlerStep(r) PROVE StockInv'
  <2>1. CASE InjectedFault(r)
    BY <1>a, <2>1 DEF InjectedFault, Finish, Units, TypeOK
  <2>2. CASE CheckStock(r)
    BY <1>a, <2>2 DEF CheckStock, HasStock, Units, TypeOK
  <2>3. CASE RefuseOrder(r)
    BY <1>a, <2>3 DEF RefuseOrder, Finish, Units, TypeOK
  <2>4. CASE TakeStock(r)
    BY <1>a, <2>4 DEF TakeStock, Units, TypeOK
  <2>5. CASE RegisterCommit(r)
    <3> DEFINE n == Units(r)
               p == Item(r)
               row == stock[p]
               new == Taken(row, snap[r], n)
    <3>1. row \in StockRow /\ snap[r] \in StockRow /\ n \in Int
      BY RequestType DEF TypeOK, StoresTypeOK
    <3>2. snap[r].avail >= n /\ ~snap[r].oos
      BY <2>5 DEF RegisterCommit
    <3>3. \A q \in Requests : SnapshotCovers(q)'
      BY <2>5 DEF RegisterCommit, Finish, Units, TypeOK
    <3>4. stock' = [stock EXCEPT ![p] = new]
      BY <2>5 DEF RegisterCommit
    <3>5. p \in Products /\ stock' [p] = new
      BY <3>4, RequestType DEF TypeOK, StoresTypeOK
    <3>6. CASE ~Live(row)
      <4>1. new = row
        BY <3>6 DEF Taken
      <4>2. stock' = stock
        BY <4>1, <3>4, <3>5 DEF TypeOK, StoresTypeOK
      <4> QED
        BY <4>2, <3>3, <3>6, <2>5 DEF RegisterCommit, Item, Live
    <3>7. CASE Live(row)
      <4>1. /\ new.avail = snap[r].avail - n
            /\ new.oos = (snap[r].avail - n <= 0)
        BY <3>1, <3>2, <3>7 DEF Taken, StockRow
      <4>2. new.avail >= 0 /\ new.oos = (new.avail <= 0)
        BY <4>1, <3>1, <3>2 DEF StockRow
      <4>3. FlagTracksStock'
        <5> SUFFICES ASSUME NEW q \in registered', Live(stock'[Item(q)'])
                     PROVE  stock'[Item(q)'].oos = (stock'[Item(q)'].avail <= 0)
          OBVIOUS
        <5>1. Item(q)' = Item(q)
          BY <2>5 DEF RegisterCommit, Item
        <5>2. CASE Item(q) = p
          BY <5>1, <5>2, <4>2, <3>5
        <5>3. CASE Item(q) # p
          <6>1. q \in registered
            BY <5>3, <2>5 DEF RegisterCommit
          <6>2. stock'[Item(q)] = stock[Item(q)]
            BY <6>1, <5>3, <3>4, RequestType DEF TypeOK, StoresTypeOK
          <6> QED BY <5>1, <6>1, <6>2 DEF Live
        <5> QED BY <5>2, <5>3
      <4> QED BY <3>3, <4>3
    <3> QED BY <3>6, <3>7
  <2>6. CASE RegisterFails(r)
    BY <1>a, <2>6 DEF RegisterFails, Finish, Units, TypeOK
  <2> QED BY <1>2, <2>1, <2>2, <2>3, <2>4, <2>5, <2>6 DEF HandlerStep
<1>3. CASE CheckoutCrash
  BY <1>a, <1>3 DEF CheckoutCrash, RequestsLost, Units
<1>4. CASE InventoryCrash
  BY <1>a, <1>4 DEF InventoryCrash, CallsLost, Units, TypeOK
<1>5. CASE UNCHANGED vars
  BY <1>a, <1>5 DEF Units
<1> QED BY <1>1, <1>2, <1>3, <1>4, <1>5 DEF Next

\* The number written was checked to be none less than zero when it was computed.
LEMMA NoNegativeStep ==
  TypeOK /\ StockInv /\ NoNegativeStock /\ [Next]_vars => NoNegativeStock'
<1> SUFFICES ASSUME TypeOK, StockInv, NoNegativeStock, [Next]_vars
             PROVE  NoNegativeStock'
  OBVIOUS
<1>1. ASSUME NEW r \in Requests, RegisterCommit(r) PROVE NoNegativeStock'
  <2> DEFINE p == Item(r)
             new == Taken(stock[p], snap[r], Units(r))
  <2>1. p \in Products /\ snap[r] \in StockRow /\ Units(r) \in Int
    BY RequestType DEF TypeOK
  <2>2. stock[p] \in StockRow
    BY <2>1 DEF TypeOK, StoresTypeOK
  <2>3. snap[r].avail >= Units(r)
    BY <1>1 DEF RegisterCommit, StockInv, SnapshotCovers
  <2>4. new.avail >= 0
    <3>1. CASE ~Live(stock[p])
      BY <3>1, <2>1 DEF Taken, NoNegativeStock
    <3>2. CASE Live(stock[p])
      <4>1. new.avail = snap[r].avail - Units(r)
        BY <3>2, <2>2 DEF Taken, StockRow
      <4> QED BY <4>1, <2>1, <2>3 DEF StockRow
    <3> QED BY <3>1, <3>2
  <2>5. stock' = [stock EXCEPT ![p] = new]
    BY <1>1 DEF RegisterCommit
  <2> QED BY <2>1, <2>4, <2>5 DEF NoNegativeStock, TypeOK, StoresTypeOK
<1>2. CASE UNCHANGED stock
  BY <1>2 DEF NoNegativeStock
<1>3. CASE \E r \in Requests : HandlerStep(r)
  BY <1>1, <1>2, <1>3 DEF HandlerStep, InjectedFault, CheckStock, RefuseOrder,
     TakeStock, RegisterFails, storeVars
<1>4. CASE \E r \in Requests : RequestStep(r)
  BY <1>2, <1>4 DEF RequestStep, Locate, Decline, Reserve, NotAvailable,
     ReserveFails, Insert, InsertFails, Commit, CommitFails, Refused, GiveUp,
     Publish, Respond, Unlock, storeVars
<1>5. CASE CheckoutCrash \/ InventoryCrash \/ UNCHANGED vars
  BY <1>2, <1>5 DEF CheckoutCrash, InventoryCrash, vars, storeVars
<1> QED BY <1>3, <1>4, <1>5 DEF Next

LEMMA StockCorrect == Spec => [](StockInv /\ NoNegativeStock)
BY TypeCorrect, StockInit, StockStep, NoNegativeStep, PTL DEF Spec

\* No interleaving of registrations, crashes and time-outs drives a stock below
\* zero (NoNegativeStock), also for quantities that do not fit an int32.
THEOREM StockNeverNegative == Spec => []NoNegativeStock
BY StockCorrect, PTL

\* The flag of a product that has sold agrees with its stock (FlagTracksStock).
THEOREM FlagAgrees == Spec => []FlagTracksStock
BY StockCorrect, PTL DEF StockInv

----------------------------------------------------------------------------
(***************************************************************************)
(* Units sold                                                              *)
(*                                                                         *)
(* The books of a product add up as far as the snapshots do.  A snapshot   *)
(* may be old, but what was sold since is in the ledger, so that the stock *)
(* it saw and the units sold by now still cover the opening stock.  While  *)
(* the caller of a handler waits for it, it is the only handler whose      *)
(* caller does, and its snapshot is no older than the last sale that was   *)
(* not an orphan's.                                                        *)
(***************************************************************************)

\* An order of n units sends n units away, none when n is negative.
LEMMA UnitsOfAnOrder ==
  ASSUME NEW r, NEW n \in Int
  PROVE  /\ IsFiniteSet({r} \X (1 .. n))
         /\ Cardinality({r} \X (1 .. n)) = IF n < 1 THEN 0 ELSE n
<1> DEFINE S == 1 .. n
           T == {r} \X S
           f == [i \in S |-> <<r, i>>]
<1>1. IsFiniteSet(S) /\ Cardinality(S) = IF n < 1 THEN 0 ELSE n
  BY FS_Interval
<1>2. f \in Bijection(S, T)
  <2>1. f \in [S -> T]
    OBVIOUS
  <2>2. \A a, b \in S : f[a] = f[b] => a = b
    OBVIOUS
  <2>3. \A t \in T : \E a \in S : f[a] = t
    OBVIOUS
  <2> QED BY <2>1, <2>2, <2>3 DEF Bijection, Injection, IsInjective, Surjection
<1>3. ExistsBijection(S, T)
  BY <1>2 DEF ExistsBijection
<1> QED BY <1>1, <1>3, FS_Bijection

\* The units sold of a product depend on the ledger and the requests alone.
LEMMA SameSales ==
  ASSUME UNCHANGED <<registered, want>>
  PROVE  \A p \in Products : UnitsSold(p)' = UnitsSold(p) /\ SoldUnits(p)' = SoldUnits(p)
BY DEF UnitsSold, SoldUnits, Item, Units

\* The units a product has sold are finitely many, so that they can be counted.
Countable == \A p \in Products : IsFiniteSet(SoldUnits(p))

\* The units that registering r takes from product p: int32 may make a quantity
\* zero or negative.
Carried(r, p) == IF Item(r) = p /\ Units(r) >= 1 THEN Units(r) ELSE 0

\* A registration adds its units to those of its product and to no other's.
LEMMA SaleIsAdded ==
  ASSUME TypeOK, ProtocolInv, Countable, NEW r \in Requests, RegisterCommit(r),
         NEW p \in Products
  PROVE  /\ IsFiniteSet(SoldUnits(p)')
         /\ UnitsSold(p)' = UnitsSold(p) + Carried(r, p)
<1> DEFINE n == Units(r)
           T == {r} \X (1 .. n)
<1>1. n \in Int
  BY RequestType
<1>2. registered' = registered \cup {r} /\ UNCHANGED want
  BY DEF RegisterCommit
<1>3. r \notin registered
  BY DEF RegisterCommit, ProtocolInv, OrderInv, ReplyTells
<1>4. \A q : Item(q)' = Item(q) /\ Units(q)' = Units(q)
  BY <1>2 DEF Item, Units
<1>5. IsFiniteSet(SoldUnits(p)) /\ Cardinality(SoldUnits(p)) \in Nat
  BY FS_CardinalityType DEF Countable
<1>6. CASE Item(r) # p
  <2>1. SoldUnits(p)' = SoldUnits(p)
    BY <1>2, <1>4, <1>6 DEF SoldUnits
  <2> QED BY <2>1, <1>5, <1>6 DEF UnitsSold, Carried
<1>7. CASE Item(r) = p
  <2>1. SoldUnits(p)' = SoldUnits(p) \cup T
    BY <1>2, <1>4, <1>7 DEF SoldUnits
  <2>2. Cardinality(SoldUnits(p) \cap T) = 0
    BY <1>3, FS_EmptySet DEF SoldUnits
  <2>3. IsFiniteSet(T) /\ Cardinality(T) = IF n < 1 THEN 0 ELSE n
    BY <1>1, UnitsOfAnOrder
  <2>4. /\ IsFiniteSet(SoldUnits(p) \cup T)
        /\ Cardinality(SoldUnits(p) \cup T) =
             Cardinality(SoldUnits(p)) + Cardinality(T) - Cardinality(SoldUnits(p) \cap T)
    BY <1>5, <2>3, FS_Union
  <2>5. Cardinality(T) = Carried(r, p)
    BY <1>1, <1>7, <2>3 DEF Carried
  <2>6. Cardinality(SoldUnits(p) \cup T) = Cardinality(SoldUnits(p)) + Carried(r, p)
    BY <1>1, <1>5, <2>2, <2>4, <2>5 DEF Carried
  <2> QED BY <2>1, <2>4, <2>6 DEF UnitsSold
<1> QED BY <1>6, <1>7

\* A handler that has read the stock and will write it.
Holding(r) == call[r] \in {"checked", "writing"}

\* Apart from a registration, a step leaves stock and ledger alone: a handler
\* reads its snapshot now or has it already, and a caller waits as before.
LEMMA OnlyRegistrationSells ==
  ASSUME TypeOK, [Next]_vars, \A r \in Requests : ~RegisterCommit(r)
  PROVE  /\ UNCHANGED <<stock, want, registered, opening>>
         /\ \A q \in Requests : Holding(q)' =>
              \/ Holding(q) /\ UNCHANGED snap[q]
              \/ snap'[q] = stock[Item(q)] /\ Live(stock[Item(q)])
         /\ \A q \in Requests : Holding(q)' /\ stage'[q] = "registering" =>
              stage[q] = "registering"
<1> USE DEF Holding, TypeOK, vars, storeVars, httpVars, rpcVars
<1>1. ASSUME NEW r \in Requests, RequestStep(r)
      PROVE  /\ UNCHANGED <<stock, want, registered, opening, snap>>
             /\ \/ UNCHANGED call /\ \E s \in Stages \ {"registering"} : Goto(r, s)
                \/ /\ call' = [call EXCEPT ![r] = "called"]
                   /\ Goto(r, "registering")
  BY <1>1 DEF RequestStep, Locate, Decline, Reserve, NotAvailable,
     ReserveFails, Insert, InsertFails, Commit, CommitFails, Refused, GiveUp,
     Publish, Respond, Unlock, Fail, Stages
<1>2. CASE \E r \in Requests : RequestStep(r)
  BY <1>1, <1>2 DEF Goto
<1>3. ASSUME NEW r \in Requests, HandlerStep(r)
      PROVE  /\ UNCHANGED <<stock, want, registered, opening, stage>>
             /\ \A q \in Requests : Holding(q)' =>
                  \/ Holding(q) /\ UNCHANGED snap[q]
                  \/ snap'[q] = stock[Item(q)] /\ Live(stock[Item(q)])
  BY <1>3 DEF HandlerStep, InjectedFault, CheckStock, RefuseOrder, TakeStock,
     RegisterFails, Finish
<1>4. CASE \E r \in Requests : HandlerStep(r)
  BY <1>3, <1>4
<1>5. CASE CheckoutCrash
  BY <1>5 DEF CheckoutCrash, RequestsLost, Running
<1>6. CASE InventoryCrash
  BY <1>6 DEF InventoryCrash, CallsLost, Serving
<1>7. CASE UNCHANGED vars
  BY <1>7
<1> QED BY <1>2, <1>4, <1>5, <1>6, <1>7 DEF Next

\* What a handler is about to write, with what was sold by then, covers the
\* opening stock.
SaleCovered(r) ==
  Holding(r) => snap[r].avail + UnitsSold(Item(r)) >= opening[Item(r)]

SalesInv ==
  /\ Countable
  /\ NoUnitVanishes
  /\ \A r \in Requests : SaleCovered(r)

LEMMA SalesInit == Init => SalesInv /\ \A p \in Products : UnitsSold(p) = 0
<1> SUFFICES ASSUME Init PROVE SalesInv /\ \A p \in Products : UnitsSold(p) = 0
  OBVIOUS
<1>1. \A p : SoldUnits(p) = {}
  <2>1. \A p : {x \in registered : Item(x) = p} = {}
    BY DEF Init
  <2> QED BY <2>1 DEF SoldUnits
<1>2. Countable /\ \A p \in Products : UnitsSold(p) = 0
  BY <1>1, FS_EmptySet DEF Countable, UnitsSold
<1>3. \A p \in Products : stock[p].avail \in Int /\ opening[p] = stock[p].avail
  BY TypeInit DEF Init, TypeOK, StoresTypeOK, StockRow
<1>4. NoUnitVanishes
  <2> SUFFICES ASSUME NEW p \in Products
               PROVE  stock[p].avail + UnitsSold(p) >= opening[p]
    BY DEF NoUnitVanishes
  <2>1. UnitsSold(p) = 0 /\ stock[p].avail \in Int /\ opening[p] = stock[p].avail
    BY <1>2, <1>3
  <2> QED BY <2>1
<1>5. \A r \in Requests : SaleCovered(r)
  BY DEF Init, SaleCovered, Holding
<1> QED BY <1>2, <1>4, <1>5 DEF SalesInv

LEMMA SalesStep == TypeOK /\ ProtocolInv /\ SalesInv /\ [Next]_vars => SalesInv'
<1> SUFFICES ASSUME TypeOK, ProtocolInv, SalesInv, [Next]_vars PROVE SalesInv'
  OBVIOUS
<1>0. /\ \A p \in Products : /\ stock[p].avail \in Int /\ opening[p] \in Int
                             /\ UnitsSold(p) \in Nat
      /\ \A q \in Requests : snap[q].avail \in Int /\ Item(q) \in Products
  BY RequestType, FS_CardinalityType
     DEF TypeOK, StoresTypeOK, StockRow, SalesInv, Countable, UnitsSold
<1>1. ASSUME NEW r \in Requests, RegisterCommit(r) PROVE SalesInv'
  <2> DEFINE n == Units(r)
             p == Item(r)
  <2>1. \A x \in Products : /\ IsFiniteSet(SoldUnits(x)')
                            /\ UnitsSold(x)' = UnitsSold(x) + Carried(r, x)
    BY <1>1, SaleIsAdded DEF SalesInv
  <2>2. n \in Int /\ \A x : Carried(r, x) \in Nat
    BY RequestType DEF Carried
  <2>3. \A x \in Products : UnitsSold(x)' \in Nat /\ UnitsSold(x)' >= UnitsSold(x)
    BY <1>0, <2>1, <2>2
  <2>4. Holding(r)
    BY <1>1 DEF RegisterCommit, Holding
  <2>5. snap[r].avail + UnitsSold(p) >= opening[p]
    BY <2>4 DEF SalesInv, SaleCovered
  <2>6. stock' = [stock EXCEPT ![p] = Taken(stock[p], snap[r], n)] /\ UNCHANGED opening
    BY <1>1 DEF RegisterCommit
  <2>7. \A x \in Products : stock'[x].avail + UnitsSold(x)' >= opening[x]
    <3> TAKE x \in Products
    <3>1. CASE x # p
      BY <3>1, <1>0, <2>3, <2>6 DEF SalesInv, NoUnitVanishes, TypeOK, StoresTypeOK
    <3>2. CASE x = p /\ ~Live(stock[p])
      <4>1. stock'[p] = stock[p]
        BY <3>2, <2>6 DEF Taken, TypeOK, StoresTypeOK
      <4> QED BY <3>2, <4>1, <1>0, <2>3 DEF SalesInv, NoUnitVanishes
    <3>3. CASE x = p /\ Live(stock[p])
      <4>1. stock'[p].avail = snap[r].avail - n
        BY <3>3, <2>6 DEF Taken, TypeOK, StoresTypeOK, StockRow
      <4> QED BY <3>3, <4>1, <1>0, <2>1, <2>2, <2>5 DEF Carried
    <3> QED BY <3>1, <3>2, <3>3
  <2>8. \A q \in Requests : SaleCovered(q)'
    <3> SUFFICES ASSUME NEW q \in Requests, Holding(q)'
                 PROVE  (snap[q].avail + UnitsSold(Item(q)) >= opening[Item(q)])'
      BY DEF SaleCovered
    <3>1. Holding(q) /\ Item(q)' = Item(q) /\ snap' = snap
      BY <1>1 DEF RegisterCommit, Finish, Holding, Item, TypeOK
    <3>2. snap[q].avail + UnitsSold(Item(q)) >= opening[Item(q)]
      BY <3>1 DEF SalesInv, SaleCovered
    <3> QED BY <1>0, <2>3, <2>6, <3>1, <3>2
  <2> QED BY <2>1, <2>6, <2>7, <2>8 DEF SalesInv, Countable, NoUnitVanishes
<1>2. CASE \A r \in Requests : ~RegisterCommit(r)
  <2>1. /\ UNCHANGED <<stock, want, registered, opening>>
        /\ \A q \in Requests : Holding(q)' =>
              \/ Holding(q) /\ UNCHANGED snap[q]
              \/ snap'[q] = stock[Item(q)] /\ Live(stock[Item(q)])
    BY <1>2, OnlyRegistrationSells
  <2>2. \A x \in Products : UnitsSold(x)' = UnitsSold(x) /\ SoldUnits(x)' = SoldUnits(x)
    BY <2>1, SameSales
  <2>3. Countable' /\ NoUnitVanishes'
    BY <2>1, <2>2 DEF SalesInv, Countable, NoUnitVanishes
  <2>4. \A q \in Requests : Item(q)' = Item(q)
    BY <2>1 DEF Item
  <2>5. \A q \in Requests : SaleCovered(q)'
    BY <1>0, <2>1, <2>2, <2>4 DEF SalesInv, SaleCovered, NoUnitVanishes
  <2> QED BY <2>3, <2>5 DEF SalesInv
<1> QED BY <1>1, <1>2

LEMMA SalesCorrect == Spec => []SalesInv
BY TypeCorrect, ProtocolCorrect, SalesInit, SalesStep, PTL DEF Spec

\* A race of stale writes may forget a sale but never a unit: stock and units sold
\* cover the opening stock (NoUnitVanishes), for any number of requests and products
\* and for quantities int32 cuts short or makes negative.
THEOREM NoUnitEverVanishes == Spec => []NoUnitVanishes
BY SalesCorrect, PTL DEF SalesInv

----------------------------------------------------------------------------
(***************************************************************************)
(* When the books balance                                                  *)
(*                                                                         *)
(* While a caller waits it holds the lock of checkout.db, so no other one  *)
(* waits: whoever else commits to the stock is an orphan by then, and      *)
(* upsets its product for good.                                            *)
(***************************************************************************)

\* A handler whose caller still waits has read the stock as it is, or an orphan has
\* sold of the same product.
Fresh(r) ==
  Holding(r) =>
    /\ Live(stock[Item(r)])
    /\ stage[r] = "registering" =>
         Upset(Item(r)) \/ snap[r].avail = stock[Item(r)].avail

BalanceInv == StockBalances /\ \A r \in Requests : Fresh(r)

LEMMA BalanceInit == Init => BalanceInv
<1> SUFFICES ASSUME Init PROVE BalanceInv
  OBVIOUS
<1>1. \A p \in Products : UnitsSold(p) = 0
  BY SalesInit
<1>2. StockBalances
  <2> SUFFICES ASSUME NEW p \in Products
               PROVE  stock[p].avail + UnitsSold(p) = opening[p]
    BY DEF StockBalances
  <2>1. stock[p].avail \in Int /\ opening[p] = stock[p].avail
    BY TypeInit DEF Init, TypeOK, StoresTypeOK, StockRow
  <2>2. UnitsSold(p) = 0
    BY <1>1
  <2> QED BY <2>1, <2>2
<1>3. \A r \in Requests : Fresh(r)
  BY DEF Init, Fresh, Holding
<1> QED BY <1>2, <1>3 DEF BalanceInv

\* An orphan stays one: its order is never placed, and its request has ended.
LEMMA UpsetForGood ==
  ASSUME TypeOK, ProtocolInv, [Next]_vars
  PROVE  \A p : Upset(p) => Upset(p)'
<1> USE DEF TypeOK, vars, storeVars, httpVars, rpcVars
<1>1. registered \subseteq registered' /\ UNCHANGED want
  BY DEF Next, RequestStep, Locate, Decline, Reserve, NotAvailable, ReserveFails,
     Insert, InsertFails, Commit, CommitFails, Refused, GiveUp, Publish, Respond,
     HandlerStep, InjectedFault, CheckStock, RefuseOrder, TakeStock, RegisterCommit,
     RegisterFails, CheckoutCrash, InventoryCrash
<1>2. \A q \in Requests :
        stage[q] \in {"done", "lost"} =>
          stage'[q] = stage[q] /\ (q \in placed' => q \in placed)
  <2>1. ASSUME NEW r \in Requests, RequestStep(r)
        PROVE  /\ stage[r] \notin {"done", "lost"}
               /\ \E s \in Stages : Goto(r, s)
               /\ placed' \subseteq placed \cup {r}
    <3>1. stage[r] \notin {"done", "lost"}
      BY <2>1 DEF RequestStep, Locate, Decline, Reserve, NotAvailable, ReserveFails,
         Insert, InsertFails, Commit, CommitFails, Refused, GiveUp, Publish, Respond
    <3>2. \E s \in Stages : Goto(r, s)
      BY <2>1 DEF RequestStep, Locate, Decline, Reserve, NotAvailable, ReserveFails,
         Insert, InsertFails, Commit, CommitFails, Refused, GiveUp, Publish, Respond,
         Fail, Stages
    <3>3. placed' \subseteq placed \cup {r}
      BY <2>1 DEF RequestStep, Locate, Decline, Reserve, NotAvailable, ReserveFails,
         Insert, InsertFails, Commit, CommitFails, Refused, GiveUp, Publish, Respond,
         Fail
    <3> QED BY <3>1, <3>2, <3>3
  <2>2. CASE \E r \in Requests : RequestStep(r)
    BY <2>1, <2>2 DEF Goto
  <2>3. CASE \E r \in Requests : HandlerStep(r)
    BY <2>3 DEF HandlerStep, InjectedFault, CheckStock, RefuseOrder, TakeStock,
       RegisterCommit, RegisterFails
  <2>4. CASE CheckoutCrash
    BY <2>4 DEF CheckoutCrash, RequestsLost, Running
  <2>5. CASE InventoryCrash \/ UNCHANGED vars
    BY <2>5 DEF InventoryCrash
  <2> QED BY <2>2, <2>3, <2>4, <2>5 DEF Next
<1>3. \A q \in Requests : Orphan(q) => Orphan(q)'
  BY <1>1, <1>2 DEF Orphan
<1>4. \A q : Item(q)' = Item(q) /\ Units(q)' = Units(q)
  BY <1>1 DEF Item, Units
<1> QED BY <1>1, <1>3, <1>4 DEF Upset

LEMMA BalanceStep ==
  TypeOK /\ ProtocolInv /\ SalesInv /\ BalanceInv /\ [Next]_vars => BalanceInv'
<1> SUFFICES ASSUME TypeOK, ProtocolInv, SalesInv, BalanceInv, [Next]_vars
             PROVE  BalanceInv'
  OBVIOUS
<1>0. /\ \A p \in Products : /\ stock[p].avail \in Int /\ opening[p] \in Int
                             /\ UnitsSold(p) \in Nat
      /\ \A q \in Requests : snap[q].avail \in Int /\ Item(q) \in Products
  BY RequestType, FS_CardinalityType
     DEF TypeOK, StoresTypeOK, StockRow, SalesInv, Countable, UnitsSold
<1>u. \A p : Upset(p) => Upset(p)'
  BY UpsetForGood
<1>1. ASSUME NEW r \in Requests, RegisterCommit(r) PROVE BalanceInv'
  <2> DEFINE n == Units(r)
             p == Item(r)
  <2>1. /\ Holding(r) /\ Live(stock[p]) /\ n \in Int
        /\ stage[r] = "registering" => Upset(p) \/ snap[r].avail = stock[p].avail
    BY <1>1, RequestType DEF RegisterCommit, Holding, BalanceInv, Fresh
  <2>2. /\ UNCHANGED <<want, snap, stage, placed, opening>>
        /\ registered' = registered \cup {r}
        /\ call' = [call EXCEPT ![r] = "replied"]
        /\ stock' = [stock EXCEPT ![p] = Taken(stock[p], snap[r], n)]
    BY <1>1 DEF RegisterCommit, Finish, httpVars
  <2>3. \A q : Item(q)' = Item(q) /\ Units(q)' = Units(q)
    BY <2>2 DEF Item, Units
  <2>4. stage[r] # "registering" => Orphan(r)'
    <3>1. OrderInv(r) /\ reply[r] = "none" /\ call[r] # "none"
      BY <1>1 DEF ProtocolInv, OrderInv, ReplyTells, RegisterCommit
    <3>2. r \notin placed
      BY <3>1 DEF OrderInv, ReplyTells, PlacedLate
    <3>3. stage[r] \in {"registering", "done", "lost"}
      BY <3>1, <3>2 DEF OrderInv, NotYetCalled, PlacedLate, TypeOK, Stages
    <3> QED BY <2>2, <3>2, <3>3 DEF Orphan
  <2>5. \A x : x = p /\ (stage[r] # "registering" \/ n < 0) => Upset(x)'
    BY <2>2, <2>3, <2>4 DEF Upset
  <2>6. /\ \A x \in Products : x # p => stock'[x] = stock[x]
        /\ Live(stock'[p])
        /\ stock'[p].avail = snap[r].avail - n
    BY <1>0, <2>1, <2>2 DEF Taken, Live, TypeOK, StoresTypeOK, StockRow
  <2>7. \A x \in Products : UnitsSold(x)' = UnitsSold(x) + Carried(r, x)
    BY <1>1, SaleIsAdded DEF SalesInv
  <2>8. \A x \in Products : Upset(x)' \/ stock'[x].avail + UnitsSold(x)' = opening[x]
    <3> SUFFICES ASSUME NEW x \in Products, ~Upset(x)'
                 PROVE  stock'[x].avail + UnitsSold(x)' = opening[x]
      OBVIOUS
    <3>1. stock[x].avail + UnitsSold(x) = opening[x]
      BY <1>u DEF BalanceInv, StockBalances
    <3>2. CASE x # p
      BY <1>0, <2>6, <2>7, <3>1, <3>2 DEF Carried
    <3>3. CASE x = p
      <4>1. n >= 0 /\ snap[r].avail = stock[p].avail
        BY <1>u, <2>1, <2>5, <3>3
      <4>2. UnitsSold(x)' = UnitsSold(x) + n
        BY <1>0, <2>1, <2>7, <3>3, <4>1 DEF Carried
      <4> QED BY <1>0, <2>1, <2>6, <3>1, <3>3, <4>1, <4>2
    <3> QED BY <3>2, <3>3
  <2>9. \A q \in Requests : Fresh(q)'
    <3> SUFFICES ASSUME NEW q \in Requests, Holding(q)' PROVE Fresh(q)'
      BY DEF Fresh
    <3>1. q # r /\ Holding(q)
      BY <2>2 DEF Holding, TypeOK
    <3>2. /\ Live(stock[Item(q)])
          /\ stage[q] = "registering" =>
               Upset(Item(q)) \/ snap[q].avail = stock[Item(q)].avail
      BY <3>1 DEF BalanceInv, Fresh
    <3>3. CASE Item(q) # p
      BY <1>0, <1>u, <2>2, <2>3, <2>6, <3>2, <3>3 DEF Fresh
    <3>4. CASE Item(q) = p
      <4>1. stage[q] = "registering" => stage[r] # "registering"
        BY <3>1 DEF ProtocolInv, OrderInv, Locked
      <4> QED BY <2>2, <2>3, <2>5, <2>6, <3>4, <4>1 DEF Fresh
    <3> QED BY <3>3, <3>4
  <2> QED BY <2>2, <2>8, <2>9 DEF BalanceInv, StockBalances
<1>2. CASE \A r \in Requests : ~RegisterCommit(r)
  <2>1. /\ UNCHANGED <<stock, want, registered, opening>>
        /\ \A q \in Requests : Holding(q)' =>
              \/ Holding(q) /\ UNCHANGED snap[q]
              \/ snap'[q] = stock[Item(q)] /\ Live(stock[Item(q)])
        /\ \A q \in Requests : Holding(q)' /\ stage'[q] = "registering" =>
              stage[q] = "registering"
    BY <1>2, OnlyRegistrationSells
  <2>2. \A x \in Products : UnitsSold(x)' = UnitsSold(x)
    BY <2>1, SameSales
  <2>3. StockBalances'
    BY <1>u, <2>1, <2>2 DEF BalanceInv, StockBalances
  <2>4. \A q : Item(q)' = Item(q)
    BY <2>1 DEF Item
  <2>5. \A q \in Requests : Fresh(q)'
    BY <1>u, <2>1, <2>4 DEF BalanceInv, Fresh
  <2> QED BY <2>3, <2>5 DEF BalanceInv
<1> QED BY <1>1, <1>2

LEMMA BalanceCorrect == Spec => [](SalesInv /\ BalanceInv)
BY TypeCorrect, ProtocolCorrect, SalesCorrect, BalanceInit, BalanceStep, PTL DEF Spec

\* Stock and units sold add up to the opening stock of every product that no orphan
\* and no quantity beyond int32 has upset (StockBalances): the orders of one product
\* are serialised by the transaction of checkout-service.
THEOREM StockAlwaysBalances == Spec => []StockBalances
BY BalanceCorrect, PTL DEF BalanceInv

\* A product is sold twice only with the help of an orphan or of a quantity beyond
\* int32: otherwise the units registered orders carry away were there.
THEOREM SoldTwiceOnlyByOrphans ==
  Spec => [](\A p \in Products : Upset(p) \/ UnitsSold(p) <= opening[p])
<1>1. TypeOK /\ SalesInv /\ BalanceInv /\ NoNegativeStock =>
        \A p \in Products : Upset(p) \/ UnitsSold(p) <= opening[p]
  <2> SUFFICES ASSUME TypeOK, SalesInv, BalanceInv, NoNegativeStock,
                      NEW p \in Products, ~Upset(p)
               PROVE  UnitsSold(p) <= opening[p]
    OBVIOUS
  <2>1. stock[p].avail + UnitsSold(p) = opening[p] /\ stock[p].avail >= 0
    BY DEF BalanceInv, StockBalances, NoNegativeStock
  <2>2. stock[p].avail \in Int /\ opening[p] \in Int /\ UnitsSold(p) \in Nat
    BY FS_CardinalityType
       DEF TypeOK, StoresTypeOK, StockRow, SalesInv, Countable, UnitsSold
  <2> QED BY <2>1, <2>2
<1> QED BY <1>1, TypeCorrect, BalanceCorrect, StockNeverNegative, PTL

\* A quantity that fits an int32 is sent as it is.
LEMMA UnitsAreQuantity ==
  ASSUME TypeOK, NEW r \in Requests, \A q \in Quantities : q <= Int32Max
  PROVE  Units(r) = want[r].quantity /\ Units(r) > 0
<1> DEFINE n == want[r].quantity
<1>1. n \in Nat /\ n > 0 /\ n <= Int32Max
  <2>1. want[r] \in [product : Products, quantity : Quantities]
    BY DEF TypeOK
  <2>2. n \in Quantities
    BY <2>1
  <2>3. n \in Nat /\ n # 0
    BY <2>2, QuantitiesAssumption
  <2>4. n <= Int32Max
    BY <2>2
  <2> QED BY <2>3, <2>4
<1>2. \A a, b \in Nat : a < b => a % b = a
  OBVIOUS
<1>3. /\ n + Int32Max + 1 \in Nat /\ 2 * Int32Max + 2 \in Nat
      /\ n + Int32Max + 1 < 2 * Int32Max + 2
  BY <1>1, Int32Assumption
<1>4. (n + Int32Max + 1) % (2 * Int32Max + 2) = n + Int32Max + 1
  BY <1>2, <1>3
<1> QED BY <1>1, <1>4, Int32Assumption DEF Units, ToInt32

\* If quantities fit an int32, the two findings are one: as long as every registered
\* order whose request has ended exists in the checkout (BooksAgree), no product has
\* been sold beyond its stock (SoldWithinStock).
THEOREM OversoldMeansOrphaned ==
  ASSUME \A q \in Quantities : q <= Int32Max
  PROVE  Spec => [](BooksAgree => SoldWithinStock)
<1>1. TypeOK /\ (\A p \in Products : Upset(p) \/ UnitsSold(p) <= opening[p]) =>
        (BooksAgree => SoldWithinStock)
  <2> SUFFICES ASSUME TypeOK, BooksAgree, NEW p \in Products, Upset(p) PROVE FALSE
    BY DEF SoldWithinStock
  <2>1. PICK r \in registered : Orphan(r) \/ Units(r) < 0
    BY DEF Upset
  <2>2. r \in Requests /\ Units(r) \in Int
    BY <2>1, RequestType DEF TypeOK
  <2>3. ~Orphan(r)
    BY <2>1 DEF BooksAgree, Orphan
  <2> QED BY <2>1, <2>2, <2>3, UnitsAreQuantity
<1> QED BY <1>1, TypeCorrect, SoldTwiceOnlyByOrphans, PTL

----------------------------------------------------------------------------
(***************************************************************************)
(* Orders implements OrderLedger                                           *)
(***************************************************************************)
LEMMA LedgerInit == Init => Ledger!Init
BY DEF Init, Ledger!Init

LEMMA LedgerStep ==
  TypeOK /\ ProtocolInv /\ [Next]_vars => [Ledger!Next]_Ledger!ledgerVars
<1> SUFFICES ASSUME TypeOK, ProtocolInv, [Next]_vars
             PROVE  [Ledger!Next]_Ledger!ledgerVars
  OBVIOUS
<1> USE DEF vars, storeVars, httpVars, rpcVars, Ledger!ledgerVars
<1>1. ASSUME NEW r \in Requests, RequestStep(r)
      PROVE  [Ledger!Next]_Ledger!ledgerVars
  <2>0. OrderInv(r)
    BY DEF ProtocolInv
  <2> USE DEF OrderInv, NotYetCalled, ReplyTells, PlacedLate, Told
  <2>a. ASSUME NEW a \in Failures, Fail(r, a), UNCHANGED registered,
               r \notin placed, answer[r] = "none",
               a = "client_error" => r \notin registered
        PROVE  Ledger!Next
    BY <2>a DEF Fail, Ledger!Next, Ledger!Refuse, Failures, Ledger!Failures
  <2>1. CASE Locate(r)
    BY <2>1 DEF Locate
  <2>2. CASE Decline(r)
    <3>1. PICK a \in Failures : Fail(r, a)
      BY <2>2, AnswerType DEF Decline, InjectedHttp
    <3> QED BY <2>0, <2>a, <2>2, <3>1 DEF Decline, TypeOK, Failures, Codes
  <2>3. CASE Reserve(r)
    BY <2>3 DEF Reserve
  <2>4. CASE NotAvailable(r)
    <3>1. PICK a \in Failures : Fail(r, a)
      BY <2>4, AnswerType DEF NotAvailable
    <3> QED BY <2>0, <2>a, <2>4, <3>1 DEF NotAvailable, TypeOK, Failures, Codes
  <2>5. CASE ReserveFails(r)
    <3>1. PICK a \in Failures : Fail(r, a)
      BY <2>5, AnswerType DEF ReserveFails
    <3> QED BY <2>0, <2>a, <2>5, <3>1 DEF ReserveFails, TypeOK, Failures, Codes
  <2>6. CASE Insert(r)
    BY <2>6 DEF Insert
  <2>7. CASE InsertFails(r)
    <3>1. PICK a \in Failures : Fail(r, a)
      BY <2>7, AnswerType DEF InsertFails
    <3> QED BY <2>0, <2>a, <2>7, <3>1 DEF InsertFails, TypeOK, Failures, Codes
  <2>8. CASE Commit(r)
    BY <2>0, <2>8 DEF Commit, Ledger!Next, Ledger!Place, TypeOK, Failures
  <2>9. CASE CommitFails(r)
    BY <2>0, <2>a, <2>9, AnswerType DEF CommitFails, TypeOK, Failures
  <2>10. CASE Refused(r)
    BY <2>0, <2>a, <2>10, AnswerType DEF Refused, TypeOK, Failures, Codes
  <2>11. CASE GiveUp(r)
    <3>1. PICK a \in {"unavailable", "server_error"} : Fail(r, a)
      BY <2>11, AnswerType DEF GiveUp
    <3> QED BY <2>0, <2>a, <2>11, <3>1 DEF GiveUp, TypeOK, Failures
  <2>12. CASE Publish(r)
    BY <2>0, <2>12 DEF Publish, Ledger!Next, Ledger!Announce, TypeOK, Failures
  <2>13. CASE Respond(r)
    BY <2>0, <2>13 DEF Respond, Ledger!Next, Ledger!Confirm, TypeOK, Failures
  <2> QED
    BY <1>1, <2>1, <2>2, <2>3, <2>4, <2>5, <2>6, <2>7, <2>8, <2>9, <2>10,
       <2>11, <2>12, <2>13 DEF RequestStep
<1>2. ASSUME NEW r \in Requests, HandlerStep(r)
      PROVE  [Ledger!Next]_Ledger!ledgerVars
  <2>1. CASE RegisterCommit(r)
    <3>1. OrderInv(r)
      BY DEF ProtocolInv
    <3>2. r \notin registered /\ answer[r] # "client_error"
      BY <2>1, <3>1
         DEF RegisterCommit, OrderInv, ReplyTells, Told, Serving
    <3>3. Ledger!Register(r)
      BY <2>1, <3>2 DEF RegisterCommit, Ledger!Register
    <3> QED BY <3>3 DEF Ledger!Next
  <2>2. CASE ~RegisterCommit(r)
    BY <1>2, <2>2
       DEF HandlerStep, InjectedFault, CheckStock, RefuseOrder, TakeStock,
           RegisterFails
  <2> QED BY <2>1, <2>2
<1>3. CASE CheckoutCrash
  BY <1>3 DEF CheckoutCrash, RequestsLost
<1>4. CASE InventoryCrash
  BY <1>4 DEF InventoryCrash, CallsLost
<1>5. CASE UNCHANGED vars
  BY <1>5
<1> QED BY <1>1, <1>2, <1>3, <1>4, <1>5 DEF Next

\* The two handlers together implement the ledger of OrderLedger.tla
\* (ImplementsLedger): for any number of requests, whatever is lost or crashes.
THEOREM Implementation == Spec => ImplementsLedger
<1>1. Init => Ledger!Init
  BY LedgerInit
<1>2. TypeOK /\ ProtocolInv /\ [Next]_vars => [Ledger!Next]_Ledger!ledgerVars
  BY LedgerStep
<1> QED
  BY <1>1, <1>2, TypeCorrect, ProtocolCorrect, PTL
     DEF Spec, ImplementsLedger, Ledger!Spec
=============================================================================
