---------------------------- MODULE MarketProofs ----------------------------
(***************************************************************************)
(* Proofs about Market, for any number of orders, changes and products.    *)
(*                                                                         *)
(* What OrdersProofs and CatalogProofs show of a step of their component   *)
(* holds of the same step in Market, so each part brings its invariant     *)
(* with it.  What is left is that a step of the one keeps the invariant of *)
(* the other, and the rows that both of them write.                        *)
(***************************************************************************)
EXTENDS Market, TLAPS

OP == INSTANCE OrdersProofs
CP == INSTANCE CatalogProofs WITH reply <- opReply, answer <- opAnswer

----------------------------------------------------------------------------
(***************************************************************************)
(* Steps                                                                   *)
(***************************************************************************)

\* Market and OrdersProofs each take an instance of Orders: a step of the one is a
\* step of the other.
LEMMA OrderSteps ==
  ASSUME NEW r \in Requests
  PROVE  /\ Orders!RequestStep(r) => OP!RequestStep(r)
         /\ Orders!HandlerStep(r) => OP!HandlerStep(r)
BY DEF Orders!RequestStep, OP!RequestStep, Orders!HandlerStep,
       OP!HandlerStep, Orders!Locate, OP!Locate, Orders!Decline, OP!Decline,
       Orders!Reserve, OP!Reserve, Orders!NotAvailable, OP!NotAvailable,
       Orders!ReserveFails, OP!ReserveFails, Orders!Insert, OP!Insert,
       Orders!InsertFails, OP!InsertFails, Orders!Commit, OP!Commit,
       Orders!CommitFails, OP!CommitFails, Orders!Refused, OP!Refused,
       Orders!GiveUp, OP!GiveUp, Orders!Publish, OP!Publish, Orders!Respond,
       OP!Respond, Orders!InjectedFault, OP!InjectedFault,
       Orders!CheckStock, OP!CheckStock, Orders!RefuseOrder, OP!RefuseOrder,
       Orders!TakeStock, OP!TakeStock, Orders!RegisterCommit,
       OP!RegisterCommit, Orders!RegisterFails, OP!RegisterFails,
       Orders!Goto, OP!Goto, Orders!Fail, OP!Fail, Orders!HasStock,
       OP!HasStock, Orders!Unlock, OP!Unlock, Orders!Finish, OP!Finish,
       Orders!Taken, OP!Taken, Orders!Units, OP!Units, Orders!Item, OP!Item,
       Orders!Live, OP!Live, Orders!ToInt32, OP!ToInt32, Orders!storeVars,
       OP!storeVars, Orders!rpcVars, OP!rpcVars, Orders!httpVars,
       OP!httpVars, Orders!Serving, OP!Serving, Orders!Codes, OP!Codes,
       Orders!InjectedHttp, OP!InjectedHttp, Orders!AnswerTo, OP!AnswerTo,
       Orders!AnswerToCode, OP!AnswerToCode, Orders!CallerCodes,
       OP!CallerCodes, Orders!GrpcCode, OP!GrpcCode

\* The same for Catalog.
LEMMA ChangeSteps ==
  ASSUME NEW o \in Ops
  PROVE  /\ Changes!OpStep(o) => CP!OpStep(o)
         /\ Changes!HandlerStep(o) => CP!HandlerStep(o)
BY DEF Changes!OpStep, CP!OpStep, Changes!HandlerStep, CP!HandlerStep,
       Changes!Find, CP!Find, Changes!Reject, CP!Reject, Changes!Write,
       CP!Write, Changes!WriteFails, CP!WriteFails, Changes!Commit,
       CP!Commit, Changes!Abort, CP!Abort, Changes!Respond, CP!Respond,
       Changes!LookUp, CP!LookUp, Changes!Apply, CP!Apply,
       Changes!HandlerFails, CP!HandlerFails, Changes!Goto, CP!Goto,
       Changes!Fail, CP!Fail, Changes!Unlock, CP!Unlock, Changes!Finish,
       CP!Finish, Changes!Item, CP!Item, Changes!Kind, CP!Kind,
       Changes!StockAfter, CP!StockAfter, Changes!CatalogAfter,
       CP!CatalogAfter, Changes!Live, CP!Live, Changes!ToInt32, CP!ToInt32,
       Changes!storeVars, CP!storeVars, Changes!rpcVars, CP!rpcVars,
       Changes!admVars, CP!admVars, Changes!Serving, CP!Serving,
       Changes!InjectedHttp, CP!InjectedHttp, Changes!AnswerTo, CP!AnswerTo

OrderStep == \E r \in Requests : OP!RequestStep(r) \/ OP!HandlerStep(r)
ChangeStep == \E o \in Ops : CP!OpStep(o) \/ CP!HandlerStep(o)

LEMMA Steps ==
  [Next]_vars =>
    \/ OrderStep /\ UNCHANGED opVars
    \/ ChangeStep /\ UNCHANGED orderVars
    \/ CheckoutCrash
    \/ InventoryCrash
    \/ UNCHANGED vars
BY OrderSteps, ChangeSteps
   DEF Next, RequestStep, RegisterStep, OpStep, ApplyStep, OrderStep, ChangeStep

\* The assumptions under which the parts were proved correct.
LEMMA PartsAssumptions ==
  /\ NoOne \notin Clients /\ Requests \subseteq Clients /\ Ops \subseteq Clients
  /\ Int32Max \in Nat /\ MaxStock \in Nat /\ Quantities \subseteq Nat \ {0}
  /\ Prices \subseteq Int /\ Prices # {}
  /\ \A x \in Prices : OP!ToInt32(x) \in Prices
  /\ \A x \in Prices : CP!ToInt32(x) \in Prices
  /\ Stocks \subseteq Int /\ Stocks # {}
BY NoOneAssumption, RequestsAssumption, OpsAssumption, Int32Assumption,
   MaxStockAssumption, QuantitiesAssumption, PricesAssumption, StocksAssumption
   DEF ToInt32, OP!ToInt32, CP!ToInt32

LEMMA OrderStepIsNext == OrderStep => OP!Next
BY DEF OrderStep, OP!Next

LEMMA ChangeStepIsNext == ChangeStep => CP!Next
BY DEF ChangeStep, CP!Next

----------------------------------------------------------------------------
(***************************************************************************)
(* What the parts do to each other                                         *)
(***************************************************************************)
TypeOK == OP!TypeOK /\ CP!TypeOK
ProtocolInv == OP!ProtocolInv /\ CP!ProtocolInv

\* An order leaves the rows of the checkout alone, and in the inventory a row stays
\* what it is, live, deleted or absent.  It takes and frees the locks for itself only.
LEMMA OrderEffects ==
  ASSUME TypeOK, ProtocolInv, OrderStep
  PROVE  /\ UNCHANGED <<catalog, want, opening>>
         /\ \A o \in Ops : invWriter' = o <=> invWriter = o
<1> SUFFICES ASSUME NEW r \in Requests, OP!RequestStep(r) \/ OP!HandlerStep(r)
             PROVE  /\ UNCHANGED <<catalog, want, opening>>
                    /\ \A o \in Ops : invWriter' = o <=> invWriter = o
  BY DEF OrderStep
<1>0. r \notin Ops /\ NoOne \notin Ops
  BY ActorsAssumption, OpsAssumption, NoOneAssumption
<1>1. UNCHANGED <<catalog, want, opening>>
  BY DEF OP!RequestStep, OP!HandlerStep, OP!Locate, OP!Decline, OP!Reserve,
     OP!NotAvailable, OP!ReserveFails, OP!Insert, OP!InsertFails, OP!Commit,
     OP!CommitFails, OP!Refused, OP!GiveUp, OP!Publish, OP!Respond, OP!Unlock,
     OP!InjectedFault, OP!CheckStock, OP!RefuseOrder, OP!TakeStock,
     OP!RegisterCommit, OP!RegisterFails, OP!storeVars
<1>2. \/ UNCHANGED invWriter
      \/ invWriter = NoOne /\ invWriter' = r
      \/ invWriter = r /\ invWriter' = NoOne
  BY DEF OP!RequestStep, OP!HandlerStep, OP!Locate, OP!Decline, OP!Reserve,
     OP!NotAvailable, OP!ReserveFails, OP!Insert, OP!InsertFails, OP!Commit,
     OP!CommitFails, OP!Refused, OP!GiveUp, OP!Publish, OP!Respond, OP!Unlock,
     OP!InjectedFault, OP!CheckStock, OP!RefuseOrder, OP!TakeStock,
     OP!RegisterCommit, OP!RegisterFails, OP!storeVars
<1> QED BY <1>0, <1>1, <1>2

\* A change never touches the lock of checkout.db, which its statement there only
\* waits for, and takes and frees that of inventory.db for itself only.
LEMMA ChangeEffects ==
  ASSUME ChangeStep
  PROVE  /\ UNCHANGED <<coWriter, body>>
         /\ \A r \in Requests : invWriter' = r <=> invWriter = r
<1> SUFFICES ASSUME NEW o \in Ops, CP!OpStep(o) \/ CP!HandlerStep(o)
             PROVE  /\ UNCHANGED <<coWriter, body>>
                    /\ \A r \in Requests : invWriter' = r <=> invWriter = r
  BY DEF ChangeStep
<1>0. o \notin Requests /\ NoOne \notin Requests
  BY ActorsAssumption, RequestsAssumption, NoOneAssumption
<1>1. UNCHANGED <<coWriter, body>>
  BY DEF CP!OpStep, CP!HandlerStep, CP!Find, CP!Reject, CP!Write, CP!WriteFails,
     CP!Commit, CP!Abort, CP!Respond, CP!LookUp, CP!Apply, CP!HandlerFails,
     CP!Unlock, CP!storeVars
<1>2. \/ UNCHANGED invWriter
      \/ invWriter = NoOne /\ invWriter' = o
      \/ invWriter = o /\ invWriter' = NoOne
  BY DEF CP!OpStep, CP!HandlerStep, CP!Find, CP!Reject, CP!Write, CP!WriteFails,
     CP!Commit, CP!Abort, CP!Respond, CP!LookUp, CP!Apply, CP!HandlerFails,
     CP!Unlock, CP!storeVars
<1> QED BY <1>0, <1>1, <1>2

\* The invariants of an order survive a step that leaves its variables alone and
\* keeps the stores well typed and its locks in place.
LEMMA OrdersUntouched ==
  ASSUME OP!TypeOK, OP!ProtocolInv, UNCHANGED orderVars, OP!StoresTypeOK',
         \A r \in Requests : /\ coWriter' = r <=> coWriter = r
                             /\ invWriter' = r <=> invWriter = r
  PROVE  OP!TypeOK' /\ OP!ProtocolInv'
<1>1. OP!TypeOK'
  BY DEF OP!TypeOK, orderVars
<1>2. OP!ProtocolInv'
  BY DEF OP!ProtocolInv, OP!OrderInv, OP!NotYetCalled, OP!ReplyTells, OP!PlacedLate,
     OP!Told, OP!Locked, orderVars
<1> QED BY <1>1, <1>2

LEMMA ChangesUntouched ==
  ASSUME CP!TypeOK, CP!ProtocolInv, UNCHANGED opVars, CP!StoresTypeOK',
         \A o \in Ops : invWriter' = o <=> invWriter = o
  PROVE  CP!TypeOK' /\ CP!ProtocolInv'
<1>1. CP!TypeOK'
  BY DEF CP!TypeOK, opVars
<1>2. CP!ProtocolInv'
  BY DEF CP!ProtocolInv, CP!OpInv, CP!NotYetCalled, CP!ReplyTells, CP!CommittedLate,
     CP!Told, CP!Locked, opVars
<1> QED BY <1>1, <1>2

\* Both instances mean the same stores.
LEMMA SameStores ==
  /\ OP!StoresTypeOK <=> CP!StoresTypeOK
  /\ OP!StoresTypeOK' <=> CP!StoresTypeOK'
BY DEF OP!StoresTypeOK, CP!StoresTypeOK, OP!CatalogRow, CP!CatalogRow,
   OP!StockRow, CP!StockRow, OP!RowStatus, CP!RowStatus

\* The checkout takes the requests it serves with it, and with them its lock.
LEMMA CheckoutCrashKeeps ==
  ASSUME TypeOK, ProtocolInv, CheckoutCrash
  PROVE  TypeOK' /\ ProtocolInv'
<1> USE DEF TypeOK, ProtocolInv, CheckoutCrash, Orders!RequestsLost, Changes!CallsLost,
        Orders!Running, Changes!Serving
<1>1. OP!TypeOK'
  BY DEF OP!TypeOK, OP!StoresTypeOK, OP!Stages
<1>2. CP!TypeOK'
  BY DEF CP!TypeOK, CP!StoresTypeOK, CP!Serving
<1>3. OP!ProtocolInv'
  <2> SUFFICES ASSUME NEW r \in Requests PROVE OP!OrderInv(r)'
    BY DEF OP!ProtocolInv
  <2>1. OP!OrderInv(r) /\ coWriter' # r
    BY RequestsAssumption, NoOneAssumption DEF OP!ProtocolInv
  <2>2. stage'[r] = IF stage[r] \in Orders!Running THEN "lost" ELSE stage[r]
    OBVIOUS
  <2> QED
    BY <2>1, <2>2
       DEF OP!OrderInv, OP!NotYetCalled, OP!ReplyTells, OP!PlacedLate, OP!Told,
           OP!Locked, OP!Failures
<1>4. CP!ProtocolInv'
  <2> SUFFICES ASSUME NEW o \in Ops PROVE CP!OpInv(o)'
    BY DEF CP!ProtocolInv
  <2>1. CP!OpInv(o)
    BY DEF CP!ProtocolInv
  <2>2. rpc'[o] = IF rpc[o] \in Changes!Serving THEN "dead" ELSE rpc[o]
    OBVIOUS
  <2> QED
    BY <2>1, <2>2
       DEF CP!OpInv, CP!NotYetCalled, CP!ReplyTells, CP!CommittedLate, CP!Told,
           CP!Locked
<1> QED BY <1>1, <1>2, <1>3, <1>4

\* The inventory takes the changes it serves with it and the orders it registers,
\* and with whichever had it the lock.
LEMMA InventoryCrashKeeps ==
  ASSUME TypeOK, ProtocolInv, InventoryCrash
  PROVE  TypeOK' /\ ProtocolInv'
<1> USE DEF TypeOK, ProtocolInv, InventoryCrash, Changes!OpsLost, Orders!CallsLost,
        Changes!Running, Orders!Serving
<1>1. OP!TypeOK'
  BY DEF OP!TypeOK, OP!StoresTypeOK, OP!Calls
<1>2. CP!TypeOK'
  BY DEF CP!TypeOK, CP!StoresTypeOK, CP!Running
<1>3. OP!ProtocolInv'
  <2> SUFFICES ASSUME NEW r \in Requests PROVE OP!OrderInv(r)'
    BY DEF OP!ProtocolInv
  <2>1. OP!OrderInv(r) /\ invWriter' # r
    BY RequestsAssumption, NoOneAssumption DEF OP!ProtocolInv
  <2>2. call'[r] = IF call[r] \in Orders!Serving THEN "dead" ELSE call[r]
    OBVIOUS
  <2> QED
    BY <2>1, <2>2
       DEF OP!OrderInv, OP!NotYetCalled, OP!ReplyTells, OP!PlacedLate, OP!Told,
           OP!Locked, OP!Serving
<1>4. CP!ProtocolInv'
  <2> SUFFICES ASSUME NEW o \in Ops PROVE CP!OpInv(o)'
    BY DEF CP!ProtocolInv
  <2>1. CP!OpInv(o) /\ invWriter' # o
    BY OpsAssumption, NoOneAssumption DEF CP!ProtocolInv
  <2>2. adm'[o] = IF adm[o] \in Changes!Running THEN "lost" ELSE adm[o]
    OBVIOUS
  <2> QED
    BY <2>1, <2>2
       DEF CP!OpInv, CP!NotYetCalled, CP!ReplyTells, CP!CommittedLate, CP!Told,
           CP!Locked
<1> QED BY <1>1, <1>2, <1>3, <1>4

----------------------------------------------------------------------------
(***************************************************************************)
(* Types and protocols                                                     *)
(***************************************************************************)
LEMMA ProtocolsStep == TypeOK /\ ProtocolInv /\ [Next]_vars => TypeOK' /\ ProtocolInv'
<1> SUFFICES ASSUME TypeOK, ProtocolInv, [Next]_vars PROVE TypeOK' /\ ProtocolInv'
  OBVIOUS
<1> USE DEF TypeOK, ProtocolInv
<1>1. CASE OrderStep /\ UNCHANGED opVars
  <2>1. OP!TypeOK' /\ OP!ProtocolInv'
    BY <1>1, OrderStepIsNext, PartsAssumptions, OP!TypeStep, OP!ProtocolStep
  <2>2. CP!StoresTypeOK'
    BY <2>1, SameStores DEF OP!TypeOK
  <2> QED BY <1>1, <2>1, <2>2, OrderEffects, ChangesUntouched
<1>2. CASE ChangeStep /\ UNCHANGED orderVars
  <2>1. CP!TypeOK' /\ CP!ProtocolInv'
    BY <1>2, ChangeStepIsNext, PartsAssumptions, CP!TypeStep, CP!ProtocolStep
  <2>2. OP!StoresTypeOK'
    BY <2>1, SameStores DEF CP!TypeOK
  <2> QED BY <1>2, <2>1, <2>2, ChangeEffects, OrdersUntouched
<1>3. CASE CheckoutCrash
  BY <1>3, CheckoutCrashKeeps
<1>4. CASE InventoryCrash
  BY <1>4, InventoryCrashKeeps
<1>5. CASE UNCHANGED vars
  <2>1. OP!StoresTypeOK' /\ CP!StoresTypeOK'
    BY <1>5 DEF vars, storeVars, OP!TypeOK, CP!TypeOK, OP!StoresTypeOK, CP!StoresTypeOK
  <2> QED
    BY <1>5, <2>1, OrdersUntouched, ChangesUntouched DEF vars, storeVars
<1> QED BY <1>1, <1>2, <1>3, <1>4, <1>5, Steps

LEMMA ProtocolsInit == Init => TypeOK /\ ProtocolInv
<1> SUFFICES ASSUME Init PROVE TypeOK /\ ProtocolInv
  OBVIOUS
<1>1. OP!Init /\ CP!Init
  BY DEF Init, Orders!Init, OP!Init, Changes!Init, CP!Init,
     Orders!StartRow, OP!StartRow, Orders!NoRow, OP!NoRow, Orders!Item, OP!Item,
     Changes!Body, CP!Body, Changes!Item, CP!Item, Changes!Kind, CP!Kind,
     Changes!Same, CP!Same, Changes!ToInt32, CP!ToInt32
<1> QED
  BY <1>1, PartsAssumptions, OP!TypeInit, CP!TypeInit, OP!ProtocolInit,
     CP!ProtocolInit DEF TypeOK, ProtocolInv

\* Orders and changes keep their invariants at work over the same stores.
THEOREM ProtocolsCorrect == Spec => [](TypeOK /\ ProtocolInv)
BY ProtocolsInit, ProtocolsStep, PTL DEF Spec

\* Each write lock belongs to the one transaction that is open on its file, an
\* order's or a change's (LocksAreOwned).
THEOREM LocksAreOwnedByAll == Spec => []LocksAreOwned
<1>1. ProtocolInv => LocksAreOwned
  BY DEF ProtocolInv, OP!ProtocolInv, OP!OrderInv, OP!Locked, CP!ProtocolInv,
     CP!OpInv, CP!Locked, LocksAreOwned, Orders!LocksAreOwned, Changes!LockIsOwned
<1> QED BY <1>1, ProtocolsCorrect, PTL

----------------------------------------------------------------------------
(***************************************************************************)
(* Stock                                                                   *)
(*                                                                         *)
(* A change writes its row whatever orders did to it.  That the flag stays *)
(* right rests on what the row has been: a creation, which puts the flag   *)
(* down without looking at the stock, is of a product that nobody has sold.*)
(***************************************************************************)

\* What an order found in the inventory, and what it sold, has a row there.
SoldHasRow == \A r \in Requests :
  r \in registered \/ call[r] \in {"checked", "writing"} =>
    stock[OP!Item(r)].status # "none"

\* Until a creation is committed, the inventory has no row for it.
NotYetCreated == \A o \in Ops :
  CP!Kind(o) = "create" /\ o \notin committed => stock[CP!Item(o)].status = "none"

RowsExist == SoldHasRow /\ NotYetCreated /\ CP!OwnSid /\ CP!FoundHasRow

\* An order writes prices, numbers and flags, but deletes and revives no row.
LEMMA OrderKeepsStatus ==
  ASSUME TypeOK, OrderStep, NEW p \in Products
  PROVE  stock'[p].status = stock[p].status
<1> SUFFICES ASSUME NEW r \in Requests, OP!RequestStep(r) \/ OP!HandlerStep(r)
             PROVE  stock'[p].status = stock[p].status
  BY DEF OrderStep
<1>1. CASE UNCHANGED stock
  BY <1>1
<1>2. CASE OP!RegisterCommit(r)
  <2>1. stock[p] \in OP!StockRow /\ stock \in [Products -> OP!StockRow]
    BY DEF TypeOK, OP!TypeOK, OP!StoresTypeOK
  <2>2. OP!Taken(stock[p], snap[r], OP!Units(r)).status = stock[p].status
    BY <2>1 DEF OP!Taken, OP!StockRow
  <2> QED BY <1>2, <2>1, <2>2 DEF OP!RegisterCommit
<1>3. OP!RegisterCommit(r) \/ UNCHANGED stock
  BY DEF OP!RequestStep, OP!HandlerStep, OP!Locate, OP!Decline, OP!Reserve,
     OP!NotAvailable, OP!ReserveFails, OP!Insert, OP!InsertFails, OP!Commit,
     OP!CommitFails, OP!Refused, OP!GiveUp, OP!Publish, OP!Respond, OP!Unlock,
     OP!InjectedFault, OP!CheckStock, OP!RefuseOrder, OP!TakeStock,
     OP!RegisterFails, OP!storeVars
<1> QED BY <1>1, <1>2, <1>3

\* Of a change, only the commit writes the row of the inventory.
LEMMA ChangeWrites ==
  ASSUME ChangeStep
  PROVE  \/ UNCHANGED <<stock, committed>>
         \/ \E o \in Ops : CP!Commit(o)
BY DEF ChangeStep, CP!OpStep, CP!HandlerStep, CP!Find, CP!Reject, CP!Write,
   CP!WriteFails, CP!Abort, CP!Respond, CP!LookUp, CP!Apply, CP!HandlerFails,
   CP!Fail, CP!storeVars, CP!admVars

\* The commit of a change, which no order is in the way of.
LEMMA CommitWrites ==
  ASSUME TypeOK, ProtocolInv, NEW o \in Ops, CP!Commit(o)
  PROVE  /\ o \in applied /\ o \notin committed /\ committed' = committed \cup {o}
         /\ adm[o] = "calling" /\ adm' = [adm EXCEPT ![o] = "committed"]
         /\ CP!Item(o) \in Products
         /\ stock'[CP!Item(o)] = CP!StockAfter(o, stock[CP!Item(o)])
         /\ stock'[CP!Item(o)].status # "none"
         /\ \A q \in Products : q # CP!Item(o) => stock'[q] = stock[q]
         /\ UNCHANGED <<catalog, body, applied>>
<1>1. CP!OpInv(o) /\ CP!Item(o) \in Products
  BY CP!BodyType, PartsAssumptions DEF TypeOK, ProtocolInv, CP!ProtocolInv
<1>2. stock[CP!Item(o)] \in CP!StockRow /\ catalog[CP!Item(o)] \in CP!CatalogRow
  BY <1>1 DEF TypeOK, CP!TypeOK, CP!StoresTypeOK
<1>3. CP!StockAfter(o, stock[CP!Item(o)]).status # "none"
  BY <1>2, CP!RowsType, PartsAssumptions DEF TypeOK
<1> QED
  BY <1>1, <1>3
     DEF CP!Commit, CP!Goto, CP!Unlock, CP!rpcVars, CP!OpInv, CP!ReplyTells,
         CP!CommittedLate, TypeOK, CP!TypeOK, CP!StoresTypeOK

LEMMA RowsExistInit == Init => RowsExist
BY DEF Init, Orders!Init, Changes!Init, RowsExist, SoldHasRow, NotYetCreated,
   CP!OwnSid, CP!FoundHasRow, CP!Kind, CP!Item, Changes!Kind, Changes!Item

LEMMA RowsExistStep ==
  TypeOK /\ ProtocolInv /\ RowsExist /\ [Next]_vars => RowsExist'
<1> SUFFICES ASSUME TypeOK, ProtocolInv, RowsExist, [Next]_vars PROVE RowsExist'
  OBVIOUS
<1> USE DEF RowsExist
<1>0. /\ \A r \in Requests : OP!Item(r) \in Products
      /\ \A o \in Ops : CP!Item(o) \in Products
  BY OP!RequestType, CP!BodyType, PartsAssumptions DEF TypeOK
<1>1. CASE OrderStep /\ UNCHANGED opVars
  <2>1. \A p \in Products : stock'[p].status = stock[p].status
    BY <1>1, OrderKeepsStatus
  <2>2. NotYetCreated' /\ CP!OwnSid' /\ CP!FoundHasRow'
    BY <1>0, <1>1, <2>1
       DEF NotYetCreated, CP!OwnSid, CP!FoundHasRow, CP!Kind, CP!Item, opVars
  <2>3. SoldHasRow'
    <3> SUFFICES ASSUME NEW r \in Requests,
                        r \in registered' \/ call'[r] \in {"checked", "writing"}
                 PROVE  stock[OP!Item(r)].status # "none"
      BY <1>0, <1>1, <2>1, OrderEffects DEF SoldHasRow, OP!Item
    <3>1. \/ r \in registered
          \/ call[r] \in {"checked", "writing"}
          \/ OP!Live(stock[OP!Item(r)])
      BY <1>1
         DEF OrderStep, OP!RequestStep, OP!HandlerStep, OP!Locate, OP!Decline,
             OP!Reserve, OP!NotAvailable, OP!ReserveFails, OP!Insert, OP!InsertFails,
             OP!Commit, OP!CommitFails, OP!Refused, OP!GiveUp, OP!Publish,
             OP!Respond, OP!InjectedFault, OP!CheckStock, OP!RefuseOrder,
             OP!TakeStock, OP!RegisterCommit, OP!RegisterFails, OP!Finish,
             OP!rpcVars, TypeOK, OP!TypeOK
    <3> QED BY <3>1 DEF SoldHasRow, OP!Live
  <2> QED BY <2>2, <2>3
<1>2. CASE ChangeStep /\ UNCHANGED orderVars
  <2>0. UNCHANGED body
    BY <1>2, ChangeEffects
  <2>1. ASSUME NEW o \in Ops, CP!Commit(o) PROVE RowsExist'
    <3>1. SoldHasRow'
      BY <1>0, <1>2, <2>1, CommitWrites DEF SoldHasRow, OP!Item, orderVars
    <3>2. CP!OwnSid'
      BY <2>0 DEF CP!OwnSid, CP!Kind, CP!Item
    <3>3. CP!FoundHasRow'
      BY <1>0, <2>0, <2>1, CommitWrites
         DEF CP!FoundHasRow, CP!Kind, CP!Item, TypeOK, CP!TypeOK
    <3>4. NotYetCreated'
      <4> SUFFICES ASSUME NEW x \in Ops, CP!Kind(x) = "create", x \notin committed'
                   PROVE  stock'[CP!Item(x)].status = "none"
        BY <2>0 DEF NotYetCreated, CP!Kind, CP!Item
      <4>1. x # o /\ x \notin committed
        BY <2>1, CommitWrites
      <4>2. stock[CP!Item(x)].status = "none"
        BY <4>1 DEF NotYetCreated
      <4>3. CP!Item(x) # CP!Item(o)
        BY <2>1, <4>1, <4>2, CommitWrites DEF CP!OwnSid, CP!FoundHasRow
      <4> QED BY <1>0, <2>1, <4>2, <4>3, CommitWrites
    <3> QED BY <3>1, <3>2, <3>3, <3>4
  <2>2. CASE UNCHANGED <<stock, committed>>
    <3>1. SoldHasRow' /\ NotYetCreated' /\ CP!OwnSid'
      BY <1>2, <2>0, <2>2
         DEF SoldHasRow, NotYetCreated, CP!OwnSid, CP!Kind, CP!Item, OP!Item, orderVars
    <3>2. CP!FoundHasRow'
      <4> SUFFICES ASSUME NEW x \in Ops, CP!Kind(x) # "create",
                          adm'[x] \in {"found", "calling"}
                   PROVE  stock[CP!Item(x)].status # "none"
        BY <2>0, <2>2 DEF CP!FoundHasRow, CP!Kind, CP!Item
      <4>1. adm[x] \in {"found", "calling"} \/ CP!Live(stock[CP!Item(x)])
        BY <1>2
           DEF ChangeStep, CP!OpStep, CP!HandlerStep, CP!Find, CP!Reject, CP!Write,
               CP!WriteFails, CP!Commit, CP!Abort, CP!Respond, CP!LookUp, CP!Apply,
               CP!HandlerFails, CP!Fail, CP!Goto, CP!admVars, TypeOK, CP!TypeOK
      <4> QED BY <4>1 DEF CP!FoundHasRow, CP!Live
    <3> QED BY <3>1, <3>2
  <2> QED BY <1>2, <2>1, <2>2, ChangeWrites
<1>3. CASE CheckoutCrash
  BY <1>3
     DEF CheckoutCrash, SoldHasRow, NotYetCreated, CP!OwnSid, CP!FoundHasRow,
         CP!Kind, CP!Item, OP!Item
<1>4. CASE InventoryCrash
  BY <1>4
     DEF InventoryCrash, SoldHasRow, NotYetCreated, CP!OwnSid, CP!FoundHasRow,
         CP!Kind, CP!Item, OP!Item, Orders!CallsLost, Orders!Serving, Changes!OpsLost,
         TypeOK, OP!TypeOK, CP!TypeOK
<1>5. CASE UNCHANGED vars
  BY <1>5
     DEF vars, storeVars, orderVars, opVars, SoldHasRow, NotYetCreated, CP!OwnSid,
         CP!FoundHasRow, CP!Kind, CP!Item, OP!Item
<1> QED BY <1>1, <1>2, <1>3, <1>4, <1>5, Steps

LEMMA StockStep ==
  TypeOK /\ ProtocolInv /\ RowsExist /\ OP!StockInv /\ [Next]_vars => OP!StockInv'
<1> SUFFICES ASSUME TypeOK, ProtocolInv, RowsExist, OP!StockInv, [Next]_vars
             PROVE  OP!StockInv'
  OBVIOUS
<1>a. ASSUME UNCHANGED <<stock, want, registered, snap>>,
             \A r \in Requests : call'[r] \in {"checked", "writing"} => call'[r] = call[r]
      PROVE  OP!StockInv'
  BY <1>a DEF OP!StockInv, OP!SnapshotCovers, OP!FlagTracksStock, OP!Units, OP!Item
<1>1. CASE OrderStep /\ UNCHANGED opVars
  BY <1>1, OrderStepIsNext, OP!StockStep, PartsAssumptions DEF TypeOK
<1>2. CASE ChangeStep /\ UNCHANGED orderVars
  <2>1. ASSUME NEW o \in Ops, CP!Commit(o) PROVE OP!StockInv'
    <3> DEFINE p == CP!Item(o)
    <3>1. \A r \in Requests : OP!SnapshotCovers(r)'
      BY <1>2 DEF OP!StockInv, OP!SnapshotCovers, OP!Units, orderVars
    <3>2. ASSUME NEW r \in registered, OP!Live(stock'[OP!Item(r)])
          PROVE  stock'[OP!Item(r)].oos = (stock'[OP!Item(r)].avail <= 0)
      <4>0. OP!Item(r) \in Products /\ r \in Requests
        BY OP!RequestType, PartsAssumptions DEF TypeOK, OP!TypeOK
      <4>1. CASE OP!Item(r) # p
        BY <2>1, <3>2, <4>0, <4>1, CommitWrites
           DEF OP!StockInv, OP!FlagTracksStock, OP!Live
      <4>2. CASE OP!Item(r) = p
        <5>1. stock'[p] = CP!StockAfter(o, stock[p]) /\ stock[p] \in CP!StockRow
          BY <2>1, CommitWrites DEF TypeOK, CP!TypeOK, CP!StoresTypeOK
        <5>2. CP!Kind(o) # "create"
          BY <2>1, <4>0, <4>2, CommitWrites DEF RowsExist, SoldHasRow, NotYetCreated
        <5>3. CP!Kind(o) # "delete"
          BY <3>2, <4>2, <5>1 DEF CP!StockAfter, CP!StockRow, OP!Live
        <5>4. CP!Kind(o) = "update"
          BY <5>2, <5>3, CP!BodyType, PartsAssumptions DEF TypeOK
        <5> QED BY <4>2, <5>1, <5>4 DEF CP!StockAfter
      <4> QED BY <4>1, <4>2
    <3>3. OP!FlagTracksStock'
      BY <1>2, <3>2 DEF OP!FlagTracksStock, OP!Item, orderVars
    <3> QED BY <3>1, <3>3 DEF OP!StockInv
  <2>2. CASE UNCHANGED stock
    BY <1>2, <1>a, <2>2 DEF orderVars
  <2> QED BY <1>2, <2>1, <2>2, ChangeWrites
<1>3. CASE CheckoutCrash
  BY <1>3, <1>a DEF CheckoutCrash
<1>4. CASE InventoryCrash
  BY <1>4, <1>a DEF InventoryCrash, Orders!CallsLost, TypeOK, OP!TypeOK
<1>5. CASE UNCHANGED vars
  BY <1>5, <1>a DEF vars, storeVars, orderVars
<1> QED BY <1>1, <1>2, <1>3, <1>4, <1>5, Steps

LEMMA OrdersInit == Init => OP!Init
BY DEF Init, Orders!Init, OP!Init, Orders!StartRow, OP!StartRow, Orders!NoRow,
   OP!NoRow, Orders!Item, OP!Item

LEMMA StockCorrect == Spec => [](RowsExist /\ OP!StockInv)
<1>1. Init => RowsExist /\ OP!StockInv
  BY RowsExistInit, OrdersInit, OP!StockInit, PartsAssumptions
<1> QED BY <1>1, RowsExistStep, StockStep, ProtocolsCorrect, PTL DEF Spec

\* The flag of a product that has sold agrees with its stock, whoever wrote the row
\* last (FlagTracksStock).
THEOREM FlagAgreesForAll == Spec => []FlagTracksStock
<1>1. OP!StockInv => FlagTracksStock
  BY DEF OP!StockInv, OP!FlagTracksStock, FlagTracksStock, Orders!FlagTracksStock,
     OP!Live, Orders!Live, OP!Item, Orders!Item
<1> QED BY <1>1, StockCorrect, PTL

LEMMA NoNegativeStep ==
  TypeOK /\ ProtocolInv /\ OP!StockInv /\ NoNegativeStock /\ [Next]_vars
    => NoNegativeStock'
<1> SUFFICES ASSUME TypeOK, ProtocolInv, OP!StockInv, Stocks \subseteq Nat,
                    \A p \in Products : stock[p].avail >= 0,
                    [Next]_vars, NEW p \in Products
             PROVE  stock'[p].avail >= 0
  BY DEF NoNegativeStock, Orders!NoNegativeStock
<1>1. CASE OrderStep /\ UNCHANGED opVars
  BY <1>1, OrderStepIsNext, OP!NoNegativeStep, PartsAssumptions
     DEF TypeOK, OP!NoNegativeStock
<1>2. CASE ChangeStep /\ UNCHANGED orderVars
  <2>1. ASSUME NEW o \in Ops, CP!Commit(o), p = CP!Item(o)
        PROVE  stock'[p].avail >= 0
    <3>1. stock'[p] = CP!StockAfter(o, stock[p]) /\ stock[p] \in CP!StockRow
      BY <2>1, CommitWrites DEF TypeOK, CP!TypeOK, CP!StoresTypeOK
    <3>2. CASE CP!Kind(o) = "delete"
      <4>1. stock'[p].avail = stock[p].avail
        BY <3>1, <3>2 DEF CP!StockAfter, CP!StockRow
      <4> QED BY <4>1
    <3>3. CASE CP!Kind(o) # "delete"
      <4>1. body[o] \in CP!Body /\ body[o].kind # "delete"
        BY <3>3 DEF CP!Kind, TypeOK, CP!TypeOK
      <4>2. body[o].avail \in Stocks
        BY <4>1 DEF CP!Body
      <4>3. CP!Kind(o) \in {"create", "update"}
        BY <3>3, CP!BodyType, PartsAssumptions DEF TypeOK
      <4>4. stock'[p].avail = body[o].avail
        BY <3>1, <4>3 DEF CP!StockAfter
      <4>5. body[o].avail \in Nat
        BY <4>2
      <4> QED BY <4>4, <4>5
    <3> QED BY <3>2, <3>3
  <2>2. ASSUME NEW o \in Ops, CP!Commit(o), p # CP!Item(o)
        PROVE  stock'[p].avail >= 0
    BY <2>2, CommitWrites
  <2>3. CASE UNCHANGED stock
    BY <2>3
  <2> QED BY <1>2, <2>1, <2>2, <2>3, ChangeWrites
<1>3. CASE CheckoutCrash \/ InventoryCrash \/ UNCHANGED vars
  BY <1>3 DEF CheckoutCrash, InventoryCrash, vars, storeVars
<1> QED BY <1>1, <1>2, <1>3, Steps

\* No interleaving of orders with each other, with changes and with crashes sells
\* below zero, unless an administrator sets a negative stock (NoNegativeStock).
THEOREM StockNeverNegative == Spec => []NoNegativeStock
<1>1. Init => NoNegativeStock
  BY OrdersInit, OP!StockInit, PartsAssumptions
     DEF Init, NoNegativeStock, Orders!NoNegativeStock, OP!NoNegativeStock
<1> QED BY <1>1, NoNegativeStep, ProtocolsCorrect, StockCorrect, PTL DEF Spec

----------------------------------------------------------------------------
(***************************************************************************)
(* Why the services disagree                                               *)
(*                                                                         *)
(* An order writes back the price it read.  That is the price of the row,  *)
(* or a change was committed meanwhile: then it is the order that undoes   *)
(* the change, in the inventory only.  While the holder of the lock waits  *)
(* for the checkout, no order can write, so what it read still holds.      *)
(***************************************************************************)
Changed(p) == \E o \in committed : CP!Item(o) = p
Orphaned(p) == \E o \in applied \ committed : CP!Item(o) = p

\* The price of the inventory is one an order brought back over a change.
Stale(p) == \E r \in registered, o \in committed :
  OP!Item(r) = p /\ CP!Item(o) = p /\ stock[p].price = snap[r].price

Drift == \A p \in Products :
  \/ stock[p].status = "none"
  \/ CP!Same(p)
  \/ Orphaned(p)
  \/ stock[p].status = catalog[p].status /\ Stale(p)

\* A stock row that was read has the price of the row, unless a change came between.
SnapIsRow == \A r \in Requests : call[r] \in {"checked", "writing"} =>
  snap[r].price = stock[OP!Item(r)].price \/ Changed(OP!Item(r))

\* The row of the checkout is what this request made of it.
Shows(o) ==
  IF CP!Kind(o) = "delete"
  THEN /\ catalog[CP!Item(o)].status = "deleted"
       /\ \/ catalog[CP!Item(o)].price = CP!ToInt32(stock[CP!Item(o)].price)
          \/ Stale(CP!Item(o))
  ELSE /\ catalog[CP!Item(o)].status = "live"
       /\ catalog[CP!Item(o)].price = CP!ToInt32(body[o].price)

CommitWillAgree == \A o \in applied : adm[o] = "calling" =>
  \/ Shows(o)
  \/ \E x \in applied \ committed : x # o /\ CP!Item(x) = CP!Item(o)

DriftInv == SnapIsRow /\ CommitWillAgree /\ Drift

\* An order that is registered keeps the row it read.
SnapsKept ==
  registered \subseteq registered' /\ \A r \in registered : snap'[r] = snap[r]

LEMMA StaleStays ==
  ASSUME SnapsKept, committed \subseteq committed', UNCHANGED <<want, body>>,
         NEW p, Stale(p), stock'[p].price = stock[p].price
  PROVE  Stale(p)'
<1>1. PICK r \in registered, o \in committed :
        OP!Item(r) = p /\ CP!Item(o) = p /\ stock[p].price = snap[r].price
  BY DEF Stale
<1>2. /\ r \in registered' /\ o \in committed'
      /\ OP!Item(r)' = p /\ CP!Item(o)' = p /\ stock'[p].price = snap'[r].price
  BY <1>1 DEF SnapsKept, OP!Item, CP!Item
<1> QED BY <1>2 DEF Stale

\* A step that touches neither table, nor what was applied or committed.
LEMMA DriftUntouched ==
  ASSUME DriftInv, SnapsKept, SnapIsRow',
         UNCHANGED <<catalog, stock, want, body, applied, committed>>,
         \A o \in applied : adm'[o] = "calling" => adm[o] = "calling"
  PROVE  DriftInv'
<1>1. \A p : Stale(p) => Stale(p)'
  BY StaleStays
<1>2. Drift'
  BY <1>1 DEF DriftInv, Drift, CP!Same, Orphaned, CP!Item
<1>3. CommitWillAgree'
  BY <1>1 DEF DriftInv, CommitWillAgree, Shows, CP!Item, CP!Kind
<1> QED BY <1>2, <1>3 DEF DriftInv

LEMMA DriftInit == Init => DriftInv
<1> SUFFICES ASSUME Init PROVE DriftInv
  OBVIOUS
<1>1. SnapIsRow /\ CommitWillAgree
  BY DEF Init, Orders!Init, Changes!Init, SnapIsRow, CommitWillAgree
<1>2. Drift
  <2> SUFFICES ASSUME NEW p \in Products, stock[p].status # "none" PROVE CP!Same(p)
    BY DEF Drift
  <2>1. stock[p].status = "live"
    BY DEF Init, Changes!Init
  <2> QED
    BY <2>1 DEF Init, Changes!Init, Changes!Same, CP!Same, Changes!ToInt32, CP!ToInt32
<1> QED BY <1>1, <1>2 DEF DriftInv

LEMMA OrderKeepsSnaps ==
  ASSUME TypeOK, ProtocolInv, OrderStep
  PROVE  SnapsKept
<1> SUFFICES ASSUME NEW r \in Requests, OP!RequestStep(r) \/ OP!HandlerStep(r)
             PROVE  SnapsKept
  BY DEF OrderStep
<1>1. CASE OP!CheckStock(r)
  <2>1. r \notin registered
    BY <1>1
       DEF OP!CheckStock, ProtocolInv, OP!ProtocolInv, OP!OrderInv, OP!ReplyTells
  <2> QED BY <1>1, <2>1 DEF OP!CheckStock, SnapsKept, TypeOK, OP!TypeOK
<1>2. CASE ~OP!CheckStock(r)
  BY <1>2
     DEF SnapsKept, OP!RequestStep, OP!HandlerStep, OP!Locate, OP!Decline, OP!Reserve,
         OP!NotAvailable, OP!ReserveFails, OP!Insert, OP!InsertFails, OP!Commit,
         OP!CommitFails, OP!Refused, OP!GiveUp, OP!Publish, OP!Respond,
         OP!InjectedFault, OP!RefuseOrder, OP!TakeStock, OP!RegisterCommit,
         OP!RegisterFails, OP!rpcVars
<1> QED BY <1>1, <1>2

\* An order that writes: if it moves the price, it undoes a change.
LEMMA DriftRegister ==
  ASSUME TypeOK, ProtocolInv, RowsExist, DriftInv, SnapsKept, UNCHANGED opVars,
         NEW r \in Requests, OP!RegisterCommit(r)
  PROVE  DriftInv'
<1> DEFINE p == OP!Item(r)
<1>0. p \in Products /\ call[r] = "writing" /\ invWriter = r
  BY OP!RequestType, PartsAssumptions DEF TypeOK, OP!RegisterCommit
<1>1. /\ stock' = [stock EXCEPT ![p] = OP!Taken(@, snap[r], OP!Units(r))]
      /\ registered' = registered \cup {r}
      /\ call' = [call EXCEPT ![r] = "replied"]
      /\ UNCHANGED <<catalog, want, snap, body, applied, committed, adm>>
  BY DEF OP!RegisterCommit, OP!Finish, opVars
<1>12. UNCHANGED <<catalog, body, applied, committed>>
  BY <1>1
<1>2. stock \in [Products -> OP!StockRow] /\ snap[r] \in OP!StockRow
  BY DEF TypeOK, OP!TypeOK, OP!StoresTypeOK
<1>3. stock'[p] = OP!Taken(stock[p], snap[r], OP!Units(r))
  BY <1>0, <1>1, <1>2
<1>4. \A q \in Products : q # p => stock'[q] = stock[q]
  BY <1>1, <1>2
<1>5. stock'[p].status = stock[p].status
  BY <1>0, <1>2, <1>3 DEF OP!Taken, OP!StockRow
<1>6. stock'[p].price = stock[p].price \/ stock'[p].price = snap[r].price
  BY <1>0, <1>2, <1>3 DEF OP!Taken, OP!StockRow
<1>7. \A q \in Products : stock'[q].price # stock[q].price => Stale(q)' /\ Changed(q)
  <2> SUFFICES ASSUME NEW q \in Products, stock'[q].price # stock[q].price
               PROVE  Stale(q)' /\ Changed(q)
    OBVIOUS
  <2>0. q = p
    BY <1>4
  <2>1. stock'[q].price = snap[r].price /\ Changed(q)
    BY <1>0, <1>6, <2>0 DEF DriftInv, SnapIsRow
  <2>2. PICK o \in committed : CP!Item(o) = q
    BY <2>1 DEF Changed
  <2>3. /\ r \in registered' /\ o \in committed' /\ OP!Item(r)' = q
        /\ CP!Item(o)' = q /\ stock'[q].price = snap'[r].price
    BY <1>1, <2>0, <2>1, <2>2 DEF OP!Item, CP!Item
  <2> QED BY <2>1, <2>3 DEF Stale
<1>8. \A q \in Products : stock'[q].price = stock[q].price /\ Stale(q) => Stale(q)'
  BY <1>1, StaleStays
<1>9. SnapIsRow'
  <2> SUFFICES ASSUME NEW x \in Requests, call'[x] \in {"checked", "writing"}
               PROVE  \/ snap[x].price = stock'[OP!Item(x)].price
                      \/ Changed(OP!Item(x))
    BY <1>1 DEF SnapIsRow, Changed, OP!Item, CP!Item
  <2>1. snap[x].price = stock[OP!Item(x)].price \/ Changed(OP!Item(x))
    BY <1>1 DEF DriftInv, SnapIsRow, TypeOK, OP!TypeOK
  <2>2. OP!Item(x) \in Products
    BY OP!RequestType, PartsAssumptions DEF TypeOK
  <2> QED BY <2>1, <2>2, <1>4, <1>7
<1>10. CommitWillAgree'
  <2>1. r \notin Ops
    BY ActorsAssumption
  <2>2. \A o \in Ops : adm[o] # "calling"
    BY <1>0, <2>1 DEF ProtocolInv, CP!ProtocolInv, CP!OpInv, CP!Locked
  <2> QED BY <1>1, <2>2 DEF CommitWillAgree, TypeOK, CP!TypeOK
<1>11. Drift'
  <2> SUFFICES ASSUME NEW q \in Products, stock'[q].status # "none"
               PROVE  \/ CP!Same(q)'
                      \/ Orphaned(q)'
                      \/ stock'[q].status = catalog[q].status /\ Stale(q)'
    BY <1>1 DEF Drift
  <2>1. stock'[q].status = stock[q].status
    BY <1>4, <1>5
  <2>2. \/ CP!Same(q)
        \/ Orphaned(q)
        \/ stock[q].status = catalog[q].status /\ Stale(q)
    BY <2>1 DEF DriftInv, Drift
  <2>3. Orphaned(q) => Orphaned(q)'
    BY <1>12 DEF Orphaned, CP!Item
  <2>4. CASE stock'[q].price = stock[q].price
    <3>1. CP!Same(q) => CP!Same(q)'
      BY <1>12, <2>1, <2>4 DEF CP!Same
    <3>2. Stale(q) => Stale(q)'
      BY <1>8, <2>4
    <3>3. CASE stock[q].status = catalog[q].status /\ Stale(q)
      BY <2>1, <3>2, <3>3
    <3> QED BY <2>2, <2>3, <3>1, <3>3
  <2>5. CASE stock'[q].price # stock[q].price
    <3>1. Stale(q)'
      BY <1>7, <2>5
    <3>2. CP!Same(q) => stock[q].status = catalog[q].status
      BY DEF CP!Same
    <3> QED BY <2>1, <2>2, <2>3, <3>1, <3>2
  <2> QED BY <2>4, <2>5
<1> QED BY <1>9, <1>10, <1>11 DEF DriftInv

\* The commit of a change: the inventory now shows what the checkout does, but for an
\* orphan, or for a deletion of a row with a stale price.
LEMMA DriftCommit ==
  ASSUME TypeOK, ProtocolInv, RowsExist, DriftInv, SnapsKept, UNCHANGED orderVars,
         NEW o \in Ops, CP!Commit(o)
  PROVE  DriftInv'
<1>0. /\ o \in applied /\ committed' = committed \cup {o}
      /\ adm[o] = "calling" /\ adm' = [adm EXCEPT ![o] = "committed"]
      /\ CP!Item(o) \in Products
      /\ stock'[CP!Item(o)] = CP!StockAfter(o, stock[CP!Item(o)])
      /\ \A q \in Products : q # CP!Item(o) => stock'[q] = stock[q]
      /\ UNCHANGED <<catalog, body, applied>>
  BY CommitWrites
<1>1. UNCHANGED <<want, call, snap, registered, catalog, body, applied>>
  BY <1>0 DEF orderVars
<1>2. \A x \in Ops \ {o} : adm[x] # "calling"
  BY <1>0 DEF ProtocolInv, CP!ProtocolInv, CP!OpInv, CP!Locked
<1>3. \A p : Changed(p) => Changed(p)'
  BY <1>0 DEF Changed, CP!Item
<1>4. \A q \in Products : q = CP!Item(o) => Changed(q)'
  BY <1>0 DEF Changed, CP!Item
<1>5. \A q \in Products : stock'[q].price = stock[q].price /\ Stale(q) => Stale(q)'
  BY <1>0, <1>1, StaleStays
<1>6. SnapIsRow'
  <2> SUFFICES ASSUME NEW x \in Requests, call[x] \in {"checked", "writing"},
                      NEW q \in Products, OP!Item(x) = q
               PROVE  snap[x].price = stock'[q].price \/ Changed(q)'
    <3>1. \A x \in Requests : OP!Item(x) \in Products /\ OP!Item(x)' = OP!Item(x)
      BY <1>1, OP!RequestType, PartsAssumptions DEF TypeOK, OP!Item
    <3> QED BY <1>1, <3>1 DEF SnapIsRow, Changed
  <2> QED BY <1>0, <1>3, <1>4 DEF DriftInv, SnapIsRow
<1>7. CommitWillAgree'
  BY <1>0, <1>1, <1>2 DEF CommitWillAgree, TypeOK, CP!TypeOK
<1>8. Drift'
  <2> SUFFICES ASSUME NEW q \in Products, stock'[q].status # "none"
               PROVE  \/ CP!Same(q)'
                      \/ Orphaned(q)'
                      \/ stock'[q].status = catalog[q].status /\ Stale(q)'
    BY <1>1 DEF Drift
  <2>1. \A x \in applied \ committed : x # o /\ CP!Item(x) = q => Orphaned(q)'
    BY <1>0, <1>1 DEF Orphaned, CP!Item
  <2>2. CASE q # CP!Item(o)
    <3>1. stock'[q] = stock[q]
      BY <1>0, <2>2
    <3>2. Orphaned(q) => Orphaned(q)'
      BY <2>1, <2>2 DEF Orphaned
    <3>3. CP!Same(q) => CP!Same(q)'
      BY <1>1, <3>1 DEF CP!Same
    <3>4. Stale(q) => Stale(q)'
      BY <1>5, <3>1
    <3>5. CASE stock[q].status = catalog[q].status /\ Stale(q)
      BY <3>1, <3>4, <3>5
    <3> QED BY <3>1, <3>2, <3>3, <3>5 DEF DriftInv, Drift
  <2>3. CASE q = CP!Item(o) /\ Shows(o)
    <3>0. stock'[q] = CP!StockAfter(o, stock[q]) /\ stock[q] \in CP!StockRow
      BY <1>0, <2>3 DEF TypeOK, CP!TypeOK, CP!StoresTypeOK
    <3>1. CASE CP!Kind(o) = "delete"
      <4>1. stock'[q].status = "deleted" /\ stock'[q].price = stock[q].price
        BY <3>0, <3>1 DEF CP!StockAfter, CP!StockRow
      <4>2. /\ catalog[q].status = "deleted"
            /\ catalog[q].price = CP!ToInt32(stock[q].price) \/ Stale(q)
        BY <2>3, <3>1 DEF Shows
      <4>3. CASE Stale(q)
        BY <1>5, <4>1, <4>2, <4>3
      <4>4. CASE catalog[q].price = CP!ToInt32(stock[q].price)
        BY <1>1, <4>1, <4>2, <4>4 DEF CP!Same
      <4> QED BY <4>2, <4>3, <4>4
    <3>2. CASE CP!Kind(o) # "delete"
      <4>1. CP!Kind(o) \in {"create", "update"}
        BY <3>2, CP!BodyType, PartsAssumptions DEF TypeOK
      <4>2. stock'[q].status = "live" /\ stock'[q].price = body[o].price
        BY <3>0, <4>1 DEF CP!StockAfter
      <4> QED BY <1>1, <2>3, <3>2, <4>2 DEF Shows, CP!Same
    <3> QED BY <3>1, <3>2
  <2>4. CASE q = CP!Item(o) /\ ~Shows(o)
    <3>1. \E x \in applied \ committed : x # o /\ CP!Item(x) = q
      BY <1>0, <2>4 DEF DriftInv, CommitWillAgree
    <3> QED BY <2>1, <3>1
  <2> QED BY <2>2, <2>3, <2>4
<1> QED BY <1>6, <1>7, <1>8 DEF DriftInv

\* The statement of the checkout: its request is now the cause of what differs, for the
\* holder of the lock as well, unless it is that holder.
LEMMA DriftApply ==
  ASSUME TypeOK, ProtocolInv, RowsExist, DriftInv, SnapsKept, UNCHANGED orderVars,
         NEW o \in Ops, CP!Apply(o)
  PROVE  DriftInv'
<1>0. CP!OpInv(o) /\ CP!Item(o) \in Products
  BY CP!BodyType, PartsAssumptions DEF TypeOK, ProtocolInv, CP!ProtocolInv
<1>1. o \notin applied /\ o \notin committed
  BY <1>0 DEF CP!Apply, CP!OpInv, CP!ReplyTells, CP!CommittedLate
<1>2. /\ catalog' = [catalog EXCEPT ![CP!Item(o)] = CP!CatalogAfter(o, @)]
      /\ applied' = applied \cup {o}
      /\ UNCHANGED <<stock, body, committed, adm, want, call, snap, registered>>
  BY DEF CP!Apply, CP!Finish, CP!admVars, orderVars
<1>3. catalog \in [Products -> CP!CatalogRow]
  BY DEF TypeOK, CP!TypeOK, CP!StoresTypeOK
<1>4. /\ catalog'[CP!Item(o)] = CP!CatalogAfter(o, catalog[CP!Item(o)])
      /\ \A q \in Products : q # CP!Item(o) => catalog'[q] = catalog[q]
  BY <1>0, <1>2, <1>3
<1>5. UNCHANGED <<stock, body, committed, adm, want, call, snap, registered>>
  BY <1>2
<1>6. \A p : Stale(p) => Stale(p)'
  BY <1>5, StaleStays
<1>7. SnapIsRow'
  BY <1>5 DEF DriftInv, SnapIsRow, Changed, OP!Item, CP!Item
<1>8. \A x \in applied \ committed : x \in applied' \ committed' /\ x # o
  BY <1>1, <1>2
<1>9. o \in applied' \ committed'
  BY <1>1, <1>2
<1>10. Drift'
  <2> SUFFICES ASSUME NEW q \in Products, stock[q].status # "none"
               PROVE  \/ CP!Same(q)'
                      \/ Orphaned(q)'
                      \/ stock[q].status = catalog'[q].status /\ Stale(q)'
    BY <1>5 DEF Drift
  <2>1. CASE q = CP!Item(o)
    BY <1>5, <1>9, <2>1 DEF Orphaned, CP!Item
  <2>2. CASE q # CP!Item(o)
    <3>1. catalog'[q] = catalog[q]
      BY <1>4, <2>2
    <3>2. Orphaned(q) => Orphaned(q)'
      BY <1>5, <1>8 DEF Orphaned, CP!Item
    <3>3. CP!Same(q) => CP!Same(q)'
      BY <1>5, <3>1 DEF CP!Same
    <3>4. CASE stock[q].status = catalog[q].status /\ Stale(q)
      BY <1>6, <3>1, <3>4
    <3> QED BY <3>2, <3>3, <3>4 DEF DriftInv, Drift
  <2> QED BY <2>1, <2>2
<1>11. CommitWillAgree'
  <2> SUFFICES ASSUME NEW h \in applied', adm[h] = "calling"
               PROVE  \/ Shows(h)'
                      \/ \E x \in applied' \ committed' :
                           x # h /\ CP!Item(x)' = CP!Item(h)'
    BY <1>5 DEF CommitWillAgree
  <2>0. \A x : CP!Item(x)' = CP!Item(x) /\ CP!Kind(x)' = CP!Kind(x)
    BY <1>5 DEF CP!Item, CP!Kind
  <2>1. h \in Ops
    BY <1>2 DEF TypeOK, CP!TypeOK
  <2>2. CASE h # o /\ CP!Item(h) = CP!Item(o)
    BY <1>9, <2>0, <2>2
  <2>3. CASE h # o /\ CP!Item(h) # CP!Item(o)
    <3>1. h \in applied /\ CP!Item(h) \in Products
      BY <1>2, <2>1, <2>3, CP!BodyType, PartsAssumptions DEF TypeOK
    <3>2. CASE Shows(h)
      <4>1. catalog'[CP!Item(h)] = catalog[CP!Item(h)]
        BY <1>4, <2>3, <3>1
      <4>2. Stale(CP!Item(h)) => Stale(CP!Item(h))'
        <5>1. \A p : CP!Item(h) = p => (Stale(p) => Stale(CP!Item(h))')
          BY <1>6, <2>0 DEF Stale
        <5> QED BY <5>1
      <4> QED BY <1>5, <2>0, <3>2, <4>1, <4>2 DEF Shows
    <3>3. CASE ~Shows(h)
      BY <1>8, <2>0, <3>1, <3>3 DEF DriftInv, CommitWillAgree
    <3> QED BY <3>2, <3>3
  <2>4. CASE h = o /\ CP!Kind(o) # "delete"
    BY <1>4, <1>5, <2>0, <2>4 DEF Shows, CP!CatalogAfter
  <2>5. CASE h = o /\ CP!Kind(o) = "delete"
    <3> DEFINE p == CP!Item(o)
    <3>1. catalog'[p].status = "deleted" /\ catalog'[p].price = catalog[p].price
      BY <1>0, <1>3, <1>4, <2>5 DEF CP!CatalogAfter, CP!CatalogRow
    <3>2. stock[p].status # "none"
      BY <2>5 DEF RowsExist, CP!FoundHasRow
    <3>3. CASE CP!Same(p)
      BY <1>5, <2>0, <2>5, <3>1, <3>3 DEF Shows, CP!Same
    <3>4. CASE Orphaned(p)
      BY <1>8, <2>0, <2>5, <3>4 DEF Orphaned
    <3>5. CASE Stale(p)
      <4>1. Stale(p)'
        BY <1>6, <2>0, <3>5
      <4> QED BY <1>5, <2>0, <2>5, <3>1, <4>1 DEF Shows
    <3> QED BY <1>0, <3>2, <3>3, <3>4, <3>5 DEF DriftInv, Drift
  <2> QED BY <2>2, <2>3, <2>4, <2>5
<1> QED BY <1>7, <1>10, <1>11 DEF DriftInv

LEMMA DriftStep ==
  TypeOK /\ ProtocolInv /\ RowsExist /\ DriftInv /\ [Next]_vars => DriftInv'
<1> SUFFICES ASSUME TypeOK, ProtocolInv, RowsExist, DriftInv, [Next]_vars
             PROVE  DriftInv'
  OBVIOUS
<1>1. CASE OrderStep /\ UNCHANGED opVars
  <2>0. SnapsKept /\ UNCHANGED <<catalog, want, body, applied, committed, adm>>
    BY <1>1, OrderKeepsSnaps, OrderEffects DEF opVars
  <2>1. PICK r \in Requests : OP!RequestStep(r) \/ OP!HandlerStep(r)
    BY <1>1 DEF OrderStep
  <2>2. CASE OP!RegisterCommit(r)
    BY <1>1, <2>0, <2>2, DriftRegister
  <2>3. CASE ~OP!RegisterCommit(r)
    <3>1. UNCHANGED stock
      BY <2>1, <2>3
         DEF OP!RequestStep, OP!HandlerStep, OP!Locate, OP!Decline, OP!Reserve,
             OP!NotAvailable, OP!ReserveFails, OP!Insert, OP!InsertFails, OP!Commit,
             OP!CommitFails, OP!Refused, OP!GiveUp, OP!Publish, OP!Respond,
             OP!Unlock, OP!InjectedFault, OP!CheckStock, OP!RefuseOrder,
             OP!TakeStock, OP!RegisterFails, OP!storeVars
    <3>2. \A x \in Requests : call'[x] \in {"checked", "writing"} =>
            \/ call[x] \in {"checked", "writing"} /\ snap'[x] = snap[x]
            \/ snap'[x] = stock[OP!Item(x)]
      BY <2>1
         DEF OP!RequestStep, OP!HandlerStep, OP!Locate, OP!Decline, OP!Reserve,
             OP!NotAvailable, OP!ReserveFails, OP!Insert, OP!InsertFails, OP!Commit,
             OP!CommitFails, OP!Refused, OP!GiveUp, OP!Publish, OP!Respond,
             OP!InjectedFault, OP!CheckStock, OP!RefuseOrder, OP!TakeStock,
             OP!RegisterCommit, OP!RegisterFails, OP!Finish, OP!rpcVars, TypeOK,
             OP!TypeOK
    <3>3. SnapIsRow'
      BY <2>0, <3>1, <3>2 DEF DriftInv, SnapIsRow, Changed, OP!Item, CP!Item
    <3> QED BY <2>0, <3>1, <3>3, DriftUntouched
  <2> QED BY <2>2, <2>3
<1>2. CASE ChangeStep /\ UNCHANGED orderVars
  <2>0. SnapsKept /\ UNCHANGED <<want, call, snap, registered, body>>
    BY <1>2, ChangeEffects DEF SnapsKept, orderVars
  <2>1. PICK o \in Ops : CP!OpStep(o) \/ CP!HandlerStep(o)
    BY <1>2 DEF ChangeStep
  <2>2. CASE CP!Commit(o)
    BY <1>2, <2>0, <2>2, DriftCommit
  <2>3. CASE CP!Apply(o)
    BY <1>2, <2>0, <2>3, DriftApply
  <2>4. CASE ~CP!Commit(o) /\ ~CP!Apply(o)
    <3>1. UNCHANGED <<catalog, stock, applied, committed>>
      BY <2>1, <2>4
         DEF CP!OpStep, CP!HandlerStep, CP!Find, CP!Reject, CP!Write, CP!WriteFails,
             CP!Abort, CP!Respond, CP!LookUp, CP!HandlerFails, CP!Fail, CP!Unlock,
             CP!storeVars, CP!rpcVars, CP!admVars
    <3>2. SnapIsRow'
      BY <2>0, <3>1 DEF DriftInv, SnapIsRow, Changed, OP!Item, CP!Item
    <3>3. \A x \in applied : adm'[x] = "calling" => adm[x] = "calling"
      <4>1. CASE CP!Write(o)
        <5>1. o \notin applied
          BY <4>1
             DEF CP!Write, ProtocolInv, CP!ProtocolInv, CP!OpInv, CP!NotYetCalled,
                 CP!ReplyTells
        <5> QED BY <4>1, <5>1 DEF CP!Write, CP!Goto, TypeOK, CP!TypeOK
      <4>2. CASE ~CP!Write(o)
        BY <2>1, <2>4, <4>2
           DEF CP!OpStep, CP!HandlerStep, CP!Find, CP!Reject, CP!WriteFails,
               CP!Abort, CP!Respond, CP!LookUp, CP!HandlerFails, CP!Fail, CP!Goto,
               CP!admVars, TypeOK, CP!TypeOK
      <4> QED BY <4>1, <4>2
    <3> QED BY <2>0, <3>1, <3>2, <3>3, DriftUntouched
  <2> QED BY <2>2, <2>3, <2>4
<1>a. ASSUME UNCHANGED <<catalog, stock, want, body, snap, registered, applied,
                         committed>>,
             \A r \in Requests : call'[r] \in {"checked", "writing"} => call'[r] = call[r],
             \A o \in Ops : adm'[o] = "calling" => adm[o] = "calling"
      PROVE  DriftInv'
  <2>1. SnapsKept
    BY <1>a DEF SnapsKept
  <2>2. SnapIsRow'
    BY <1>a DEF DriftInv, SnapIsRow, Changed, OP!Item, CP!Item
  <2>3. \A o \in applied : adm'[o] = "calling" => adm[o] = "calling"
    BY <1>a DEF TypeOK, CP!TypeOK
  <2> QED BY <1>a, <2>1, <2>2, <2>3, DriftUntouched
<1>3. CASE CheckoutCrash
  BY <1>3, <1>a DEF CheckoutCrash
<1>4. CASE InventoryCrash
  BY <1>4, <1>a
     DEF InventoryCrash, Orders!CallsLost, Changes!OpsLost, TypeOK, OP!TypeOK,
         CP!TypeOK
<1>5. CASE UNCHANGED vars
  BY <1>5, <1>a DEF vars, storeVars, orderVars, opVars
<1> QED BY <1>1, <1>2, <1>3, <1>4, <1>5, Steps

LEMMA DriftCorrect == Spec => []DriftInv
BY DriftInit, DriftStep, ProtocolsCorrect, StockCorrect, PTL DEF Spec

\* Two rows of one product differ only through a change that stopped half way, or an
\* order that wrote back the price it had read before a change (DriftHasACause).
THEOREM DriftAlwaysHasACause == Spec => []DriftHasACause
<1>1. DriftInv => DriftHasACause
  BY DEF DriftInv, Drift, Orphaned, Stale, DriftHasACause, CP!Same, Changes!Same,
     CP!ToInt32, Changes!ToInt32, CP!Item, Changes!Item, OP!Item, Orders!Item
<1> QED BY <1>1, DriftCorrect, PTL

----------------------------------------------------------------------------
(***************************************************************************)
(* What is true of a product while orders are placed                       *)
(*                                                                         *)
(* An order changes the price, the number and the flag of a row, never     *)
(* whether there is one.  So whatever the changes of products guarantee    *)
(* about that, they guarantee in the shop at work.                         *)
(***************************************************************************)

\* What matters to the existence of the rows, and to the handlers that have found one.
Existence == CP!SidsInv /\ CP!FoundAlive

\* A step that changes no status, and at most ends handlers of the checkout and
\* transactions of the inventory, keeps Existence, and whatever is half deleted.
LEMMA ExistenceKept ==
  ASSUME TypeOK, ProtocolInv, Existence,
         UNCHANGED <<catalog, body, opReply, applied, committed>>,
         \A p \in Products : stock'[p].status = stock[p].status,
         \A o \in Ops : /\ adm'[o] \in {"found", "calling"} => adm'[o] = adm[o]
                        /\ rpc'[o] = "found" => rpc[o] = "found"
  PROVE  /\ Existence'
         /\ \A p \in Products : CP!HalfDeleted(p) => CP!HalfDeleted(p)'
<1>0. \A o \in Ops : /\ CP!Item(o)' = CP!Item(o) /\ CP!Kind(o)' = CP!Kind(o)
                     /\ CP!Item(o) \in Products
  BY CP!BodyType, PartsAssumptions DEF TypeOK, CP!Item, CP!Kind
<1>1. CP!OwnSid' /\ CP!AppliedHasRow' /\ CP!StockIsInCatalog'
  BY <1>0
     DEF Existence, CP!SidsInv, CP!OwnSid, CP!AppliedHasRow, CP!StockIsInCatalog,
         CP!Item, CP!Kind
<1>2. CP!FoundHasRow' /\ CP!FreshSid'
  BY <1>0 DEF Existence, CP!SidsInv, CP!FoundHasRow, CP!FreshSid
<1>3. CP!FoundAlive'
  BY <1>0 DEF Existence, CP!FoundAlive, CP!LostDelete, TypeOK, CP!TypeOK
<1>4. \A p \in Products : CP!HalfDeleted(p) => CP!HalfDeleted(p)'
  BY <1>0 DEF CP!HalfDeleted, CP!Live
<1> QED BY <1>1, <1>2, <1>3, <1>4 DEF Existence, CP!SidsInv

LEMMA ExistenceStep ==
  ASSUME TypeOK, ProtocolInv, Existence, [Next]_vars
  PROVE  /\ Existence'
         /\ \A p \in Products : CP!HalfDeleted(p) => CP!HalfDeleted(p)'
<1>1. CASE OrderStep /\ UNCHANGED opVars
  BY <1>1, OrderEffects, OrderKeepsStatus, ExistenceKept DEF opVars
<1>2. CASE ChangeStep /\ UNCHANGED orderVars
  <2>1. CP!TypeOK /\ CP!ProtocolInv /\ CP!SidsInv /\ CP!FoundAlive /\ [CP!Next]_CP!vars
    BY <1>2, ChangeStepIsNext DEF TypeOK, ProtocolInv, Existence
  <2>2. CP!SidsInv' /\ CP!FoundAlive'
    BY <2>1, CP!SidsStep, CP!FoundAliveStep, PartsAssumptions
  <2>3. \A p \in Products : CP!HalfDeleted(p) => CP!HalfDeleted(p)'
    BY <2>1, CP!HalfDeletedStays, PartsAssumptions
  <2> QED BY <2>2, <2>3 DEF Existence
<1>3. CASE CheckoutCrash
  BY <1>3, ExistenceKept DEF CheckoutCrash, Changes!CallsLost, Changes!Serving
<1>4. CASE InventoryCrash
  BY <1>4, ExistenceKept DEF InventoryCrash, Changes!OpsLost, Changes!Running
<1>5. CASE UNCHANGED vars
  BY <1>5, ExistenceKept DEF vars, storeVars, opVars
<1> QED BY <1>1, <1>2, <1>3, <1>4, <1>5, Steps

LEMMA ChangesInit == Init => CP!Init
BY DEF Init, Changes!Init, CP!Init, Changes!Body, CP!Body, Changes!Item, CP!Item,
   Changes!Kind, CP!Kind, Changes!Same, CP!Same, Changes!ToInt32, CP!ToInt32

LEMMA ExistenceCorrect == Spec => []Existence
<1>1. Init => Existence
  <2>1. CP!Init => CP!SidsInv
    BY CP!SidsInit, PartsAssumptions
  <2>2. CP!Init => CP!FoundAlive
    BY DEF CP!Init, CP!FoundAlive
  <2> QED BY <2>1, <2>2, ChangesInit DEF Existence
<1>2. TypeOK /\ ProtocolInv /\ Existence /\ [Next]_vars => Existence'
  BY ExistenceStep
<1> QED BY <1>1, <1>2, ProtocolsCorrect, PTL DEF Spec

\* Also while orders are placed, a product of the inventory has a row in the checkout
\* (StockIsInCatalog), and what is half deleted stays so (HalfDeletedForEver).
THEOREM ProductsStayInCatalog ==
  Spec => []Changes!StockIsInCatalog /\ Changes!HalfDeletedForEver
<1>1. Existence => Changes!StockIsInCatalog
  BY DEF Existence, CP!SidsInv, CP!StockIsInCatalog, Changes!StockIsInCatalog
<1>2. \A p : (Changes!HalfDeleted(p) <=> CP!HalfDeleted(p))
             /\ (Changes!HalfDeleted(p)' <=> CP!HalfDeleted(p)')
  BY DEF Changes!HalfDeleted, CP!HalfDeleted, Changes!Live, CP!Live, Changes!Item,
     CP!Item
<1>3. TypeOK /\ ProtocolInv /\ Existence /\ [Next]_vars =>
        [\A p \in Products :
           Changes!HalfDeleted(p) => Changes!HalfDeleted(p)']_Changes!vars
  BY <1>2, ExistenceStep
<1> QED
  BY <1>1, <1>3, ProtocolsCorrect, ExistenceCorrect, PTL
     DEF Spec, Changes!HalfDeletedForEver

\* Also while orders are placed, only a straggler revives a deleted product in the
\* checkout (RevivedByAStraggler): orders hold its lock but write no product there.
THEOREM OnlyStragglersRevive == Spec => Changes!RevivedByAStraggler
<1>1. ASSUME TypeOK, ProtocolInv, Existence, [Next]_vars, NEW p \in Products,
             catalog[p].status = "deleted", Changes!Live(catalog'[p])
      PROVE  \E o \in Ops :
               /\ Changes!Item(o) = p /\ Changes!Kind(o) = "update" /\ rpc[o] = "found"
               /\ \/ adm[o] \in {"done", "lost"}
                  \/ \E d \in applied \ committed :
                       Changes!Item(d) = p /\ Changes!Kind(d) = "delete"
  <2>1. CP!Live(catalog'[p])
    BY <1>1 DEF Changes!Live, CP!Live
  <2>2. catalog' # catalog
    BY <1>1, <2>1 DEF CP!Live
  <2>3. ChangeStep
    BY <1>1, <2>2, Steps, OrderEffects
       DEF CheckoutCrash, InventoryCrash, vars, storeVars
  <2>4. CP!TypeOK /\ CP!ProtocolInv /\ CP!SidsInv /\ CP!FoundAlive /\ [CP!Next]_CP!vars
    BY <1>1, <2>3, ChangeStepIsNext DEF TypeOK, ProtocolInv, Existence
  <2>5. \E o \in Ops :
          /\ CP!Item(o) = p /\ CP!Kind(o) = "update" /\ rpc[o] = "found"
          /\ adm[o] \in {"done", "lost"} \/ CP!LostDelete(p)
    BY <1>1, <2>1, <2>4, CP!ReviverIsAStraggler, PartsAssumptions
  <2> QED
    BY <2>5 DEF CP!LostDelete, CP!Item, CP!Kind, Changes!Item, Changes!Kind
<1>2. TypeOK /\ ProtocolInv /\ Existence /\ [Next]_vars =>
        [\A p \in Products :
           catalog[p].status = "deleted" /\ Changes!Live(catalog'[p]) =>
             \E o \in Ops :
               /\ Changes!Item(o) = p /\ Changes!Kind(o) = "update" /\ rpc[o] = "found"
               /\ \/ adm[o] \in {"done", "lost"}
                  \/ \E d \in applied \ committed :
                       Changes!Item(d) = p /\ Changes!Kind(d) = "delete"]_Changes!vars
  BY <1>1
<1> QED
  BY <1>2, ProtocolsCorrect, ExistenceCorrect, PTL DEF Spec, Changes!RevivedByAStraggler

----------------------------------------------------------------------------
(***************************************************************************)
(* The promises of the parts survive their composition                     *)
(***************************************************************************)

\* At work together, on stores that the other writes too and with crashes that take
\* both, orders keep the promise of OrderLedger.tla and so do changes.
THEOREM PromisesKept == Spec => OP!Ledger!Spec /\ CP!Ledger!Spec
<1>1. Init => OP!Ledger!Init /\ CP!Ledger!Init
  BY DEF Init, Orders!Init, Changes!Init, OP!Ledger!Init, CP!Ledger!Init
<1>2. ASSUME TypeOK, ProtocolInv, [Next]_vars
      PROVE  /\ [OP!Ledger!Next]_OP!Ledger!ledgerVars
             /\ [CP!Ledger!Next]_CP!Ledger!ledgerVars
  <2> USE DEF OP!Ledger!ledgerVars, CP!Ledger!ledgerVars
  <2>1. CASE OrderStep /\ UNCHANGED opVars
    <3>1. [OP!Ledger!Next]_OP!Ledger!ledgerVars
      BY <1>2, <2>1, OrderStepIsNext, OP!LedgerStep, PartsAssumptions
         DEF TypeOK, ProtocolInv
    <3> QED BY <2>1, <3>1 DEF opVars
  <2>2. CASE ChangeStep /\ UNCHANGED orderVars
    <3>1. [CP!Ledger!Next]_CP!Ledger!ledgerVars
      BY <1>2, <2>2, ChangeStepIsNext, CP!LedgerStep, PartsAssumptions
         DEF TypeOK, ProtocolInv
    <3> QED BY <2>2, <3>1 DEF orderVars
  <2>3. CASE CheckoutCrash \/ InventoryCrash \/ UNCHANGED vars
    BY <2>3 DEF CheckoutCrash, InventoryCrash, vars, orderVars, opVars
  <2> QED BY <1>2, <2>1, <2>2, <2>3, Steps
<1> QED
  BY <1>1, <1>2, ProtocolsCorrect, PTL DEF Spec, OP!Ledger!Spec, CP!Ledger!Spec
=============================================================================
